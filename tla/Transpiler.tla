----------------------------- MODULE Transpiler -----------------------------
(***************************************************************************)
(* The transpiler on one function: a program is written, statement by      *)
(* statement; the matchers visit it in the order of its text; the passes   *)
(* over what they recorded make the new text.                              *)
(***************************************************************************)
EXTENDS Matchers, Execution

CONSTANTS
  Menus,       \* sets of statements: a program is written from one of them
  Parameters,  \* the parameters of the function
  Annotated,   \* the menus for functions with the attribute "reversible"
  ByValue,     \* the parameters that these get by value
  MaxTokens,   \* bound: the length of a program, closing braces included
  Excused      \* the known divergences that the properties leave out

VARIABLES
  menu,     \* what this program is written from
  ts,       \* the program
  phase,    \* "writing", "matching", "recorded", "emitted", "executed"
  visited,  \* how many of its tokens the matchers have visited
  unit,     \* what they recorded
  output,   \* the text that replaces the program
  outcomes  \* what the program and the text do, input by input
vars == <<menu, ts, phase, visited, unit, output, outcomes>>

Init ==
  /\ menu \in Menus
  /\ ts = <<>>
  /\ phase = "writing"
  /\ visited = 0
  /\ unit = EmptyUnit
  /\ output = <<>>
  /\ outcomes = {}

-----------------------------------------------------------------------------
(* The programmer. *)

Here == Len(ts) + 1
OpenBlocks == {o \in Around(ts, Here) : ts[o].braces}
AwaitsBody == ts # <<>> /\ IsOpen(Last(ts)) /\ ~Last(ts).braces
Visible(x) ==
  \/ x \in Parameters
  \/ \E d \in DeclarationOf(ts, x) : Around(ts, d) \subseteq Around(ts, Here)
NamesUsed(token) ==
  NamesIn(token.e) \cup IF IsExpression(token) THEN {token.name} ELSE {}
Writable(token) ==
  IF token.is = "close" THEN OpenBlocks # {} /\ ~AwaitsBody
  ELSE /\ ts # <<>> => Last(ts).is # "return"
       /\ \A x \in NamesUsed(token) : Visible(x)
       /\ token.is = "decl" => DeclarationOf(ts, token.name) = {}

Write(token) ==
  /\ phase = "writing"
  /\ Writable(token)
  /\ ts' = Append(ts, token)
  /\ Len(ts') + Cardinality({o \in Around(ts', Len(ts') + 1) : ts'[o].braces}) <= MaxTokens
  /\ UNCHANGED <<menu, phase, visited, unit, output, outcomes>>

Finish ==
  /\ phase = "writing"
  /\ OpenBlocks = {} /\ ~AwaitsBody
  /\ ReturnsQuantum(ts) => Last(ts).is = "return"
  /\ phase' = "matching"
  /\ UNCHANGED <<menu, ts, visited, unit, output, outcomes>>

-----------------------------------------------------------------------------
(* The transpiler. *)

\* The matchers run on each statement in the order of their registration.
DeclarationMatchers(u, p) ==
  LET u1 == DeadAncilla(u, ts, p)
      u2 == BitwiseDeclaration(u1, ts, p)
      u3 == CCNotFuse(u2, ts, p)
      u4 == CompareDeclaration(u3, ts, p)
  IN  CompoundDeclaration(u4, ts, p)
AssignmentMatchers(u, p) ==
  LET u1 == XorAssign(u, ts, p)
      u2 == QIntAssign(u1, ts, p)
      u3 == LossyOp(u2, ts, p)
  IN  OuterVarGuard(u3, ts, p, menu \in Annotated)
WhenMatchers(u, p) ==
  LET u1 == WhenLift(u, ts, p)
      u2 == WhenNested(u1, ts, p)
  IN  WhenOperandMutation(u2, ts, p)

Next_ == visited + 1
Visit(newUnit) ==
  /\ unit' = newUnit
  /\ visited' = Next_
  /\ UNCHANGED <<menu, ts, phase, output, outcomes>>
Matching(is) == phase = "matching" /\ visited < Len(ts) /\ ts[Next_].is = is
VisitDeclaration == Matching("decl") /\ Visit(DeclarationMatchers(unit, Next_))
VisitAssignment == Matching("assign") /\ Visit(AssignmentMatchers(unit, Next_))
VisitWhen ==
  /\ Matching("open")
  /\ IsWhen(ts[Next_])
  /\ Visit(WhenMatchers(unit, Next_))
VisitBody ==
  /\ Matching("open")
  /\ ~IsWhen(ts[Next_])
  /\ Visit(BraceWrap(QuantumToClassicalCond(unit, ts, Next_), ts, Next_))
VisitCall == Matching("routine") /\ Visit(UserRoutine(unit, ts, Next_))
VisitOther == (Matching("use") \/ Matching("return") \/ Matching("close")) /\ Visit(unit)

\* The rest of the translation unit may call invert on a reversible function,
\* or register an adjoint for it.
EndOfTranslationUnit ==
  /\ phase = "matching"
  /\ visited = Len(ts)
  /\ LET record == HandleTranslationUnit(unit, ts)
     IN  IF menu \in Annotated
         THEN \E inverted, registered \in BOOLEAN :
                unit' = DriveReversible(record, ts, ByValue, inverted, registered)
         ELSE unit' = record
  /\ phase' = "recorded"
  /\ UNCHANGED <<menu, ts, visited, output, outcomes>>

EmitText ==
  /\ phase = "recorded"
  /\ output' = Emit(unit, ts)
  /\ phase' = "emitted"
  /\ UNCHANGED <<menu, ts, visited, unit, outcomes>>

\* The adjoint after the program, or after its twin on a fresh qubit.
ThereAndBack(given, taken) ==
  LET code(items) == [items |-> items, transpiled |-> TRUE, taken |-> taken]
      program == [items |-> ts, transpiled |-> FALSE, taken |-> taken]
      there == IF unit.twin = <<>> THEN Execute(program, given)
               ELSE Execute(code(unit.twin), given @@ (OutParam :> FALSE))
  IN  Execute(code(unit.adjoint), there.env[1])

\* The program and its text, on every basis state, with every loop and
\* branch taken or none.
Takes ==
  IF \E p \in DOMAIN ts : IsOpen(ts[p]) /\ ts[p].kind \in {"for", "while", "if"}
  THEN BOOLEAN ELSE {TRUE}
ExecuteBoth ==
  /\ phase = "emitted" /\ ~unit.rejected
  /\ outcomes' =
       {[parameters |-> given,
         program |-> Execute([items |-> ts, transpiled |-> FALSE, taken |-> t], given),
         text |-> Execute([items |-> output, transpiled |-> TRUE, taken |-> t], given),
         adjoint |-> IF unit.synthesis = "emitted" THEN ThereAndBack(given, t) ELSE Machine(given)] :
           given \in [Parameters -> BOOLEAN], t \in Takes}
  /\ phase' = "executed"
  /\ UNCHANGED <<menu, ts, visited, unit, output>>

Next ==
  \/ \E token \in menu \cup {Close} : Write(token)
  \/ Finish
  \/ VisitDeclaration
  \/ VisitAssignment
  \/ VisitWhen
  \/ VisitBody
  \/ VisitCall
  \/ VisitOther
  \/ EndOfTranslationUnit
  \/ EmitText
  \/ ExecuteBoth

Spec == Init /\ [][Next]_vars

-----------------------------------------------------------------------------
(* Where the transpiled text is known to differ from the program. *)

Tokens(is) == {p \in DOMAIN ts : ts[p].is = is}
InWhen(p) == \E o \in Around(ts, p) : IsWhen(ts[o])
RecordedOps == UNION {ToSet(unit.scopes[k].ops) : k \in DOMAIN unit.scopes}

\* The undoing of what a loop computes moves behind the loop, and the
\* declaration does not.
HoistsDeclaration == \E op \in RecordedOps : op.hoistTo # NowhereElse

\* Two matchers, or two WHENs, use the same fresh name.
SharesFreshName ==
  \E p, q \in {k \in DOMAIN output : output[k].is = "decl"} :
    p # q /\ output[p].name = output[q].name

\* The fused gate has no control, and no guard sees its target.
FusesUnderControl ==
  \E op \in RecordedOps : \E o \in Around(ts, StatementOf(op)) :
    /\ op.kind = "ccnot"
    /\ ts[o].kind # "block" /\ (IsWhen(ts[o]) \/ BlockOfVariable(ts, op.result) < o)

\* What is moved is taken for fused, and no longer undone.
Reorders == unit.reordered

\* Only a WHEN on a name directly in the body of a WHEN on a name that is
\* itself in no other gets the conjunction of the conditions around it.
NestsDeeply ==
  \E p \in Tokens("open") :
    LET outer == {o \in Around(ts, p) : IsWhen(ts[o])}
    IN  /\ IsWhen(ts[p])
        /\ outer # {}
        /\ Cardinality(outer) > 1 \/ ~IsName(ts[p].e) \/ ~IsName(ts[Innermost(outer)].e)

\* operator~ flips a fresh qubit, whatever its operand.
RECURSIVE HasNot(_)
HasNot(e) ==
  \/ e.is = "~"
  \/ IsBinary(e) /\ (HasNot(e.l) \/ HasNot(e.r))
Negates == \E p \in DOMAIN ts : ts[p].is # "close" /\ HasNot(ts[p].e)

\* operator^ acts under no control, and ^=, which undoes it, under one.
XorsInWhen == \E p \in Tokens("decl") : ts[p].e.is = "^" /\ InWhen(p)

\* Nothing undoes t = a & b if it is not fused.
LeavesAnd ==
  \E p \in Tokens("decl") :
    /\ ts[p].e.is = "&" /\ OnNames(ts[p].e)
    /\ p \notin unit.eliminated /\ p + 1 \notin unit.fused

\* A block of its own undoes what it changes outside of it.
MutatesFromBlock ==
  \E p \in Tokens("assign") : \E o \in Around(ts, p) :
    ts[o].kind = "block" /\ BlockOfVariable(ts, ts[p].name) < o

\* Lossy assignments are undone with their block, without regard to the
\* guard, and after everything else in it.
LossyFromOutside ==
  \E p \in ToSet(unit.lossy) : BlockOfVariable(ts, ts[p].name) # BlockOf(ts, p)
LossyAfterOthers ==
  \E p \in ToSet(unit.lossy) : \E q \in 1..(p - 1) :
    /\ ts[q].is \in {"decl", "assign"} /\ q \notin ToSet(unit.lossy)
    /\ BlockOf(ts, q) = BlockOf(ts, p)

\* The brace that closes a body without braces goes before its semicolon,
\* and what a WHEN needs before it takes its place as the body of a loop.
WrapsExpression ==
  \E o \in Tokens("open") :
    IsBracelessBody(ts, o) /\ IsExpression(ts[EndOf(ts, o)]) /\ \E p \in BodyOf(ts, o) : IsQuantumOp(ts[p])
LiftsBracelessWhen ==
  \E o \in Tokens("open") : ~ts[o].braces /\ IsWhen(ts[o + 1]) /\ o + 1 \in DOMAIN unit.replaced

\* A routine that the body of a WHEN calls may change its condition.
CallsOnOperand ==
  \E p \in Tokens("routine") : \E o \in Around(ts, p) :
    IsWhen(ts[o]) /\ ts[p].name \in NamesIn(ts[o].e)

\* What is undone at the close of an outer block is undone there in the order
\* of the scopes.
UndoesFurtherOut ==
  \E k \in DOMAIN unit.scopes : \E op \in ToSet(unit.scopes[k].ops) :
    op.kind = "routine" /\ op.override # NowhereElse

\* What a routine has done to a parameter stays, and operations that read it
\* before are undone with what they read now.
FinalAfterUse ==
  \E p \in Tokens("routine") : \E op \in RecordedOps :
    /\ OutputClass(ts, p) = "Final"
    /\ op.begin < Before(p) /\ ~op.skip
    /\ ts[p].name \in ToSet(op.operands)

\* The undoings of a block come after its return.
ReturnsBeforeUndoing ==
  Tokens("return") # {} /\ ((\E op \in RecordedOps : ~op.skip) \/ unit.lossy # <<>>)

\* The adjoint undoes what the function's own scope does, not its blocks and
\* loops, nor what is never undone, and it does not declare the locals.
AdjointMisses ==
  \/ \E k \in DOMAIN unit.scopes : unit.scopes[k].open # 0 /\ unit.scopes[k].ops # <<>>
  \/ \E op \in RecordedOps : op.skip
  \/ Tokens("decl") # {}
  \/ unit.twin # <<>>

Excuse(name, holds) == name \in Excused /\ holds
Regular ==
  ~ \/ Excuse("hoist", HoistsDeclaration)
    \/ Excuse("fresh", SharesFreshName)
    \/ Excuse("fuse", FusesUnderControl)
    \/ Excuse("reorder", Reorders)
    \/ Excuse("nesting", NestsDeeply)
    \/ Excuse("not", Negates)
    \/ Excuse("xor", XorsInWhen)
    \/ Excuse("and", LeavesAnd)
    \/ Excuse("block", MutatesFromBlock)
    \/ Excuse("lossy", LossyFromOutside \/ LossyAfterOthers)
    \/ Excuse("braces", WrapsExpression \/ LiftsBracelessWhen)
    \/ Excuse("call", CallsOnOperand)
    \/ Excuse("outer", UndoesFurtherOut)
    \/ Excuse("final", FinalAfterUse)
    \/ Excuse("return", ReturnsBeforeUndoing)

-----------------------------------------------------------------------------
(* Properties. *)

Accepted == phase = "executed" /\ Regular /\ ~unit.rejected
Compiled == {run \in outcomes : ~run.text.ill}

\* The text is a program: what an undoing names is declared where it stands,
\* no block declares a name twice, and each statement has its semicolon.
Compiles == Accepted => outcomes = Compiled

\* Transpiling does not change what a call sees, or under which condition it
\* is made: nothing is undone before its last use, and conditions of WHENs
\* that the library cannot nest are conjoined.
CallsSeeTheSource ==
  Accepted => \A run \in Compiled : run.text.seen = run.program.seen

\* At each closing brace all variables of the block are zero when their
\* qubits are released: every operation has been undone, after those that
\* depend on it and before those it depends on, and on the same operands.
ClosedClean ==
  Accepted /\ ~unit.warned => \A run \in Compiled : ~run.text.dirty

\* A function without warnings changes no parameter but those it gives to a
\* routine to change.
ParametersRestored ==
  Accepted /\ ~unit.warned =>
    \A run \in Compiled : \A x \in Parameters \ {ts[p].name : p \in Tokens("routine")} :
      run.text.env[1][x] = run.parameters[x]

\* The body of a WHEN leaves the values that its condition reads alone.
WhenOperandsKept ==
  Accepted => \A run \in outcomes : ~run.program.strayed

\* The adjoint made for a reversible function takes the parameters back.
AdjointUndoesTheProgram ==
  Accepted /\ unit.synthesis = "emitted" /\ ~Excuse("adjoint", AdjointMisses) =>
    \A run \in outcomes : ~run.adjoint.ill /\ run.adjoint.env[1] = run.parameters
==============================================================================
