------------------------------ MODULE Matchers ------------------------------
(***************************************************************************)
(* What the transpiler's matchers record about a function when they visit  *)
(* it, statement by statement, and the passes over that record which make  *)
(* the text that takes the function's place.                               *)
(***************************************************************************)
EXTENDS SourcePrograms, TLC

\* A recorded operation: what computes its result from its operands, where
\* its statement begins, and where its undoing goes if not at the close of
\* its scope.
NowhereElse == -1
Operation(kind, result, operands, begin) ==
  [kind |-> kind, result |-> result, operands |-> operands, begin |-> begin,
   override |-> NowhereElse, hoistTo |-> NowhereElse, skip |-> FALSE]

\* scopes: the operations of each scope, in the order in which the scopes
\* were first seen; replaced: the statements that stand for a token;
\* raw: text to insert; fused, eliminated: tokens already taken care of.
EmptyUnit ==
  [scopes |-> <<>>, replaced |-> [p \in {} |-> <<>>], raw |-> <<>>,
   fused |-> {}, eliminated |-> {}, lossy |-> <<>>,
   temps |-> 0, controls |-> 0, warned |-> FALSE, rejected |-> FALSE, reordered |-> FALSE,
   synthesis |-> "none", adjoint |-> <<>>, twin |-> <<>>]

AddOps(unit, open, ops) ==
  LET known == \E k \in DOMAIN unit.scopes : unit.scopes[k].open = open
      scopes == IF known THEN unit.scopes
                ELSE Append(unit.scopes, [open |-> open, ops |-> <<>>])
  IN  [unit EXCEPT !.scopes =
         [k \in DOMAIN scopes |->
            IF scopes[k].open = open THEN [scopes[k] EXCEPT !.ops = @ \o ops]
            ELSE scopes[k]]]
UpdateOps(unit, NewOps(_)) ==
  [unit EXCEPT !.scopes =
     [k \in DOMAIN unit.scopes |-> [unit.scopes[k] EXCEPT !.ops = NewOps(unit.scopes[k])]]]
Replace(unit, p, items) == [unit EXCEPT !.replaced = (p :> items) @@ @]
Insert(unit, insertions) == [unit EXCEPT !.raw = @ \o insertions]
At(place, items) == [at |-> place, items |-> items]

-----------------------------------------------------------------------------
(* Declarations. *)

Bitwise == {"|", "&", "^", "~"}
OnNames(e) == IF e.is = "~" THEN IsName(e.l) ELSE IsName(e.l) /\ IsName(e.r)

\* A temporary that nothing reads is taken out.
DeadAncilla(unit, ts, p) ==
  IF /\ ts[p].e.is \in Bitwise
     /\ CountReaders(ts, ts[p].name, ScopeOf(ts, p)) = 0
  THEN [Replace(unit, p, <<>>) EXCEPT !.eliminated = @ \cup {p}]
  ELSE unit

\* t = a | b, t = ~a, t = a ^ b
BitwiseDeclaration(unit, ts, p) ==
  IF /\ ts[p].e.is \in {"|", "~", "^"}
     /\ OnNames(ts[p].e)
     /\ p \notin unit.eliminated
  THEN AddOps(unit, ScopeOf(ts, p),
              <<Operation(ts[p].e.is, ts[p].name, NamesOf(ts[p].e), Before(p))>>)
  ELSE unit

\* t = a & b; x ^= t; with no other use of t becomes one Toffoli gate on x.
ConsumedNext(ts, p) ==
  /\ ts[p].e.is = "&"
  /\ OnNames(ts[p].e)
  /\ Innermost(Around(ts, p)) = BlockOf(ts, p)
  /\ p < Len(ts)
  /\ ts[p + 1].is = "assign"
  /\ ts[p + 1].op = "^="
  /\ ts[p + 1].e = Name(ts[p].name)
Fuse(unit, ts, p) ==
  LET target == ts[p + 1].name
      operands == NamesOf(ts[p].e)
      replaced == Replace(Replace(unit, p, <<Call("ccnot", target, operands)>>), p + 1, <<>>)
  IN  AddOps([replaced EXCEPT !.fused = @ \cup {p + 1}], ScopeOf(ts, p),
             <<Operation("ccnot", target, operands, Before(p))>>)
CCNotFuseAnyReaders(unit, ts, p) == IF ConsumedNext(ts, p) THEN Fuse(unit, ts, p) ELSE unit
CCNotFuse(unit, ts, p) ==
  IF ConsumedNext(ts, p) /\ CountReaders(ts, ts[p].name, ScopeOf(ts, p)) = 1
  THEN Fuse(unit, ts, p)
  ELSE unit

\* t = i == j and the other comparisons
CompareDeclaration(unit, ts, p) ==
  IF ts[p].e.is \in Compares /\ OnNames(ts[p].e)
  THEN AddOps(unit, ScopeOf(ts, p),
              <<Operation(ts[p].e.is, ts[p].name, NamesOf(ts[p].e), Before(p))>>)
  ELSE unit

-----------------------------------------------------------------------------
(* Nested expressions, one operation at a time, each with a fresh name.    *)
(* A flattening has the name that holds the value, the steps to get there, *)
(* and the number of fresh names used so far.                              *)

FreshName(n) == "__stu_t" \o ToString(n)
Unflattened(n) == [ok |-> FALSE, name |-> "", steps |-> <<>>, temps |-> n]
Step(kind, operands, steps, n) ==
  [ok |-> TRUE, name |-> FreshName(n), temps |-> n + 1,
   steps |-> Append(steps, [kind |-> kind, name |-> FreshName(n), operands |-> operands])]

RECURSIVE FlattenArg(_, _)
FlattenArg(e, n) ==
  CASE IsName(e) -> [ok |-> TRUE, name |-> e.name, steps |-> <<>>, temps |-> n]
    [] e.is = "~" ->
         LET arg == FlattenArg(e.l, n)
         IN  IF arg.ok THEN Step("~", <<arg.name>>, arg.steps, arg.temps) ELSE arg
    [] e.is \in {"|", "&"} ->
         LET l == FlattenArg(e.l, n)
             r == FlattenArg(e.r, l.temps)
         IN  IF ~l.ok THEN l
             ELSE IF ~r.ok THEN r
             ELSE Step(e.is, <<l.name, r.name>>, l.steps \o r.steps, r.temps)
    [] OTHER -> Unflattened(n)

DeclarationsOf(steps) ==
  [k \in DOMAIN steps |->
     LET arg(i) == Name(steps[k].operands[i])
     IN  Decl(steps[k].name,
              IF steps[k].kind = "~" THEN Not(arg(1))
              ELSE Binary(steps[k].kind, arg(1), arg(2)))]
OperationsOf(steps, begin) ==
  [k \in DOMAIN steps |->
     Operation(steps[k].kind, steps[k].name, steps[k].operands, begin)]

\* t = (a | b) & c becomes one declaration for each of its operations.
CompoundDeclaration(unit, ts, p) ==
  LET e == ts[p].e
      l == FlattenArg(e.l, unit.temps)
      r == FlattenArg(e.r, l.temps)
      steps == Append(l.steps \o r.steps,
                      [kind |-> e.is, name |-> ts[p].name, operands |-> <<l.name, r.name>>])
  IN  IF /\ e.is \in {"|", "&"}
         /\ e.l.is \in {"|", "&"} \/ e.r.is \in {"|", "&"}
         /\ p \notin unit.fused \cup unit.eliminated
      THEN IF l.ok /\ r.ok
           THEN [Replace(AddOps(unit, ScopeOf(ts, p), OperationsOf(steps, Before(p))),
                         p, DeclarationsOf(steps))
                   EXCEPT !.temps = r.temps]
           ELSE [AddOps(unit, ScopeOf(ts, p), <<>>)
                   EXCEPT !.temps = IF l.ok THEN r.temps ELSE l.temps]
      ELSE unit

-----------------------------------------------------------------------------
(* Assignments. *)

TextOf(e) == IF IsName(e) THEN e.name ELSE "1"

\* x ^= a, x ^= 1
XorAssignOfNames(unit, ts, p) ==
  IF ts[p].op = "^=" /\ IsName(ts[p].e) /\ p \notin unit.fused \cup unit.eliminated
  THEN AddOps(unit, ScopeOf(ts, p),
              <<Operation("^=", ts[p].name, <<ts[p].e.name>>, Before(p))>>)
  ELSE unit
XorAssign(unit, ts, p) ==
  IF ts[p].op = "^=" /\ p \notin unit.fused \cup unit.eliminated
  THEN AddOps(unit, ScopeOf(ts, p),
              <<Operation("^=", ts[p].name, <<TextOf(ts[p].e)>>, Before(p))>>)
  ELSE unit

\* i += j and the others, of registers
QIntAssign(unit, ts, p) ==
  IF ts[p].op \in {"+=", "-=", "*=", "/=", "%="}
  THEN AddOps(unit, ScopeOf(ts, p),
              <<Operation(ts[p].op, ts[p].name, <<TextOf(ts[p].e)>>, Before(p))>>)
  ELSE unit

LossyOps == {"*=", "/=", "%=", "&=", "|="}
LossyOp(unit, ts, p) ==
  IF ts[p].op \in LossyOps /\ IsName(ts[p].e)
  THEN [unit EXCEPT !.lossy = Append(@, p)]
  ELSE unit

\* A change of a variable from outside of the loop, branch or WHEN it is in
\* is not undone, with a warning; in a reversible function that is left to
\* the reversed loop.
Barriers(ts, p) ==
  {o \in Around(ts, p) : ts[o].kind # "block" /\ BlockOfVariable(ts, ts[p].name) < o}
MutatesOuter(ts, p) == Barriers(ts, p) # {}
LeftToLoopReversal(ts, p, reversible) ==
  reversible /\ ts[Innermost(Barriers(ts, p))].kind = "for"
BeginsAt(p, op) == op.begin = Before(p)
OuterVarGuardWarns(unit, ts, p, reversible) ==
  IF MutatesOuter(ts, p) THEN [unit EXCEPT !.warned = TRUE] ELSE unit
OuterVarGuard(unit, ts, p, reversible) ==
  IF /\ ts[p].op \in {"^=", "+=", "-=", "*=", "/=", "%="}
     /\ MutatesOuter(ts, p)
     /\ ~LeftToLoopReversal(ts, p, reversible)
     /\ \E k \in DOMAIN unit.scopes : \E op \in ToSet(unit.scopes[k].ops) : BeginsAt(p, op)
  THEN [UpdateOps(unit, LAMBDA scope :
          [k \in DOMAIN scope.ops |->
             [scope.ops[k] EXCEPT !.skip = @ \/ BeginsAt(p, scope.ops[k])]])
          EXCEPT !.warned = TRUE]
  ELSE unit

-----------------------------------------------------------------------------
(* Calls of routines that change their first argument. *)

OutputClass(ts, p) ==
  LET x == ts[p].name
      scope == ScopeOf(ts, p)
  IN  IF DeclarationOf(ts, x) = {} THEN "Final"
      ELSE IF BlockOfVariable(ts, x) = scope THEN "Intermediate"
      ELSE IF IsBracelessBody(ts, scope) \/ MutatesOuter(ts, p) THEN "SkipWithDiagnostic"
      ELSE "IntermediateOuter"

\* Undone by the registered adjoint where the argument's block closes; not
\* if the argument is a parameter or comes from outside of a loop or branch.
UserRoutine(unit, ts, p) ==
  IF ~ts[p].registered THEN [unit EXCEPT !.rejected = TRUE]
  ELSE LET class == OutputClass(ts, p)
           op == Operation("routine", ts[p].name, <<ts[p].e.name>>, Before(p))
           placed ==
             [op EXCEPT !.skip = class \in {"Final", "SkipWithDiagnostic"},
                        !.override = IF class = "IntermediateOuter"
                                     THEN CloseOf(ts, BlockOfVariable(ts, ts[p].name))
                                     ELSE @]
       IN  [AddOps(unit, ScopeOf(ts, p), <<placed>>)
              EXCEPT !.warned = @ \/ class = "SkipWithDiagnostic"]

-----------------------------------------------------------------------------
(* WHEN, branches, and bodies without braces. *)

InsteadOfBody(ts, p, ops) == [k \in DOMAIN ops |-> [ops[k] EXCEPT !.override = After(EndOf(ts, p))]]

\* WHEN(a | b): the condition gets a name before the WHEN and is undone
\* after its body.
FlattenWhenArg(e) ==
  IF e.is \in Compares
  THEN IF OnNames(e) THEN Step(e.is, NamesOf(e), <<>>, 0) ELSE Unflattened(0)
  ELSE FlattenArg(e, 0)
WhenLift(unit, ts, p) ==
  LET arg == FlattenWhenArg(ts[p].e)
  IN  IF ~IsName(ts[p].e) /\ arg.ok
      THEN AddOps(Insert(Replace(unit, p, <<When(Name(arg.name))>>),
                         <<At(Before(p), DeclarationsOf(arg.steps))>>),
                  ScopeOf(ts, p),
                  InsteadOfBody(ts, p, OperationsOf(arg.steps, InCondition(p))))
      ELSE unit

\* WHEN(a) { WHEN(b): the inner one gets the conjunction.
ControlName(n) == "__stu_ctrl" \o ToString(n)
WhenNested(unit, ts, p) ==
  LET outer == Innermost({o \in Around(ts, p) : IsWhen(ts[o])})
      ctrl == ControlName(unit.controls)
      both == [kind |-> "&", name |-> ctrl,
               operands |-> <<ts[outer].e.name, ts[p].e.name>>]
  IN  IF outer # 0 /\ IsName(ts[outer].e) /\ IsName(ts[p].e)
      THEN AddOps([Insert(Replace(unit, p, <<When(Name(ctrl))>>),
                          <<At(Before(p), DeclarationsOf(<<both>>))>>)
                     EXCEPT !.controls = @ + 1],
                  ScopeOf(ts, p),
                  InsteadOfBody(ts, p, OperationsOf(<<both>>, InCondition(p))))
      ELSE unit

\* The body of a WHEN may not assign to what its condition reads.
WhenOperandMutationLast(unit, ts, p) ==
  [unit EXCEPT !.rejected =
     \E q \in BodyOf(ts, p) : ts[q].is = "assign" /\ ts[q].name \in NamesIn(ts[p].e)]
WhenOperandMutation(unit, ts, p) ==
  [unit EXCEPT !.rejected = @ \/ AssignedIn(ts, p) \cap NamesIn(ts[p].e) # {}]

\* No branch on a measured qubit.
QuantumToClassicalCond(unit, ts, p) ==
  [unit EXCEPT !.rejected = @ \/ Measures(ts[p])]

\* A body of one statement with quantum operations gets braces.
IsQuantumOp(token) ==
  \/ token.is = "decl"
  \/ token.is = "assign" /\ token.op \in {"^=", "+=", "-=", "*=", "/=", "%="}
  \/ IsWhen(token)
BraceWrap(unit, ts, o) ==
  IF /\ IsBracelessBody(ts, o)
     /\ \E p \in BodyOf(ts, o) : IsQuantumOp(ts[p])
  THEN Insert(unit, <<At(Before(o + 1), <<Open("block", TRUE)>>),
                      At(CloseOf(ts, o), <<Close>>)>>)
  ELSE unit

-----------------------------------------------------------------------------
(* The passes over the whole record. *)

\* What a loop computes from values it does not change is undone after it.
DeclProducing(op) == op.kind \in Bitwise \cup Compares
Written(ts) ==
  UNION {NamesIn(ts[p].e) \cup IF "name" \in DOMAIN ts[p] THEN {ts[p].name} ELSE {} :
           p \in {q \in DOMAIN ts : ts[q].is # "close"}}
LoopInvariant(ts, x, loop) ==
  x \in Written(ts) \ (DeclaredIn(ts, loop) \cup AssignedIn(ts, loop))
HoistInvariant(unit, ts) ==
  UpdateOps(unit, LAMBDA scope :
    [k \in DOMAIN scope.ops |->
       LET op == scope.ops[k]
           hoisted == /\ scope.open # 0
                      /\ ts[scope.open].kind \in {"for", "while"}
                      /\ ~op.skip
                      /\ DeclProducing(op)
                      /\ \A x \in ToSet(op.operands) : LoopInvariant(ts, x, scope.open)
       IN  IF hoisted
           THEN [op EXCEPT !.hoistTo = CloseOf(ts, ScopeOf(ts, scope.open)),
                           !.override = Before(scope.open)]
           ELSE op])

\* t = a & b; B; x ^= t; becomes t = a & b; x ^= t; B if B is about other
\* variables: one replacement, of all the text from B to x ^= t.
StatementOf(op) == op.begin \div 4
Footprint(op) == {op.result} \cup ToSet(op.operands)
LooksFresh(x) == \E n \in 0..9 : x = FreshName(n)
\* What has no declaration in the source may overlap with anything.
Located(ts, x) == x # "1" /\ (LooksFresh(x) => DeclarationOf(ts, x) # {})
Disjoint(ts, op, names) ==
  /\ Footprint(op) \cap names = {}
  /\ \A x \in Footprint(op) \cup names : Located(ts, x)
ReordersAt(unit, ts, scope, k) ==
  LET a == scope.ops[k]
      b == scope.ops[k + 1]
      c == scope.ops[k + 2]
  IN  /\ a.kind = "&" /\ LooksFresh(a.result)
      /\ c.kind = "^=" /\ c.operands[1] = a.result
      /\ b.kind # "routine"
      /\ \A op \in {a, b, c} :
           op.hoistTo = NowhereElse /\ StatementOf(op) \notin unit.fused \cup unit.eliminated
      /\ Disjoint(ts, b, Footprint(c) \cup {a.result})
      /\ CountReaders(ts, a.result, scope.open) = 1
Reorder(unit, ts, ops, k) ==
  LET first == StatementOf(ops[k + 1])
      last == StatementOf(ops[k + 2])
      text(p) == IF IsExpression(ts[p]) THEN <<ts[p], [is |-> ";"]>> ELSE <<ts[p]>>
  IN  [unit EXCEPT !.reordered = TRUE, !.fused = @ \cup first..last,
         !.replaced = [p \in first..last |->
                         IF p = first THEN text(last) \o text(first) ELSE <<>>] @@ @]
PeepholeReorder(unit, ts) ==
  FoldLeft(LAMBDA u, scope :
    IF scope.open = 0 \/ ts[scope.open].kind \in {"for", "while"}
    THEN FoldLeft(LAMBDA v, k : IF ReordersAt(v, ts, scope, k) THEN Reorder(v, ts, scope.ops, k)
                                ELSE v,
                  u, [k \in 1..Max({0, Len(scope.ops) - 2}) |-> k])
    ELSE u,
    unit, unit.scopes)

Guarded(unit) ==
  UpdateOps(unit, LAMBDA scope :
    SelectSeq(scope.ops, LAMBDA op :
      /\ op.kind = "ccnot" \/ \A p \in unit.fused : ~BeginsAt(p, op)
      /\ \A p \in unit.eliminated : ~BeginsAt(p, op)))

\* i *= j becomes: compute into a fresh register and swap; at the end of the
\* block, swap back and compute again.
LossyName(k) == "__sturm_tmp" \o ToString(k)
OutOfPlace(ts, p, k) ==
  [is |-> "oop", op |-> ts[p].op, name |-> LossyName(k), operands |-> <<ts[p].name, ts[p].e.name>>]
Swap(ts, p, k) == [is |-> "swap", name |-> ts[p].name, with |-> LossyName(k)]
LossyForward(unit, ts, k) ==
  LET p == unit.lossy[k]
      replaced == Replace(unit, p, <<[is |-> "fresh", name |-> LossyName(k)],
                                     OutOfPlace(ts, p, k), Swap(ts, p, k)>>)
  IN  UpdateOps(replaced, LAMBDA scope :
        [i \in DOMAIN scope.ops |->
           [scope.ops[i] EXCEPT !.skip = @ \/ BeginsAt(p, scope.ops[i])]])
LossyRewrite(unit, ts) ==
  FoldLeft(LAMBDA u, k : LossyForward(u, ts, k), unit, [k \in DOMAIN unit.lossy |-> k])
\* The last first, in each block.
LossyCleanups(unit, ts) ==
  LET hits == Reverse([k \in DOMAIN unit.lossy |-> k])
  IN  [i \in DOMAIN hits |->
         LET k == hits[i]
             p == unit.lossy[k]
         IN  At(CloseOf(ts, BlockOf(ts, p)), <<Swap(ts, p, k), OutOfPlace(ts, p, k)>>)]

-----------------------------------------------------------------------------
(* The adjoint of a function annotated as reversible. *)

\* What it may contain: no while loop, no measurement, no call of a routine
\* without adjoint, such as the one behind WHEN, and no change of a parameter
\* that is passed by value.
ValidBody(ts) ==
  \A p \in DOMAIN ts :
    /\ IsOpen(ts[p]) => ts[p].kind \notin {"while", "WHEN"} /\ ~Measures(ts[p])
    /\ ts[p].is = "routine" => ts[p].registered
    /\ ts[p].is # "use"
ValidSignature(ts, byValue) == AssignedIn(ts, 0) \cap byValue = {}

TopLevel(ts) == {p \in DOMAIN ts : Around(ts, p) = {} /\ ts[p].is # "close"}
ReturnsQuantum(ts) == \E p \in DOMAIN ts : ts[p].is = "return"
IsMultiReturn(ts) == ReturnsQuantum(ts) /\ Cardinality(TopLevel(ts)) # 1

\* return e;  becomes  out ^= e;  on one parameter more.
OutParam == "__fn_out"
OutParamTwin(ts) ==
  IF ReturnsQuantum(ts) /\ ts[1].is = "return"
  THEN <<Assign(OutParam, "^=", ts[1].e), [is |-> ";"]>>
  ELSE <<>>

\* What undoes the operations of the function's own scope, last first.
AdjointBodyInOrder(unit) ==
  LET scopes == SelectSeq(unit.scopes, LAMBDA scope : scope.open = 0)
      ops == IF scopes = <<>> THEN <<>> ELSE scopes[1].ops
      undone == SelectSeq(ops, LAMBDA op : ~op.skip)
  IN  [k \in DOMAIN undone |-> Call(undone[k].kind, undone[k].result, undone[k].operands)]
AdjointBody(unit) ==
  LET scopes == SelectSeq(unit.scopes, LAMBDA scope : scope.open = 0)
      ops == IF scopes = <<>> THEN <<>> ELSE scopes[1].ops
      undone == SelectSeq(Reverse(ops), LAMBDA op : ~op.skip)
  IN  [k \in DOMAIN undone |-> Call(undone[k].kind, undone[k].result, undone[k].operands)]

\* An adjoint that was registered by hand wins; errors are for those who call
\* invert on the function.
DriveReversible(unit, ts, byValue, inverted, registered) ==
  LET valid == ValidBody(ts) /\ ValidSignature(ts, byValue)
      judged == [unit EXCEPT !.rejected =
                   @ \/ (inverted /\ ~registered /\ (~valid \/ IsMultiReturn(ts)))]
  IN  IF IsMultiReturn(ts) \/ registered THEN [judged EXCEPT !.synthesis = "pending"]
      ELSE IF ~valid THEN [judged EXCEPT !.synthesis = "failed"]
      ELSE [judged EXCEPT !.synthesis = "emitted", !.adjoint = AdjointBody(unit),
                          !.twin = OutParamTwin(ts)]

HandleTranslationUnit(unit, ts) ==
  LossyRewrite(Guarded(PeepholeReorder(HoistInvariant(unit, ts), ts)), ts)

-----------------------------------------------------------------------------
(* The text. *)

\* The undoings of a scope, the last operation first, and their places.
RenderUncompute(op) ==
  <<Call(op.kind, op.result, op.operands)>>
PlaceOf(ts, scope, op) ==
  IF op.hoistTo # NowhereElse THEN op.hoistTo
  ELSE IF op.override # NowhereElse THEN op.override
  ELSE CloseOf(ts, scope.open)
SynthesizeInOrder(ts, scope) ==
  [i \in DOMAIN scope.ops |->
     At(PlaceOf(ts, scope, scope.ops[i]), RenderUncompute(scope.ops[i]))]
SynthesizeScope(ts, scope) ==
  LET later(i, j) == \/ scope.ops[i].begin > scope.ops[j].begin
                     \/ scope.ops[i].begin = scope.ops[j].begin /\ i > j
      order == SetToSortSeq({k \in DOMAIN scope.ops : ~scope.ops[k].skip}, later)
  IN  [i \in DOMAIN order |->
         LET op == scope.ops[order[i]] IN At(PlaceOf(ts, scope, op), RenderUncompute(op))]
Synthesize(unit, ts) ==
  FlattenSeq([k \in DOMAIN unit.scopes |-> SynthesizeScope(ts, unit.scopes[k])])
    \o unit.raw \o LossyCleanups(unit, ts)

Semicolon == [is |-> ";"]
Emit(unit, ts) ==
  LET insertions == Synthesize(unit, ts)
      at(place) == FlattenSeq([k \in DOMAIN insertions |->
                     IF insertions[k].at = place THEN insertions[k].items ELSE <<>>])
      text(p) == IF p \in DOMAIN unit.replaced
                 THEN unit.replaced[p] \o at(BeforeSemicolon(p))
                 ELSE IF IsExpression(ts[p])
                 THEN <<ts[p]>> \o at(BeforeSemicolon(p)) \o <<Semicolon>>
                 ELSE <<ts[p]>>
  IN  FlattenSeq([p \in DOMAIN ts |-> at(Before(p)) \o text(p) \o at(After(p))])
        \o at(Before(Len(ts) + 1))
==============================================================================
