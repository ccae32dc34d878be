--------------------------- MODULE SourcePrograms ---------------------------
(***************************************************************************)
(* The functions that the transpiler reads, as sequences of tokens: one    *)
(* per declaration, assignment, call, opening and closing brace, and the   *)
(* positions in their text.  Variables have one bit each, a qbool or a     *)
(* register of width 1, and no two have the same name.                     *)
(***************************************************************************)
EXTENDS Integers, FiniteSets, SequencesExt, FiniteSetsExt

Name(x) == [is |-> "name", name |-> x]
One == [is |-> "1"]
Binary(op, l, r) == [is |-> op, l |-> l, r |-> r]
Not(e) == [is |-> "~", l |-> e]

\* qbool t = e;   lhs op rhs;   f(x);   g(x, y), which may change x;
\* { or for, while, if, with a block or a single statement as body, or an if
\* on the value that a measurement gives, or WHEN(e) {;   }   return e;
Decl(t, e) == [is |-> "decl", name |-> t, e |-> e]
Assign(lhs, op, rhs) == [is |-> "assign", name |-> lhs, op |-> op, e |-> rhs]
Use(x) == [is |-> "use", name |-> x, e |-> Name(x)]
Routine(x, y) ==
  [is |-> "routine", name |-> x, e |-> Name(y), registered |-> TRUE]
Unregistered(x, y) == [Routine(x, y) EXCEPT !.registered = FALSE]
Return(e) == [is |-> "return", e |-> e]
Open(kind, braces) == [is |-> "open", kind |-> kind, braces |-> braces, e |-> One]
When(e) == [is |-> "open", kind |-> "WHEN", braces |-> TRUE, e |-> e]
IfMeasured(x) == [is |-> "open", kind |-> "if", braces |-> TRUE, e |-> Name(x)]
Close == [is |-> "close"]
\* In transpiled text only: what undoes an operation of this kind.
Call(kind, x, operands) == [is |-> "call", kind |-> kind, name |-> x, operands |-> operands]

IsName(e) == e.is = "name"
IsBinary(e) == e.is \notin {"name", "1", "~"}
Compares == {"==", "!=", "<", "<=", ">", ">="}

\* The names in an expression, in order and with repetitions.
RECURSIVE NamesOf(_)
NamesOf(e) ==
  CASE IsName(e)   -> <<e.name>>
    [] e.is = "1"  -> <<>>
    [] e.is = "~"  -> NamesOf(e.l)
    [] IsBinary(e) -> NamesOf(e.l) \o NamesOf(e.r)
NamesIn(e) == ToSet(NamesOf(e))

IsOpen(token) == token.is = "open"
IsWhen(token) == IsOpen(token) /\ token.kind = "WHEN"
\* An expression statement ends before its semicolon, a declaration after it.
IsExpression(token) == token.is \in {"assign", "use", "routine"}
\* The function reads a qubit to choose a branch.
Measures(token) == IsOpen(token) /\ ~IsWhen(token) /\ IsName(token.e)

References(x, token) ==
  LET named == IF token.is = "close" THEN <<>>
               ELSE IF token.is \in {"assign", "routine"} THEN <<token.name>> \o NamesOf(token.e)
               ELSE NamesOf(token.e)
  IN  Cardinality({k \in DOMAIN named : named[k] = x})

-----------------------------------------------------------------------------
(* Structure.  A body is named by the token that opens it; the body of the *)
(* function is 0.                                                          *)

Depth(ts, p, q) ==
  Cardinality({k \in p..q : IsOpen(ts[k]) /\ ts[k].braces})
    - Cardinality({k \in p..q : ts[k].is = "close"})

\* The last token of the statement that starts at p.
RECURSIVE EndOf(_, _)
EndOf(ts, p) ==
  IF p > Len(ts) \/ ~IsOpen(ts[p]) THEN p
  ELSE IF ts[p].braces
       THEN Min({q \in p..Len(ts) : Depth(ts, p, q) = 0} \cup {Len(ts) + 1})
       ELSE EndOf(ts, p + 1)
LastOf(ts, o) == IF o = 0 THEN Len(ts) ELSE EndOf(ts, o)
BodyOf(ts, o) == (o + 1)..LastOf(ts, o)

\* The statements in whose bodies p is, and the innermost of a set of them.
Around(ts, p) == {o \in 1..(p - 1) : IsOpen(ts[o]) /\ p <= EndOf(ts, o)}
Innermost(opens) == Max(opens \cup {0})
BlockOf(ts, p) == Innermost({o \in Around(ts, p) : ts[o].braces})

DeclarationOf(ts, x) == {p \in DOMAIN ts : ts[p].is = "decl" /\ ts[p].name = x}
\* The block that declares x: the function's for a parameter.
BlockOfVariable(ts, x) == Max({BlockOf(ts, p) : p \in DeclarationOf(ts, x)} \cup {0})

\* A body that is one statement, unless a macro starts that statement.
IsBracelessBody(ts, o) == o > 0 /\ ~ts[o].braces /\ ~IsWhen(ts[o + 1])
ScopeOf(ts, p) ==
  Innermost({o \in Around(ts, p) : ts[o].braces \/ IsBracelessBody(ts, o)})

CountReaders(ts, x, scope) ==
  MapThenSumSet(LAMBDA p : References(x, ts[p]), BodyOf(ts, scope))
AssignedIn(ts, scope) == {ts[p].name : p \in {q \in BodyOf(ts, scope) : ts[q].is = "assign"}}
DeclaredIn(ts, scope) == {ts[p].name : p \in {q \in BodyOf(ts, scope) : ts[q].is = "decl"}}

-----------------------------------------------------------------------------
(* Positions in the text, in its order. *)

Before(p) == 4 * p
InCondition(p) == 4 * p + 1
BeforeSemicolon(p) == 4 * p + 2
After(p) == 4 * p + 3

\* Where the text inserted at the end of a body goes: before its brace, or
\* after the last character that belongs to its statement.
CloseOf(ts, o) ==
  LET last == LastOf(ts, o)
  IN  IF o = 0 THEN Before(last + 1)
      ELSE IF ts[o].braces THEN Before(last)
      ELSE IF IsExpression(ts[last]) THEN BeforeSemicolon(last) ELSE After(last)
==============================================================================
