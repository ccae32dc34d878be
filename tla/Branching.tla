------------------------------ MODULE Branching ------------------------------
(***************************************************************************)
(* What WHEN promises its user: quantum control is lexical scope, unified  *)
(* with classical branching (principle P4).  In each basis state a program *)
(* sees boolean variables and nested conditionals; a statement in the body *)
(* acts when every enclosing condition holds, and does nothing otherwise.  *)
(***************************************************************************)
EXTENDS Integers, Sequences

CONSTANTS
  Thread,
  Flag,
  ThreadOf   \* the thread that uses a flag

VARIABLES
  val,     \* val[f]: the boolean f is in this basis state
  scopes   \* scopes[t]: the conditions of the scopes t is in, innermost last

branchVars == <<val, scopes>>

Conditions(t) == {scopes[t][k] : k \in 1..Len(scopes[t])}
Taken(t) == \A f \in Conditions(t) : val[f]

Init ==
  /\ val \in [Flag -> BOOLEAN]
  /\ scopes = [t \in Thread |-> <<>>]

\* Outside of every scope a flag may be given any value.
Assign(f, v) ==
  /\ scopes[ThreadOf[f]] = <<>>
  /\ val' = [val EXCEPT ![f] = v]
  /\ UNCHANGED scopes

Enter(f) ==
  /\ scopes' = [scopes EXCEPT ![ThreadOf[f]] = Append(@, f)]
  /\ UNCHANGED val

Leave(t) ==
  /\ scopes[t] # <<>>
  /\ scopes' = [scopes EXCEPT ![t] = SubSeq(@, 1, Len(@) - 1)]
  /\ UNCHANGED val

\* f ^= the conjunction of `operands`, where the branch is taken.
Toggle(f, operands) ==
  LET t == ThreadOf[f]
  IN  /\ f \notin Conditions(t) \cup operands
      /\ val' = [val EXCEPT ![f] = @ # (Taken(t) /\ \A g \in operands : val[g])]
      /\ UNCHANGED scopes

Next ==
  \/ \E f \in Flag, v \in BOOLEAN : Assign(f, v)
  \/ \E f \in Flag : Enter(f)
  \/ \E t \in Thread : Leave(t)
  \/ \E f \in Flag : \E operands \in SUBSET Flag : Toggle(f, operands)

Spec == Init /\ [][Next]_branchVars
==============================================================================
