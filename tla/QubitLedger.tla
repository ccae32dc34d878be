----------------------------- MODULE QubitLedger -----------------------------
(***************************************************************************)
(* What the qubit pool and the classes that own qubits promise together:   *)
(* a qubit is handed only to one holder at a time, and only its holder     *)
(* gives it back or passes it on.  A holder is a qint_t/qbool object, or a *)
(* thread in the middle of a library call that keeps qubits in locals.     *)
(* A qubit that is put where nobody will give it back is lost: it is never *)
(* handed out again.                                                       *)
(***************************************************************************)
CONSTANTS
  Holder,
  Qubit    \* the indices a pool may ever issue

VARIABLES
  held,    \* held[h]: the qubit indices h has and must give back
  lost     \* the indices nobody will give back

ledger == <<held, lost>>

Init ==
  /\ held = [h \in Holder |-> {}]
  /\ lost = {}

HeldBySomeone == UNION {held[h] : h \in Holder}

\* What may be handed out.
Available == Qubit \ (HeldBySomeone \cup lost)

\* A holder is handed a qubit that is available.
Take(h, i) ==
  /\ held' = [held EXCEPT ![h] = @ \cup {i}]
  /\ UNCHANGED lost

\* A holder hands one of its qubits back.
Give(h, i) ==
  /\ i \in held[h]
  /\ held' = [held EXCEPT ![h] = @ \ {i}]
  /\ UNCHANGED lost

\* Some of what g has becomes h's.
Pass(g, h, qubits) ==
  /\ g # h
  /\ qubits \subseteq held[g]
  /\ held' = [held EXCEPT ![g] = @ \ qubits, ![h] = @ \cup qubits]
  /\ UNCHANGED lost

\* A holder replaces one of its qubits by one of g's.
Relabel(g, h, old, new) ==
  /\ g # h
  /\ old \in held[h]
  /\ new \in held[g]
  /\ held' = [held EXCEPT ![g] = @ \ {new}, ![h] = (@ \ {old}) \cup {new}]
  /\ UNCHANGED lost

\* A qubit is lost as it is handed out.
Lose(i) ==
  /\ lost' = lost \cup {i}
  /\ UNCHANGED held

\* A holder loses one of its qubits.
Drop(h, i) ==
  /\ i \in held[h]
  /\ held' = [held EXCEPT ![h] = @ \ {i}]
  /\ lost' = lost \cup {i}

\* The pool starts anew, when nobody has a qubit.
Forget ==
  /\ HeldBySomeone = {}
  /\ lost' = {}
  /\ UNCHANGED held

Step ==
  \/ \E i \in Available : Lose(i) \/ \E h \in Holder : Take(h, i)
  \/ \E h \in Holder : \E i \in held[h] : Give(h, i) \/ Drop(h, i)
  \/ \E g, h \in Holder : \E qubits \in (SUBSET held[g]) \ {{}} : Pass(g, h, qubits)
  \/ \E g, h \in Holder : \E old \in held[h], new \in held[g] : Relabel(g, h, old, new)
  \/ Forget

\* What leaves the ledger as it is, is no step of it.
Next == ledger' # ledger /\ Step

Spec == Init /\ [][Next]_ledger
==============================================================================
