----------------------------- MODULE MCRegisters -----------------------------
(* Small instances of Registers for TLC. *)
EXTENDS Registers, TLC

CONSTANTS t1, t2, r1, r2, r3

\* Two objects on one thread and one on the other.
TwoAndOne == (r1 :> t1) @@ (r2 :> t1) @@ (r3 :> t2)

\* Two objects on one thread.
Two == (r1 :> t1) @@ (r2 :> t1)

\* The objects of a thread are interchangeable.
PairSymmetry == Permutations({r1, r2})
==============================================================================
