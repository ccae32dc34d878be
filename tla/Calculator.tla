----------------------------- MODULE Calculator -----------------------------
(***************************************************************************)
(* A program that calls the library sees registers of numbers.  A call     *)
(* that returns has changed its result and nothing else, and, in the body  *)
(* of a WHEN whose control is off, nothing at all.                         *)
(***************************************************************************)
EXTENDS Arithmetic

VARIABLES
  num,      \* num[r]: the number in register r
  pending   \* the set of the call that has not returned

vars == <<num, pending>>

Init == num \in Start /\ pending = {}

Invoke(c) ==
  /\ pending = {} /\ MayCall(c, num)
  /\ pending' = {c}
  /\ UNCHANGED num

Return(c) ==
  /\ pending = {c}
  /\ num' = After(c, num)
  /\ pending' = {}

Next == \E c \in CallOf : Invoke(c) \/ Return(c)

Spec == Init /\ [][Next]_vars
==============================================================================
