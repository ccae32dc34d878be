------------------------------ MODULE QubitPool ------------------------------
(***************************************************************************)
(* The ancilla pool every qubit of the program comes from                  *)
(* (include/sturm/core/qubit_pool.hpp).  A released index goes on the back *)
(* of a free list and is the first to be handed out again; when the list   *)
(* is empty the pool issues an index nobody has seen.  One mutex guards    *)
(* every operation, so each is one step here whatever the threads do.      *)
(*                                                                         *)
(* The pool believes its callers: it does not know who holds an index, and *)
(* a release is accepted whatever the index.  That nobody holds what the   *)
(* free list offers is a property of the callers (module Registers).       *)
(***************************************************************************)
EXTENDS Integers, Sequences

VARIABLES
  free_,        \* the free list, its last element handed out first
  high_water_,  \* how many indices were ever issued, the next fresh index
  in_use_       \* allocations minus releases

poolVars == <<free_, high_water_, in_use_>>

PoolInit ==
  /\ free_ = <<>>
  /\ high_water_ = 0
  /\ in_use_ = 0

\* Mutant: the recycled index stays on the free list.
AllocateRecycledKeepsIt(idx) ==
  /\ free_ # <<>>
  /\ idx = free_[Len(free_)]
  /\ in_use_' = in_use_ + 1
  /\ UNCHANGED <<free_, high_water_>>

\* free_.back() is popped and handed out.
AllocateRecycled(idx) ==
  /\ free_ # <<>>
  /\ idx = free_[Len(free_)]
  /\ free_' = SubSeq(free_, 1, Len(free_) - 1)
  /\ in_use_' = in_use_ + 1
  /\ UNCHANGED high_water_

\* The pool grows on demand, there is no cap.
AllocateFresh(idx) ==
  /\ free_ = <<>>
  /\ idx = high_water_
  /\ high_water_' = high_water_ + 1
  /\ in_use_' = in_use_ + 1
  /\ UNCHANGED free_

\* allocate() and its alias acquire().
Allocate(idx) == AllocateRecycled(idx) \/ AllocateFresh(idx)

\* Mutant: the count is forgotten.
ReleaseUncounted(idx) ==
  /\ free_' = Append(free_, idx)
  /\ UNCHANGED <<high_water_, in_use_>>

\* No check that idx is in use and no reset of the qubit to |0>.
Release(idx) ==
  /\ free_' = Append(free_, idx)
  /\ in_use_' = in_use_ - 1
  /\ UNCHANGED high_water_

\* reset_for_testing(): the pool forgets everything it issued.
ResetForTesting ==
  /\ free_' = <<>>
  /\ high_water_' = 0
  /\ in_use_' = 0

\* The indices the free list offers.
FreeSet == {free_[k] : k \in 1..Len(free_)}

PoolTypeOK ==
  /\ free_ \in Seq(Nat)
  /\ high_water_ \in Nat
  /\ in_use_ \in Int
==============================================================================
