--------------------------- MODULE QubitPoolProofs ---------------------------
(***************************************************************************)
(* How callers of the pool account for its qubits.  A caller is looked at  *)
(* as a table `own` of the places that may have a qubit.  The table is     *)
(* exact when every issued index is in one place or in one position of the *)
(* free list; each operation of the pool keeps it exact.                   *)
(***************************************************************************)
EXTENDS QubitPool, TLAPS, SequenceTheorems, FiniteSetTheorems

\* What a place without a qubit has.
Nothing == -1

\* The table own and a pool with free list f, hw issued indices and a count of
\* n account for each other.
Exact(own, f, hw, n) ==
  /\ own \in [DOMAIN own -> Nat \cup {Nothing}]
  /\ f \in Seq(Nat) /\ hw \in Nat /\ n \in Int
  /\ \A p, r \in DOMAIN own : own[p] # Nothing /\ own[p] = own[r] => p = r
  /\ \A p \in DOMAIN own, k \in 1..Len(f) : own[p] # f[k]
  /\ \A j, k \in 1..Len(f) : f[j] = f[k] => j = k
  /\ \A k \in 1..Len(f) : f[k] < hw
  /\ \A p \in DOMAIN own : own[p] < hw
  /\ \A q \in 0..(hw - 1) :
        (\E k \in 1..Len(f) : f[k] = q) \/ (\E p \in DOMAIN own : own[p] = q)
  /\ n + Len(f) = hw

\* The index is free: no place has it, and the pool has not issued it or
\* offers it.
Unowned(own, f, hw, i) ==
  /\ i \in Nat
  /\ \A p \in DOMAIN own : own[p] # i
  /\ i >= hw \/ \E k \in 1..Len(f) : f[k] = i

-----------------------------------------------------------------------------
(* A free list without its last element. *)

\* It is a free list, of the same elements but the last.
LEMMA Shortened ==
  ASSUME NEW S, NEW s \in Seq(S), s # <<>>
  PROVE  /\ Len(s) \in Nat \ {0}
         /\ SubSeq(s, 1, Len(s) - 1) \in Seq(S)
         /\ Len(SubSeq(s, 1, Len(s) - 1)) = Len(s) - 1
         /\ \A k \in 1..(Len(s) - 1) : SubSeq(s, 1, Len(s) - 1)[k] = s[k]
<1> DEFINE n == Len(s)
<1>1. n \in Nat \ {0} /\ \A k \in 1..n : s[k] \in S
  BY EmptySeq
<1>2. 1 \in Int /\ n - 1 \in Int /\ \A k \in 1..(n - 1) : s[k] \in S
  BY <1>1
<1> HIDE DEF n
<1>3. /\ SubSeq(s, 1, n - 1) \in Seq(S)
      /\ Len(SubSeq(s, 1, n - 1)) = IF 1 <= n - 1 THEN n - 1 - 1 + 1 ELSE 0
      /\ \A k \in 1..(n - 1 - 1 + 1) : SubSeq(s, 1, n - 1)[k] = s[1 + k - 1]
  BY <1>2, SubSeqProperties
<1>4. n - 1 - 1 + 1 = n - 1 /\ (1 > n - 1 => n - 1 = 0) /\ \A k \in 1..(n - 1) : 1 + k - 1 = k
  BY <1>1
<1> QED BY <1>1, <1>3, <1>4 DEF n

\* The index that allocate() hands out is free.
LEMMA AllocatedIsUnowned ==
  ASSUME NEW own, NEW i, Exact(own, free_, high_water_, in_use_), Allocate(i)
  PROVE  Unowned(own, free_, high_water_, i)
<1>1. CASE AllocateRecycled(i)
  <2>1. Len(free_) \in Nat \ {0} /\ \A k \in 1..Len(free_) : free_[k] \in Nat
    BY <1>1, EmptySeq DEF AllocateRecycled, Exact
  <2>2. Len(free_) \in 1..Len(free_) /\ i = free_[Len(free_)]
    BY <1>1, <2>1 DEF AllocateRecycled
  <2> QED BY <2>1, <2>2 DEF Exact, Unowned
<1>2. CASE AllocateFresh(i)
  BY <1>2 DEF AllocateFresh, Exact, Unowned
<1> QED BY <1>1, <1>2 DEF Allocate

\* allocate(): an empty place takes the index that the pool hands out.
LEMMA AllocateKeepsExact ==
  ASSUME NEW own, NEW p \in DOMAIN own, NEW i,
         Exact(own, free_, high_water_, in_use_), Allocate(i), own[p] = Nothing
  PROVE  Exact([own EXCEPT ![p] = i], free_', high_water_', in_use_')
<1> DEFINE tab == [own EXCEPT ![p] = i]
<1>1. Unowned(own, free_, high_water_, i)
  BY AllocatedIsUnowned
<1>2. /\ DOMAIN tab = DOMAIN own
      /\ tab \in [DOMAIN own -> Nat \cup {Nothing}]
      /\ \A r \in DOMAIN own : tab[r] = IF r = p THEN i ELSE own[r]
  BY <1>1 DEF Exact, Unowned
<1>3. free_ \in Seq(Nat) /\ high_water_ \in Nat /\ in_use_ \in Int
      /\ Len(free_) \in Nat /\ in_use_ + Len(free_) = high_water_
  BY DEF Exact
<1> HIDE DEF tab
<1>4. \A r, s \in DOMAIN tab : tab[r] # Nothing /\ tab[r] = tab[s] => r = s
  BY <1>1, <1>2 DEF Exact, Unowned
<1>5. CASE AllocateRecycled(i)
  <2>1. /\ Len(free_) \in Nat \ {0}
        /\ free_' \in Seq(Nat) /\ Len(free_') = Len(free_) - 1
        /\ \A k \in 1..Len(free_') : free_'[k] = free_[k]
    BY <1>3, <1>5, Shortened DEF AllocateRecycled
  <2>2. high_water_' = high_water_ /\ in_use_' = in_use_ + 1 /\ i = free_[Len(free_)]
    BY <1>5 DEF AllocateRecycled
  <2>3. \A k \in 1..Len(free_') : k \in 1..Len(free_) /\ k # Len(free_) /\ free_'[k] = free_[k]
    BY <2>1
  <2>4. Len(free_) \in 1..Len(free_)
    BY <2>1
  <2>5. \A r \in DOMAIN tab, k \in 1..Len(free_') : tab[r] # free_'[k]
    <3>1. \A r \in DOMAIN own, k \in 1..Len(free_) : own[r] # free_[k]
      BY DEF Exact
    <3>2. \A j, k \in 1..Len(free_) : free_[j] = free_[k] => j = k
      BY DEF Exact
    <3>3. \A k \in 1..Len(free_') : i # free_'[k]
      BY <2>2, <2>3, <2>4, <3>2
    <3> QED BY <1>2, <2>3, <3>1, <3>3
  <2>6. /\ \A j, k \in 1..Len(free_') : free_'[j] = free_'[k] => j = k
        /\ \A k \in 1..Len(free_') : free_'[k] < high_water_'
    BY <2>2, <2>3 DEF Exact
  <2>7. \A r \in DOMAIN tab : tab[r] < high_water_'
    BY <1>2, <2>2, <2>4 DEF Exact
  <2>8. \A q \in 0..(high_water_' - 1) :
          (\E k \in 1..Len(free_') : free_'[k] = q) \/ (\E r \in DOMAIN tab : tab[r] = q)
    <3> SUFFICES ASSUME NEW q \in 0..(high_water_ - 1)
                 PROVE  (\E k \in 1..Len(free_') : free_'[k] = q) \/ (\E r \in DOMAIN tab : tab[r] = q)
      BY <2>2
    <3>1. CASE q = i
      BY <1>2, <3>1
    <3>2. CASE q # i /\ \E k \in 1..Len(free_) : free_[k] = q
      BY <2>1, <2>2, <3>2
    <3>3. CASE \E r \in DOMAIN own : own[r] = q
      <4>1. PICK r \in DOMAIN own : own[r] = q
        BY <3>3
      <4>2. r # p
        BY <4>1 DEF Nothing
      <4> QED BY <1>2, <4>1, <4>2
    <3> QED BY <3>1, <3>2, <3>3 DEF Exact
  <2>9. in_use_' \in Int /\ in_use_' + Len(free_') = high_water_'
    BY <1>3, <2>1, <2>2
  <2>10. high_water_' \in Nat
    BY <1>3, <2>2
  <2>11. Exact(tab, free_', high_water_', in_use_')
    BY ONLY <1>2, <1>4, <2>1, <2>5, <2>6, <2>7, <2>8, <2>9, <2>10 DEF Exact
  <2> QED BY <2>11 DEF tab
<1>6. CASE AllocateFresh(i)
  <2>1. /\ free_ = <<>> /\ free_' = <<>> /\ i = high_water_
        /\ high_water_' = high_water_ + 1 /\ in_use_' = in_use_ + 1
    BY <1>6 DEF AllocateFresh
  <2>2. \A r \in DOMAIN own : own[r] \in Nat \cup {Nothing} /\ own[r] < high_water_
    BY DEF Exact
  <2>3. \A r \in DOMAIN tab : tab[r] < high_water_'
    BY <1>2, <1>3, <2>1, <2>2 DEF Nothing
  <2>4. \A q \in 0..(high_water_' - 1) : \E r \in DOMAIN tab : tab[r] = q
    <3> SUFFICES ASSUME NEW q \in 0..high_water_
                 PROVE  \E r \in DOMAIN tab : tab[r] = q
      BY <1>3, <2>1
    <3>1. CASE q = high_water_
      BY <1>2, <2>1, <3>1
    <3>2. CASE q # high_water_
      <4>1. PICK r \in DOMAIN own : own[r] = q
        BY <1>3, <2>1, <3>2 DEF Exact
      <4>2. r # p
        BY <4>1 DEF Nothing
      <4> QED BY <1>2, <4>1, <4>2
    <3> QED BY <3>1, <3>2
  <2>5. Exact(tab, free_', high_water_', in_use_')
    BY ONLY <1>2, <1>3, <1>4, <2>1, <2>3, <2>4 DEF Exact
  <2> QED BY <2>5 DEF tab
<1> QED BY <1>5, <1>6 DEF Allocate

\* release(): the qubit of a place goes to the back of the free list.
LEMMA ReleaseKeepsExact ==
  ASSUME NEW own, NEW p \in DOMAIN own,
         Exact(own, free_, high_water_, in_use_), own[p] # Nothing, Release(own[p])
  PROVE  Exact([own EXCEPT ![p] = Nothing], free_', high_water_', in_use_')
<1> DEFINE q == own[p]  tab == [own EXCEPT ![p] = Nothing]
<1>1. q \in Nat /\ q < high_water_ /\ Len(free_) \in Nat /\ high_water_ \in Nat /\ in_use_ \in Int
      /\ in_use_ + Len(free_) = high_water_
  BY DEF Exact
<1>2. /\ free_' \in Seq(Nat)
      /\ Len(free_') = Len(free_) + 1
      /\ \A k \in 1..(Len(free_) + 1) : free_'[k] = IF k = Len(free_) + 1 THEN q ELSE free_[k]
  BY <1>1 DEF Exact, Release
<1>3. high_water_' = high_water_ /\ in_use_' = in_use_ - 1
  BY DEF Release
<1>4. /\ DOMAIN tab = DOMAIN own
      /\ tab \in [DOMAIN own -> Nat \cup {Nothing}]
      /\ \A r \in DOMAIN own : tab[r] = IF r = p THEN Nothing ELSE own[r]
  BY DEF Exact
<1>5. \A r \in DOMAIN own : own[r] = q => r = p
  BY <1>1 DEF Exact
<1>6. \A k \in 1..Len(free_) : free_[k] # q /\ free_[k] \in Nat /\ free_[k] < high_water_
  BY DEF Exact
<1> HIDE DEF q, tab
<1>7. \A r, s \in DOMAIN tab : tab[r] # Nothing /\ tab[r] = tab[s] => r = s
  BY <1>4 DEF Exact
<1>8. \A k \in 1..Len(free_') : \/ k = Len(free_) + 1 /\ free_'[k] = q
                                \/ k \in 1..Len(free_) /\ free_'[k] = free_[k]
  BY <1>1, <1>2
<1>9. \A r \in DOMAIN tab, k \in 1..Len(free_') : tab[r] # free_'[k]
  <2> SUFFICES ASSUME NEW r \in DOMAIN own, NEW k \in 1..Len(free_')
               PROVE  tab[r] # free_'[k]
    BY <1>4
  <2>1. \A x \in 1..Len(free_) : own[r] # free_[x]
    BY DEF Exact
  <2>2. free_'[k] \in Nat
    BY <1>1, <1>6, <1>8
  <2>3. CASE r = p
    BY <1>4, <2>2, <2>3 DEF Nothing
  <2>4. CASE r # p
    BY <1>4, <1>5, <1>8, <2>1, <2>4
  <2> QED BY <2>3, <2>4
<1>10. \A j, k \in 1..Len(free_') : free_'[j] = free_'[k] => j = k
  BY <1>6, <1>8 DEF Exact
<1>11. \A k \in 1..Len(free_') : free_'[k] < high_water_'
  BY <1>1, <1>3, <1>6, <1>8
<1>12. \A r \in DOMAIN tab : tab[r] < high_water_'
  <2>1. \A r \in DOMAIN own : own[r] < high_water_
    BY DEF Exact
  <2> QED BY <1>1, <1>3, <1>4, <2>1 DEF Nothing
<1>13. \A r \in 0..(high_water_' - 1) :
        (\E k \in 1..Len(free_') : free_'[k] = r) \/ (\E s \in DOMAIN tab : tab[s] = r)
  <2> SUFFICES ASSUME NEW r \in 0..(high_water_ - 1)
               PROVE  (\E k \in 1..Len(free_') : free_'[k] = r) \/ (\E s \in DOMAIN tab : tab[s] = r)
    BY <1>3
  <2>1. CASE \E k \in 1..Len(free_) : free_[k] = r
    BY <1>1, <1>2, <2>1
  <2>2. CASE \E s \in DOMAIN own : own[s] = r /\ r # q
    BY <1>4, <2>2 DEF q
  <2>3. CASE r = q
    BY <1>1, <1>2, <2>3
  <2> QED BY <2>1, <2>2, <2>3 DEF Exact
<1>14. in_use_' \in Int /\ in_use_' + Len(free_') = high_water_'
  BY <1>1, <1>2, <1>3
<1>15. high_water_' \in Nat
  BY <1>1, <1>3
<1>16. Exact(tab, free_', high_water_', in_use_')
  BY ONLY <1>2, <1>4, <1>7, <1>9, <1>10, <1>11, <1>12, <1>13, <1>14, <1>15 DEF Exact
<1> QED BY <1>16 DEF tab

-----------------------------------------------------------------------------
(* Counting. *)

\* The indices that places have.
Given(own) == {own[p] : p \in DOMAIN own} \ {Nothing}

\* An interval of indices, as a finite set.
LEMMA Interval ==
  ASSUME NEW n \in Nat
  PROVE  /\ IsFiniteSet(0..(n - 1)) /\ Cardinality(0..(n - 1)) = n
         /\ IsFiniteSet(1..n) /\ Cardinality(1..n) = n
<1>1. PICK m : m = n - 1
  OBVIOUS
<1>2. 0 \in Int /\ 1 \in Int /\ m \in Int /\ n \in Int
  BY <1>1
<1>3. IsFiniteSet(0..m) /\ Cardinality(0..m) = IF 0 > m THEN 0 ELSE m - 0 + 1
  BY <1>2, FS_Interval
<1>4. IsFiniteSet(1..n) /\ Cardinality(1..n) = IF 1 > n THEN 0 ELSE n - 1 + 1
  BY <1>2, FS_Interval
<1> QED BY <1>1, <1>3, <1>4

\* A set that a sequence of length n enumerates without repetition has n
\* elements.
LEMMA DistinctElements ==
  ASSUME NEW n \in Nat, NEW T, NEW s \in [1..n -> T],
         \A j, k \in 1..n : s[j] = s[k] => j = k,
         \A x \in T : \E k \in 1..n : s[k] = x
  PROVE  IsFiniteSet(T) /\ Cardinality(T) = n
<1>1. s \in Bijection(1..n, T)
  BY DEF Bijection, Injection, Surjection, IsInjective
<1>2. ExistsBijection(1..n, T)
  BY <1>1 DEF ExistsBijection
<1> QED BY <1>2, Interval, FS_Bijection

\* No sequence of different issued indices is longer than their number.
LEMMA NoMoreThanIssued ==
  ASSUME NEW hw \in Nat, NEW n \in Nat, NEW s, s \in [1..n -> 0..(hw - 1)],
         \A j, k \in 1..n : s[j] = s[k] => j = k
  PROVE  n <= hw
<1> DEFINE T == {s[k] : k \in 1..n}
<1>1. IsFiniteSet(T) /\ Cardinality(T) = n
  <2>1. s \in [1..n -> T] /\ \A x \in T : \E k \in 1..n : s[k] = x
    OBVIOUS
  <2> HIDE DEF T
  <2> QED BY <2>1, DistinctElements
<1>2. T \in SUBSET (0..(hw - 1)) /\ IsFiniteSet(0..(hw - 1)) /\ Cardinality(0..(hw - 1)) = hw
  BY Interval
<1> HIDE DEF T
<1>3. Cardinality(T) <= Cardinality(0..(hw - 1))
  BY <1>2, FS_Subset, Zenon
<1> QED BY <1>1, <1>2, <1>3

\* The pool's count is the number of indices that places have.
LEMMA CountIsGiven ==
  ASSUME NEW own, NEW f, NEW hw, NEW n, Exact(own, f, hw, n)
  PROVE  IsFiniteSet(Given(own)) /\ Cardinality(Given(own)) = n
<1>0. PICK m : m = Len(f)
  OBVIOUS
<1> DEFINE Free == {f[k] : k \in 1..m}
<1>1. /\ m \in Nat /\ hw \in Nat /\ n \in Int /\ n + m = hw
      /\ f \in [1..m -> Nat] /\ \A j, k \in 1..m : f[j] = f[k] => j = k
  BY <1>0 DEF Exact
<1>2. IsFiniteSet(Free) /\ Cardinality(Free) = m
  <2>1. f \in [1..m -> Free] /\ \A x \in Free : \E k \in 1..m : f[k] = x
    BY <1>1
  <2> HIDE DEF Free
  <2> QED BY <1>1, <2>1, DistinctElements
<1>3. Free \subseteq 0..(hw - 1) /\ Given(own) = (0..(hw - 1)) \ Free
  <2>1. /\ \A p \in DOMAIN own : own[p] \in Nat \cup {Nothing} /\ own[p] < hw
        /\ \A k \in 1..m : f[k] \in 0..(hw - 1)
    BY <1>0, <1>1 DEF Exact
  <2>2. \A p \in DOMAIN own : own[p] # Nothing => own[p] \in 0..(hw - 1)
    BY <1>1, <2>1
  <2>3. Nothing \notin 0..(hw - 1)
    BY DEF Nothing
  <2> QED BY <1>0, <2>1, <2>2, <2>3 DEF Exact, Given
<1>4. /\ IsFiniteSet(Given(own))
      /\ Cardinality(Given(own)) = Cardinality(0..(hw - 1)) - Cardinality((0..(hw - 1)) \cap Free)
  <2>1. IsFiniteSet(0..(hw - 1))
    BY <1>1, Interval
  <2>2. PICK I : I = 0..(hw - 1)
    OBVIOUS
  <2> HIDE DEF Free
  <2>3. IsFiniteSet(I \ Free) /\ Cardinality(I \ Free) = Cardinality(I) - Cardinality(I \cap Free)
    BY <2>1, <2>2, FS_Difference
  <2> QED BY <1>3, <2>2, <2>3
<1>5. Cardinality(0..(hw - 1)) = hw
  BY <1>1, Interval
<1>6. (0..(hw - 1)) \cap Free = Free
  BY <1>3
<1> HIDE DEF Free
<1>7. Cardinality(Given(own)) = hw - m
  BY <1>2, <1>4, <1>5, <1>6, Zenon
<1> QED BY <1>1, <1>4, <1>7
==============================================================================
