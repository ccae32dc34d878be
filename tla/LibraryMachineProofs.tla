------------------------ MODULE LibraryMachineProofs ------------------------
(***************************************************************************)
(* Who has which qubit while routines of the library run, for registers of *)
(* every width and any sequence of calls.                                  *)
(*                                                                         *)
(* Which steps a routine takes depends on the folds that unroll it; what a *)
(* step does to the pool and to the table `at` of the bits does not.  So   *)
(* the invariant holds whatever the steps are and in which order: it is    *)
(* about taking, giving, declaring, moving, exchanging and forgetting.     *)
(***************************************************************************)
EXTENDS QubitPoolProofs, LibraryMachine

\* Two places with a qubit have different ones, none is on the free list, and
\* the pool has issued them all.  Unlike in an exact table, a qubit may be lost.
Apart(own, f, hw) ==
  /\ own \in [DOMAIN own -> Nat \cup {Nothing}]
  /\ f \in Seq(Nat) /\ hw \in Nat
  /\ \A p, r \in DOMAIN own : own[p] # Nothing /\ own[p] = own[r] => p = r
  /\ \A p \in DOMAIN own, k \in 1..Len(f) : own[p] # f[k]
  /\ \A j, k \in 1..Len(f) : f[j] = f[k] => j = k
  /\ \A k \in 1..Len(f) : f[k] < hw
  /\ \A p \in DOMAIN own : own[p] < hw

\* What the pool has issued is in use or on its free list.
Counted(n, f, hw) == f \in Seq(Nat) /\ n \in Int /\ n + Len(f) = hw

\* The invariant: bits are apart, there are finitely many, and the pool's counts
\* go together.
IInv ==
  /\ Apart(at, free_, high_water_)
  /\ IsFiniteSet(DOMAIN at)
  /\ Counted(in_use_, free_, high_water_)

-----------------------------------------------------------------------------
(* Tables that are apart. *)

\* They stay so when places lose their qubits or exchange them, as long as each
\* qubit that is left is in one place.
LEMMA RearrangedIsApart ==
  ASSUME NEW own, NEW f, NEW hw, Apart(own, f, hw), NEW D, NEW tab \in [D -> Nat \cup {Nothing}],
         \A p, r \in D : tab[p] # Nothing /\ tab[p] = tab[r] => p = r,
         \A p \in D : tab[p] # Nothing => \E r \in DOMAIN own : tab[p] = own[r]
  PROVE  Apart(tab, f, hw)
<1>1. DOMAIN tab = D
  OBVIOUS
<1>2. f \in Seq(Nat) /\ hw \in Nat /\ Len(f) \in Nat /\ \A k \in 1..Len(f) : f[k] \in Nat
  BY DEF Apart
<1>3. \A r \in DOMAIN own : own[r] < hw /\ \A k \in 1..Len(f) : own[r] # f[k]
  BY DEF Apart
<1>4. \A p \in D, k \in 1..Len(f) : tab[p] # f[k]
  <2> SUFFICES ASSUME NEW p \in D, NEW k \in 1..Len(f)
               PROVE  tab[p] # f[k]
    OBVIOUS
  <2>1. CASE tab[p] = Nothing
    BY <1>2, <2>1 DEF Nothing
  <2>2. CASE tab[p] # Nothing
    BY <1>3, <2>2
  <2> QED BY <2>1, <2>2
<1>5. \A p \in D : tab[p] < hw
  <2> SUFFICES ASSUME NEW p \in D
               PROVE  tab[p] < hw
    OBVIOUS
  <2>1. CASE tab[p] = Nothing
    BY <1>2, <2>1 DEF Nothing
  <2>2. CASE tab[p] # Nothing
    BY <1>3, <2>2
  <2> QED BY <2>1, <2>2
<1> QED BY <1>1, <1>2, <1>4, <1>5 DEF Apart

\* allocate(): a place, new or not, takes the index that the pool hands out.
LEMMA AllocateKeepsApart ==
  ASSUME NEW own, NEW p, NEW i, Apart(own, free_, high_water_), Allocate(i),
         NEW tab, tab = [r \in DOMAIN own \cup {p} |-> IF r = p THEN i ELSE own[r]]
  PROVE  Apart(tab, free_', high_water_')
<1> DEFINE D == DOMAIN own \cup {p}
<1>1. /\ free_ \in Seq(Nat) /\ high_water_ \in Nat /\ Len(free_) \in Nat
      /\ \A k \in 1..Len(free_) : free_[k] \in Nat /\ free_[k] < high_water_
      /\ \A j, k \in 1..Len(free_) : free_[j] = free_[k] => j = k
  BY DEF Apart
<1>2. \A r \in DOMAIN own : /\ own[r] \in Nat \cup {Nothing} /\ own[r] < high_water_
                            /\ \A k \in 1..Len(free_) : own[r] # free_[k]
  BY DEF Apart
<1>3. \A r, s \in DOMAIN own : own[r] # Nothing /\ own[r] = own[s] => r = s
  BY DEF Apart
<1>4. DOMAIN tab = D /\ tab[p] = i /\ \A r \in D : r # p => r \in DOMAIN own /\ tab[r] = own[r]
  OBVIOUS
<1>5. tab = [r \in D |-> tab[r]]
  OBVIOUS
<1> HIDE DEF D
\* What the two ways to allocate have in common is enough.
<1>6. ASSUME i \in Nat, i < high_water_', high_water_' \in Nat, high_water_ <= high_water_',
             \A r \in DOMAIN own : own[r] # i,
             free_' \in Seq(Nat), Len(free_') \in Nat, Len(free_') <= Len(free_),
             \A k \in 1..Len(free_') : free_'[k] = free_[k] /\ free_'[k] # i
      PROVE  Apart(tab, free_', high_water_')
  <2>1. \A k \in 1..Len(free_') : k \in 1..Len(free_)
    BY <1>1, <1>6
  <2>2. \A r \in D : tab[r] \in Nat \cup {Nothing} /\ tab[r] < high_water_'
    <3> SUFFICES ASSUME NEW r \in D
                 PROVE  tab[r] \in Nat \cup {Nothing} /\ tab[r] < high_water_'
      OBVIOUS
    <3>1. CASE r = p
      BY <1>4, <1>6, <3>1
    <3>2. CASE r # p
      <4>1. tab[r] \in Nat \cup {Nothing} /\ tab[r] < high_water_
        BY <1>2, <1>4, <3>2
      <4> QED BY <1>1, <1>6, <4>1 DEF Nothing
    <3> QED BY <3>1, <3>2
  <2>3. \A r, s \in D : tab[r] # Nothing /\ tab[r] = tab[s] => r = s
    BY <1>3, <1>4, <1>6
  <2>4. \A r \in D, k \in 1..Len(free_') : tab[r] # free_'[k]
    <3> SUFFICES ASSUME NEW r \in D, NEW k \in 1..Len(free_')
                 PROVE  tab[r] # free_'[k]
      OBVIOUS
    <3>1. CASE r = p
      BY <1>4, <1>6, <3>1
    <3>2. CASE r # p
      BY <1>2, <1>4, <1>6, <2>1, <3>2
    <3> QED BY <3>1, <3>2
  <2>5. \A j, k \in 1..Len(free_') : free_'[j] = free_'[k] => j = k
    BY <1>1, <1>6, <2>1
  <2>6. \A k \in 1..Len(free_') : free_'[k] < high_water_'
    <3> SUFFICES ASSUME NEW k \in 1..Len(free_')
                 PROVE  free_'[k] < high_water_'
      OBVIOUS
    <3>1. free_'[k] \in Nat /\ free_'[k] < high_water_
      BY <1>1, <1>6, <2>1
    <3> QED BY <1>1, <1>6, <3>1
  <2>7. tab \in [DOMAIN tab -> Nat \cup {Nothing}]
    BY <1>4, <1>5, <2>2
  <2> QED BY ONLY <1>4, <1>6, <2>2, <2>3, <2>4, <2>5, <2>6, <2>7 DEF Apart
<1>7. CASE AllocateRecycled(i)
  <2>1. /\ Len(free_) \in Nat \ {0}
        /\ free_' \in Seq(Nat) /\ Len(free_') = Len(free_) - 1
        /\ \A k \in 1..(Len(free_) - 1) : free_'[k] = free_[k]
    BY <1>1, <1>7, Shortened DEF AllocateRecycled
  <2>2. high_water_' = high_water_ /\ i = free_[Len(free_)] /\ Len(free_) \in 1..Len(free_)
    BY <1>7, <2>1 DEF AllocateRecycled
  <2>3. i \in Nat /\ i < high_water_ /\ \A r \in DOMAIN own : own[r] # i
    BY <1>1, <1>2, <2>2
  <2>4. \A k \in 1..Len(free_') : free_'[k] = free_[k] /\ free_'[k] # i
    <3> SUFFICES ASSUME NEW k \in 1..(Len(free_) - 1)
                 PROVE  free_'[k] = free_[k] /\ free_[k] # i
      BY <2>1
    <3>1. k \in 1..Len(free_) /\ k # Len(free_)
      BY <2>1
    <3> QED BY <1>1, <2>1, <2>2, <3>1
  <2> QED BY <1>1, <1>6, <2>1, <2>2, <2>3, <2>4
<1>8. CASE AllocateFresh(i)
  <2>1. free_ = <<>> /\ free_' = <<>> /\ i = high_water_ /\ high_water_' = high_water_ + 1
    BY <1>8 DEF AllocateFresh
  <2>2. free_' \in Seq(Nat) /\ Len(free_') = 0 /\ Len(free_) = 0
    BY <2>1, EmptySeq
  <2>3. \A r \in DOMAIN own : own[r] # i
    BY <1>1, <1>2, <2>1
  <2> QED BY <1>1, <1>6, <2>1, <2>2, <2>3
<1> QED BY <1>7, <1>8 DEF Allocate

\* release(): no place has the qubit any more that goes to the free list.
LEMMA ReleaseKeepsApart ==
  ASSUME NEW own, NEW q \in Nat, Apart(own, free_, high_water_), Release(q), q < high_water_,
         \A p \in DOMAIN own : own[p] # q,
         \A k \in 1..Len(free_) : free_[k] # q
  PROVE  Apart(own, free_', high_water_')
<1>1. /\ free_ \in Seq(Nat) /\ high_water_ \in Nat /\ Len(free_) \in Nat
      /\ \A k \in 1..Len(free_) : free_[k] \in Nat /\ free_[k] < high_water_
  BY DEF Apart
<1>2. /\ free_' \in Seq(Nat) /\ Len(free_') = Len(free_) + 1 /\ high_water_' = high_water_
      /\ \A k \in 1..(Len(free_) + 1) : free_'[k] = IF k = Len(free_) + 1 THEN q ELSE free_[k]
  BY <1>1 DEF Release
<1>3. \A k \in 1..Len(free_') : \/ k = Len(free_) + 1 /\ free_'[k] = q
                                \/ k \in 1..Len(free_) /\ free_'[k] = free_[k]
  BY <1>1, <1>2
<1>4. \A p \in DOMAIN own, k \in 1..Len(free_') : own[p] # free_'[k]
  BY <1>3 DEF Apart
<1>5. \A j, k \in 1..Len(free_') : free_'[j] = free_'[k] => j = k
  BY <1>3 DEF Apart
<1>6. \A k \in 1..Len(free_') : free_'[k] < high_water_'
  BY <1>1, <1>2, <1>3
<1> QED BY <1>1, <1>2, <1>4, <1>5, <1>6 DEF Apart

\* The pool's operations keep its counts together.
LEMMA PoolKeepsCounts ==
  ASSUME Counted(in_use_, free_, high_water_),
         \/ \E i : Allocate(i)
         \/ \E q \in Nat : Release(q)
  PROVE  Counted(in_use_, free_, high_water_)'
<1>0. free_ \in Seq(Nat) /\ Len(free_) \in Nat /\ in_use_ \in Int /\ in_use_ + Len(free_) = high_water_
  BY DEF Counted
<1>1. ASSUME NEW i, AllocateRecycled(i)
      PROVE  Counted(in_use_, free_, high_water_)'
  <2>1. free_ # <<>> /\ free_' = SubSeq(free_, 1, Len(free_) - 1)
    BY <1>1 DEF AllocateRecycled
  <2>2. free_' \in Seq(Nat) /\ Len(free_) \in Nat \ {0} /\ Len(free_') = Len(free_) - 1
    BY <1>0, <2>1, Shortened
  <2>3. in_use_' = in_use_ + 1 /\ high_water_' = high_water_
    BY <1>1 DEF AllocateRecycled
  <2> QED BY <1>0, <2>2, <2>3 DEF Counted
<1>2. ASSUME NEW i, AllocateFresh(i)
      PROVE  Counted(in_use_, free_, high_water_)'
  BY <1>0, <1>2 DEF AllocateFresh, Counted
<1>3. ASSUME NEW q \in Nat, Release(q)
      PROVE  Counted(in_use_, free_, high_water_)'
  <2>1. free_' \in Seq(Nat) /\ Len(free_') = Len(free_) + 1
    BY <1>0, <1>3 DEF Release
  <2>2. in_use_' = in_use_ - 1 /\ high_water_' = high_water_
    BY <1>3 DEF Release
  <2> QED BY <1>0, <2>1, <2>2 DEF Counted
<1> QED BY <1>1, <1>2, <1>3 DEF Allocate

-----------------------------------------------------------------------------
(* The initial state. *)

\* The registers that are laid out.
LaidOut == {"a", "b", "ab", "m", "flag", "ctrl"}

\* What their bits are.
BitNames == LaidOut \X Int

\* A run of bits of one register.
Run(r, n) == [k \in 1..n |-> <<r, k - 1>>]

\* It is a sequence of bits.
LEMMA RunOfBits ==
  \A r \in LaidOut, n \in Nat : Run(r, n) \in Seq(BitNames)
<1> SUFFICES ASSUME NEW r \in LaidOut, NEW n \in Nat
             PROVE  Run(r, n) \in Seq(BitNames)
  OBVIOUS
<1>1. \A k \in 1..n : k - 1 \in Int
  OBVIOUS
<1>2. \A k \in 1..n : <<r, k - 1>> \in BitNames
  BY <1>1, Zenon DEF BitNames
<1>3. Run(r, n) \in [1..n -> BitNames]
  BY <1>2 DEF Run
<1> QED BY <1>3, SeqDef

\* The layout is a sequence of bits.
LEMMA LayoutIsASequence == Layout \in Seq(BitNames)
<1> DEFINE m == When(UsesM, Run("m", Width))
           all == Run("a", Width) \o Run("b", Width) \o Run("ab", 2 * Width) \o Run("flag", 1) \o Run("ctrl", 1) \o m
<1>1. Width \in Nat /\ 2 * Width \in Nat /\ 1 \in Nat
  BY WidthAssumption
<1>2. /\ Run("a", Width) \in Seq(BitNames) /\ Run("b", Width) \in Seq(BitNames)
      /\ Run("ab", 2 * Width) \in Seq(BitNames) /\ Run("m", Width) \in Seq(BitNames)
      /\ Run("flag", 1) \in Seq(BitNames) /\ Run("ctrl", 1) \in Seq(BitNames)
  BY <1>1, RunOfBits DEF LaidOut
<1>3. Layout = all
  BY DEF Layout, Run
<1>4. m \in Seq(BitNames)
  BY <1>2, EmptySeq DEF When
<1> HIDE DEF m
<1>5. all \in Seq(BitNames)
  BY <1>2, <1>4, ConcatProperties
<1> QED BY <1>3, <1>5

\* There are finitely many bits of registers.
LEMMA FinitelyManyBits == IsFiniteSet(RegisterBit)
<1> DEFINE n == Len(Layout)
           W == 0..(Width - 1)
<1>1. n \in Nat /\ DOMAIN Layout = 1..n
  BY LayoutIsASequence, LenProperties
<1>2. IsFiniteSet(1..n) /\ IsFiniteSet(W)
  BY <1>1, WidthAssumption, FS_Interval
<1>3. IsFiniteSet(ToSet(Layout))
  <2>1. ToSet(Layout) = {Layout[k] : k \in 1..n}
    BY <1>1 DEF ToSet
  <2>2. [k \in 1..n |-> Layout[k]] \in Surjection(1..n, ToSet(Layout))
    BY <2>1 DEF Surjection
  <2> QED BY <1>2, <2>2, FS_Surjection
<1>4. IsFiniteSet(ConstantBit)
  <2>1. [i \in W |-> <<"k", i>>] \in Surjection(W, ConstantBit)
    BY DEF Surjection, ConstantBit
  <2> QED BY <1>2, <2>1, FS_Surjection
<1> QED BY <1>3, <1>4, FS_Union DEF RegisterBit

\* At the start every bit of a register but a constant's has its qubit.
LEMMA InitIsSound == Init => IInv
<1> SUFFICES ASSUME Init
             PROVE  IInv
  OBVIOUS
<1> DEFINE n == Len(Layout)
           K(x) == CHOOSE k \in 1..n : Layout[k] = x
<1>1. n \in Nat /\ DOMAIN Layout = 1..n
  BY LayoutIsASequence, LenProperties
<1>2. free_ = <<>> /\ high_water_ = n /\ in_use_ = n
  BY DEF Init
<1>3. free_ \in Seq(Nat) /\ Len(free_) = 0
  BY <1>2, EmptySeq
<1>4. \A x \in ToSet(Layout) : K(x) \in 1..n /\ Layout[K(x)] = x
  BY <1>1 DEF ToSet
<1>5. at = [x \in RegisterBit |-> IF x \in ToSet(Layout) THEN K(x) - 1 ELSE Nothing]
  BY DEF Init, Unallocated, Nothing
<1> HIDE DEF K, n
<1>6. \A x \in RegisterBit : /\ at[x] \in Nat \cup {Nothing} /\ at[x] < n
                             /\ at[x] # Nothing => x \in ToSet(Layout) /\ K(x) = at[x] + 1
  BY <1>1, <1>4, <1>5 DEF Nothing
<1>7. DOMAIN at = RegisterBit /\ at \in [RegisterBit -> Nat \cup {Nothing}]
  BY <1>5, <1>6
<1>8. \A x, y \in RegisterBit : at[x] # Nothing /\ at[x] = at[y] => x = y
  BY <1>4, <1>6
<1>9. Apart(at, free_, high_water_)
  BY <1>1, <1>2, <1>3, <1>6, <1>7, <1>8 DEF Apart
<1>10. Counted(in_use_, free_, high_water_)
  BY <1>1, <1>2, <1>3 DEF Counted
<1> QED BY <1>7, <1>9, <1>10, FinitelyManyBits DEF IInv
-----------------------------------------------------------------------------
(* The steps. *)

\* What the invariant says of the table.
LEMMA Table ==
  ASSUME IInv
  PROVE  /\ at \in [DOMAIN at -> Nat \cup {Nothing}] /\ high_water_ \in Nat
         /\ Len(free_) \in Nat /\ \A k \in 1..Len(free_) : free_[k] \in Nat
         /\ \A p, r \in DOMAIN at : at[p] # Nothing /\ at[p] = at[r] => p = r
         /\ \A p \in DOMAIN at : at[p] < high_water_ /\ \A k \in 1..Len(free_) : at[p] # free_[k]
         /\ Nothing = Unallocated
BY DEF IInv, Apart, Nothing, Unallocated

\* A step that touches neither the pool nor the table.
LEMMA OthersAreSound ==
  ASSUME IInv, UNCHANGED <<poolVars, at>>
  PROVE  IInv'
BY DEF IInv, poolVars, Counted, Apart

\* A step of a bit without the pool.
LEMMA MovesAreSound ==
  ASSUME IInv, UNCHANGED poolVars, NEW D, IsFiniteSet(D), at' \in [D -> Nat \cup {Nothing}],
         \A p, r \in D : at'[p] # Nothing /\ at'[p] = at'[r] => p = r,
         \A p \in D : at'[p] # Nothing => \E r \in DOMAIN at : at'[p] = at[r]
  PROVE  IInv'
<1>1. Apart(at', free_, high_water_)
  BY RearrangedIsApart DEF IInv
<1>2. free_' = free_ /\ high_water_' = high_water_ /\ in_use_' = in_use_ /\ DOMAIN at' = D
  BY DEF poolVars
<1> QED BY <1>1, <1>2 DEF IInv, Counted

\* A bit gets a qubit.
LEMMA TakeIsSound ==
  ASSUME IInv, NEW pending, TakeQubit(pending)
  PROVE  IInv'
<1> DEFINE x == Head(pending).bit
<1>1. PICK i : Allocate(i) /\ at' = With(x, i)
  BY DEF TakeQubit
<1> HIDE DEF x
<1>2. at' = [r \in DOMAIN at \cup {x} |-> IF r = x THEN i ELSE at[r]]
  BY <1>1 DEF With
<1>3. Apart(at', free_', high_water_')
  BY <1>1, <1>2, AllocateKeepsApart DEF IInv
<1>4. IsFiniteSet(DOMAIN at')
  BY <1>2, FS_AddElement DEF IInv
<1>5. Counted(in_use_, free_, high_water_)'
  BY <1>1, PoolKeepsCounts DEF IInv
<1> QED BY <1>3, <1>4, <1>5 DEF IInv

\* A bit gives its qubit back.
LEMMA GiveIsSound ==
  ASSUME IInv, NEW pending, GiveQubit(pending)
  PROVE  IInv'
<1> DEFINE x == Head(pending).bit
           q == at[x]
           D == IF x \in RegisterBit THEN DOMAIN at ELSE DOMAIN at \ {x}
<1>1. /\ x \in DOMAIN at
      /\ IF q # Unallocated THEN Release(q) ELSE UNCHANGED poolVars
      /\ at' = IF x \in RegisterBit THEN [at EXCEPT ![x] = Unallocated] ELSE Without(x)
  BY DEF GiveQubit, IsQuantum
<1>2. at' = [r \in D |-> IF r = x THEN Unallocated ELSE at[r]]
  BY <1>1, Table DEF Without
<1>3. D \subseteq DOMAIN at /\ IsFiniteSet(D) /\ DOMAIN at' = D
  BY <1>2, FS_Subset DEF IInv
<1> HIDE DEF D, x
<1>4. /\ at' \in [D -> Nat \cup {Nothing}]
      /\ \A p, r \in D : at'[p] # Nothing /\ at'[p] = at'[r] => p = r
      /\ \A p \in D : at'[p] # Nothing => p # x /\ at'[p] = at[p]
  BY <1>2, <1>3, Table
<1>5. \A p \in D : at'[p] # Nothing => \E r \in DOMAIN at : at'[p] = at[r]
  BY <1>3, <1>4
<1>6. CASE q = Unallocated
  BY <1>1, <1>3, <1>4, <1>5, <1>6, MovesAreSound
<1>7. CASE q # Unallocated
  <2>1. Apart(at', free_, high_water_)
    BY <1>4, <1>5, RearrangedIsApart DEF IInv
  <2>2. q \in Nat /\ q < high_water_ /\ \A k \in 1..Len(free_) : free_[k] # q
    BY <1>1, <1>7, Table
  <2>3. \A p \in DOMAIN at' : at'[p] # q
    BY <1>1, <1>3, <1>4, <1>7, <2>2, Table
  <2>4. Release(q)
    BY <1>1, <1>7
  <2> HIDE DEF q
  <2>5. Apart(at', free_', high_water_')
    BY <2>1, <2>2, <2>3, <2>4, ReleaseKeepsApart
  <2>6. Counted(in_use_, free_, high_water_)'
    BY <2>2, <2>4, PoolKeepsCounts DEF IInv
  <2> QED BY <1>3, <2>5, <2>6 DEF IInv
<1> QED BY <1>6, <1>7

\* A local qbool starts without a qubit.
LEMMA DeclareIsSound ==
  ASSUME IInv, NEW pending, DeclareQbool(pending)
  PROVE  IInv'
<1> DEFINE x == Head(pending).bit
           D == DOMAIN at \cup {x}
<1>1. x \notin DOMAIN at /\ UNCHANGED poolVars /\ at' = [r \in D |-> IF r = x THEN Nothing ELSE at[r]]
  BY Table DEF DeclareQbool, With
<1>2. IsFiniteSet(D)
  BY FS_AddElement DEF IInv
<1>3. \A p \in D : p # x => p \in DOMAIN at
  OBVIOUS
<1> HIDE DEF D, x
<1>4. /\ at' \in [D -> Nat \cup {Nothing}]
      /\ \A p, r \in D : at'[p] # Nothing /\ at'[p] = at'[r] => p = r
      /\ \A p \in D : at'[p] # Nothing => \E r \in DOMAIN at : at'[p] = at[r]
  BY <1>1, <1>3, Table
<1> QED BY <1>1, <1>2, <1>4, MovesAreSound

\* A bit moves its qubit into another one.
LEMMA RelabelIsSound ==
  ASSUME IInv, NEW pending, RelabelBit(pending)
  PROVE  IInv'
<1> DEFINE x == Head(pending).bit[1]
           y == Head(pending).bit[2]
           D == DOMAIN at \ {y}
<1>1. /\ x \in DOMAIN at /\ y \in DOMAIN at /\ UNCHANGED poolVars
      /\ at' = [Without(y) EXCEPT ![x] = at[y]]
  BY DEF RelabelBit
<1>2. at' = [r \in D |-> IF r = x THEN at[y] ELSE at[r]]
  BY <1>1 DEF Without
<1>3. IsFiniteSet(D) /\ \A p \in D : p \in DOMAIN at /\ p # y
  BY FS_Subset DEF IInv
<1> HIDE DEF D, x, y
<1>4. \A p \in D : \E r \in DOMAIN at : r = (IF p = x THEN y ELSE p) /\ at'[p] = at[r]
  BY <1>1, <1>2, <1>3
<1>5. at' \in [D -> Nat \cup {Nothing}]
  BY <1>2, <1>4, Table
<1>6. \A p, r \in D : at'[p] # Nothing /\ at'[p] = at'[r] => p = r
  BY <1>1, <1>3, <1>4, Table
<1> QED BY <1>1, <1>3, <1>4, <1>5, <1>6, MovesAreSound

\* Two bits exchange their qubits.
LEMMA ExchangeIsSound ==
  ASSUME IInv, NEW pending, ExchangeBits(pending)
  PROVE  IInv'
<1> DEFINE x == Head(pending).bit[1]
           y == Head(pending).bit[2]
           D == DOMAIN at
<1>1. /\ x \in D /\ y \in D /\ UNCHANGED poolVars
      /\ at' = [at EXCEPT ![x] = at[y], ![y] = at[x]]
  BY DEF ExchangeBits
<1> HIDE DEF x, y
<1>2. at' = [r \in D |-> IF r = y THEN at[x] ELSE IF r = x THEN at[y] ELSE at[r]]
  BY <1>1, Table
<1>3. IsFiniteSet(D)
  BY DEF IInv
<1>4. /\ at' \in [D -> Nat \cup {Nothing}]
      /\ \A p, r \in D : at'[p] # Nothing /\ at'[p] = at'[r] => p = r
      /\ \A p \in D : at'[p] # Nothing => \E r \in DOMAIN at : at'[p] = at[r]
  BY <1>1, <1>2, Table
<1> QED BY <1>1, <1>3, <1>4, MovesAreSound

\* A bit forgets its qubit.
LEMMA ForgetIsSound ==
  ASSUME IInv, NEW pending, ForgetBit(pending)
  PROVE  IInv'
<1> DEFINE x == Head(pending).bit
           D == DOMAIN at
<1>1. UNCHANGED poolVars /\ at' = [at EXCEPT ![x] = Nothing]
  BY Table DEF ForgetBit
<1> HIDE DEF x
<1>2. at' = [r \in D |-> IF r = x THEN Nothing ELSE at[r]]
  BY <1>1, Table
<1>3. IsFiniteSet(D)
  BY DEF IInv
<1>4. /\ at' \in [D -> Nat \cup {Nothing}]
      /\ \A p, r \in D : at'[p] # Nothing /\ at'[p] = at'[r] => p = r
      /\ \A p \in D : at'[p] # Nothing => \E r \in DOMAIN at : at'[p] = at[r]
  BY <1>2, Table
<1> QED BY <1>1, <1>3, <1>4, MovesAreSound

\* A step of a call, whatever is pending.
LEMMA ExecuteIsSound ==
  ASSUME IInv, Execute
  PROVE  IInv'
<1>1. PICK pending : \/ Skip(pending) \/ TakeQubit(pending) \/ GiveQubit(pending)
                     \/ DeclareQbool(pending) \/ RelabelBit(pending)
                     \/ ExchangeBits(pending) \/ ForgetBit(pending)
                     \/ ApplyGates(pending) \/ PushControl(pending) \/ PopControl(pending)
  BY DEF Execute
<1>2. CASE TakeQubit(pending)
  BY <1>2, TakeIsSound
<1>3. CASE GiveQubit(pending)
  BY <1>3, GiveIsSound
<1>4. CASE DeclareQbool(pending)
  BY <1>4, DeclareIsSound
<1>5. CASE RelabelBit(pending)
  BY <1>5, RelabelIsSound
<1>6. CASE ExchangeBits(pending)
  BY <1>6, ExchangeIsSound
<1>7. CASE ForgetBit(pending)
  BY <1>7, ForgetIsSound
<1>8. CASE Skip(pending) \/ ApplyGates(pending) \/ PushControl(pending) \/ PopControl(pending)
  <2>1. UNCHANGED <<poolVars, at>>
    BY <1>8 DEF Skip, ApplyGates, PushControl, PopControl
  <2> QED BY <2>1, OthersAreSound
<1> QED BY <1>1, <1>2, <1>3, <1>4, <1>5, <1>6, <1>7, <1>8

-----------------------------------------------------------------------------
(* Theorems. *)

\* The invariant holds in every state that calls of the library reach.
THEOREM Invariance == Spec => []IInv
<1>1. Init => IInv
  BY InitIsSound
<1>2. IInv /\ [Next]_vars => IInv'
  <2> SUFFICES ASSUME IInv, [Next]_vars
               PROVE  IInv'
    OBVIOUS
  <2>1. CASE Execute
    BY <2>1, ExecuteIsSound
  <2>2. CASE \E c \in CallOf : StartCall(c)
    <3>1. UNCHANGED <<poolVars, at>>
      BY <2>2 DEF StartCall
    <3> QED BY <3>1, OthersAreSound
  <2>3. CASE Exit \/ UNCHANGED vars
    <3>1. UNCHANGED <<poolVars, at>>
      BY <2>3 DEF Exit, vars
    <3> QED BY <3>1, OthersAreSound
  <2> QED BY <2>1, <2>2, <2>3 DEF Next
<1> QED BY <1>1, <1>2, PTL DEF Spec

\* Two bits that are alive, of registers or of the routines' own temporaries,
\* never share a qubit, and the pool does not offer theirs to anybody.
THEOREM BitsHaveTheirOwnQubits == Spec => []Distinct
<1>1. IInv => Distinct
  <2> SUFFICES ASSUME IInv
               PROVE  Distinct
    OBVIOUS
  <2> DEFINE held == {x \in DOMAIN at : IsQuantum(x)}
             qubits == {at[x] : x \in held}
             f == [x \in held |-> at[x]]
  <2>1. \A x, y \in held : at[x] = at[y] => x = y
    BY Table DEF IsQuantum
  <2>2. f \in Bijection(held, qubits)
    <3>1. f \in [held -> qubits] /\ \A q \in qubits : \E x \in held : f[x] = q
      OBVIOUS
    <3> QED BY <2>1, <3>1 DEF Bijection, Injection, Surjection, IsInjective
  <2>3. IsFiniteSet(held)
    BY FS_Subset DEF IInv
  <2>4. Cardinality(qubits) = Cardinality(held)
    <3>1. ExistsBijection(held, qubits)
      BY <2>2 DEF ExistsBijection
    <3> HIDE DEF held, qubits
    <3> QED BY <2>3, <3>1, FS_Bijection
  <2>5. qubits \cap FreeSet = {}
    BY Table DEF FreeSet
  <2> QED BY <2>4, <2>5 DEF Distinct
<1> QED BY <1>1, Invariance, PTL

\* The issued indices that nobody has: neither a bit nor the free list.
LostIn(tab, f, hw) ==
  {q \in 0..(hw - 1) : /\ \A x \in DOMAIN tab : tab[x] # q
                       /\ \A k \in 1..Len(f) : f[k] # q}
Lost == LostIn(at, free_, high_water_)

\* allocate() hands out no lost index and loses none.
LEMMA TakeLosesNone ==
  ASSUME IInv, NEW pending, TakeQubit(pending)
  PROVE  Lost' = Lost
<1> DEFINE x == Head(pending).bit
<1>1. PICK i : Allocate(i) /\ at' = With(x, i) /\ (x \in DOMAIN at => at[x] = Unallocated)
  BY DEF TakeQubit, IsQuantum
<1> HIDE DEF x
<1>2. /\ DOMAIN at' = DOMAIN at \cup {x} /\ at'[x] = i
      /\ \A r \in DOMAIN at : r # x => at'[r] = at[r]
  BY <1>1 DEF With
<1>3. /\ free_ \in Seq(Nat) /\ Len(free_) \in Nat /\ high_water_ \in Nat
      /\ \A k \in 1..Len(free_) : free_[k] \in Nat /\ free_[k] < high_water_
  BY DEF IInv, Apart
<1>4. ASSUME NEW q \in Nat
      PROVE  (\E r \in DOMAIN at' : at'[r] = q) <=> (q = i \/ \E r \in DOMAIN at : at[r] = q)
  <2>1. q # Unallocated
    BY DEF Unallocated
  <2> QED BY <1>1, <1>2, <2>1
<1>5. CASE AllocateRecycled(i)
  <2>1. free_ # <<>> /\ free_' = SubSeq(free_, 1, Len(free_) - 1)
        /\ i = free_[Len(free_)] /\ high_water_' = high_water_
    BY <1>5 DEF AllocateRecycled
  <2>2. /\ Len(free_) \in Nat \ {0} /\ Len(free_') = Len(free_) - 1
        /\ \A k \in 1..(Len(free_) - 1) : free_'[k] = free_[k]
    BY <1>3, <2>1, Shortened
  <2>3. /\ \A k \in 1..Len(free_) : k = Len(free_) \/ k \in 1..Len(free_')
        /\ \A k \in 1..Len(free_') : k \in 1..Len(free_) /\ free_'[k] = free_[k]
        /\ Len(free_) \in 1..Len(free_)
    BY <2>2
  <2>4. ASSUME NEW q \in Nat
        PROVE  (q = i \/ \E k \in 1..Len(free_') : free_'[k] = q) <=> \E k \in 1..Len(free_) : free_[k] = q
    BY <2>1, <2>3
  <2>5. \A q \in Nat : q \in LostIn(at', free_', high_water_') <=> q \in LostIn(at, free_, high_water_)
    BY <1>4, <2>1, <2>4 DEF LostIn
  <2>6. high_water_' = high_water_ /\ high_water_ \in Nat
    BY <1>3, <2>1
  <2> QED BY <2>5, <2>6 DEF Lost, LostIn
<1>6. CASE AllocateFresh(i)
  <2>1. free_' = free_ /\ i = high_water_ /\ high_water_' = high_water_ + 1
    BY <1>6 DEF AllocateFresh
  <2>2. \A q \in Nat : q \in LostIn(at', free_', high_water_') <=> q \in LostIn(at, free_, high_water_)
    <3> SUFFICES ASSUME NEW q \in Nat
                 PROVE  q \in LostIn(at', free_', high_water_') <=> q \in LostIn(at, free_, high_water_)
      OBVIOUS
    <3>1. q \in 0..(high_water_' - 1) /\ q # i <=> q \in 0..(high_water_ - 1)
      BY <1>3, <2>1
    <3> QED BY <1>4, <2>1, <3>1 DEF LostIn
  <2> QED BY <1>3, <2>1, <2>2 DEF Lost, LostIn
<1> QED BY <1>1, <1>5, <1>6 DEF Allocate

\* A bit that gives its qubit back gives it to the free list.
LEMMA GiveLosesNone ==
  ASSUME IInv, NEW pending, GiveQubit(pending)
  PROVE  Lost' = Lost
<1> DEFINE x == Head(pending).bit
           q == at[x]
           D == IF x \in RegisterBit THEN DOMAIN at ELSE DOMAIN at \ {x}
<1>1. /\ x \in DOMAIN at
      /\ IF q # Unallocated THEN Release(q) ELSE UNCHANGED poolVars
      /\ at' = IF x \in RegisterBit THEN [at EXCEPT ![x] = Unallocated] ELSE Without(x)
  BY DEF GiveQubit, IsQuantum
<1>2. at' = [r \in D |-> IF r = x THEN Unallocated ELSE at[r]]
  BY <1>1, Table DEF Without
<1>3. /\ D \subseteq DOMAIN at /\ DOMAIN at' = D /\ \A r \in DOMAIN at : r # x => r \in D
      /\ free_ \in Seq(Nat) /\ Len(free_) \in Nat /\ high_water_ \in Nat
  BY <1>2 DEF IInv, Apart
<1> HIDE DEF D, x
<1>4. ASSUME NEW n \in Nat
      PROVE  ((\E r \in DOMAIN at' : at'[r] = n) \/ n = q) <=> \E r \in DOMAIN at : at[r] = n
  <2>1. n # Unallocated
    BY DEF Unallocated
  <2>2. CASE q = n
    BY <1>1, <2>2
  <2>3. CASE q # n
    BY <1>2, <1>3, <2>1, <2>3
  <2> QED BY <2>2, <2>3
<1>5. high_water_' = high_water_
  BY <1>1 DEF Release, poolVars
<1>6. ASSUME NEW n \in Nat
      PROVE  (\E k \in 1..Len(free_') : free_'[k] = n) <=> (n = q \/ \E k \in 1..Len(free_) : free_[k] = n)
  <2>1. n # Unallocated
    BY DEF Unallocated
  <2>2. CASE q = Unallocated
    BY <1>1, <2>1, <2>2 DEF poolVars
  <2>3. CASE q # Unallocated
    <3>1. q \in Nat
      BY <1>1, <2>3, Table
    <3>2. /\ Len(free_') = Len(free_) + 1
          /\ \A k \in 1..(Len(free_) + 1) : free_'[k] = IF k = Len(free_) + 1 THEN q ELSE free_[k]
      BY <1>1, <1>3, <2>3, <3>1 DEF Release
    <3>3. /\ \A k \in 1..Len(free_') : k = Len(free_) + 1 \/ k \in 1..Len(free_)
          /\ \A k \in 1..Len(free_) : k \in 1..Len(free_') /\ k # Len(free_) + 1
          /\ Len(free_) + 1 \in 1..Len(free_')
      BY <1>3, <3>2
    <3> HIDE DEF q
    <3> QED BY <3>2, <3>3
  <2> QED BY <2>2, <2>3
<1> HIDE DEF q
<1>7. \A n \in Nat : n \in LostIn(at', free_', high_water_') <=> n \in LostIn(at, free_, high_water_)
  BY <1>4, <1>5, <1>6 DEF LostIn
<1> QED BY <1>3, <1>5, <1>7 DEF Lost, LostIn

\* Where the pool rests and bits have the same qubits as before, none is lost.
LEMMA MovesLoseNone ==
  ASSUME IInv, UNCHANGED poolVars,
         \A n \in Nat : (\E r \in DOMAIN at' : at'[r] = n) <=> (\E r \in DOMAIN at : at[r] = n)
  PROVE  Lost' = Lost
<1>1. high_water_' = high_water_ /\ free_' = free_ /\ high_water_ \in Nat
  BY DEF poolVars, IInv, Apart
<1>2. \A n \in Nat : n \in LostIn(at', free_', high_water_') <=> n \in LostIn(at, free_, high_water_)
  BY <1>1 DEF LostIn
<1> QED BY <1>1, <1>2 DEF Lost, LostIn

\* A routine, whatever it takes, folds, lifts, exchanges and gives back, loses a
\* qubit only where it overwrites the index that a bit has: when the copy of a
\* constant goes with the qubits it was given, or a bit is moved into another.
THEOREM OnlyOverwritingLoses ==
  Spec => [][Lost' # Lost => \E pending : ForgetBit(pending) \/ RelabelBit(pending)]_vars
<1>1. ASSUME IInv, [Next]_vars, ~\E pending : ForgetBit(pending) \/ RelabelBit(pending)
      PROVE  Lost' = Lost
  <2>1. ASSUME UNCHANGED <<poolVars, at>>
        PROVE  Lost' = Lost
    BY <1>1, <2>1, MovesLoseNone
  <2>2. CASE Execute
    <3>1. PICK pending : \/ Skip(pending) \/ TakeQubit(pending) \/ GiveQubit(pending)
                         \/ DeclareQbool(pending) \/ ExchangeBits(pending)
                         \/ ApplyGates(pending) \/ PushControl(pending) \/ PopControl(pending)
      BY <1>1, <2>2 DEF Execute
    <3>2. CASE TakeQubit(pending)
      BY <1>1, <3>2, TakeLosesNone
    <3>3. CASE GiveQubit(pending)
      BY <1>1, <3>3, GiveLosesNone
    <3>4. CASE DeclareQbool(pending)
      <4> DEFINE x == Head(pending).bit
      <4>1. /\ x \notin DOMAIN at /\ UNCHANGED poolVars
            /\ at' = [r \in DOMAIN at \cup {x} |-> IF r = x THEN Unallocated ELSE at[r]]
        BY <3>4 DEF DeclareQbool, With
      <4> HIDE DEF x
      <4>2. \A n \in Nat : n # Unallocated
        BY DEF Unallocated
      <4>3. \A n \in Nat : (\E r \in DOMAIN at' : at'[r] = n) <=> (\E r \in DOMAIN at : at[r] = n)
        BY <4>1, <4>2
      <4> QED BY <1>1, <4>1, <4>3, MovesLoseNone
    <3>5. CASE ExchangeBits(pending)
      <4> DEFINE x == Head(pending).bit[1]
                 y == Head(pending).bit[2]
      <4>1. /\ x \in DOMAIN at /\ y \in DOMAIN at /\ UNCHANGED poolVars
            /\ at' = [at EXCEPT ![x] = at[y], ![y] = at[x]]
        BY <3>5 DEF ExchangeBits
      <4> HIDE DEF x, y
      <4>2. at' = [r \in DOMAIN at |-> IF r = y THEN at[x] ELSE IF r = x THEN at[y] ELSE at[r]]
        BY <1>1, <4>1, Table
      <4>3. \A n \in Nat : (\E r \in DOMAIN at' : at'[r] = n) <=> (\E r \in DOMAIN at : at[r] = n)
        BY <4>1, <4>2
      <4> QED BY <1>1, <4>1, <4>3, MovesLoseNone
    <3>6. CASE Skip(pending) \/ ApplyGates(pending) \/ PushControl(pending) \/ PopControl(pending)
      BY <2>1, <3>6 DEF Skip, ApplyGates, PushControl, PopControl
    <3> QED BY <3>1, <3>2, <3>3, <3>4, <3>5, <3>6
  <2>3. CASE (\E c \in CallOf : StartCall(c)) \/ Exit \/ UNCHANGED vars
    BY <2>1, <2>3 DEF StartCall, Exit, vars
  <2> QED BY <1>1, <2>2, <2>3 DEF Next
<1>2. IInv /\ [Next]_vars => [Lost' # Lost => \E pending : ForgetBit(pending) \/ RelabelBit(pending)]_vars
  BY <1>1
<1> QED BY <1>2, Invariance, PTL DEF Spec

\* At every step of a routine in_use() is the number of bits alive that have a
\* qubit, and of the qubits that were lost: none is counted out while a bit has it.
THEOREM CountCoversTheBits ==
  Spec => [](in_use_ = Cardinality({x \in DOMAIN at : IsQuantum(x)}) + Cardinality(Lost))
<1>1. ASSUME IInv
      PROVE  in_use_ = Cardinality({x \in DOMAIN at : IsQuantum(x)}) + Cardinality(Lost)
  <2> DEFINE held == {x \in DOMAIN at : IsQuantum(x)}
             qubits == {at[x] : x \in held}
             I == 0..(high_water_ - 1)
             m == Len(free_)
  <2>1. /\ free_ \in Seq(Nat) /\ m \in Nat /\ high_water_ \in Nat /\ in_use_ \in Int
        /\ in_use_ + m = high_water_
        /\ free_ \in [1..m -> FreeSet] /\ \A q \in FreeSet : \E k \in 1..m : free_[k] = q
        /\ \A j, k \in 1..m : free_[j] = free_[k] => j = k
        /\ FreeSet \subseteq I
    BY <1>1 DEF IInv, Apart, Counted, FreeSet
  <2>2. IsFiniteSet(FreeSet) /\ Cardinality(FreeSet) = m
    <3> HIDE DEF m
    <3> QED BY <2>1, DistinctElements
  <2>3. IsFiniteSet(I) /\ Cardinality(I) = high_water_
    BY <2>1, Interval
  <2>4. IsFiniteSet(qubits) /\ Cardinality(qubits) = Cardinality(held)
    <3>1. IsFiniteSet(held)
      BY <1>1, FS_Subset DEF IInv
    <3>2. \A x, y \in held : at[x] = at[y] => x = y
      BY <1>1, Table DEF IsQuantum
    <3>3. [x \in held |-> at[x]] \in Bijection(held, qubits)
      BY <3>2 DEF Bijection, Injection, Surjection, IsInjective
    <3>4. ExistsBijection(held, qubits)
      BY <3>3 DEF ExistsBijection
    <3> HIDE DEF held, qubits
    <3> QED BY <3>1, <3>4, FS_Bijection
  <2>5. /\ qubits \cap FreeSet = {} /\ qubits \subseteq I
        /\ Lost = I \ (FreeSet \cup qubits)
    <3>1. \A x \in held : at[x] \in Nat /\ at[x] < high_water_ /\ at[x] \in I
      BY <1>1, Table DEF IsQuantum
    <3>2. \A q \in I : q # Unallocated
      BY DEF Unallocated
    <3>3. \A q \in I : q \in qubits <=> \E x \in DOMAIN at : at[x] = q
      BY <3>2 DEF IsQuantum
    <3>4. \A q \in I : q \in FreeSet <=> \E k \in 1..Len(free_) : free_[k] = q
      BY DEF FreeSet
    <3>5. qubits \cap FreeSet = {}
      BY <1>1, Table DEF FreeSet
    <3>6. Lost = I \ (FreeSet \cup qubits)
      BY <3>3, <3>4 DEF Lost, LostIn
    <3> QED BY <3>1, <3>5, <3>6
  <2> HIDE DEF held, qubits, I, m
  <2>6. /\ IsFiniteSet(FreeSet \cup qubits)
        /\ Cardinality(FreeSet \cup qubits)
             = Cardinality(FreeSet) + Cardinality(qubits) - Cardinality(FreeSet \cap qubits)
    BY <2>2, <2>4, FS_Union
  <2>7. Cardinality(FreeSet \cap qubits) = 0
    <3>1. FreeSet \cap qubits = {}
      BY <2>5
    <3> QED BY <3>1, FS_EmptySet
  <2>8. Cardinality(I \ (FreeSet \cup qubits))
          = Cardinality(I) - Cardinality(I \cap (FreeSet \cup qubits))
    BY <2>3, FS_Difference
  <2>9. I \cap (FreeSet \cup qubits) = FreeSet \cup qubits
    BY <2>1, <2>5
  <2>10. Cardinality(held) \in Nat
    BY <2>4, FS_CardinalityType
  <2>11. Cardinality(Lost) = high_water_ - (m + Cardinality(held))
    BY <2>2, <2>3, <2>4, <2>5, <2>6, <2>7, <2>8, <2>9, <2>10
  <2> QED BY <2>1, <2>10, <2>11 DEF held
<1> QED BY <1>1, Invariance, PTL
==============================================================================
