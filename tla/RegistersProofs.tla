--------------------------- MODULE RegistersProofs ---------------------------
(***************************************************************************)
(* What Registers promises, for every number of threads, objects and bits. *)
(*                                                                         *)
(* The argument looks at the system as a table of slots (which qubit does  *)
(* holder h have at position i) next to the pool's free list.  Every step  *)
(* of every operation changes the table in one of four ways: a slot takes  *)
(* the qubit the pool hands out, a slot gives its qubit back, a qubit      *)
(* moves from one slot to an empty one, or the qubit the pool hands out    *)
(* goes to an object that does not own, and astray.  Each way keeps the    *)
(* table exact.                                                            *)
(***************************************************************************)
EXTENDS Registers, TLAPS, SequenceTheorems, FiniteSetTheorems

Table == [Holder -> [Bit -> Nat \cup {Unallocated}]]
Slots == [h \in Holder |-> [i \in Bit |-> Slot(h, i)]]

\* Every issued index is in exactly one place: one slot, one position of the
\* free list, or astray.
Exact(s, f, hw, astray) ==
  /\ s \in Table /\ f \in Seq(Nat) /\ hw \in Nat /\ astray \in SUBSET Nat
  /\ \A g, h \in Holder, i, j \in Bit :
        s[g][i] # Unallocated /\ s[g][i] = s[h][j] => g = h /\ i = j
  /\ \A h \in Holder, i \in Bit, k \in 1..Len(f) : s[h][i] # f[k]
  /\ \A j, k \in 1..Len(f) : f[j] = f[k] => j = k
  /\ \A k \in 1..Len(f) : f[k] < hw
  /\ \A h \in Holder, i \in Bit : s[h][i] < hw
  /\ \A q \in 0..(hw - 1) :
        \/ q \in astray
        \/ (\E k \in 1..Len(f) : f[k] = q) \/ (\E h \in Holder, i \in Bit : s[h][i] = q)
  /\ \A q \in astray : q < hw
  /\ \A h \in Holder, i \in Bit : s[h][i] \notin astray
  /\ \A k \in 1..Len(f) : f[k] \notin astray

\* The bits of r from k on have no qubit.
EmptyFrom(r, k) == \A i \in k..(Width - 1) : reg[r].qubits[i] = Unallocated

\* What is known of a call in progress: it works on an object of its thread.
\* A promotion finds the bits empty that it has still to store in, and so does
\* a relabelling loop if the object does not own what it has.
CallOK(t) ==
  LET c == call[t]
  IN  c # Idle =>
        /\ ThreadOf[c.dst] = t /\ reg[c.dst].live
        /\ \/ c.op \in {"destroy", "assign"} /\ c.phase = "release"
           \/ c.op = "move_assign" /\ c.phase = "release" /\ Peers(c.dst, c.src) /\ reg[c.src].live
           \/ c.op = "ancilla" /\ c.phase \in {"acquire", "release"}
           \/ /\ c.op = "relabel" /\ c.phase \in {"acquire", "relabel"}
              /\ reg[c.dst].owning \/ EmptyFrom(c.dst, IF c.phase = "acquire" THEN 0 ELSE c.bit)
           \/ /\ c.op = "promote" /\ c.phase = "promote" /\ c.tmp = NoQubits
              /\ EmptyFrom(c.dst, c.bit)

\* The inductive invariant.
IInv ==
  /\ TypeOK
  /\ Exact(Slots, free_, high_water_, stray)
  /\ \A t \in Thread : CallOK(t)
  /\ in_use_ + Len(free_) = high_water_

-----------------------------------------------------------------------------
(* The ways. *)

\* The pool hands out the qubit at the back of the free list.
LEMMA TakeRecycled ==
  ASSUME NEW s, NEW f, NEW hw, NEW astray, NEW h \in Holder, NEW i \in Bit, Exact(s, f, hw, astray),
         f # <<>>, s[h][i] = Unallocated
  PROVE  Exact([s EXCEPT ![h][i] = f[Len(f)]], SubSeq(f, 1, Len(f) - 1), hw, astray)
<1> DEFINE n == Len(f)  t == [s EXCEPT ![h][i] = f[n]]  g == SubSeq(f, 1, n - 1)
<1>1. n \in Nat \ {0} /\ f[n] \in Nat /\ \A k \in 1..n : f[k] \in Nat
  BY DEF Exact
<1>2. /\ g \in Seq(Nat)
      /\ Len(g) = n - 1
      /\ \A k \in 1..(n - 1) : g[k] = f[k]
  <2>1. 1 \in Int /\ n - 1 \in Int /\ \A k \in 1..(n - 1) : f[k] \in Nat
    BY <1>1
  <2> HIDE DEF n
  <2>2. /\ SubSeq(f, 1, n - 1) \in Seq(Nat)
        /\ Len(SubSeq(f, 1, n - 1)) = IF 1 <= n - 1 THEN n - 1 - 1 + 1 ELSE 0
        /\ \A k \in 1..(n - 1 - 1 + 1) : SubSeq(f, 1, n - 1)[k] = f[1 + k - 1]
    BY <2>1, SubSeqProperties
  <2> QED BY <1>1, <2>2
<1>3. t \in Table
  BY <1>1 DEF Exact, Table
<1>4. \A x \in Holder, j \in Bit : t[x][j] = IF x = h /\ j = i THEN f[n] ELSE s[x][j]
  BY DEF Exact, Table
<1> HIDE DEF n, t, g
<1>5. \A x, y \in Holder, j, k \in Bit :
        t[x][j] # Unallocated /\ t[x][j] = t[y][k] => x = y /\ j = k
  <2>1. \A x \in Holder, j \in Bit : s[x][j] # f[n]
    BY <1>1 DEF Exact, n
  <2>2. \A x, y \in Holder, j, k \in Bit :
          s[x][j] # Unallocated /\ s[x][j] = s[y][k] => x = y /\ j = k
    BY DEF Exact
  <2> QED BY <1>4, <2>1, <2>2
<1>6. \A x \in Holder, j \in Bit, k \in 1..Len(g) : t[x][j] # g[k]
  <2> SUFFICES ASSUME NEW x \in Holder, NEW j \in Bit, NEW k \in 1..Len(g)
               PROVE  t[x][j] # g[k]
    OBVIOUS
  <2>1. k \in 1..n /\ k # n /\ g[k] = f[k]
    BY <1>1, <1>2
  <2> QED BY <1>1, <1>4, <2>1 DEF Exact, n
<1>2a. \A k \in 1..Len(g) : k \in 1..Len(f) /\ g[k] = f[k]
  BY <1>1, <1>2 DEF n
<1>7. \A j, k \in 1..Len(g) : g[j] = g[k] => j = k
  <2>1. \A j, k \in 1..Len(f) : f[j] = f[k] => j = k
    BY DEF Exact
  <2> QED BY <1>2a, <2>1
<1>8. (\A k \in 1..Len(g) : g[k] < hw) /\ (\A x \in Holder, j \in Bit : t[x][j] < hw)
  <2>1. \A k \in 1..Len(f) : f[k] < hw
    BY DEF Exact
  <2>2. \A x \in Holder, j \in Bit : s[x][j] < hw
    BY DEF Exact
  <2>3. \A k \in 1..Len(g) : g[k] < hw
    BY <1>2a, <2>1
  <2>4. f[n] < hw
    BY <1>1, <2>1 DEF n
  <2> QED BY <1>4, <2>2, <2>3, <2>4
<1>9. \A q \in 0..(hw - 1) :
        \/ q \in astray
        \/ (\E k \in 1..Len(g) : g[k] = q) \/ (\E x \in Holder, j \in Bit : t[x][j] = q)
  <2> SUFFICES ASSUME NEW q \in 0..(hw - 1)
               PROVE  \/ q \in astray
                      \/ (\E k \in 1..Len(g) : g[k] = q) \/ (\E x \in Holder, j \in Bit : t[x][j] = q)
    OBVIOUS
  <2>1. CASE \E k \in 1..n : f[k] = q
    BY <1>1, <1>2, <1>4, <2>1
  <2>2. CASE \E x \in Holder, j \in Bit : s[x][j] = q
    BY <1>1, <1>4, <2>2 DEF Unallocated
  <2> QED BY <2>1, <2>2 DEF Exact, n
<1>10. /\ \A x \in Holder, j \in Bit : t[x][j] \notin astray
       /\ \A k \in 1..Len(g) : g[k] \notin astray
  <2>1. f[n] \notin astray
    BY <1>1 DEF Exact, n
  <2>2. \A x \in Holder, j \in Bit : s[x][j] \notin astray
    BY DEF Exact
  <2>3. \A k \in 1..Len(f) : f[k] \notin astray
    BY DEF Exact
  <2>4. \A x \in Holder, j \in Bit : t[x][j] \notin astray
    BY <1>4, <2>1, <2>2
  <2> QED BY <1>2a, <2>3, <2>4
<1>11. hw \in Nat /\ astray \in SUBSET Nat /\ \A q \in astray : q < hw
  BY DEF Exact
<1> QED BY <1>2, <1>3, <1>5, <1>6, <1>7, <1>8, <1>9, <1>10, <1>11 DEF Exact, t, g, n

\* The pool issues an index nobody has seen.
LEMMA TakeFresh ==
  ASSUME NEW s, NEW f, NEW hw, NEW astray, NEW h \in Holder, NEW i \in Bit, Exact(s, f, hw, astray),
         f = <<>>, s[h][i] = Unallocated
  PROVE  Exact([s EXCEPT ![h][i] = hw], f, hw + 1, astray)
<1> DEFINE t == [s EXCEPT ![h][i] = hw]
<1>1. t \in Table
  BY DEF Exact, Table
<1>2. \A x \in Holder, j \in Bit : t[x][j] = IF x = h /\ j = i THEN hw ELSE s[x][j]
  BY DEF Exact, Table
<1>3. \A x \in Holder, j \in Bit : s[x][j] \in Nat \cup {Unallocated} /\ s[x][j] < hw
  BY DEF Exact, Table
<1> HIDE DEF t
<1>4. \A x, y \in Holder, j, k \in Bit :
        t[x][j] # Unallocated /\ t[x][j] = t[y][k] => x = y /\ j = k
  BY <1>2, <1>3 DEF Exact
<1>5. \A x \in Holder, j \in Bit : t[x][j] < hw + 1
  BY <1>2, <1>3 DEF Exact, Unallocated
<1>6. \A q \in 0..hw : q \in astray \/ \E x \in Holder, j \in Bit : t[x][j] = q
  BY <1>2, <1>3 DEF Exact, Unallocated
<1>7. /\ hw \in Nat /\ astray \in SUBSET Nat /\ \A q \in astray : q < hw + 1
      /\ \A x \in Holder, j \in Bit : t[x][j] \notin astray
  <2>1. hw \in Nat /\ astray \in SUBSET Nat /\ \A q \in astray : q < hw
    BY DEF Exact
  <2>2. \A x \in Holder, j \in Bit : s[x][j] \notin astray
    BY DEF Exact
  <2>3. hw \notin astray /\ \A q \in astray : q < hw + 1
    BY <2>1
  <2> QED BY <1>2, <2>1, <2>2, <2>3
<1>8. \A x \in Holder, j \in Bit, k \in 1..Len(f) : t[x][j] # f[k]
  BY DEF Exact
<1> QED BY <1>1, <1>2, <1>4, <1>5, <1>6, <1>7, <1>8 DEF Exact, t

\* A qubit goes to the back of the free list.
LEMMA GiveBack ==
  ASSUME NEW s, NEW f, NEW hw, NEW astray, NEW h \in Holder, NEW i \in Bit, Exact(s, f, hw, astray),
         s[h][i] # Unallocated
  PROVE  Exact([s EXCEPT ![h][i] = Unallocated], Append(f, s[h][i]), hw, astray)
<1> DEFINE q == s[h][i]  t == [s EXCEPT ![h][i] = Unallocated]  g == Append(f, q)
<1>1. q \in Nat /\ q < hw /\ Len(f) \in Nat /\ hw \in Nat
  BY DEF Exact, Table
<1>2. /\ g \in Seq(Nat)
      /\ Len(g) = Len(f) + 1
      /\ \A k \in 1..(Len(f) + 1) : g[k] = IF k = Len(f) + 1 THEN q ELSE f[k]
  BY <1>1 DEF Exact
<1>3. t \in Table
  BY DEF Exact, Table
<1>4. \A x \in Holder, j \in Bit : t[x][j] = IF x = h /\ j = i THEN Unallocated ELSE s[x][j]
  BY DEF Exact, Table
<1>5. \A x \in Holder, j \in Bit : s[x][j] = q => x = h /\ j = i
  BY <1>1 DEF Exact, Unallocated
<1>6. \A k \in 1..Len(f) : f[k] # q
  BY DEF Exact
<1> HIDE DEF q, t, g
<1>7. \A x, y \in Holder, j, k \in Bit :
        t[x][j] # Unallocated /\ t[x][j] = t[y][k] => x = y /\ j = k
  BY <1>4 DEF Exact
<1>8. \A x \in Holder, j \in Bit, k \in 1..Len(g) : t[x][j] # g[k]
  <2> SUFFICES ASSUME NEW x \in Holder, NEW j \in Bit, NEW k \in 1..Len(g)
               PROVE  t[x][j] # g[k]
    OBVIOUS
  <2>1. g[k] \in Nat
    BY <1>1, <1>2
  <2>2. CASE k = Len(f) + 1
    BY <1>1, <1>2, <1>4, <1>5, <2>1, <2>2 DEF Unallocated
  <2>3. CASE k # Len(f) + 1
    BY <1>1, <1>2, <1>4, <2>1, <2>3 DEF Exact, Unallocated
  <2> QED BY <2>2, <2>3
<1>2a. \A k \in 1..Len(g) : \/ k = Len(f) + 1 /\ g[k] = q
                            \/ k \in 1..Len(f) /\ g[k] = f[k]
  BY <1>1, <1>2
<1>9. \A j, k \in 1..Len(g) : g[j] = g[k] => j = k
  BY <1>2a, <1>6 DEF Exact
<1>10. \A k \in 1..Len(g) : g[k] < hw
  BY <1>1, <1>2a DEF Exact
<1>11. \A x \in Holder, j \in Bit : t[x][j] < hw
  BY <1>1, <1>4 DEF Exact, Unallocated
<1>12. \A r \in 0..(hw - 1) :
        \/ r \in astray
        \/ (\E k \in 1..Len(g) : g[k] = r) \/ (\E x \in Holder, j \in Bit : t[x][j] = r)
  <2> SUFFICES ASSUME NEW r \in 0..(hw - 1)
               PROVE  \/ r \in astray
                      \/ (\E k \in 1..Len(g) : g[k] = r) \/ (\E x \in Holder, j \in Bit : t[x][j] = r)
    OBVIOUS
  <2>1. CASE \E k \in 1..Len(f) : f[k] = r
    BY <1>1, <1>2, <2>1
  <2>2. CASE \E x \in Holder, j \in Bit : s[x][j] = r /\ s[x][j] # q
    BY <1>4, <2>2 DEF q
  <2>3. CASE r = q
    BY <1>1, <1>2, <2>3
  <2> QED BY <2>1, <2>2, <2>3 DEF Exact
<1>13. /\ astray \in SUBSET Nat /\ \A r \in astray : r < hw
       /\ \A x \in Holder, j \in Bit : t[x][j] \notin astray
       /\ \A k \in 1..Len(g) : g[k] \notin astray
  <2>1. q \notin astray /\ Unallocated \notin astray
    BY DEF Exact, q, Unallocated
  <2>2. astray \in SUBSET Nat /\ \A r \in astray : r < hw
    BY DEF Exact
  <2>3. \A x \in Holder, j \in Bit : s[x][j] \notin astray
    BY DEF Exact
  <2>4. \A k \in 1..Len(f) : f[k] \notin astray
    BY DEF Exact
  <2>5. \A x \in Holder, j \in Bit : t[x][j] \notin astray
    BY <1>4, <2>1, <2>3
  <2> QED BY <1>2a, <2>1, <2>2, <2>4, <2>5
<1> QED BY <1>1, <1>2, <1>3, <1>7, <1>8, <1>9, <1>10, <1>11, <1>12, <1>13 DEF Exact, t, g, q

\* A qubit moves to an empty slot.
LEMMA MoveOne ==
  ASSUME NEW s, NEW f, NEW hw, NEW astray, NEW g \in Holder, NEW h \in Holder, NEW i \in Bit, NEW j \in Bit,
         Exact(s, f, hw, astray), g # h, s[h][j] = Unallocated
  PROVE  Exact([s EXCEPT ![g][i] = Unallocated, ![h][j] = s[g][i]], f, hw, astray)
<1> DEFINE q == s[g][i]  t == [s EXCEPT ![g][i] = Unallocated, ![h][j] = q]
<1>1. q \in Nat \cup {Unallocated} /\ q < hw /\ hw \in Nat
  BY DEF Exact, Table
<1>2. t \in Table
  BY <1>1 DEF Exact, Table
<1>3. \A x \in Holder, k \in Bit :
        t[x][k] = IF x = g /\ k = i THEN Unallocated
                  ELSE IF x = h /\ k = j THEN q ELSE s[x][k]
  BY DEF Exact, Table
<1>4. \A x \in Holder, k \in Bit : s[x][k] = q /\ q # Unallocated => x = g /\ k = i
  BY DEF Exact
<1>5. \A k \in 1..Len(f) : f[k] \in Nat /\ f[k] # q
  BY DEF Exact
<1> HIDE DEF q, t
<1>6. \A x, y \in Holder, k, l \in Bit :
        t[x][k] # Unallocated /\ t[x][k] = t[y][l] => x = y /\ k = l
  BY <1>3, <1>4 DEF Exact
<1>7. \A x \in Holder, k \in Bit, l \in 1..Len(f) : t[x][k] # f[l]
  BY <1>3, <1>5 DEF Exact, Unallocated
<1>8. \A x \in Holder, k \in Bit : t[x][k] < hw
  BY <1>1, <1>3 DEF Exact, Unallocated
<1>9. \A r \in 0..(hw - 1) :
        \/ r \in astray
        \/ (\E k \in 1..Len(f) : f[k] = r) \/ (\E x \in Holder, k \in Bit : t[x][k] = r)
  <2> SUFFICES ASSUME NEW r \in 0..(hw - 1)
               PROVE  \/ r \in astray
                      \/ (\E k \in 1..Len(f) : f[k] = r) \/ (\E x \in Holder, k \in Bit : t[x][k] = r)
    OBVIOUS
  <2>1. CASE r = q
    BY <1>3, <2>1
  <2>2. CASE r # q
    BY <1>3, <2>2 DEF Exact, Unallocated, q
  <2> QED BY <2>1, <2>2
<1>10. \A x \in Holder, k \in Bit : t[x][k] \notin astray
  <2>1. q \notin astray /\ Unallocated \notin astray
    BY DEF Exact, q, Unallocated
  <2> QED BY <1>3, <2>1 DEF Exact
<1> QED BY <1>2, <1>6, <1>7, <1>8, <1>9, <1>10 DEF Exact, t, q

\* All of a holder's qubits move to a holder that has none.
LEMMA MoveAll ==
  ASSUME NEW s, NEW f, NEW hw, NEW astray, NEW g \in Holder, NEW h \in Holder,
         Exact(s, f, hw, astray), g # h, s[h] = NoQubits
  PROVE  Exact([s EXCEPT ![g] = NoQubits, ![h] = s[g]], f, hw, astray)
<1> DEFINE t == [s EXCEPT ![g] = NoQubits, ![h] = s[g]]
<1>1. t \in Table
  BY DEF Exact, Table, NoQubits
<1>2. \A x \in Holder, k \in Bit :
        t[x][k] = IF x = g THEN Unallocated ELSE IF x = h THEN s[g][k] ELSE s[x][k]
  BY DEF Exact, Table, NoQubits
<1>3. \A k \in Bit : s[h][k] = Unallocated
  BY DEF NoQubits
<1> HIDE DEF t
<1>4. \A x, y \in Holder, k, l \in Bit :
        t[x][k] # Unallocated /\ t[x][k] = t[y][l] => x = y /\ k = l
  BY <1>2 DEF Exact
<1>5. \A x \in Holder, k \in Bit, l \in 1..Len(f) : t[x][k] # f[l]
  BY <1>2 DEF Exact, Unallocated
<1>6. \A x \in Holder, k \in Bit : t[x][k] < hw
  BY <1>2 DEF Exact, Unallocated
<1>7. \A r \in 0..(hw - 1) :
        \/ r \in astray
        \/ (\E k \in 1..Len(f) : f[k] = r) \/ (\E x \in Holder, k \in Bit : t[x][k] = r)
  BY <1>2, <1>3 DEF Exact, Unallocated
<1>8. \A x \in Holder, k \in Bit : t[x][k] \notin astray
  BY <1>2 DEF Exact, Unallocated
<1> QED BY <1>1, <1>4, <1>5, <1>6, <1>7, <1>8 DEF Exact, t

\* A qubit goes astray.
LEMMA DropOne ==
  ASSUME NEW s, NEW f, NEW hw, NEW astray, NEW h \in Holder, NEW i \in Bit,
         Exact(s, f, hw, astray), s[h][i] # Unallocated
  PROVE  Exact([s EXCEPT ![h][i] = Unallocated], f, hw, astray \cup {s[h][i]})
<1> DEFINE q == s[h][i]  t == [s EXCEPT ![h][i] = Unallocated]
<1>1. q \in Nat /\ q < hw /\ hw \in Nat
  BY DEF Exact, Table
<1>2. t \in Table
  BY DEF Exact, Table
<1>3. \A x \in Holder, j \in Bit : t[x][j] = IF x = h /\ j = i THEN Unallocated ELSE s[x][j]
  BY DEF Exact, Table
<1>4. \A x \in Holder, j \in Bit : s[x][j] = q => x = h /\ j = i
  BY <1>1 DEF Exact, Unallocated
<1>5. \A k \in 1..Len(f) : f[k] \in Nat /\ f[k] # q
  BY DEF Exact
<1> HIDE DEF q, t
<1>6. \A x, y \in Holder, j, k \in Bit :
        t[x][j] # Unallocated /\ t[x][j] = t[y][k] => x = y /\ j = k
  BY <1>3 DEF Exact
<1>7. \A x \in Holder, j \in Bit, k \in 1..Len(f) : t[x][j] # f[k]
  BY <1>3, <1>5 DEF Exact, Unallocated
<1>8. \A x \in Holder, j \in Bit : t[x][j] < hw
  BY <1>1, <1>3 DEF Exact, Unallocated
<1>9. \A r \in 0..(hw - 1) :
        \/ r \in astray \cup {q}
        \/ (\E k \in 1..Len(f) : f[k] = r) \/ (\E x \in Holder, j \in Bit : t[x][j] = r)
  <2> SUFFICES ASSUME NEW r \in 0..(hw - 1), r # q
               PROVE  \/ r \in astray
                      \/ (\E k \in 1..Len(f) : f[k] = r) \/ (\E x \in Holder, j \in Bit : t[x][j] = r)
    OBVIOUS
  <2> QED BY <1>3 DEF Exact, q
<1>10. /\ astray \cup {q} \in SUBSET Nat /\ \A r \in astray \cup {q} : r < hw
       /\ \A x \in Holder, j \in Bit : t[x][j] \notin astray \cup {q}
       /\ \A k \in 1..Len(f) : f[k] \notin astray \cup {q}
  <2>1. Unallocated \notin astray \cup {q}
    BY <1>1 DEF Exact, Unallocated
  <2> QED BY <1>1, <1>3, <1>4, <1>5, <2>1 DEF Exact
<1> QED BY <1>2, <1>6, <1>7, <1>8, <1>9, <1>10 DEF Exact, t, q

-----------------------------------------------------------------------------
(* Type correctness. *)

\* The pool's operations keep its type, and hand out natural numbers.
LEMMA PoolTypes ==
  ASSUME PoolTypeOK
  PROVE  /\ \A idx : Allocate(idx) => PoolTypeOK' /\ idx \in Nat
         /\ \A idx \in Nat : Release(idx) => PoolTypeOK'
<1>1. ASSUME NEW idx, AllocateRecycled(idx)
      PROVE  PoolTypeOK' /\ idx \in Nat
  <2>1. Len(free_) \in Nat \ {0} /\ \A k \in 1..Len(free_) : free_[k] \in Nat
    BY <1>1 DEF AllocateRecycled, PoolTypeOK
  <2>2. SubSeq(free_, 1, Len(free_) - 1) \in Seq(Nat)
    BY <2>1, SubSeqProperties
  <2> QED BY <1>1, <2>1, <2>2 DEF AllocateRecycled, PoolTypeOK
<1>2. ASSUME NEW idx, AllocateFresh(idx)
      PROVE  PoolTypeOK' /\ idx \in Nat
  BY <1>2 DEF AllocateFresh, PoolTypeOK
<1>3. ASSUME NEW idx \in Nat, Release(idx)
      PROVE  PoolTypeOK'
  BY <1>3 DEF Release, PoolTypeOK
<1> QED BY <1>1, <1>2, <1>3 DEF Allocate

\* Every step keeps the type invariant.
LEMMA TypeStep == TypeOK /\ [Next]_vars => TypeOK'
<1> SUFFICES ASSUME TypeOK, [Next]_vars
             PROVE  TypeOK'
  OBVIOUS
<1> USE ThreadOfAssumption, WidthAssumption
<1>1. /\ PoolTypeOK /\ reg \in [Register -> Object] /\ call \in [Thread -> Call \cup {Idle}]
      /\ stray \subseteq Nat
  BY DEF TypeOK
<1>1a. \A r, idx : idx \in Nat \cup {Unallocated} => Astray(r, idx) \subseteq Nat
  BY <1>1 DEF Astray
<1>2. NoQubits \in [Bit -> Nat \cup {Unallocated}]
      /\ Dead \in Object /\ Fresh \in Object /\ MovedFrom \in Object
  BY DEF NoQubits, Dead, Fresh, MovedFrom, Object
<1>3. \A op \in Operation, phase \in Phase, r, s \in Register, tmp \in [Bit -> Nat \cup {Unallocated}] :
        Frame(op, phase, r, s, tmp) \in Call
  BY DEF Frame, Call
<1>4. \A t \in Thread : call[t] # Idle => call[t] \in Call
  BY <1>1
<1>5. ASSUME NEW r \in Register, Construct(r)
      PROVE  TypeOK'
  BY <1>1, <1>2, <1>5 DEF Construct, TypeOK, PoolTypeOK, poolVars
<1>6. ASSUME NEW r \in Register, NEW s \in Register, MoveConstruct(r, s)
      PROVE  TypeOK'
  BY <1>1, <1>2, <1>6 DEF MoveConstruct, TypeOK, PoolTypeOK, poolVars
<1>7. ASSUME NEW r \in Register, NEW s \in Register, MakeNonOwning(r, s)
      PROVE  TypeOK'
  <2>1. [reg[s] EXCEPT !.owning = FALSE] \in Object
    BY <1>1 DEF Object
  <2> QED BY <1>1, <1>7, <2>1 DEF MakeNonOwning, TypeOK, PoolTypeOK, poolVars
<1>8. ASSUME NEW r \in Register, NEW s \in Register, NEW op \in Operation, StartRelease(op, r, s)
      PROVE  TypeOK'
  <2>1. ToRelease(r) \in [Bit -> Nat \cup {Unallocated}]
    BY <1>1, <1>2 DEF ToRelease, Object
  <2>2. Frame(op, "release", r, s, ToRelease(r)) \in Call
    BY <1>3, <2>1 DEF Phase
  <2> QED BY <1>1, <1>8, <2>2 DEF StartRelease, TypeOK, PoolTypeOK, poolVars
<1>9. ASSUME NEW r \in Register, StartAncilla(r) \/ StartRelabel(r) \/ StartPromote(r)
      PROVE  TypeOK'
  <2>1. /\ Frame("ancilla", "acquire", r, r, NoQubits) \in Call
        /\ Frame("relabel", "acquire", r, r, NoQubits) \in Call
        /\ Frame("promote", "promote", r, r, NoQubits) \in Call
    BY <1>2, <1>3 DEF Operation, Phase
  <2>2. PICK c \in Call : /\ call' = [call EXCEPT ![ThreadOf[r]] = c]
                          /\ UNCHANGED <<poolVars, reg, stray>>
    BY <1>9, <2>1 DEF StartAncilla, StartRelabel, StartPromote
  <2> QED BY <1>1, <2>2 DEF TypeOK, PoolTypeOK, poolVars
<1>10. ASSUME NEW r \in Register, NEW i \in Bit, EnsureBit(r, i)
       PROVE  TypeOK'
  <2>1. PICK idx \in Qubit : /\ Allocate(idx) /\ reg' = [reg EXCEPT ![r].qubits[i] = idx]
                             /\ stray' = Astray(r, idx)
    BY <1>10 DEF EnsureBit
  <2>2. PoolTypeOK' /\ idx \in Nat
    BY <1>1, <2>1, PoolTypes
  <2>3. [reg[r] EXCEPT !.qubits[i] = idx] \in Object
    BY <1>1, <2>2 DEF Object
  <2> QED BY <1>1, <1>1a, <1>10, <2>1, <2>2, <2>3 DEF EnsureBit, TypeOK
<1>11. ASSUME NEW t \in Thread, AcquireStep(t)
       PROVE  TypeOK'
  <2> DEFINE c == call[t]
  <2>1. c \in Call /\ c.bit < Width
    BY <1>4, <1>11 DEF AcquireStep, InPhase
  <2>2. PICK idx \in Qubit : /\ Allocate(idx)
                             /\ call' = [call EXCEPT ![t].tmp[c.bit] = idx, ![t].bit = @ + 1]
    BY <1>11 DEF AcquireStep
  <2>3. PoolTypeOK' /\ idx \in Nat
    BY <1>1, <2>2, PoolTypes
  <2>4. c.bit \in 0..Width /\ c.bit + 1 \in 0..Width
    BY <2>1 DEF Call
  <2>5. [c EXCEPT !.tmp[c.bit] = idx, !.bit = @ + 1] \in Call
    BY <2>1, <2>3, <2>4 DEF Call
  <2>6. call' = [call EXCEPT ![t] = [c EXCEPT !.tmp[c.bit] = idx, !.bit = @ + 1]]
    BY <1>1, <2>2
  <2> QED BY <1>1, <1>11, <2>3, <2>5, <2>6 DEF AcquireStep, TypeOK
<1>12. ASSUME NEW t \in Thread, AcquireDone(t)
       PROVE  TypeOK'
  <2> DEFINE c == call[t]
             next == IF c.op = "relabel" THEN "relabel" ELSE "release"
  <2>1. c \in Call /\ next \in Phase
    BY <1>4, <1>12 DEF AcquireDone, InPhase, Phase
  <2>2. [c EXCEPT !.bit = 0, !.phase = next] \in Call
    <3>1. 0 \in 0..Width
      OBVIOUS
    <3> HIDE DEF next, c
    <3> QED BY <2>1, <3>1 DEF Call
  <2>3. call' = [call EXCEPT ![t] = [c EXCEPT !.bit = 0, !.phase = next]]
    BY <1>1, <1>12 DEF AcquireDone
  <2> QED BY <1>1, <1>12, <2>2, <2>3 DEF AcquireDone, TypeOK, PoolTypeOK, poolVars
<1>13. ASSUME NEW t \in Thread, ReleaseStep(t)
       PROVE  TypeOK'
  <2> DEFINE c == call[t]
  <2>1. c \in Call /\ c.bit < Width
    BY <1>4, <1>13 DEF ReleaseStep, InPhase
  <2>2. c.bit \in Bit /\ c.bit + 1 \in 0..Width /\ c.tmp[c.bit] \in Nat \cup {Unallocated}
    BY <2>1 DEF Call, Bit
  <2>3. PoolTypeOK'
    BY <1>1, <1>13, <2>2, PoolTypes DEF ReleaseStep, ReleaseIfAllocated, PoolTypeOK, poolVars
  <2>4. [c EXCEPT !.bit = @ + 1] \in Call
    BY <2>1, <2>2 DEF Call
  <2> QED BY <1>1, <1>13, <2>3, <2>4 DEF ReleaseStep, TypeOK
<1>14. ASSUME NEW t \in Thread, ReleaseDone(t)
       PROVE  TypeOK'
  <2>1. call[t] \in Call /\ call[t].dst \in Register /\ call[t].src \in Register
    BY <1>4, <1>14 DEF ReleaseDone, InPhase, Call
  <2>2. AfterRelease(call[t]) \in [Register -> Object]
    BY <1>1, <1>2, <2>1 DEF AfterRelease
  <2> QED BY <1>1, <1>14, <2>2 DEF ReleaseDone, TypeOK, PoolTypeOK, poolVars
<1>15. ASSUME NEW t \in Thread, RelabelStep(t)
       PROVE  TypeOK'
  <2> DEFINE c == call[t]
  <2>1. c \in Call /\ c.bit < Width
    BY <1>4, <1>15 DEF RelabelStep, InPhase
  <2>2. /\ c.bit \in Bit /\ c.bit + 1 \in 0..Width /\ c.dst \in Register
        /\ c.tmp[c.bit] \in Nat \cup {Unallocated}
    BY <2>1 DEF Call, Bit
  <2>3. reg[c.dst].qubits[c.bit] \in Nat \cup {Unallocated}
    BY <1>1, <2>2 DEF Object
  <2>4. PoolTypeOK'
    BY <1>1, <1>15, <2>3, PoolTypes DEF RelabelStep, ReleaseIfAllocated, PoolTypeOK, poolVars
  <2>5. [c EXCEPT !.bit = @ + 1] \in Call
    BY <2>1, <2>2 DEF Call
  <2>6. [reg[c.dst] EXCEPT !.qubits[c.bit] = c.tmp[c.bit]] \in Object
    BY <1>1, <2>2 DEF Object
  <2> QED BY <1>1, <1>1a, <1>15, <2>2, <2>4, <2>5, <2>6 DEF RelabelStep, TypeOK
<1>16. ASSUME NEW t \in Thread, PromoteStep(t)
       PROVE  TypeOK'
  <2> DEFINE c == call[t]
  <2>1. c \in Call /\ c.bit < Width
    BY <1>4, <1>16 DEF PromoteStep, InPhase
  <2>2. c.bit \in Bit /\ c.bit + 1 \in 0..Width /\ c.dst \in Register
    BY <2>1 DEF Call, Bit
  <2>3. PICK idx \in Qubit : /\ Allocate(idx) /\ reg' = [reg EXCEPT ![c.dst].qubits[c.bit] = idx]
                             /\ stray' = Astray(c.dst, idx)
    BY <1>16 DEF PromoteStep
  <2>4. PoolTypeOK' /\ idx \in Nat
    BY <1>1, <2>3, PoolTypes
  <2>5. [reg[c.dst] EXCEPT !.qubits[c.bit] = idx] \in Object
    BY <1>1, <2>2, <2>4 DEF Object
  <2>6. [c EXCEPT !.bit = @ + 1] \in Call
    BY <2>1, <2>2 DEF Call
  <2> QED BY <1>1, <1>1a, <1>16, <2>2, <2>3, <2>4, <2>5, <2>6 DEF PromoteStep, TypeOK
<1>17. ASSUME NEW t \in Thread, LoopDone(t)
       PROVE  TypeOK'
  BY <1>1, <1>17 DEF LoopDone, TypeOK, PoolTypeOK, poolVars
<1>18. CASE ResetForTestingStep
  BY <1>1, <1>18 DEF ResetForTestingStep, ResetForTesting, TypeOK, PoolTypeOK
<1>19. CASE UNCHANGED vars
  BY <1>1, <1>19 DEF vars, poolVars, TypeOK, PoolTypeOK
<1>20. ASSUME NEW r \in Register, ObjectStep(r)
       PROVE  TypeOK'
  BY <1>5, <1>6, <1>7, <1>8, <1>9, <1>10, <1>20 DEF ObjectStep, Operation
<1>22. ASSUME NEW t \in Thread, CallStep(t)
       PROVE  TypeOK'
  BY <1>11, <1>12, <1>13, <1>14, <1>15, <1>16, <1>17, <1>22 DEF CallStep
<1> QED BY <1>18, <1>19, <1>20, <1>22 DEF Next

\* The program starts with no objects that live, in a fresh pool.
LEMMA InitTypes == Init => TypeOK
  BY WidthAssumption DEF Init, PoolInit, TypeOK, PoolTypeOK, Dead, NoQubits, Object

\* Every state the program reaches has the shape TypeOK gives: the pool never
\* holds a negative index, whatever the objects do.
THEOREM TypeCorrect == Spec => []TypeOK
  BY InitTypes, TypeStep, PTL DEF Spec

-----------------------------------------------------------------------------
(* The table of slots. *)

\* Slots is a table, before and after a step.
LEMMA SlotsTable ==
  /\ TypeOK  => Slots \in Table /\ \A h \in Holder, i \in Bit : Slots[h][i] = Slot(h, i)
  /\ TypeOK' => Slots' \in Table /\ \A h \in Holder, i \in Bit : Slots'[h][i] = Slot(h, i)'
<1>1. ASSUME TypeOK, NEW h \in Holder, NEW i \in Bit
      PROVE  Slot(h, i) \in Nat \cup {Unallocated}
  BY <1>1 DEF TypeOK, Slot, Holder, Object, Call
<1>2. ASSUME TypeOK', NEW h \in Holder, NEW i \in Bit
      PROVE  Slot(h, i)' \in Nat \cup {Unallocated}
  BY <1>2 DEF TypeOK, Slot, Holder, Object, Call
<1>3. /\ \A h \in Holder, i \in Bit : Slots[h][i] = Slot(h, i)
      /\ \A h \in Holder, i \in Bit : Slots'[h][i] = Slot(h, i)'
  BY DEF Slots
<1> QED BY <1>1, <1>2, <1>3 DEF Slots, Table

\* Tables that agree on every slot are equal.
LEMMA TableEqual ==
  ASSUME NEW s \in Table, NEW t \in Table, \A h \in Holder, i \in Bit : s[h][i] = t[h][i]
  PROVE  s = t
<1>1. \A h \in Holder : s[h] = t[h]
  BY DEF Table
<1> QED BY <1>1 DEF Table

\* What every step does: the table stays exact, and the ledger of who holds what
\* sees one of its steps or none.
TableStepOK ==
  /\ Exact(Slots', free_', high_water_', stray')
  /\ Ledger!Step \/ UNCHANGED <<Held, stray>>

\* What the table says about the sets the properties are stated with.
LEMMA HeldSets ==
  ASSUME IInv
  PROVE  /\ \A h \in Holder : Held[h] = {Slots[h][i] : i \in Bit} \ {Unallocated}
         /\ HeldBySomeone = {q \in Nat : \E h \in Holder, i \in Bit : Slots[h][i] = q}
<1>1. Slots \in Table /\ \A h \in Holder, i \in Bit : Slots[h][i] = Slot(h, i)
  BY SlotsTable DEF IInv
<1>2. \A h \in Holder : Held[h] = {Slots[h][i] : i \in Bit} \ {Unallocated}
  BY <1>1 DEF Held
<1>3. HeldBySomeone = UNION {Held[h] : h \in Holder}
  BY DEF HeldBySomeone
<1>4. \A q : q \in HeldBySomeone <=> \E h \in Holder : q \in Held[h]
  BY <1>3
<1> QED BY <1>1, <1>2, <1>4 DEF Table, Unallocated

\* The same, qubit by qubit and after the step too.
LEMMA HeldMembers ==
  /\ Held = [h \in Holder |-> Held[h]] /\ Held' = [h \in Holder |-> Held'[h]]
  /\ \A h \in Holder : (\A q : q \in Held'[h] <=> q \in Held[h]) => Held'[h] = Held[h]
  /\ \A h \in Holder : \A q : q \in Held[h] <=> q # Unallocated /\ \E i \in Bit : Slot(h, i) = q
  /\ \A h \in Holder : \A q : q \in Held'[h] <=> q # Unallocated /\ \E i \in Bit : Slot(h, i)' = q
  BY DEF Held

\* A step that changes no slot and not the pool.
LEMMA SlotsKept ==
  ASSUME IInv, TypeOK', UNCHANGED poolVars, stray' = stray,
         \A h \in Holder, i \in Bit : Slot(h, i)' = Slot(h, i)
  PROVE  TableStepOK
<1>1. Slots' = Slots
  BY SlotsTable, TableEqual DEF IInv
<1>2. Held' = Held
  BY HeldMembers
<1> QED BY <1>1, <1>2 DEF TableStepOK, IInv, poolVars

\* What the pool hands out nobody has, and an empty slot may have it.
LEMMA SlotTakes ==
  ASSUME IInv, NEW g \in Holder, NEW j \in Bit, NEW idx \in Qubit, Allocate(idx),
         Slot(g, j) = Unallocated
  PROVE  /\ idx \in Nat /\ idx \in Ledger!Available
         /\ Exact([Slots EXCEPT ![g][j] = idx], free_', high_water_', stray)
<1>1. idx \in Nat
  BY PoolTypes DEF IInv, TypeOK
<1>2. Slots[g][j] = Unallocated
  BY SlotsTable DEF IInv
<1>3. CASE AllocateRecycled(idx)
  <2>1. /\ free_ # <<>> /\ idx = free_[Len(free_)] /\ high_water_' = high_water_
        /\ free_' = SubSeq(free_, 1, Len(free_) - 1)
    BY <1>3 DEF AllocateRecycled
  <2>2. Exact([Slots EXCEPT ![g][j] = free_[Len(free_)]], SubSeq(free_, 1, Len(free_) - 1), high_water_, stray)
    BY <1>2, <2>1, TakeRecycled DEF IInv
  <2>3. Exact([Slots EXCEPT ![g][j] = idx], free_', high_water_', stray)
    BY <2>1, <2>2
  <2>4. idx \notin stray /\ \A h \in Holder, i \in Bit : Slots[h][i] # idx
    BY <2>1 DEF IInv, Exact
  <2> QED BY <1>1, <2>3, <2>4, HeldSets DEF Ledger!Available, Ledger!HeldBySomeone, HeldBySomeone
<1>4. CASE AllocateFresh(idx)
  <2>1. free_ = <<>> /\ idx = high_water_ /\ high_water_' = high_water_ + 1 /\ free_' = free_
    BY <1>4 DEF AllocateFresh
  <2>2. Exact([Slots EXCEPT ![g][j] = high_water_], free_, high_water_ + 1, stray)
    BY <1>2, <2>1, TakeFresh DEF IInv
  <2>3. Exact([Slots EXCEPT ![g][j] = idx], free_', high_water_', stray)
    BY <2>1, <2>2
  <2>4. idx \notin stray /\ \A h \in Holder, i \in Bit : Slots[h][i] # idx
    BY <2>1 DEF IInv, Exact
  <2> QED BY <1>1, <2>3, <2>4, HeldSets DEF Ledger!Available, Ledger!HeldBySomeone, HeldBySomeone
<1> QED BY <1>3, <1>4 DEF Allocate

\* A step in which an empty slot takes what the pool hands out.
LEMMA SlotsTake ==
  ASSUME IInv, TypeOK', stray' = stray, NEW g \in Holder, NEW j \in Bit, NEW idx \in Qubit, Allocate(idx),
         Slot(g, j) = Unallocated,
         \A h \in Holder, i \in Bit : Slot(h, i)' = IF h = g /\ i = j THEN idx ELSE Slot(h, i)
  PROVE  TableStepOK
<1> DEFINE s == [Slots EXCEPT ![g][j] = idx]
<1>1. /\ idx \in Nat /\ idx \in Ledger!Available
      /\ Exact(s, free_', high_water_', stray)
  BY SlotTakes
<1>2. Slots \in Table /\ Slots' \in Table /\ s \in Table
  BY <1>1, SlotsTable DEF IInv, Table
<1>3. \A h \in Holder, i \in Bit : s[h][i] = IF h = g /\ i = j THEN idx ELSE Slots[h][i]
  BY <1>2 DEF Table
<1>4. Slots' = s
  <2> HIDE DEF s
  <2> QED BY <1>2, <1>3, SlotsTable, TableEqual DEF IInv
<1>5. Ledger!Take(g, idx)
  <2>1. \A h \in Holder : Held'[h] = IF h = g THEN Held[h] \cup {idx} ELSE Held[h]
    <3>1. \A q : q \in Held'[g] <=> q \in Held[g] \cup {idx}
      BY <1>1, HeldMembers DEF Unallocated
    <3>2. \A h \in Holder \ {g} : \A q : q \in Held'[h] <=> q \in Held[h]
      BY HeldMembers
    <3>3. Held'[g] = Held[g] \cup {idx}
      BY <3>1
    <3> QED BY <3>2, <3>3, HeldMembers
  <2>2. Held' = [Held EXCEPT ![g] = @ \cup {idx}]
    BY <2>1, HeldMembers
  <2> QED BY <2>2 DEF Ledger!Take
<1>6. Ledger!Step
  BY <1>1, <1>5 DEF Ledger!Step
<1> QED BY <1>1, <1>4, <1>6 DEF TableStepOK

\* A step in which what the pool hands out goes astray.
LEMMA SlotsLose ==
  ASSUME IInv, TypeOK', NEW g \in Holder, NEW j \in Bit, NEW idx \in Qubit, Allocate(idx),
         Slot(g, j) = Unallocated, stray' = stray \cup {idx},
         \A h \in Holder, i \in Bit : Slot(h, i)' = Slot(h, i)
  PROVE  TableStepOK
<1> DEFINE s == [Slots EXCEPT ![g][j] = idx]  t == [s EXCEPT ![g][j] = Unallocated]
<1>1. /\ idx \in Nat /\ idx \in Ledger!Available
      /\ Exact(s, free_', high_water_', stray)
  BY SlotTakes
<1>2. Slots \in Table /\ Slots' \in Table /\ s \in Table
  BY <1>1, SlotsTable DEF IInv, Table
<1>3. \A h \in Holder, i \in Bit : s[h][i] = IF h = g /\ i = j THEN idx ELSE Slots[h][i]
  BY <1>2 DEF Table
<1> HIDE DEF s
<1>4. s[g][j] = idx /\ idx # Unallocated
  BY <1>1, <1>3 DEF Unallocated
<1>5. Exact(t, free_', high_water_', stray \cup {idx})
  BY <1>1, <1>4, DropOne
<1>6. t \in Table /\ \A h \in Holder, i \in Bit : t[h][i] = IF h = g /\ i = j THEN Unallocated ELSE s[h][i]
  BY <1>2 DEF Table
<1>7. Slots' = t
  <2> HIDE DEF t
  <2>1. \A h \in Holder, i \in Bit : Slots'[h][i] = t[h][i]
    BY <1>3, <1>6, SlotsTable DEF IInv
  <2> QED BY <1>2, <1>6, <2>1, TableEqual
<1>8. Held' = Held
  BY HeldMembers
<1>9. Ledger!Step
  BY <1>1, <1>8 DEF Ledger!Step, Ledger!Lose
<1> QED BY <1>5, <1>7, <1>9 DEF TableStepOK

\* A step in which a slot's qubit, if any, goes astray.
LEMMA SlotsDrop ==
  ASSUME IInv, TypeOK', UNCHANGED poolVars, NEW g \in Holder, NEW j \in Bit,
         stray' = IF Slot(g, j) = Unallocated THEN stray ELSE stray \cup {Slot(g, j)},
         \A h \in Holder, i \in Bit :
           Slot(h, i)' = IF h = g /\ i = j THEN Unallocated ELSE Slot(h, i)
  PROVE  TableStepOK
<1> DEFINE s == [Slots EXCEPT ![g][j] = Unallocated]
<1>1. Slots \in Table /\ Slots' \in Table /\ s \in Table
  BY SlotsTable DEF IInv, Table
<1>2. \A h \in Holder, i \in Bit : s[h][i] = IF h = g /\ i = j THEN Unallocated ELSE Slots[h][i]
  BY <1>1 DEF Table
<1>3. Slots' = s
  <2> HIDE DEF s
  <2> QED BY <1>1, <1>2, SlotsTable, TableEqual DEF IInv
<1>4. Slots[g][j] = Slot(g, j)
  BY SlotsTable DEF IInv
<1>5. CASE Slot(g, j) = Unallocated
  <2>1. \A h \in Holder, i \in Bit : Slot(h, i)' = Slot(h, i)
    BY <1>5
  <2> QED BY <1>5, <2>1, SlotsKept
<1>6. CASE Slot(g, j) # Unallocated
  <2>1. stray' = stray \cup {Slots[g][j]} /\ free_' = free_ /\ high_water_' = high_water_
    BY <1>4, <1>6 DEF poolVars
  <2>2. Exact(s, free_, high_water_, stray \cup {Slots[g][j]})
    BY <1>4, <1>6, DropOne DEF IInv
  <2>3. Exact(Slots', free_', high_water_', stray')
    BY <1>3, <2>1, <2>2
  <2>4. Ledger!Drop(g, Slot(g, j)) /\ Slot(g, j) \in Held[g]
    <3>1. \A i \in Bit : Slot(g, i) = Slot(g, j) => i = j
      BY <1>6, SlotsTable DEF IInv, Exact
    <3>2. \A h \in Holder : Held'[h] = IF h = g THEN Held[h] \ {Slot(g, j)} ELSE Held[h]
      <4>1. \A q : q \in Held'[g] <=> q \in Held[g] \ {Slot(g, j)}
        BY <1>6, <3>1, HeldMembers
      <4>2. \A h \in Holder \ {g} : \A q : q \in Held'[h] <=> q \in Held[h]
        BY HeldMembers
      <4>3. Held'[g] = Held[g] \ {Slot(g, j)}
        BY <4>1
      <4> QED BY <4>2, <4>3, HeldMembers
    <3>3. Held' = [Held EXCEPT ![g] = @ \ {Slot(g, j)}]
      BY <3>2, HeldMembers
    <3> QED BY <1>6, <3>3, HeldMembers DEF Ledger!Drop
  <2>5. Ledger!Step
    BY <2>4 DEF Ledger!Step
  <2> QED BY <2>3, <2>5 DEF TableStepOK
<1> QED BY <1>5, <1>6

\* A step in which a slot's qubit, if any, is released.
LEMMA SlotsGive ==
  ASSUME IInv, TypeOK', stray' = stray, NEW g \in Holder, NEW j \in Bit, ReleaseIfAllocated(Slot(g, j)),
         \A h \in Holder, i \in Bit :
           Slot(h, i)' = IF h = g /\ i = j THEN Unallocated ELSE Slot(h, i)
  PROVE  TableStepOK
<1> DEFINE s == [Slots EXCEPT ![g][j] = Unallocated]
<1>1. Slots \in Table /\ Slots' \in Table /\ s \in Table
  BY SlotsTable DEF IInv, Table
<1>2. \A h \in Holder, i \in Bit : s[h][i] = IF h = g /\ i = j THEN Unallocated ELSE Slots[h][i]
  BY <1>1 DEF Table
<1>3. Slots' = s
  <2> HIDE DEF s
  <2> QED BY <1>1, <1>2, SlotsTable, TableEqual DEF IInv
<1>4. Slots[g][j] = Slot(g, j)
  BY SlotsTable DEF IInv
<1>5. CASE Slot(g, j) = Unallocated
  BY <1>5, SlotsKept DEF ReleaseIfAllocated
<1>6. CASE Slot(g, j) # Unallocated
  <2>1. free_' = Append(free_, Slots[g][j]) /\ high_water_' = high_water_
    BY <1>4, <1>6 DEF ReleaseIfAllocated, Release
  <2>2. Exact([Slots EXCEPT ![g][j] = Unallocated], Append(free_, Slots[g][j]), high_water_, stray)
    BY <1>4, <1>6, GiveBack DEF IInv
  <2>3. Exact(Slots', free_', high_water_', stray')
    BY <1>3, <2>1, <2>2
  <2>4. Ledger!Give(g, Slot(g, j))
    <3>1. \A i \in Bit : Slot(g, i) = Slot(g, j) => i = j
      BY <1>6, SlotsTable DEF IInv, Exact
    <3>2. \A h \in Holder : Held'[h] = IF h = g THEN Held[h] \ {Slot(g, j)} ELSE Held[h]
      <4>1. \A q : q \in Held'[g] <=> q \in Held[g] \ {Slot(g, j)}
        BY <1>6, <3>1, HeldMembers
      <4>2. \A h \in Holder \ {g} : \A q : q \in Held'[h] <=> q \in Held[h]
        BY HeldMembers
      <4>3. Held'[g] = Held[g] \ {Slot(g, j)}
        BY <4>1
      <4> QED BY <4>2, <4>3, HeldMembers
    <3>3. Held' = [Held EXCEPT ![g] = @ \ {Slot(g, j)}]
      BY <3>2, HeldMembers
    <3> QED BY <1>6, <3>3, HeldMembers DEF Ledger!Give
  <2>5. Ledger!Step
    BY <2>4 DEF Ledger!Step, Ledger!Give
  <2> QED BY <2>3, <2>5 DEF TableStepOK
<1> QED BY <1>5, <1>6

\* A step in which everything a holder has goes to a holder that has nothing.
LEMMA SlotsMove ==
  ASSUME IInv, TypeOK', UNCHANGED poolVars, stray' = stray, NEW g \in Holder, NEW k \in Holder, g # k,
         \A i \in Bit : Slot(k, i) = Unallocated,
         \A h \in Holder, i \in Bit :
           Slot(h, i)' = IF h = g THEN Unallocated ELSE IF h = k THEN Slot(g, i) ELSE Slot(h, i)
  PROVE  TableStepOK
<1> DEFINE s == [Slots EXCEPT ![g] = NoQubits, ![k] = Slots[g]]
<1>1. Slots \in Table /\ Slots' \in Table /\ s \in Table
  BY SlotsTable DEF IInv, Table, NoQubits
<1>2. \A h \in Holder, i \in Bit :
        s[h][i] = IF h = g THEN Unallocated ELSE IF h = k THEN Slots[g][i] ELSE Slots[h][i]
  BY <1>1 DEF Table, NoQubits
<1>3. Slots' = s
  <2> HIDE DEF s
  <2> QED BY <1>1, <1>2, SlotsTable, TableEqual DEF IInv
<1>4. Slots[k] = NoQubits
  BY <1>1, SlotsTable DEF IInv, Table, NoQubits
<1>5. Exact(s, free_, high_water_, stray)
  BY <1>4, MoveAll DEF IInv
<1>6. Ledger!Pass(g, k, Held[g])
  <2>1. \A h \in Holder : Held'[h] = IF h = g THEN Held[g] \ Held[g]
                                     ELSE IF h = k THEN Held[k] \cup Held[g] ELSE Held[h]
    BY HeldMembers
  <2>2. Held' = [Held EXCEPT ![g] = @ \ Held[g], ![k] = @ \cup Held[g]]
    BY <2>1, HeldMembers
  <2> QED BY <2>2 DEF Ledger!Pass
<1>7. CASE Held[g] # {}
  <2>1. Held[g] \in (SUBSET Held[g]) \ {{}}
    <3>1. \A qubits : qubits # {} => qubits \in (SUBSET qubits) \ {{}}
      OBVIOUS
    <3> QED BY <1>7, <3>1, Zenon
  <2>2. Ledger!Step
    BY <1>6, <2>1 DEF Ledger!Step
  <2> QED BY <1>3, <1>5, <2>2 DEF poolVars, TableStepOK
<1>8. CASE Held[g] = {}
  <2>1. Held' = Held
    BY <1>6, <1>8, HeldMembers DEF Ledger!Pass
  <2> QED BY <1>3, <1>5, <2>1 DEF poolVars, TableStepOK
<1> QED BY <1>7, <1>8

\* What the ledger sees when g's qubit at position j replaces k's.
LEMMA LedgerSwap ==
  ASSUME stray' = stray, NEW g \in Holder, NEW k \in Holder, g # k, NEW j \in Bit, NEW old, NEW new,
         Slot(k, j) = old, Slot(g, j) = new,
         \A i \in Bit : Slot(k, i) = old /\ old # Unallocated => i = j,
         \A i \in Bit : Slot(g, i) = new /\ new # Unallocated => i = j,
         \A h \in Holder, i \in Bit :
           Slot(h, i)' = IF h = g /\ i = j THEN Unallocated ELSE IF h = k /\ i = j THEN new ELSE Slot(h, i)
  PROVE  Ledger!Step \/ UNCHANGED <<Held, stray>>
<1>1. \A q : q \in Held'[g] <=> q \in Held[g] /\ q # new
  <2>1. \A i \in Bit : Slot(g, i)' = IF i = j THEN Unallocated ELSE Slot(g, i)
    OBVIOUS
  <2> QED BY <2>1, HeldMembers
<1>2. \A q : q \in Held'[k] <=> (q \in Held[k] /\ q # old) \/ (q = new /\ q # Unallocated)
  <2>1. \A i \in Bit : Slot(k, i)' = IF i = j THEN new ELSE Slot(k, i)
    OBVIOUS
  <2> QED BY <2>1, HeldMembers
<1>3. \A h \in Holder \ {g, k} : Held'[h] = Held[h]
  <2>1. \A h \in Holder \ {g, k} : \A q : q \in Held'[h] <=> q \in Held[h]
    BY HeldMembers
  <2> QED BY <2>1, HeldMembers
<1>4. /\ old # Unallocated => old \in Held[k]
      /\ new # Unallocated => new \in Held[g]
      /\ Unallocated \notin Held[k] /\ Unallocated \notin Held[g]
  BY HeldMembers
<1>5. CASE new = Unallocated /\ old = Unallocated
  <2>1. \A h \in Holder : Held'[h] = Held[h]
    BY <1>1, <1>2, <1>3, <1>4, <1>5
  <2> QED BY <2>1, HeldMembers
<1>6. CASE new = Unallocated /\ old # Unallocated
  <2>1. \A h \in Holder : Held'[h] = IF h = k THEN Held[k] \ {old} ELSE Held[h]
    BY <1>1, <1>2, <1>3, <1>4, <1>6
  <2>2. Held' = [Held EXCEPT ![k] = @ \ {old}]
    BY <2>1, HeldMembers
  <2> QED BY <1>4, <1>6, <2>2 DEF Ledger!Step, Ledger!Give
<1>7. CASE new # Unallocated /\ old = Unallocated
  <2>1. \A h \in Holder : Held'[h] = IF h = g THEN Held[g] \ {new}
                         ELSE IF h = k THEN Held[k] \cup {new} ELSE Held[h]
    BY <1>1, <1>2, <1>3, <1>4, <1>7
  <2>2. Held' = [Held EXCEPT ![g] = @ \ {new}, ![k] = @ \cup {new}]
    BY <2>1, HeldMembers
  <2>3. new \in Held[g] /\ Ledger!Pass(g, k, {new})
    BY <1>4, <1>7, <2>2 DEF Ledger!Pass
  <2>4. {new} \in (SUBSET Held[g]) \ {{}}
    BY <2>3
  <2> QED BY <2>3, <2>4 DEF Ledger!Step
<1>8. CASE new # Unallocated /\ old # Unallocated
  <2>1. \A h \in Holder : Held'[h] = IF h = g THEN Held[g] \ {new}
                         ELSE IF h = k THEN (Held[k] \ {old}) \cup {new} ELSE Held[h]
    <3>1. Held'[g] = Held[g] \ {new}
      BY <1>1
    <3>2. Held'[k] = (Held[k] \ {old}) \cup {new}
      BY <1>2, <1>8
    <3> QED BY <1>3, <3>1, <3>2
  <2>2. Held' = [Held EXCEPT ![g] = @ \ {new}, ![k] = (@ \ {old}) \cup {new}]
    BY <2>1, HeldMembers
  <2>3. Ledger!Relabel(g, k, old, new)
    BY <1>4, <1>8, <2>2 DEF Ledger!Relabel
  <2> QED BY <1>4, <1>8, <2>3 DEF Ledger!Step
<1> QED BY <1>5, <1>6, <1>7, <1>8

-----------------------------------------------------------------------------
(* Every step keeps the table exact.  In each case below the slots after    *)
(* the step are computed from the definition of Slot.                       *)

\* After a step, the table of the step's slots and pool is meant.
LEMMA Primed == Exact(Slots, free_, high_water_, stray)' <=> Exact(Slots', free_', high_water_', stray')
  BY DEF Exact

\* Every step keeps the table exact.
LEMMA TableStep == IInv /\ TypeOK' /\ [Next]_vars => TableStepOK
<1> SUFFICES ASSUME IInv, TypeOK', [Next]_vars
             PROVE  TableStepOK
  OBVIOUS
<1> USE ThreadOfAssumption, WidthAssumption, HolderAssumption DEF Holder
<1>1. PoolTypeOK /\ reg \in [Register -> Object] /\ call \in [Thread -> Call \cup {Idle}]
  BY DEF IInv, TypeOK
<1>2. \A t \in Thread : call[t] # Idle => call[t] \in Call /\ CallOK(t)
  BY <1>1 DEF IInv
<1>3. \A op \in Operation, phase \in Phase, r, s \in Register, tmp \in [Bit -> Nat \cup {Unallocated}] :
        Frame(op, phase, r, s, tmp) # Idle
  BY IdleAssumption DEF Frame, Call
<1>4. \A i \in Bit : NoQubits[i] = Unallocated
  BY DEF NoQubits
<1>5. ASSUME NEW r \in Register, Construct(r)
      PROVE  TableStepOK
  <2>1. \A h \in Holder, i \in Bit : Slot(h, i)' = Slot(h, i)
    BY <1>1, <1>4, <1>5 DEF Construct, Slot, Owns, BeingReleased, Ready, Fresh
  <2> QED BY <1>5, <2>1, SlotsKept DEF Construct
<1>6. ASSUME NEW r \in Register, NEW s \in Register, MoveConstruct(r, s)
      PROVE  TableStepOK
  <2>1. \A i \in Bit : Slot(r, i) = Unallocated
    BY <1>6 DEF MoveConstruct, Slot, Owns
  <2>2. r # s /\ ~BeingReleased(r) /\ ~BeingReleased(s) /\ call' = call
        /\ reg' = [reg EXCEPT ![r] = reg[s], ![s] = MovedFrom]
    BY <1>6 DEF MoveConstruct, BeingReleased, Ready, Peers
  <2>3. \A h \in Holder, i \in Bit :
          Slot(h, i)' = IF h = s THEN Unallocated ELSE IF h = r THEN Slot(s, i) ELSE Slot(h, i)
    BY <1>1, <1>6, <2>2 DEF MoveConstruct, Slot, Owns, BeingReleased, MovedFrom
  <2> QED BY <1>6, <2>1, <2>2, <2>3, SlotsMove DEF MoveConstruct
<1>7. ASSUME NEW r \in Register, NEW s \in Register, MakeNonOwning(r, s)
      PROVE  TableStepOK
  <2>1. reg'[r].owning = FALSE /\ \A x \in Register \ {r} : reg'[x] = reg[x]
    BY <1>1, <1>7 DEF MakeNonOwning, Object
  <2>2. \A h \in Holder, i \in Bit : Slot(h, i)' = Slot(h, i)
    BY <1>1, <1>7, <2>1 DEF MakeNonOwning, Slot, Owns, BeingReleased
  <2> QED BY <1>7, <2>2, SlotsKept DEF MakeNonOwning
<1>8. ASSUME NEW r \in Register, NEW s \in Register, NEW op \in {"destroy", "assign", "move_assign"},
             StartRelease(op, r, s)
      PROVE  TableStepOK
  <2> DEFINE t == ThreadOf[r]  c == Frame(op, "release", r, s, ToRelease(r))
  <2>1. t \in Thread /\ call[t] = Idle /\ reg[r].live /\ call' = [call EXCEPT ![t] = c]
        /\ UNCHANGED <<poolVars, reg, stray>>
    BY <1>8 DEF StartRelease, Ready
  <2>2. c.op = op /\ c.phase = "release" /\ c.dst = r /\ c.bit = 0 /\ c.tmp = ToRelease(r)
    BY DEF Frame
  <2>3. c # Idle
    <3>1. ToRelease(r) \in [Bit -> Nat \cup {Unallocated}]
      BY <1>1 DEF ToRelease, Object, NoQubits
    <3> QED BY <1>3, <3>1 DEF Operation, Phase
  <2> HIDE DEF c
  <2>4. ~BeingReleased(r) /\ BeingReleased(r)' /\ \A i \in Bit : Slot(t, i) = Unallocated
    BY <1>1, <2>1, <2>2, <2>3 DEF BeingReleased, Slot
  <2>5. \A i \in Bit : ToRelease(r)[i] = Slot(r, i)
    BY <1>4, <2>1, <2>4 DEF ToRelease, Slot, Owns
  <2>6. \A i \in Bit : Slot(r, i)' = Unallocated
    BY <2>4 DEF Slot, Owns
  <2>7. \A i \in Bit : Slot(t, i)' = Slot(r, i)
    BY <1>1, <2>1, <2>2, <2>3, <2>5 DEF Slot, Pending, Bit
  <2>8. \A x \in Register \ {r} : BeingReleased(x)' = BeingReleased(x)
    BY <1>1, <2>1, <2>2 DEF BeingReleased
  <2>9. \A h \in Holder, i \in Bit :
          Slot(h, i)' = IF h = r THEN Unallocated ELSE IF h = t THEN Slot(r, i) ELSE Slot(h, i)
    <3> SUFFICES ASSUME NEW h \in Holder, NEW i \in Bit, h # r, h # t
                 PROVE  Slot(h, i)' = Slot(h, i)
      BY <2>6, <2>7
    <3>1. CASE h \in Register
      BY <2>1, <2>8, <3>1 DEF Slot, Owns
    <3>2. CASE h \in Thread
      BY <1>1, <2>1, <3>2 DEF Slot
    <3> QED BY <3>1, <3>2
  <2> HIDE DEF t
  <2> QED BY <2>1, <2>4, <2>9, SlotsMove
<1>9. ASSUME NEW r \in Register, StartAncilla(r) \/ StartRelabel(r) \/ StartPromote(r)
      PROVE  TableStepOK
  <2> DEFINE t == ThreadOf[r]
  <2>1. PICK op \in {"ancilla", "relabel", "promote"}, phase \in {"acquire", "promote"} :
          /\ call' = [call EXCEPT ![t] = Frame(op, phase, r, r, NoQubits)]
          /\ call[t] = Idle /\ UNCHANGED <<poolVars, reg, stray>>
    BY <1>9 DEF StartAncilla, StartRelabel, StartPromote, Ready
  <2> DEFINE c == Frame(op, phase, r, r, NoQubits)
  <2>2. c.phase # "release" /\ c.tmp = NoQubits
    BY DEF Frame
  <2>3. t \in Thread
    OBVIOUS
  <2> HIDE DEF c
  <2>4. \A x \in Register : BeingReleased(x)' = BeingReleased(x)
    BY <1>1, <2>1, <2>2, <2>3 DEF BeingReleased, c
  <2>5. \A h \in Holder, i \in Bit : Slot(h, i)' = Slot(h, i)
    <3> SUFFICES ASSUME NEW h \in Holder, NEW i \in Bit
                 PROVE  Slot(h, i)' = Slot(h, i)
      OBVIOUS
    <3>1. CASE h \in Register
      BY <2>1, <2>4, <3>1 DEF Slot, Owns
    <3>2. CASE h \in Thread
      BY <1>1, <1>4, <2>1, <2>2, <3>2 DEF Slot, c
    <3> QED BY <3>1, <3>2
  <2> QED BY <2>1, <2>5, SlotsKept
<1>10. ASSUME NEW r \in Register, NEW j \in Bit, EnsureBit(r, j)
       PROVE  TableStepOK
  <2>1. PICK idx \in Qubit : /\ Allocate(idx) /\ reg' = [reg EXCEPT ![r].qubits[j] = idx]
                             /\ stray' = Astray(r, idx)
    BY <1>10 DEF EnsureBit
  <2>1a. idx # Unallocated
    BY <1>1, <2>1, PoolTypes DEF Unallocated
  <2>2. reg[r].live /\ reg[r].qubits[j] = Unallocated /\ ~BeingReleased(r) /\ call' = call
    BY <1>10 DEF EnsureBit, BeingReleased, Ready
  <2>3. /\ \A x \in Register : reg'[x].live = reg[x].live /\ reg'[x].owning = reg[x].owning
        /\ \A x \in Register, i \in Bit :
             reg'[x].qubits[i] = IF x = r /\ i = j THEN idx ELSE reg[x].qubits[i]
    BY <1>1, <2>1 DEF Object
  <2>4. (Owns(r) <=> reg[r].owning) /\ \A x \in Register : Owns(x)' = Owns(x)
    BY <2>2, <2>3 DEF Owns, BeingReleased
  <2>5. Slot(r, j) = Unallocated
    BY <2>2 DEF Slot
  <2>6. CASE reg[r].owning
    <3>1. \A h \in Holder, i \in Bit : Slot(h, i)' = IF h = r /\ i = j THEN idx ELSE Slot(h, i)
      BY <2>2, <2>3, <2>4, <2>6 DEF Slot
    <3>2. stray' = stray
      BY <2>1, <2>6 DEF Astray
    <3> QED BY <2>1, <2>5, <3>1, <3>2, SlotsTake
  <2>7. CASE ~reg[r].owning
    <3>1. \A h \in Holder, i \in Bit : Slot(h, i)' = Slot(h, i)
      BY <2>2, <2>3, <2>4, <2>7 DEF Slot
    <3>2. stray' = stray \cup {idx}
      BY <2>1, <2>1a, <2>7 DEF Astray
    <3> QED BY <2>1, <2>5, <3>1, <3>2, SlotsLose
  <2> QED BY <2>6, <2>7
<1>11. ASSUME NEW t \in Thread, AcquireStep(t)
       PROVE  TableStepOK
  <2> DEFINE c == call[t]  j == c.bit
  <2>1. c \in Call /\ c # Idle /\ c.phase = "acquire" /\ j \in Bit /\ reg' = reg /\ stray' = stray
    BY <1>2, <1>11 DEF AcquireStep, InPhase, Call, Bit
  <2>2. PICK idx \in Qubit : Allocate(idx) /\ call' = [call EXCEPT ![t].tmp[j] = idx, ![t].bit = @ + 1]
    BY <1>11 DEF AcquireStep
  <2>3. /\ call'[t].phase = "acquire" /\ call'[t].bit = j + 1 /\ call'[t] # Idle
        /\ \A i \in Bit : call'[t].tmp[i] = IF i = j THEN idx ELSE c.tmp[i]
        /\ \A u \in Thread \ {t} : call'[u] = call[u]
    <3>1. [c EXCEPT !.tmp[j] = idx, !.bit = @ + 1] \in Call
      <4>1. idx \in Nat /\ j + 1 \in 0..Width
        BY <1>1, <2>1, <2>2, PoolTypes DEF Bit
      <4> QED BY <2>1, <4>1 DEF Call
    <3>2. call' = [call EXCEPT ![t] = [c EXCEPT !.tmp[j] = idx, !.bit = @ + 1]]
      BY <1>1, <2>2
    <3>3. c.tmp \in [Bit -> Nat \cup {Unallocated}]
      BY <2>1 DEF Call
    <3> QED BY <1>1, <2>1, <3>1, <3>2, <3>3, IdleAssumption DEF Call
  <2>4. \A x \in Register : BeingReleased(x)' = BeingReleased(x)
    BY <2>1, <2>3 DEF BeingReleased
  <2>5. Slot(t, j) = Unallocated
    BY <2>1 DEF Slot, Pending, Bit
  <2>6. \A i \in Bit : Slot(t, i)' = IF i = j THEN idx ELSE Slot(t, i)
    BY <2>1, <2>3 DEF Slot, Pending, Bit
  <2>7. \A h \in Holder, i \in Bit : Slot(h, i)' = IF h = t /\ i = j THEN idx ELSE Slot(h, i)
    <3> SUFFICES ASSUME NEW h \in Holder, NEW i \in Bit, h # t
                 PROVE  Slot(h, i)' = Slot(h, i)
      BY <2>6
    <3>1. CASE h \in Register
      BY <2>1, <2>4, <3>1 DEF Slot, Owns
    <3>2. CASE h \in Thread
      BY <2>3, <3>2 DEF Slot, Pending
    <3> QED BY <3>1, <3>2
  <2> HIDE DEF j
  <2> QED BY <2>1, <2>2, <2>5, <2>7, SlotsTake
<1>12. ASSUME NEW t \in Thread, AcquireDone(t)
       PROVE  TableStepOK
  <2> DEFINE c == call[t]
  <2>1. /\ c \in Call /\ c # Idle /\ c.phase = "acquire" /\ c.bit = Width
        /\ c.op \in {"ancilla", "relabel"} /\ UNCHANGED <<poolVars, reg, stray>>
    BY <1>2, <1>12 DEF AcquireDone, InPhase, CallOK
  <2>2. PICK next \in {"release", "relabel"} :
          /\ call' = [call EXCEPT ![t].bit = 0, ![t].phase = next]
          /\ next = "release" => c.op = "ancilla"
    BY <1>12, <2>1 DEF AcquireDone
  <2>3. /\ call'[t].bit = 0 /\ call'[t].phase = next /\ call'[t] # Idle
        /\ call'[t].tmp = c.tmp /\ call'[t].op = c.op
        /\ \A u \in Thread \ {t} : call'[u] = call[u]
    <3>1. [c EXCEPT !.bit = 0, !.phase = next] \in Call
      <4>1. 0 \in 0..Width /\ next \in Phase
        BY DEF Phase
      <4> HIDE DEF c
      <4> QED BY <2>1, <4>1 DEF Call
    <3>2. call' = [call EXCEPT ![t] = [c EXCEPT !.bit = 0, !.phase = next]]
      BY <1>1, <2>2
    <3> QED BY <1>1, <2>1, <3>1, <3>2, IdleAssumption DEF Call
  <2>4. \A x \in Register : BeingReleased(x)' = BeingReleased(x)
    BY <2>1, <2>2, <2>3 DEF BeingReleased
  <2>5. \A i \in Bit : Slot(t, i)' = Slot(t, i)
    BY <2>1, <2>2, <2>3 DEF Slot, Pending, Bit
  <2>6. \A h \in Holder, i \in Bit : Slot(h, i)' = Slot(h, i)
    <3> SUFFICES ASSUME NEW h \in Holder, NEW i \in Bit, h # t
                 PROVE  Slot(h, i)' = Slot(h, i)
      BY <2>5
    <3>1. CASE h \in Register
      BY <2>1, <2>4, <3>1 DEF Slot, Owns
    <3>2. CASE h \in Thread
      BY <2>3, <3>2 DEF Slot, Pending
    <3> QED BY <3>1, <3>2
  <2> QED BY <2>1, <2>6, SlotsKept
<1>13. ASSUME NEW t \in Thread, NEW j, j = call[t].bit, j < Width, call[t] # Idle,
              call' = [call EXCEPT ![t].bit = @ + 1]
       PROVE  /\ call[t] \in Call /\ j \in Bit
              /\ call'[t].bit = j + 1 /\ call'[t] # Idle
              /\ \A u \in Thread \ {t} : call'[u] = call[u]
              /\ call'[t].phase = call[t].phase /\ call'[t].tmp = call[t].tmp
              /\ \A x \in Register : BeingReleased(x)' = BeingReleased(x)
  <2> DEFINE c == call[t]
  <2>1. c \in Call /\ j \in Bit
    BY <1>2, <1>13 DEF Call, Bit
  <2>2. [c EXCEPT !.bit = @ + 1] \in Call
    <3>1. c.bit + 1 \in 0..Width
      BY <1>13, <2>1 DEF Bit
    <3> HIDE DEF c
    <3> QED BY <2>1, <3>1 DEF Call
  <2>3. call' = [call EXCEPT ![t] = [c EXCEPT !.bit = @ + 1]]
    BY <1>1, <1>13
  <2>4. /\ call'[t].bit = j + 1 /\ call'[t] # Idle /\ call'[t].phase = c.phase
        /\ call'[t].op = c.op /\ call'[t].dst = c.dst /\ call'[t].tmp = c.tmp
        /\ \A u \in Thread \ {t} : call'[u] = call[u]
    BY <1>1, <1>13, <2>1, <2>2, <2>3, IdleAssumption DEF Call
  <2>5. \A x \in Register : BeingReleased(x)' = BeingReleased(x)
    BY <1>13, <2>4 DEF BeingReleased
  <2> QED BY <2>1, <2>4, <2>5
<1>14. ASSUME NEW t \in Thread, ReleaseStep(t)
       PROVE  TableStepOK
  <2> DEFINE c == call[t]  j == c.bit
  <2>1. /\ c # Idle /\ c.phase = "release" /\ j < Width /\ reg' = reg /\ stray' = stray
        /\ ReleaseIfAllocated(c.tmp[j]) /\ call' = [call EXCEPT ![t].bit = @ + 1]
    BY <1>14 DEF ReleaseStep, InPhase
  <2>2. /\ c \in Call /\ j \in Bit
        /\ call'[t].bit = j + 1 /\ call'[t] # Idle
        /\ \A u \in Thread \ {t} : call'[u] = call[u]
        /\ call'[t].phase = c.phase /\ call'[t].tmp = c.tmp
        /\ \A x \in Register : BeingReleased(x)' = BeingReleased(x)
    <3>1. call[t] # Idle /\ j = call[t].bit /\ j < Width /\ call' = [call EXCEPT ![t].bit = @ + 1]
      BY <2>1
    <3>2. j \in Bit /\ call'[t].phase = call[t].phase /\ call'[t].tmp = call[t].tmp
      BY <1>13, <3>1
    <3> QED BY <1>13, <2>1, <3>1, <3>2
  <2>3. Slot(t, j) = c.tmp[j]
    BY <2>1, <2>2 DEF Slot, Pending, Bit
  <2>4. \A i \in Bit : Slot(t, i)' = IF i = j THEN Unallocated ELSE Slot(t, i)
    BY <2>1, <2>2 DEF Slot, Pending, Bit
  <2>5. \A h \in Holder, i \in Bit : Slot(h, i)' = IF h = t /\ i = j THEN Unallocated ELSE Slot(h, i)
    <3> SUFFICES ASSUME NEW h \in Holder, NEW i \in Bit, h # t
                 PROVE  Slot(h, i)' = Slot(h, i)
      BY <2>4
    <3>1. CASE h \in Register
      BY <2>1, <2>2, <3>1 DEF Slot, Owns
    <3>2. CASE h \in Thread
      BY <2>2, <3>2 DEF Slot, Pending
    <3> QED BY <3>1, <3>2
  <2> HIDE DEF j
  <2> QED BY <2>1, <2>2, <2>3, <2>5, SlotsGive
<1>15. ASSUME NEW t \in Thread, ReleaseDone(t)
       PROVE  TableStepOK
  <2>0. PICK c \in Call, r \in Register, s \in Register : c = call[t] /\ r = c.dst /\ s = c.src
    BY <1>2, <1>15 DEF ReleaseDone, InPhase, Call
  <2>1. /\ call[t] = c /\ c.dst = r /\ c.src = s /\ c # Idle /\ c.phase = "release" /\ c.bit = Width
        /\ CallOK(t)
        /\ reg' = AfterRelease(c) /\ call' = [call EXCEPT ![t] = Idle] /\ UNCHANGED <<poolVars, stray>>
    BY <1>2, <1>15, <2>0 DEF ReleaseDone, InPhase
  <2>2. ThreadOf[r] = t /\ reg[r].live
        /\ c.op \in {"destroy", "assign", "move_assign", "ancilla"}
        /\ (c.op = "move_assign" => r # s /\ ThreadOf[s] = t /\ reg[s].live)
    BY <2>1 DEF CallOK, Peers
  <2>3. call'[t] = Idle /\ \A u \in Thread \ {t} : call'[u] = call[u]
    BY <1>1, <2>1
  <2>4. \A i \in Bit : Slot(t, i) = Unallocated /\ Slot(t, i)' = Unallocated
    BY <2>1, <2>3 DEF Slot, Pending, Bit
  <2>5. \A x \in Register : BeingReleased(x) <=> IF ThreadOf[x] = t THEN c.op # "ancilla" /\ x = r
                                              ELSE BeingReleased(x)'
    BY <2>1, <2>3 DEF BeingReleased
  <2>6. \A x \in Register : ThreadOf[x] = t => ~BeingReleased(x)'
    BY <2>3 DEF BeingReleased
  <2>7. CASE c.op = "ancilla"
    <3>1. reg' = reg
      BY <2>1, <2>7 DEF AfterRelease
    <3>2. \A x \in Register, i \in Bit : Slot(x, i)' = Slot(x, i)
      BY <2>5, <2>6, <2>7, <3>1 DEF Slot, Owns
    <3>3. \A u \in Thread, i \in Bit : Slot(u, i)' = Slot(u, i)
      BY <2>3, <2>4 DEF Slot
    <3> QED BY <2>1, <3>2, <3>3, SlotsKept
  <2>8. CASE c.op \in {"destroy", "assign"}
    <3>1. PICK o \in {Dead, Fresh} : reg' = [reg EXCEPT ![r] = o]
      BY <2>1, <2>8 DEF AfterRelease
    <3>2. \A i \in Bit : o.qubits[i] = Unallocated
      BY <1>4 DEF Dead, Fresh
    <3>3. \A x \in Register, i \in Bit : Slot(x, i)' = Slot(x, i)
      BY <1>1, <2>2, <2>5, <2>6, <2>8, <3>1, <3>2 DEF Slot, Owns
    <3>4. \A u \in Thread, i \in Bit : Slot(u, i)' = Slot(u, i)
      BY <2>3, <2>4 DEF Slot
    <3> QED BY <2>1, <3>3, <3>4, SlotsKept
  <2>9. CASE c.op = "move_assign"
    <3>1. reg' = [reg EXCEPT ![r] = reg[s], ![s] = MovedFrom]
      BY <2>1, <2>9 DEF AfterRelease
    <3>2. \A i \in Bit : Slot(r, i) = Unallocated
      BY <2>1, <2>2, <2>5, <2>9 DEF Slot, Owns
    <3>3. ~BeingReleased(s) /\ ~BeingReleased(s)' /\ ~BeingReleased(r)'
      BY <2>1, <2>2, <2>5, <2>6, <2>9
    <3>4. \A x \in Register \ {r, s}, i \in Bit : Slot(x, i)' = Slot(x, i)
      BY <1>1, <2>1, <2>5, <2>6, <2>9, <3>1 DEF Slot, Owns
    <3>5. \A i \in Bit : Slot(r, i)' = Slot(s, i) /\ Slot(s, i)' = Unallocated
      BY <1>1, <2>1, <2>2, <3>1, <3>3 DEF Slot, Owns, MovedFrom
    <3>6. \A u \in Thread, i \in Bit : Slot(u, i)' = Slot(u, i)
      BY <2>3, <2>4 DEF Slot
    <3>7. \A h \in Holder, i \in Bit :
            Slot(h, i)' = IF h = s THEN Unallocated ELSE IF h = r THEN Slot(s, i) ELSE Slot(h, i)
      BY <3>4, <3>5, <3>6, <2>1, <2>2, <2>9
    <3> QED BY <2>1, <2>2, <2>9, <3>2, <3>7, SlotsMove
  <2> QED BY <2>2, <2>7, <2>8, <2>9
<1>16. ASSUME NEW t \in Thread, RelabelStep(t), reg[call[t].dst].owning
       PROVE  TableStepOK
  <2>0. PICK c \in Call, r \in Register, j \in 0..Width : c = call[t] /\ r = c.dst /\ j = c.bit
    BY <1>2, <1>16 DEF RelabelStep, InPhase, Call
  <2> DEFINE old == reg[r].qubits[j]
             given == [Slots EXCEPT ![r][j] = Unallocated]
             moved == [given EXCEPT ![t][j] = Unallocated, ![r][j] = given[t][j]]
  <2>1. /\ call[t] = c /\ c # Idle /\ c.phase = "relabel" /\ j < Width /\ j = call[t].bit
        /\ ReleaseIfAllocated(old) /\ call' = [call EXCEPT ![t].bit = @ + 1]
        /\ reg' = [reg EXCEPT ![r].qubits[j] = c.tmp[j]] /\ stray' = stray
    BY <1>16, <2>0 DEF RelabelStep, InPhase, Astray
  <2>2. /\ j \in Bit /\ call'[t].bit = j + 1 /\ call'[t] # Idle
        /\ \A u \in Thread \ {t} : call'[u] = call[u]
        /\ call'[t].phase = c.phase /\ call'[t].tmp = c.tmp
        /\ \A x \in Register : BeingReleased(x)' = BeingReleased(x)
    <3>1. call[t] # Idle /\ j = call[t].bit /\ j < Width /\ call' = [call EXCEPT ![t].bit = @ + 1]
      BY <2>1
    <3>2. j \in Bit /\ call'[t].phase = call[t].phase /\ call'[t].tmp = call[t].tmp
      BY <1>13, <3>1
    <3> QED BY <1>13, <2>1, <3>1, <3>2
  <2>3. reg[r].live /\ reg[r].owning /\ ~BeingReleased(r) /\ r # t
    BY <1>2, <1>16, <2>0, <2>1 DEF CallOK, BeingReleased
  <2>4. /\ \A x \in Register : reg'[x].live = reg[x].live /\ reg'[x].owning = reg[x].owning
        /\ \A x \in Register, i \in Bit :
             reg'[x].qubits[i] = IF x = r /\ i = j THEN c.tmp[j] ELSE reg[x].qubits[i]
    BY <1>1, <2>1, <2>2 DEF Object
  <2>5. Slot(r, j) = old /\ Slot(t, j) = c.tmp[j]
    BY <2>1, <2>2, <2>3 DEF Slot, Owns, Pending, Bit
  <2>6. \A x \in Register, i \in Bit : Slot(x, i)' = IF x = r /\ i = j THEN c.tmp[j] ELSE Slot(x, i)
    BY <2>2, <2>3, <2>4 DEF Slot, Owns
  <2>7. \A i \in Bit : Slot(t, i)' = IF i = j THEN Unallocated ELSE Slot(t, i)
    BY <2>1, <2>2 DEF Slot, Pending, Bit
  <2>8. \A u \in Thread \ {t}, i \in Bit : Slot(u, i)' = Slot(u, i)
    BY <2>2 DEF Slot, Pending
  <2>9. /\ Slots \in Table /\ Slots' \in Table /\ given \in Table /\ moved \in Table
        /\ \A h \in Holder, i \in Bit : Slots[h][i] = Slot(h, i) /\ Slots'[h][i] = Slot(h, i)'
    <3>1. Slots \in Table
      BY SlotsTable DEF IInv
    <3>2. given \in Table
      BY <3>1 DEF Table
    <3>3. given[t][j] \in Nat \cup {Unallocated}
      BY <2>2, <3>2 DEF Table
    <3> HIDE DEF given
    <3>4. moved \in Table
      BY <3>2, <3>3 DEF Table
    <3> QED BY <3>1, <3>2, <3>4, SlotsTable DEF IInv
  <2>10. \A h \in Holder, i \in Bit :
           given[h][i] = IF h = r /\ i = j THEN Unallocated ELSE Slots[h][i]
    BY <2>9 DEF Table
  <2>11. \A h \in Holder, i \in Bit :
           moved[h][i] = IF h = t /\ i = j THEN Unallocated
                         ELSE IF h = r /\ i = j THEN given[t][j] ELSE given[h][i]
    <3> HIDE DEF given
    <3> QED BY <2>2, <2>3, <2>9 DEF Table
  <2>12. Slots' = moved
    <3> HIDE DEF given, moved
    <3>1. \A h \in Holder, i \in Bit : Slots'[h][i] = moved[h][i]
      BY <2>2, <2>3, <2>5, <2>6, <2>7, <2>8, <2>9, <2>10, <2>11
    <3> QED BY <2>9, <3>1, TableEqual
  <2>13. Exact(given, free_', high_water_', stray)
    <3>1. CASE old = Unallocated
      <4>1. \A h \in Holder, i \in Bit : given[h][i] = Slots[h][i]
        BY <2>5, <2>9, <2>10, <3>1
      <4>2. given = Slots
        <5> HIDE DEF given
        <5> QED BY <2>9, <4>1, TableEqual
      <4>3. free_' = free_ /\ high_water_' = high_water_
        BY <2>1, <3>1 DEF ReleaseIfAllocated, poolVars
      <4> QED BY <4>2, <4>3 DEF IInv
    <3>2. CASE old # Unallocated
      <4>1. free_' = Append(free_, Slots[r][j]) /\ high_water_' = high_water_ /\ Slots[r][j] # Unallocated
        BY <2>1, <2>2, <2>5, <2>9, <3>2 DEF ReleaseIfAllocated, Release
      <4>2. Exact(given, Append(free_, Slots[r][j]), high_water_, stray)
        BY <2>2, <4>1, GiveBack DEF IInv
      <4> QED BY <4>1, <4>2
    <3> QED BY <3>1, <3>2
  <2>14. given[r][j] = Unallocated
    BY <2>2, <2>10
  <2>15. Exact(moved, free_', high_water_', stray)
    <3> HIDE DEF given
    <3> QED BY <2>2, <2>3, <2>13, <2>14, MoveOne
  <2>16. Ledger!Step \/ UNCHANGED <<Held, stray>>
    <3>1. PICK new, o : new = c.tmp[j] /\ o = old
      OBVIOUS
    <3>2. /\ \A i \in Bit : Slot(r, i) = o /\ o # Unallocated => i = j
          /\ \A i \in Bit : Slot(t, i) = new /\ new # Unallocated => i = j
      <4>1. \A h \in Holder, i \in Bit : Slot(h, i) = Slot(h, j) /\ Slot(h, i) # Unallocated => i = j
        <5> HIDE DEF given, moved, old
        <5>1. \A g, h \in Holder, i, k \in Bit :
                Slots[g][i] # Unallocated /\ Slots[g][i] = Slots[h][k] => g = h /\ i = k
          BY DEF IInv, Exact
        <5>2. \A h \in Holder, i \in Bit : Slots[h][i] = Slot(h, i)
          BY <2>9
        <5> QED BY <2>2, <5>1, <5>2
      <4> QED BY <2>5, <3>1, <4>1
    <3>3. \A h \in Holder, i \in Bit :
            Slot(h, i)' = IF h = t /\ i = j THEN Unallocated ELSE IF h = r /\ i = j THEN new ELSE Slot(h, i)
      BY <2>3, <2>6, <2>7, <2>8, <3>1
    <3>4. Slot(r, j) = o /\ Slot(t, j) = new
      BY <2>5, <3>1
    <3> QED BY <2>1, <2>2, <2>3, <3>2, <3>3, <3>4, LedgerSwap
  <2> QED BY <2>1, <2>12, <2>15, <2>16 DEF TableStepOK
<1>16a. ASSUME NEW t \in Thread, RelabelStep(t), ~reg[call[t].dst].owning
        PROVE  TableStepOK
  <2>0. PICK c \in Call, r \in Register, j \in 0..Width : c = call[t] /\ r = c.dst /\ j = c.bit
    BY <1>2, <1>16a DEF RelabelStep, InPhase, Call
  <2>1. /\ call[t] = c /\ c # Idle /\ c.phase = "relabel" /\ j < Width /\ j = call[t].bit
        /\ ReleaseIfAllocated(reg[r].qubits[j]) /\ call' = [call EXCEPT ![t].bit = @ + 1]
        /\ reg' = [reg EXCEPT ![r].qubits[j] = c.tmp[j]] /\ stray' = Astray(r, c.tmp[j])
    BY <1>16a, <2>0 DEF RelabelStep, InPhase
  <2>2. /\ j \in Bit /\ call'[t].bit = j + 1 /\ call'[t] # Idle
        /\ \A u \in Thread \ {t} : call'[u] = call[u]
        /\ call'[t].phase = c.phase /\ call'[t].tmp = c.tmp
        /\ \A x \in Register : BeingReleased(x)' = BeingReleased(x)
    <3>1. call[t] # Idle /\ j = call[t].bit /\ j < Width /\ call' = [call EXCEPT ![t].bit = @ + 1]
      BY <2>1
    <3>2. j \in Bit /\ call'[t].phase = call[t].phase /\ call'[t].tmp = call[t].tmp
      BY <1>13, <3>1
    <3> QED BY <1>13, <2>1, <3>1, <3>2
  <2>3. ~reg[r].owning /\ reg[r].qubits[j] = Unallocated
    <3>1. EmptyFrom(r, j)
      BY <1>2, <1>16a, <2>0, <2>1 DEF CallOK
    <3> QED BY <1>16a, <2>0, <2>2, <3>1 DEF EmptyFrom, Bit
  <2>4. UNCHANGED poolVars
    BY <2>1, <2>3 DEF ReleaseIfAllocated
  <2>5. /\ \A x \in Register : reg'[x].live = reg[x].live /\ reg'[x].owning = reg[x].owning
        /\ \A x \in Register, i \in Bit :
             reg'[x].qubits[i] = IF x = r /\ i = j THEN c.tmp[j] ELSE reg[x].qubits[i]
    BY <1>1, <2>1, <2>2 DEF Object
  <2>6. \A x \in Register, i \in Bit : Slot(x, i)' = Slot(x, i)
    BY <2>2, <2>3, <2>5 DEF Slot, Owns
  <2>7. Slot(t, j) = c.tmp[j] /\ \A i \in Bit : Slot(t, i)' = IF i = j THEN Unallocated ELSE Slot(t, i)
    BY <2>1, <2>2 DEF Slot, Pending, Bit
  <2>8. \A u \in Thread \ {t}, i \in Bit : Slot(u, i)' = Slot(u, i)
    BY <2>2 DEF Slot, Pending
  <2>9. \A h \in Holder, i \in Bit : Slot(h, i)' = IF h = t /\ i = j THEN Unallocated ELSE Slot(h, i)
    BY <2>6, <2>7, <2>8
  <2>10. stray' = IF Slot(t, j) = Unallocated THEN stray ELSE stray \cup {Slot(t, j)}
    BY <2>1, <2>3, <2>7 DEF Astray
  <2> QED BY <2>2, <2>4, <2>9, <2>10, SlotsDrop
<1>17. ASSUME NEW t \in Thread, PromoteStep(t)
       PROVE  TableStepOK
  <2>0. PICK c \in Call, r \in Register, j \in 0..Width : c = call[t] /\ r = c.dst /\ j = c.bit
    BY <1>2, <1>17 DEF PromoteStep, InPhase, Call
  <2>1. PICK idx \in Qubit : /\ Allocate(idx) /\ reg' = [reg EXCEPT ![r].qubits[j] = idx]
                             /\ stray' = Astray(r, idx)
    BY <1>17, <2>0 DEF PromoteStep
  <2>1a. idx # Unallocated
    BY <1>1, <2>1, PoolTypes DEF Unallocated
  <2>2. /\ call[t] = c /\ c # Idle /\ c.phase = "promote" /\ j < Width /\ j = call[t].bit
        /\ call' = [call EXCEPT ![t].bit = @ + 1]
    BY <1>17, <2>0 DEF PromoteStep, InPhase
  <2>3. /\ j \in Bit /\ call'[t].bit = j + 1 /\ call'[t] # Idle
        /\ \A u \in Thread \ {t} : call'[u] = call[u]
        /\ call'[t].phase = c.phase /\ call'[t].tmp = c.tmp
        /\ \A x \in Register : BeingReleased(x)' = BeingReleased(x)
    <3>1. call[t] # Idle /\ j = call[t].bit /\ j < Width /\ call' = [call EXCEPT ![t].bit = @ + 1]
      BY <2>2
    <3>2. j \in Bit /\ call'[t].phase = call[t].phase /\ call'[t].tmp = call[t].tmp
      BY <1>13, <3>1
    <3> QED BY <1>13, <2>2, <3>1, <3>2
  <2>4. /\ reg[r].live /\ ~BeingReleased(r) /\ c.tmp = NoQubits /\ EmptyFrom(r, j)
    BY <1>2, <2>0, <2>2 DEF CallOK, BeingReleased
  <2>5. /\ \A x \in Register : reg'[x].live = reg[x].live /\ reg'[x].owning = reg[x].owning
        /\ \A x \in Register, i \in Bit :
             reg'[x].qubits[i] = IF x = r /\ i = j THEN idx ELSE reg[x].qubits[i]
    BY <1>1, <2>1, <2>3 DEF Object
  <2>6. Slot(r, j) = Unallocated
    BY <2>3, <2>4 DEF Slot, EmptyFrom, Bit
  <2>7. \A u \in Thread, i \in Bit : Slot(u, i)' = Slot(u, i)
    <3>1. \A i \in Bit : Slot(t, i)' = Unallocated /\ Slot(t, i) = Unallocated
      BY <1>4, <2>2, <2>3, <2>4 DEF Slot
    <3> QED BY <2>3, <3>1 DEF Slot, Pending
  <2>8. CASE reg[r].owning
    <3>1. \A x \in Register, i \in Bit : Slot(x, i)' = IF x = r /\ i = j THEN idx ELSE Slot(x, i)
      BY <2>3, <2>4, <2>5, <2>8 DEF Slot, Owns
    <3>2. \A h \in Holder, i \in Bit : Slot(h, i)' = IF h = r /\ i = j THEN idx ELSE Slot(h, i)
      BY <2>7, <3>1
    <3>3. stray' = stray
      BY <2>1, <2>8 DEF Astray
    <3> QED BY <2>1, <2>3, <2>6, <3>2, <3>3, SlotsTake
  <2>9. CASE ~reg[r].owning
    <3>1. \A x \in Register, i \in Bit : Slot(x, i)' = Slot(x, i)
      BY <2>3, <2>4, <2>5, <2>9 DEF Slot, Owns
    <3>2. stray' = stray \cup {idx}
      BY <2>1, <2>1a, <2>9 DEF Astray
    <3> QED BY <2>1, <2>3, <2>6, <2>7, <3>1, <3>2, SlotsLose
  <2> QED BY <2>8, <2>9
<1>18. ASSUME NEW t \in Thread, LoopDone(t)
       PROVE  TableStepOK
  <2>1. /\ call[t] # Idle /\ call[t].phase \in {"relabel", "promote"} /\ call[t].bit = Width
        /\ call' = [call EXCEPT ![t] = Idle] /\ UNCHANGED <<poolVars, reg, stray>>
    BY <1>18 DEF LoopDone, InPhase
  <2>2. \A x \in Register : BeingReleased(x)' = BeingReleased(x)
    BY <1>1, <2>1 DEF BeingReleased
  <2>3. \A x \in Register, i \in Bit : Slot(x, i)' = Slot(x, i)
    BY <2>1, <2>2 DEF Slot, Owns
  <2>4. \A i \in Bit : Slot(t, i)' = Unallocated /\ Slot(t, i) = Unallocated
    BY <1>1, <2>1 DEF Slot, Pending, Bit
  <2>5. \A u \in Thread, i \in Bit : Slot(u, i)' = Slot(u, i)
    BY <1>1, <2>1, <2>4 DEF Slot
  <2> QED BY <2>1, <2>3, <2>5, SlotsKept
<1>19. CASE ResetForTestingStep
  <2>1. /\ \A t \in Thread : call[t] = Idle /\ call'[t] = Idle
        /\ \A r \in Register : ~reg[r].live /\ ~reg'[r].live
        /\ free_' = <<>> /\ high_water_' = 0 /\ stray' = {}
    BY <1>19 DEF ResetForTestingStep, ResetForTesting
  <2>2. \A h \in Holder, i \in Bit : Slot(h, i)' = Unallocated
    BY <2>1 DEF Slot, Owns
  <2>3. Slots' \in Table /\ \A h \in Holder, i \in Bit : Slots'[h][i] = Unallocated
    BY <2>2, SlotsTable DEF IInv
  <2>4. Exact(Slots', free_', high_water_', stray')
    BY <2>1, <2>3 DEF Exact, Unallocated
  <2>5. \A h \in Holder, i \in Bit : Slot(h, i) = Unallocated
    BY <2>1 DEF Slot, Owns
  <2>6. Held' = Held /\ \A h \in Holder : Held[h] = {}
    <3>1. \A h \in Holder : \A q : q \notin Held[h] /\ q \notin Held'[h]
      BY <2>2, <2>5, HeldMembers
    <3> QED BY <3>1, HeldMembers
  <2>7. Ledger!Step
    BY <2>1, <2>6 DEF Ledger!Step, Ledger!Forget, Ledger!HeldBySomeone
  <2> QED BY <2>4, <2>7 DEF TableStepOK
<1>20. CASE UNCHANGED vars
  <2>1. \A h \in Holder, i \in Bit : Slot(h, i)' = Slot(h, i)
    BY <1>20 DEF vars, Slot, Owns, BeingReleased, Pending
  <2> QED BY <1>20, <2>1, SlotsKept DEF vars
<1>21. ASSUME NEW r \in Register, ObjectStep(r)
       PROVE  TableStepOK
  BY <1>5, <1>6, <1>7, <1>8, <1>9, <1>10, <1>21 DEF ObjectStep
<1>22. ASSUME NEW t \in Thread, CallStep(t)
       PROVE  TableStepOK
  BY <1>11, <1>12, <1>14, <1>15, <1>16, <1>16a, <1>17, <1>18, <1>22 DEF CallStep
<1> QED BY <1>19, <1>20, <1>21, <1>22 DEF Next

-----------------------------------------------------------------------------
(* Calls in progress stay what CallOK says, because an object is only       *)
(* touched by its own thread.                                               *)

\* A step of one thread leaves what CallOK says of the calls of the others.
LEMMA OthersUndisturbed ==
  ASSUME IInv, NEW t \in Thread, CallOK(t)',
         \A u \in Thread \ {t} : call'[u] = call[u],
         \A x \in Register : ThreadOf[x] # t => reg'[x] = reg[x]
  PROVE  \A u \in Thread : CallOK(u)'
<1> SUFFICES ASSUME NEW u \in Thread, u # t, call[u] # Idle
             PROVE  CallOK(u)'
  BY DEF CallOK
<1>1. call[u] \in Call /\ CallOK(u) /\ call'[u] = call[u]
  BY DEF IInv, TypeOK
<1>2. /\ call[u].dst \in Register /\ call[u].src \in Register
      /\ reg'[call[u].dst] = reg[call[u].dst]
      /\ call[u].op = "move_assign" => reg'[call[u].src] = reg[call[u].src]
  BY <1>1 DEF Call, CallOK, Peers
<1> QED BY <1>1, <1>2, SMTT(30) DEF CallOK, EmptyFrom, Peers

\* A loop that goes on with the next bit.
LEMMA NextBit ==
  ASSUME IInv, NEW t \in Thread, call[t] # Idle, call[t].bit < Width,
         call' = [call EXCEPT ![t].bit = @ + 1]
  PROVE  /\ \A u \in Thread \ {t} : call'[u] = call[u]
         /\ call[t] \in Call /\ CallOK(t)
         /\ call'[t] = [call[t] EXCEPT !.bit = @ + 1]
         /\ call'[t].op = call[t].op /\ call'[t].phase = call[t].phase
         /\ call'[t].dst = call[t].dst /\ call'[t].src = call[t].src
         /\ call'[t].tmp = call[t].tmp /\ call'[t].bit = call[t].bit + 1
<1>1. call \in [Thread -> Call \cup {Idle}] /\ call[t] \in Call /\ CallOK(t)
  BY DEF IInv, TypeOK
<1>2. call' = [call EXCEPT ![t] = [call[t] EXCEPT !.bit = @ + 1]]
  BY <1>1
<1> QED BY <1>1, <1>2 DEF Call

\* Every step keeps what CallOK says of the calls in progress.
LEMMA CallsStep == IInv /\ [Next]_vars => \A t \in Thread : CallOK(t)'
<1> SUFFICES ASSUME IInv, [Next]_vars
             PROVE  \A t \in Thread : CallOK(t)'
  OBVIOUS
<1> USE ThreadOfAssumption, WidthAssumption
<1>1. reg \in [Register -> Object] /\ call \in [Thread -> Call \cup {Idle}]
  BY DEF IInv, TypeOK
<1>2. \A t \in Thread : call[t] # Idle => call[t] \in Call /\ CallOK(t)
  BY <1>1 DEF IInv
<1>3. ASSUME NEW r \in Register, call[ThreadOf[r]] = Idle, call' = call,
             \A x \in Register : ThreadOf[x] # ThreadOf[r] => reg'[x] = reg[x]
      PROVE  \A t \in Thread : CallOK(t)'
  BY <1>3, OthersUndisturbed DEF CallOK
<1>4. ASSUME NEW t \in Thread, call'[t] = Idle,
             \A u \in Thread \ {t} : call'[u] = call[u],
             \A x \in Register : ThreadOf[x] # t => reg'[x] = reg[x]
      PROVE  \A u \in Thread : CallOK(u)'
  BY <1>4, OthersUndisturbed DEF CallOK
<1>5. ASSUME NEW r \in Register, NEW s \in Register,
             Construct(r) \/ MoveConstruct(r, s) \/ MakeNonOwning(r, s)
      PROVE  \A t \in Thread : CallOK(t)'
  <2>1. call[ThreadOf[r]] = Idle /\ call' = call
    BY <1>5 DEF Construct, MoveConstruct, MakeNonOwning, Ready
  <2>2. \A x \in Register : ThreadOf[x] # ThreadOf[r] => reg'[x] = reg[x]
    BY <1>1, <1>5 DEF Construct, MoveConstruct, MakeNonOwning, Peers
  <2> QED BY <1>3, <2>1, <2>2
<1>6. ASSUME NEW r \in Register, NEW i \in Bit, EnsureBit(r, i)
      PROVE  \A t \in Thread : CallOK(t)'
  <2>1. call[ThreadOf[r]] = Idle /\ call' = call
    BY <1>6 DEF EnsureBit, Ready
  <2>2. \A x \in Register : ThreadOf[x] # ThreadOf[r] => reg'[x] = reg[x]
    BY <1>1, <1>6 DEF EnsureBit
  <2> QED BY <1>3, <2>1, <2>2
<1>7. ASSUME NEW r \in Register, NEW s \in Register, NEW op \in {"destroy", "assign", "move_assign"},
             StartRelease(op, r, s)
      PROVE  \A t \in Thread : CallOK(t)'
  <2> DEFINE t == ThreadOf[r]
  <2>1. /\ call' = [call EXCEPT ![t] = Frame(op, "release", r, s, ToRelease(r))] /\ reg' = reg
        /\ reg[r].live /\ (op = "move_assign" => Peers(r, s) /\ reg[s].live)
    BY <1>7 DEF StartRelease
  <2>2. call'[t] = Frame(op, "release", r, s, ToRelease(r)) /\ \A u \in Thread \ {t} : call'[u] = call[u]
    BY <1>1, <2>1
  <2>3. CallOK(t)'
    BY <2>1, <2>2 DEF CallOK, Frame, Peers
  <2> QED BY <2>1, <2>2, <2>3, OthersUndisturbed
<1>8. ASSUME NEW r \in Register, (~Borrows(r) /\ StartRelabel(r)) \/ StartPromote(r)
      PROVE  \A t \in Thread : CallOK(t)'
  <2> DEFINE t == ThreadOf[r]
  <2>1. PICK op \in {"relabel", "promote"}, phase \in {"acquire", "promote"} :
          /\ call' = [call EXCEPT ![t] = Frame(op, phase, r, r, NoQubits)] /\ reg' = reg /\ reg[r].live
          /\ op = "relabel" => phase = "acquire" /\ (reg[r].owning \/ reg[r].qubits = NoQubits)
          /\ op = "promote" => phase = "promote" /\ reg[r].qubits = NoQubits
    BY <1>8 DEF StartRelabel, StartPromote, Borrows
  <2>2. call'[t] = Frame(op, phase, r, r, NoQubits) /\ \A u \in Thread \ {t} : call'[u] = call[u]
    BY <1>1, <2>1
  <2>3. reg[r].qubits = NoQubits => EmptyFrom(r, 0)'
    BY <2>1 DEF EmptyFrom, NoQubits, Bit
  <2>4. CallOK(t)'
    BY <2>1, <2>2, <2>3 DEF CallOK, Frame
  <2> QED BY <2>1, <2>2, <2>4, OthersUndisturbed
<1>9. ASSUME NEW r \in Register, StartAncilla(r)
      PROVE  \A t \in Thread : CallOK(t)'
  <2> DEFINE t == ThreadOf[r]
  <2>1. call' = [call EXCEPT ![t] = Frame("ancilla", "acquire", r, r, NoQubits)] /\ reg' = reg /\ reg[r].live
    BY <1>9 DEF StartAncilla
  <2>2. call'[t] = Frame("ancilla", "acquire", r, r, NoQubits) /\ \A u \in Thread \ {t} : call'[u] = call[u]
    BY <1>1, <2>1
  <2>3. CallOK(t)'
    BY <2>1, <2>2 DEF CallOK, Frame
  <2> QED BY <2>1, <2>2, <2>3, OthersUndisturbed
<1>10. ASSUME NEW t \in Thread, AcquireStep(t)
       PROVE  \A u \in Thread : CallOK(u)'
  <2> DEFINE c == call[t]
  <2>1. c \in Call /\ CallOK(t) /\ c # Idle /\ c.phase = "acquire" /\ reg' = reg
    BY <1>2, <1>10 DEF AcquireStep, InPhase
  <2>2. PICK idx : call' = [call EXCEPT ![t].tmp[c.bit] = idx, ![t].bit = @ + 1]
    BY <1>10 DEF AcquireStep
  <2>3. call' = [call EXCEPT ![t] = [c EXCEPT !.tmp[c.bit] = idx, !.bit = @ + 1]]
    BY <1>1, <2>2
  <2>4. /\ \A u \in Thread \ {t} : call'[u] = call[u]
        /\ call'[t].op = c.op /\ call'[t].phase = c.phase /\ call'[t].dst = c.dst
    BY <1>1, <2>1, <2>3 DEF Call
  <2>5. CallOK(t)'
    BY <2>1, <2>4 DEF CallOK, EmptyFrom
  <2> QED BY <2>1, <2>4, <2>5, OthersUndisturbed
<1>11. ASSUME NEW t \in Thread, AcquireDone(t)
       PROVE  \A u \in Thread : CallOK(u)'
  <2> DEFINE c == call[t]
  <2>1. /\ c \in Call /\ CallOK(t) /\ c # Idle /\ c.phase = "acquire" /\ reg' = reg
        /\ call' = [call EXCEPT ![t].bit = 0,
                                ![t].phase = IF c.op = "relabel" THEN "relabel" ELSE "release"]
    BY <1>2, <1>11 DEF AcquireDone, InPhase
  <2>2. PICK next : next = IF c.op = "relabel" THEN "relabel" ELSE "release"
    OBVIOUS
  <2>3. call' = [call EXCEPT ![t] = [c EXCEPT !.bit = 0, !.phase = next]]
    BY <1>1, <2>1, <2>2
  <2>4. /\ \A u \in Thread \ {t} : call'[u] = call[u]
        /\ call'[t].op = c.op /\ call'[t].phase = next /\ call'[t].dst = c.dst /\ call'[t].bit = 0
    BY <1>1, <2>1, <2>3 DEF Call
  <2>5. CallOK(t)'
    BY <2>1, <2>2, <2>4 DEF CallOK, EmptyFrom
  <2> QED BY <2>1, <2>4, <2>5, OthersUndisturbed
<1>12. ASSUME NEW t \in Thread, ReleaseStep(t)
       PROVE  \A u \in Thread : CallOK(u)'
  <2>1. call[t] # Idle /\ call[t].bit < Width /\ call' = [call EXCEPT ![t].bit = @ + 1]
        /\ reg' = reg /\ call[t].phase = "release"
    BY <1>12 DEF ReleaseStep, InPhase
  <2>2. CallOK(t)'
    <3>1. /\ call'[t].op = call[t].op /\ call'[t].phase = "release" /\ call'[t].dst = call[t].dst
          /\ call'[t].src = call[t].src /\ CallOK(t)
      BY <2>1, NextBit
    <3> QED BY <2>1, <3>1 DEF CallOK, Peers
  <2> QED BY <2>1, <2>2, NextBit, OthersUndisturbed
<1>13. ASSUME NEW t \in Thread, RelabelStep(t) \/ PromoteStep(t)
       PROVE  \A u \in Thread : CallOK(u)'
  <2>1. PICK c \in Call, r \in Register, idx \in {call[t].tmp[call[t].bit]} \cup Qubit :
          /\ c = call[t] /\ c # Idle /\ r = c.dst
          /\ reg' = [reg EXCEPT ![r].qubits[c.bit] = idx]
    <3>1. call[t] \in Call /\ call[t] # Idle /\ call[t].dst \in Register
      BY <1>2, <1>13 DEF RelabelStep, PromoteStep, InPhase, Call
    <3>2. \E idx \in {call[t].tmp[call[t].bit]} \cup Qubit :
            reg' = [reg EXCEPT ![call[t].dst].qubits[call[t].bit] = idx]
      BY <1>13 DEF RelabelStep, PromoteStep
    <3> QED BY <3>1, <3>2
  <2>2. /\ call[t] # Idle /\ call[t].bit < Width /\ call' = [call EXCEPT ![t].bit = @ + 1]
        /\ call[t].phase \in {"relabel", "promote"}
    BY <1>13 DEF RelabelStep, PromoteStep, InPhase
  <2>3. ThreadOf[r] = t /\ \A x \in Register : ThreadOf[x] # t => reg'[x] = reg[x]
    BY <1>1, <1>2, <2>1 DEF CallOK
  <2>4. reg'[r].live = reg[r].live /\ reg'[r].owning = reg[r].owning
        /\ \A i \in Bit \ {c.bit} : reg'[r].qubits[i] = reg[r].qubits[i]
    BY <1>1, <2>1 DEF Object
  <2>5. c.bit \in Bit /\ Bit = 0..(Width - 1)
    BY <2>1, <2>2 DEF Call, Bit
  <2>6. CallOK(t)'
    <3>1. /\ call'[t].op = c.op /\ call'[t].phase = c.phase /\ call'[t].dst = r
          /\ call'[t].tmp = c.tmp /\ call'[t].bit = c.bit + 1 /\ CallOK(t)
      BY <2>1, <2>2, NextBit
    <3>2. EmptyFrom(r, c.bit) => EmptyFrom(r, c.bit + 1)'
      <4>1. \A i \in (c.bit + 1)..(Width - 1) : i \in Bit \ {c.bit} /\ i \in c.bit..(Width - 1)
        BY <2>5
      <4> QED BY <2>4, <4>1 DEF EmptyFrom
    <3>3. CASE c.op = "relabel"
      BY <2>1, <2>2, <2>3, <2>4, <3>1, <3>2, <3>3 DEF CallOK, EmptyFrom
    <3>4. CASE c.op = "promote"
      BY <2>1, <2>2, <2>3, <2>4, <3>1, <3>2, <3>4 DEF CallOK, EmptyFrom
    <3> QED BY <2>1, <2>2, <3>1, <3>3, <3>4 DEF CallOK
  <2> QED BY <2>2, <2>3, <2>6, NextBit, OthersUndisturbed
<1>14. ASSUME NEW t \in Thread, LoopDone(t)
       PROVE  \A u \in Thread : CallOK(u)'
  BY <1>1, <1>4, <1>14 DEF LoopDone
<1>15. ASSUME NEW t \in Thread, ReleaseDone(t)
       PROVE  \A u \in Thread : CallOK(u)'
  <2>1. PICK c \in Call : c = call[t] /\ c # Idle /\ CallOK(t)
    BY <1>2, <1>15 DEF ReleaseDone, InPhase
  <2>2. c.dst \in Register /\ c.src \in Register /\ ThreadOf[c.dst] = t
        /\ (c.op = "move_assign" => ThreadOf[c.src] = t)
    BY <2>1 DEF Call, CallOK, Peers
  <2>3. reg' = AfterRelease(c) /\ call' = [call EXCEPT ![t] = Idle]
    BY <1>15, <2>1 DEF ReleaseDone
  <2>4. \A x \in Register : ThreadOf[x] # t => reg'[x] = reg[x]
    BY <1>1, <2>2, <2>3 DEF AfterRelease
  <2> QED BY <1>1, <1>4, <2>3, <2>4
<1>16. CASE ResetForTestingStep
  BY <1>16 DEF ResetForTestingStep, CallOK
<1>17. CASE UNCHANGED vars
  BY <1>2, <1>17 DEF vars, CallOK, EmptyFrom
<1>18. ASSUME NEW r \in Register, ObjectStep(r)
       PROVE  \A t \in Thread : CallOK(t)'
  BY <1>5, <1>6, <1>7, <1>8, <1>9, <1>18 DEF ObjectStep
<1>19. ASSUME NEW t \in Thread, CallStep(t)
       PROVE  \A u \in Thread : CallOK(u)'
  BY <1>10, <1>11, <1>12, <1>13, <1>14, <1>15, <1>19 DEF CallStep
<1> QED BY <1>16, <1>17, <1>18, <1>19 DEF Next

-----------------------------------------------------------------------------
(* The pool's count. *)

\* Every step keeps the pool's count: qubits in use and free ones make up all.
LEMMA CountStep == IInv /\ [Next]_vars => in_use_' + Len(free_') = high_water_'
<1> SUFFICES ASSUME IInv, [Next]_vars
             PROVE  in_use_' + Len(free_') = high_water_'
  OBVIOUS
<1>1. PoolTypeOK /\ in_use_ + Len(free_) = high_water_
  BY DEF IInv, TypeOK
<1>2. ASSUME NEW idx, Allocate(idx)
      PROVE  in_use_' + Len(free_') = high_water_'
  <2>1. CASE AllocateRecycled(idx)
    <3>1. Len(free_) \in Nat \ {0} /\ \A k \in 1..Len(free_) : free_[k] \in Nat
      BY <1>1, <2>1 DEF AllocateRecycled, PoolTypeOK
    <3>2. Len(SubSeq(free_, 1, Len(free_) - 1)) = Len(free_) - 1
      BY <3>1, SubSeqProperties
    <3>3. Len(free_') = Len(free_) - 1 /\ in_use_' = in_use_ + 1 /\ high_water_' = high_water_
      BY <2>1, <3>2 DEF AllocateRecycled
    <3> QED BY <1>1, <3>1, <3>3 DEF PoolTypeOK
  <2>2. CASE AllocateFresh(idx)
    BY <1>1, <2>2 DEF AllocateFresh, PoolTypeOK
  <2> QED BY <1>2, <2>1, <2>2 DEF Allocate
<1>3. ASSUME NEW idx \in Nat \cup {Unallocated}, ReleaseIfAllocated(idx)
      PROVE  in_use_' + Len(free_') = high_water_'
  BY <1>1, <1>3 DEF ReleaseIfAllocated, Release, PoolTypeOK, poolVars
<1>4. ASSUME UNCHANGED poolVars
      PROVE  in_use_' + Len(free_') = high_water_'
  BY <1>1, <1>4 DEF poolVars
<1>5. ASSUME NEW t \in Thread, ReleaseStep(t) \/ RelabelStep(t)
      PROVE  in_use_' + Len(free_') = high_water_'
  <2>1. call[t] \in Call /\ call[t].bit \in Bit /\ call[t].dst \in Register
    BY WidthAssumption, <1>5 DEF IInv, TypeOK, ReleaseStep, RelabelStep, InPhase, Call, Bit
  <2>2. PICK idx : ReleaseIfAllocated(idx) /\ idx \in {call[t].tmp[call[t].bit], reg[call[t].dst].qubits[call[t].bit]}
    BY <1>5 DEF ReleaseStep, RelabelStep
  <2>3. idx \in Nat \cup {Unallocated}
    BY <2>1, <2>2 DEF IInv, TypeOK, Call, Object
  <2> QED BY <1>3, <2>2, <2>3
<1>6. CASE ResetForTestingStep
  BY <1>6 DEF ResetForTestingStep, ResetForTesting
<1>7. CASE UNCHANGED vars
  BY <1>4, <1>7 DEF vars
<1>8. ASSUME NEW r \in Register, ObjectStep(r)
      PROVE  in_use_' + Len(free_') = high_water_'
  BY <1>2, <1>4, <1>8 DEF ObjectStep, Construct, MoveConstruct, MakeNonOwning, StartRelease,
                          StartAncilla, StartPromote, StartRelabel, EnsureBit
<1>9. ASSUME NEW t \in Thread, CallStep(t)
      PROVE  in_use_' + Len(free_') = high_water_'
  BY <1>2, <1>4, <1>5, <1>9 DEF CallStep, AcquireStep, AcquireDone, ReleaseDone, PromoteStep, LoopDone
<1> QED BY <1>6, <1>7, <1>8, <1>9 DEF Next

-----------------------------------------------------------------------------
(* The theorems. *)

\* The table is exact in every reachable state.
THEOREM Invariance == Spec => []IInv
<1>1. Init => IInv
  <2> SUFFICES ASSUME Init
               PROVE  IInv
    OBVIOUS
  <2>1. TypeOK
    BY InitTypes
  <2>2. Slots \in Table /\ \A h \in Holder, i \in Bit : Slots[h][i] = Unallocated
    <3>1. \A h \in Holder, i \in Bit : Slot(h, i) = Unallocated
      BY DEF Init, Slot, Owns, Dead, Holder
    <3> QED BY <2>1, <3>1, SlotsTable
  <2>3. free_ = <<>> /\ high_water_ = 0 /\ in_use_ = 0 /\ stray = {} /\ \A t \in Thread : call[t] = Idle
    BY DEF Init, PoolInit
  <2>4. Exact(Slots, free_, high_water_, stray)
    BY <2>2, <2>3 DEF Exact, Unallocated
  <2> QED BY <2>1, <2>3, <2>4 DEF IInv, CallOK
<1>2. IInv /\ [Next]_vars => IInv'
  <2> SUFFICES ASSUME IInv, [Next]_vars
               PROVE  IInv'
    OBVIOUS
  <2>1. TypeOK'
    BY TypeStep DEF IInv
  <2>2. Exact(Slots, free_, high_water_, stray)'
    BY <2>1, TableStep, Primed DEF TableStepOK
  <2> QED BY <2>1, <2>2, CallsStep, CountStep DEF IInv
<1> QED BY <1>1, <1>2, PTL DEF Spec

\* What an exact table means for the sets of qubits.
LEMMA ExactSets == IInv => Exclusive /\ NoLeak
<1> SUFFICES ASSUME IInv
             PROVE  Exclusive /\ NoLeak
  OBVIOUS
<1>1. \A g, h \in Holder : g # h => Held[g] \cap Held[h] = {}
  BY HeldSets DEF IInv, Exact
<1>2. FreeSet \cap (HeldBySomeone \cup stray) = {} /\ stray \cap HeldBySomeone = {}
  <2>1. \A q \in FreeSet : q \notin HeldBySomeone
    BY HeldSets DEF IInv, Exact, FreeSet
  <2>2. FreeSet \cap stray = {}
    BY DEF IInv, Exact, FreeSet
  <2>3. stray \cap HeldBySomeone = {}
    BY HeldSets DEF IInv, Exact
  <2> QED BY <2>1, <2>2, <2>3
<1>3. \A i, j \in 1..Len(free_) : free_[i] = free_[j] => i = j
  BY DEF IInv, Exact
<1>4. \A q \in 0..(high_water_ - 1) : q \in FreeSet \cup HeldBySomeone \cup stray
  BY HeldSets DEF IInv, Exact, FreeSet
<1>5. /\ \A k \in 1..Len(free_) : free_[k] \in 0..(high_water_ - 1)
      /\ \A h \in Holder, i \in Bit : Slots[h][i] \in Nat => Slots[h][i] \in 0..(high_water_ - 1)
      /\ \A q \in stray : q \in 0..(high_water_ - 1)
  BY DEF IInv, Exact
<1>6. \A q \in FreeSet \cup HeldBySomeone \cup stray : q \in 0..(high_water_ - 1)
  BY <1>5, HeldSets DEF FreeSet
<1> QED BY <1>1, <1>2, <1>3, <1>4, <1>6 DEF Exclusive, NoLeak

\* No qubit ever has two holders, or one while the free list offers it.
THEOREM ExclusiveOwnership == Spec => []Exclusive
  BY ExactSets, Invariance, PTL

\* Every qubit ever issued is free, or its holder will give it back, or it went to
\* an object that did not own when it was promoted: there is no other way to lose one.
THEOREM NothingLeaks == Spec => []NoLeak
  BY ExactSets, Invariance, PTL

\* The pool's count is the number of qubits somebody holds or that went astray.
THEOREM CountIsExact == Spec => []InUseIsHeld
<1>1. IInv => InUseIsHeld
  <2> SUFFICES ASSUME IInv
               PROVE  in_use_ = Cardinality(HeldBySomeone \cup stray)
    BY DEF InUseIsHeld
  <2>0. PICK n : n = Len(free_)
    OBVIOUS
  <2>1. /\ n \in Nat /\ high_water_ \in Nat /\ in_use_ \in Int /\ in_use_ + n = high_water_
        /\ free_ \in [1..n -> FreeSet] /\ \A j, k \in 1..n : free_[j] = free_[k] => j = k
    BY <2>0 DEF IInv, TypeOK, PoolTypeOK, Exact, FreeSet
  <2>2. ExistsBijection(1..n, FreeSet)
    <3>1. free_ \in Bijection(1..n, FreeSet)
      BY <2>0, <2>1 DEF Bijection, Injection, Surjection, IsInjective, FreeSet
    <3> QED BY <3>1 DEF ExistsBijection
  <2>3. IsFiniteSet(FreeSet) /\ Cardinality(FreeSet) = n
    <3>1. IsFiniteSet(1..n) /\ Cardinality(1..n) = n
      <4>1. 1 \in Int /\ n \in Int
        BY <2>1
      <4>2. IsFiniteSet(1..n) /\ Cardinality(1..n) = IF 1 > n THEN 0 ELSE n - 1 + 1
        BY <4>1, FS_Interval
      <4> QED BY <2>1, <4>2
    <3> QED BY <2>2, <3>1, FS_Bijection
  <2>4. HeldBySomeone \cup stray = (0..(high_water_ - 1)) \ FreeSet /\ FreeSet \subseteq 0..(high_water_ - 1)
    BY ExactSets DEF NoLeak, Exclusive
  <2>5. IsFiniteSet(0..(high_water_ - 1)) /\ Cardinality(0..(high_water_ - 1)) = high_water_
    <3>1. PICK m : m = high_water_ - 1
      OBVIOUS
    <3>2. 0 \in Int /\ m \in Int
      BY <2>1, <3>1
    <3>3. IsFiniteSet(0..m) /\ Cardinality(0..m) = IF 0 > m THEN 0 ELSE m - 0 + 1
      BY <3>2, FS_Interval
    <3> QED BY <2>1, <3>1, <3>3
  <2>6. Cardinality(HeldBySomeone \cup stray) = high_water_ - Cardinality((0..(high_water_ - 1)) \cap FreeSet)
    BY <2>4, <2>5, FS_Difference
  <2>7. (0..(high_water_ - 1)) \cap FreeSet = FreeSet
    BY <2>4
  <2>8. Cardinality(HeldBySomeone \cup stray) = high_water_ - n
    BY <2>3, <2>6, <2>7
  <2> QED BY <2>1, <2>8
<1> QED BY <1>1, Invariance, PTL

\* The free list grows only by what a call in progress takes from its own slots
\* or from those of the object it works on.
LEMMA Growth ==
  ASSUME IInv, [Next]_vars, Len(free_') > Len(free_)
  PROVE  \E t \in Thread, x \in Nat :
           /\ call[t] # Idle /\ call'[t] # call[t]
           /\ free_' = Append(free_, x)
           /\ x \in Held[t] \cup Held[call[t].dst]
<1> USE ThreadOfAssumption, WidthAssumption
<1>1. PoolTypeOK /\ reg \in [Register -> Object] /\ Len(free_) \in Nat
  BY DEF IInv, TypeOK, PoolTypeOK
<1>2. ASSUME NEW idx, Allocate(idx)
      PROVE  FALSE
  <2>1. CASE AllocateRecycled(idx)
    <3>1. Len(free_) \in Nat \ {0} /\ \A k \in 1..Len(free_) : free_[k] \in Nat
      BY <1>1, <2>1 DEF AllocateRecycled, PoolTypeOK
    <3>2. Len(SubSeq(free_, 1, Len(free_) - 1)) = Len(free_) - 1
      BY <3>1, SubSeqProperties
    <3> QED BY <2>1, <3>1, <3>2 DEF AllocateRecycled
  <2>2. CASE AllocateFresh(idx)
    BY <1>1, <2>2 DEF AllocateFresh
  <2> QED BY <1>2, <2>1, <2>2 DEF Allocate
<1>3. free_' # free_
  BY <1>1
<1>4. PICK t \in Thread : ReleaseStep(t) \/ RelabelStep(t)
  <2>1. ~ResetForTestingStep
    BY <1>1 DEF ResetForTestingStep, ResetForTesting
  <2>2. ~(UNCHANGED vars)
    BY <1>3 DEF vars, poolVars
  <2>3. \A r \in Register : ~ObjectStep(r)
    BY <1>2, <1>3 DEF ObjectStep, Construct, MoveConstruct, MakeNonOwning, StartRelease, StartAncilla,
                      StartPromote, StartRelabel, EnsureBit, poolVars
  <2>4. \A t \in Thread : CallStep(t) => ReleaseStep(t) \/ RelabelStep(t)
    BY <1>2, <1>3 DEF CallStep, AcquireStep, AcquireDone, ReleaseDone, PromoteStep, LoopDone, poolVars
  <2> QED BY <2>1, <2>2, <2>3, <2>4 DEF Next
<1>5. PICK c \in Call, r \in Register, j \in Bit :
        c = call[t] /\ c # Idle /\ r = c.dst /\ j = c.bit /\ call' = [call EXCEPT ![t].bit = @ + 1]
  BY <1>4 DEF ReleaseStep, RelabelStep, InPhase, IInv, TypeOK, Call, Bit
<1>6. call[t].bit < Width
  BY <1>5 DEF Bit
<1>7. call'[t] # call[t] /\ CallOK(t)
  <2>1. CallOK(t) /\ call'[t].bit = call[t].bit + 1
    BY <1>5, <1>6, NextBit
  <2>2. call[t].bit \in Int
    BY <1>5 DEF Bit
  <2> QED BY <2>1, <2>2
<1>8. CASE ReleaseStep(t)
  <2>1. ReleaseIfAllocated(c.tmp[j]) /\ c.phase = "release"
    BY <1>5, <1>8 DEF ReleaseStep, InPhase
  <2>2. c.tmp[j] # Unallocated /\ c.tmp[j] \in Nat
    BY <1>3, <1>5, <2>1 DEF ReleaseIfAllocated, poolVars, Call
  <2>3. Slot(t, j) = c.tmp[j]
    BY <1>5, <2>1, HolderAssumption DEF Slot, Pending, Bit, Holder
  <2>4. t \in Holder /\ c.tmp[j] \in Held[t]
    BY <2>2, <2>3, HeldMembers DEF Holder
  <2>5. free_' = Append(free_, c.tmp[j])
    BY <2>1, <2>2 DEF ReleaseIfAllocated, Release
  <2> QED BY <1>5, <1>7, <2>2, <2>4, <2>5
<1>9. CASE RelabelStep(t)
  <2>1. ReleaseIfAllocated(reg[r].qubits[j]) /\ c.phase = "relabel"
    BY <1>5, <1>9 DEF RelabelStep, InPhase
  <2>2. reg[r].qubits[j] # Unallocated /\ reg[r].qubits[j] \in Nat
    BY <1>1, <1>3, <1>5, <2>1 DEF ReleaseIfAllocated, poolVars, Object
  <2>3. reg[r].live /\ reg[r].owning /\ ~BeingReleased(r)
    <3>1. ~EmptyFrom(r, j)
      BY <1>5, <2>2 DEF EmptyFrom, Bit
    <3> QED BY <1>5, <1>7, <2>1, <3>1 DEF CallOK, BeingReleased
  <2>4. Slot(r, j) = reg[r].qubits[j]
    BY <2>3 DEF Slot, Owns
  <2>5. r \in Holder /\ reg[r].qubits[j] \in Held[r]
    BY <2>2, <2>4, HeldMembers DEF Holder
  <2>6. free_' = Append(free_, reg[r].qubits[j])
    BY <2>1, <2>2 DEF ReleaseIfAllocated, Release
  <2> QED BY <1>5, <1>7, <2>2, <2>5, <2>6
<1> QED BY <1>4, <1>8, <1>9

\* A qubit is put on the free list by the thread that holds it, which holds it
\* no longer then, and never twice.
THEOREM OnlyHoldersRelease == Spec => ReleasedByHolder
<1> DEFINE last == free_'[Len(free_')]
           OK == /\ \E t \in Thread : /\ call[t] # Idle /\ call'[t] # call[t]
                                      /\ last \in Held[t] \cup Held[call[t].dst]
                 /\ last \notin HeldBySomeone' \cup stray'
                 /\ last \notin FreeSet
<1>1. IInv /\ IInv' /\ [Next]_vars => (Len(free_') > Len(free_) => OK)
  <2> SUFFICES ASSUME IInv, IInv', [Next]_vars, Len(free_') > Len(free_)
               PROVE  OK
    OBVIOUS
  <2>1. PICK t \in Thread, x \in Nat :
          /\ call[t] # Idle /\ call'[t] # call[t]
          /\ free_' = Append(free_, x)
          /\ x \in Held[t] \cup Held[call[t].dst]
    BY Growth
  <2>2. free_ \in Seq(Nat) /\ call[t] \in Call
    BY <2>1 DEF IInv, TypeOK, PoolTypeOK
  <2>3. Len(free_') \in Nat \ {0} /\ last = x
    BY <2>1, <2>2
  <2>4. last \in FreeSet'
    BY <2>3 DEF FreeSet
  <2>5. last \notin HeldBySomeone' \cup stray'
    <3>1. Exclusive'
      BY ExactSets, PTL
    <3> QED BY <2>4, <3>1 DEF Exclusive
  <2>6. x \in HeldBySomeone
    BY <2>1, <2>2 DEF HeldBySomeone, Holder, Call
  <2>7. last \notin FreeSet
    BY <2>3, <2>6, ExactSets DEF Exclusive
  <2> QED BY <2>1, <2>3, <2>5, <2>7
<1>2. IInv /\ IInv' /\ [Next]_vars => [Len(free_') > Len(free_) => OK]_vars
  BY <1>1
<1>3. IInv /\ IInv' /\ [Next]_vars =>
        [Len(free_') > Len(free_) =>
           LET idx == free_'[Len(free_')]
           IN  /\ \E t \in Thread : /\ call[t] # Idle /\ call'[t] # call[t]
                                    /\ idx \in Held[t] \cup Held[call[t].dst]
               /\ idx \notin HeldBySomeone' \cup stray'
               /\ idx \notin FreeSet]_vars
  BY <1>2
<1> HIDE DEF last, OK
<1> QED BY <1>3, Invariance, PTL DEF Spec, ReleasedByHolder

\* The objects and the pool together are a ledger in which every qubit has one
\* holder, who is the only one to give it back or to pass it on, and in which a
\* qubit that went astray is never handed out again.
THEOREM ImplementsLedger == Spec => LedgerSpec
<1>1. Init => Ledger!Init
  <2> SUFFICES ASSUME Init
               PROVE  Held = [h \in Holder |-> {}] /\ stray = {}
    BY DEF Ledger!Init
  <2>1. \A h \in Holder, i \in Bit : Slot(h, i) = Unallocated
    BY DEF Init, Slot, Owns, Dead, Holder
  <2> QED BY <2>1 DEF Held, Init
<1>2. IInv /\ IInv' /\ [Next]_vars => [Ledger!Next]_(Ledger!ledger)
  <2>1. IInv /\ IInv' /\ [Next]_vars => Ledger!Step \/ UNCHANGED <<Held, stray>>
    BY TableStep DEF TableStepOK, IInv
  <2> QED BY <2>1 DEF Ledger!Next, Ledger!ledger
<1> QED BY <1>1, <1>2, Invariance, PTL DEF Spec, LedgerSpec, Ledger!Spec
==============================================================================
