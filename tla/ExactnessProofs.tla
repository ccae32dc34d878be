-------------------------- MODULE ExactnessProofs --------------------------
(***************************************************************************)
(* The bits of a thread are in the state that its gates, as written, make  *)
(* of them: for every number of threads, bits and qubits, and every gate.  *)
(*                                                                         *)
(* GateDispatchProofs has the argument for one dispatch.  A thread, though,*)
(* dispatches into contexts that its functions create and destroy, and     *)
(* executes the gates of one dispatch one after the other while other      *)
(* threads do the same.  So the invariant says of each thread what it knows*)
(* of its qubits: as long as all its gates went to one context, in one     *)
(* mode, the qubits are in the state that context recorded or simulates,   *)
(* and that state, the bits, and the gates still to be executed match what *)
(* the program meant.  No other thread can touch it, for EntryPointsProofs *)
(* gives each thread contexts of its own.                                  *)
(***************************************************************************)
EXTENDS EntryPointsProofs, GateDispatchProofs

-----------------------------------------------------------------------------
(* Recorded circuits. *)

\* What the i-th gate of the circuit ir makes of the state before it.
Step(ir, i, psi) == Meaning(ir[i].kind, ir[i].z, ir[i].q, psi)

\* f is the states that the first n gates of ir make of qubits that are all 0.
IsTrace(ir, n, f) == f = [i \in 0..n |-> IF i = 0 THEN Basis(Qubits, {}) ELSE Step(ir, i, f[i - 1])]

\* The states, one by one.
LEMMA TraceAt ==
  ASSUME NEW ir, NEW n \in Nat, NEW f, IsTrace(ir, n, f)
  PROVE  /\ DOMAIN f = 0..n /\ f[0] = Basis(Qubits, {})
         /\ \A i \in 1..n : f[i] = Step(ir, i, f[i - 1])
<1>1. DOMAIN f = 0..n /\ \A i \in 0..n : f[i] = IF i = 0 THEN Basis(Qubits, {}) ELSE Step(ir, i, f[i - 1])
  BY Zenon DEF IsTrace
<1>2. 0 \in 0..n /\ \A i \in 1..n : i \in 0..n /\ i # 0
  OBVIOUS
<1> QED BY <1>1, <1>2

\* A function with these states is the trace.
LEMMA TraceIs ==
  ASSUME NEW ir, NEW n \in Nat, NEW f, f = [i \in 0..n |-> f[i]], f[0] = Basis(Qubits, {}),
         \A i \in 1..n : f[i] = Step(ir, i, f[i - 1])
  PROVE  IsTrace(ir, n, f)
<1>1. \A i \in 0..n : f[i] = IF i = 0 THEN Basis(Qubits, {}) ELSE Step(ir, i, f[i - 1])
  <2>1. \A i \in 0..n : i = 0 \/ i \in 1..n
    OBVIOUS
  <2> QED BY <2>1
<1>2. f = [i \in 0..n |-> IF i = 0 THEN Basis(Qubits, {}) ELSE Step(ir, i, f[i - 1])]
  BY <1>1, Zenon
<1> QED BY <1>2 DEF IsTrace

\* A trace goes on with the state after the next gate.
LEMMA TraceGoesOn ==
  ASSUME NEW ir, NEW n \in Nat, NEW f, IsTrace(ir, n, f)
  PROVE  \E h : IsTrace(ir, n + 1, h)
<1> DEFINE h == [i \in 0..(n + 1) |-> IF i = n + 1 THEN Step(ir, n + 1, f[n]) ELSE f[i]]
<1>1. DOMAIN f = 0..n /\ f[0] = Basis(Qubits, {}) /\ \A i \in 1..n : f[i] = Step(ir, i, f[i - 1])
  BY TraceAt
<1>2. \A i \in 0..(n + 1) : h[i] = IF i = n + 1 THEN Step(ir, n + 1, f[n]) ELSE f[i]
  OBVIOUS
<1>3. h = [i \in 0..(n + 1) |-> h[i]]
  OBVIOUS
<1> HIDE DEF h
<1>4. h[0] = Basis(Qubits, {})
  BY <1>1, <1>2
<1>5. ASSUME NEW i \in 1..(n + 1)
      PROVE  h[i] = Step(ir, i, h[i - 1])
  <2>1. i \in 0..(n + 1) /\ i - 1 \in 0..(n + 1) /\ i - 1 # n + 1
    OBVIOUS
  <2>2. h[i - 1] = f[i - 1]
    BY <1>2, <2>1
  <2>3. CASE i = n + 1
    <3>1. i - 1 = n
      BY <2>3
    <3>2. h[i] = Step(ir, n + 1, f[n])
      BY <1>2, <2>1, <2>3
    <3> QED BY <2>2, <2>3, <3>1, <3>2
  <2>4. CASE i # n + 1
    <3>1. i \in 1..n
      BY <2>4
    <3> QED BY <1>1, <1>2, <2>1, <2>2, <2>4, <3>1
  <2> QED BY <2>3, <2>4
<1>6. n + 1 \in Nat
  OBVIOUS
<1>7. IsTrace(ir, n + 1, h)
  BY <1>3, <1>4, <1>5, <1>6, TraceIs
<1> QED BY <1>7

\* Every circuit has its states.
LEMMA TraceExists ==
  ASSUME NEW ir, NEW n \in Nat
  PROVE  \E f : IsTrace(ir, n, f)
<1> SUFFICES ASSUME ~\E f : IsTrace(ir, n, f)
             PROVE  FALSE
  OBVIOUS
<1> DEFINE T == {k \in Nat : ~\E f : IsTrace(ir, k, f)}  m == Min(T)
<1>1. T \subseteq Nat /\ T # {}
  OBVIOUS
<1>2. m \in T /\ \A k \in T : m <= k
  <2> HIDE DEF T
  <2> QED BY <1>1, LeastNatural
<1>3. m \in Nat /\ ~\E f : IsTrace(ir, m, f)
  BY <1>2
<1>4. \A k \in Nat : k < m => \E f : IsTrace(ir, k, f)
  BY <1>2, <1>3
<1> HIDE DEF T, m
<1>5. CASE m = 0
  <2> DEFINE h == [i \in 0..m |-> Basis(Qubits, {})]
  <2>1. h = [i \in 0..m |-> h[i]] /\ h[0] = Basis(Qubits, {}) /\ 1..m = {}
    BY <1>5
  <2> HIDE DEF h
  <2>2. IsTrace(ir, m, h)
    BY <1>3, <2>1, TraceIs
  <2> QED BY <1>3, <2>2
<1>6. CASE m # 0
  <2>1. m - 1 \in Nat /\ m - 1 < m /\ m - 1 + 1 = m
    BY <1>3, <1>6
  <2>2. PICK f : IsTrace(ir, m - 1, f)
    BY <1>4, <2>1
  <2>3. \E h : IsTrace(ir, m - 1 + 1, h)
    BY ONLY <2>1, <2>2, TraceGoesOn
  <2> QED BY <1>3, <2>1, <2>3
<1> QED BY <1>5, <1>6

\* Circuits that begin alike have the same states so far.
LEMMA TracesAgree ==
  ASSUME NEW ir, NEW jr, NEW n \in Nat, NEW m \in Nat, NEW f, NEW h, IsTrace(ir, n, f), IsTrace(jr, m, h),
         n <= m, \A i \in 1..n : ir[i] = jr[i]
  PROVE  f[n] = h[n]
<1> DEFINE T == {k \in 0..n : f[k] # h[k]}  l == Min(T)
<1> SUFFICES ASSUME f[n] # h[n]
             PROVE  FALSE
  OBVIOUS
<1>1. T \subseteq Nat /\ T # {}
  OBVIOUS
<1>2. l \in T /\ \A k \in T : l <= k
  <2> HIDE DEF T
  <2> QED BY <1>1, LeastNatural
<1>3. l \in 0..n /\ f[l] # h[l] /\ \A k \in 0..n : k < l => f[k] = h[k]
  BY <1>2
<1> HIDE DEF T, l
<1>4. /\ f[0] = Basis(Qubits, {}) /\ \A i \in 1..n : f[i] = Step(ir, i, f[i - 1])
      /\ h[0] = Basis(Qubits, {}) /\ \A i \in 1..m : h[i] = Step(jr, i, h[i - 1])
  BY TraceAt
<1>5. l # 0
  BY <1>3, <1>4
<1>6. l \in 1..n /\ l \in 1..m /\ l - 1 \in 0..n /\ l - 1 < l
  BY <1>3, <1>5
<1>7. f[l - 1] = h[l - 1] /\ ir[l] = jr[l]
  BY <1>3, <1>6
<1>8. f[l] = h[l]
  BY <1>4, <1>6, <1>7 DEF Step
<1> QED BY <1>3, <1>8

\* What a circuit makes of the qubits is the last state of its trace.
LEMMA ReplayIs ==
  ASSUME NEW ir, Len(ir) \in Nat
  PROVE  \E f : IsTrace(ir, Len(ir), f) /\ Replay(ir) = f[Len(ir)]
<1> DEFINE f == CHOOSE f : IsTrace(ir, Len(ir), f)
<1>1. IsTrace(ir, Len(ir), f)
  BY TraceExists
<1>2. Replay(ir) = f[Len(ir)]
  BY DEF Replay, IsTrace, Step
<1> QED BY <1>1, <1>2

\* The empty circuit leaves the qubits 0.
LEMMA ReplayNothing == Replay(<<>>) = Basis(Qubits, {})
<1>1. Len(<<>>) = 0 /\ Len(<<>>) \in Nat
  OBVIOUS
<1>2. PICK f : IsTrace(<<>>, Len(<<>>), f) /\ Replay(<<>>) = f[Len(<<>>)]
  BY <1>1, ReplayIs
<1>3. f[0] = Basis(Qubits, {})
  BY <1>1, <1>2, TraceAt
<1> QED BY <1>1, <1>2, <1>3

\* A gate that is appended acts on what the circuit made before.
LEMMA ReplayAppend ==
  ASSUME NEW S, NEW ir \in Seq(S), NEW g \in S
  PROVE  Replay(Append(ir, g)) = Applied(g, Replay(ir))
<1> DEFINE jr == Append(ir, g)  n == Len(ir)
<1>1. /\ n \in Nat /\ Len(jr) = n + 1 /\ jr[n + 1] = g
      /\ \A i \in 1..n : jr[i] = ir[i]
  <2>1. /\ jr \in Seq(S) /\ Len(jr) = Len(ir) + 1
        /\ \A i \in 1..(Len(ir) + 1) : jr[i] = IF i = Len(ir) + 1 THEN g ELSE ir[i]
    BY AppendProperties
  <2>2. Len(ir) \in Nat
    OBVIOUS
  <2> HIDE DEF jr
  <2>3. Len(ir) + 1 \in 1..(Len(ir) + 1) /\ \A i \in 1..Len(ir) : i \in 1..(Len(ir) + 1) /\ i # Len(ir) + 1
    BY <2>2
  <2> QED BY <2>1, <2>2, <2>3
<1> HIDE DEF jr, n
<1>2. PICK f : IsTrace(ir, n, f) /\ Replay(ir) = f[n]
  BY <1>1, ReplayIs DEF n
<1>3. n + 1 \in Nat /\ n <= n + 1 /\ n + 1 \in 1..(n + 1) /\ n + 1 - 1 = n
  BY <1>1
<1>4. PICK h : IsTrace(jr, n + 1, h) /\ Replay(jr) = h[n + 1]
  BY <1>1, <1>3, ReplayIs
<1>5. f[n] = h[n]
  BY <1>1, <1>2, <1>3, <1>4, TracesAgree
<1>6. h[n + 1] = Step(jr, n + 1, h[n])
  <2> DEFINE m == n + 1
  <2>1. m \in Nat /\ IsTrace(jr, m, h) /\ m \in 1..m /\ m - 1 = n
    BY <1>1, <1>3, <1>4
  <2> HIDE DEF m
  <2>2. \A i \in 1..m : h[i] = Step(jr, i, h[i - 1])
    BY <2>1, TraceAt
  <2>3. h[m] = Step(jr, m, h[n])
    BY <2>1, <2>2
  <2> QED BY <2>3 DEF m
<1> QED BY <1>1, <1>2, <1>3, <1>4, <1>5, <1>6 DEF Step, Applied, jr

-----------------------------------------------------------------------------
(* What a thread knows of the qubits. *)

\* The state of the qubits is psi as far as a thread knows that has the contexts
\* mine, with the records k, and whose gates went to w: it is that of the only
\* context they went to.
Knows(k, mine, w, psi) ==
  \/ w = {} /\ psi = Basis(Qubits, {})
  \/ \E c \in mine : w = {<<c, "APPEND">>} /\ psi = Replay(k[c].ir)
  \/ \E c \in mine : w = {<<c, "SIMULATE">>} /\ psi = k[c].state /\ psi # NoBridge

\* A thread that has the contexts mine, the bits a in the state phi, and gates
\* yet to execute, when n[c] gates went to context c: the contexts it sent gates
\* to, w, are its own or the process default, they have the mode they had then,
\* and what it knows of the qubits matches the state of its bits.
Tracked(k, n, mine, w, a, gates, phi) ==
  /\ w \subseteq (mine \cup {Default, NoContext}) \X Modes
  /\ \A c \in mine : n[c] = 0 <=> \A m \in Modes : <<c, m>> \notin w
  /\ \A c \in mine : \A m \in Modes : w = {<<c, m>>} => k[c].mode = m
  /\ \A psi : Knows(k, mine, w, psi) => Matches(a, gates, psi, phi)

\* Contexts that recorded and simulate the same.
SameContext(x, y) == x.mode = y.mode /\ x.ir = y.ir /\ x.state = y.state

\* A context with the record k, to which n gates went: before that, one of a
\* wrapper has recorded and simulated nothing, and the process default, c, never
\* has a state vector.
ContextIs(c, k, n) ==
  /\ DOMAIN k = {"mode", "gate_count", "ir", "state", "classical"} /\ k.ir \in Seq(Gates)
  /\ c = Default => k.state = NoBridge
  /\ c # Default /\ n = 0 => k.ir = <<>> /\ k.state \in {NoBridge, Basis(Qubits, {})}

\* A thread is tracked as long as the contexts it sent gates to stay the same.
LEMMA TrackedStays ==
  ASSUME NEW k, NEW n, NEW mine, NEW w, NEW a, NEW gates, NEW phi, Tracked(k, n, mine, w, a, gates, phi),
         NEW l, NEW o, \A c \in mine : o[c] = n[c],
         \A c \in mine : \A m \in Modes : <<c, m>> \in w => SameContext(l[c], k[c])
  PROVE  Tracked(l, o, mine, w, a, gates, phi)
<1>1. /\ w \subseteq (mine \cup {Default, NoContext}) \X Modes
      /\ \A c \in mine : n[c] = 0 <=> \A m \in Modes : <<c, m>> \notin w
      /\ \A c \in mine : \A m \in Modes : w = {<<c, m>>} => k[c].mode = m
      /\ \A psi : Knows(k, mine, w, psi) => Matches(a, gates, psi, phi)
  BY DEF Tracked
<1>2. \A c \in mine : \A m \in Modes : w = {<<c, m>>} => SameContext(l[c], k[c])
  OBVIOUS
<1>3. \A c \in mine : o[c] = 0 <=> \A m \in Modes : <<c, m>> \notin w
  BY <1>1
<1>4. \A c \in mine : \A m \in Modes : w = {<<c, m>>} => l[c].mode = m
  BY <1>1, <1>2 DEF SameContext
<1>5. ASSUME NEW psi, Knows(l, mine, w, psi)
      PROVE  Matches(a, gates, psi, phi)
  <2>1. "APPEND" \in Modes /\ "SIMULATE" \in Modes
    BY DEF Modes
  <2>2. Knows(k, mine, w, psi)
    BY <1>2, <1>5, <2>1 DEF Knows, SameContext
  <2> QED BY <1>1, <2>2
<1> QED BY <1>1, <1>3, <1>4, <1>5 DEF Tracked

\* A thread whose function is called.
LEMMA TrackedStart ==
  ASSUME NEW k, NEW n, NEW a, NEW ones \in SUBSET Bits, IsStart(a, Bits, ones)
  PROVE  Tracked(k, n, {}, {}, a, <<>>, Basis(Bits, ones))
<1>1. Matches(a, <<>>, Basis(Qubits, {}), Basis(Bits, ones))
  BY MatchesStart
<1>2. \A psi : Knows(k, {}, {}, psi) => psi = Basis(Qubits, {})
  BY DEF Knows
<1>3. \A psi : Knows(k, {}, {}, psi) => Matches(a, <<>>, psi, Basis(Bits, ones))
  BY <1>1, <1>2
<1> QED BY <1>3 DEF Tracked

\* A thread that dispatches a gate.
LEMMA TrackedDispatch ==
  ASSUME NEW k, NEW n, NEW mine, NEW w, NEW a, NEW phi \in Vectors(Bits), Tracked(k, n, mine, w, a, <<>>, phi),
         BitsOK(a, Bits), NEW kind, NEW z, NEW ops, GateOK(kind, z, ops, Bits), NEW d \in Dispatches(kind, z, a, ops)
  PROVE  Tracked(k, n, mine, w, d.bits, d.gates, Meaning(kind, z, ops, phi))
<1>1. \A psi : Matches(a, <<>>, psi, phi) => Matches(d.bits, d.gates, psi, Meaning(kind, z, ops, phi))
  BY BitsAssumption, MatchesDispatch
<1> QED BY <1>1 DEF Tracked

\* A thread that has got a context.
LEMMA TrackedCreated ==
  ASSUME NEW k, NEW n, NEW mine, NEW w, NEW a, NEW gates, NEW phi, Tracked(k, n, mine, w, a, gates, phi),
         NEW c, c \notin mine \cup {Default, NoContext}, NEW l, NEW o, o[c] = 0,
         \A d \in mine : o[d] = n[d] /\ SameContext(l[d], k[d])
  PROVE  Tracked(l, o, mine \cup {c}, w, a, gates, phi)
<1>1. Tracked(l, o, mine, w, a, gates, phi)
  BY TrackedStays
<1>2. /\ w \subseteq (mine \cup {Default, NoContext}) \X Modes
      /\ \A d \in mine : o[d] = 0 <=> \A m \in Modes : <<d, m>> \notin w
      /\ \A d \in mine : \A m \in Modes : w = {<<d, m>>} => l[d].mode = m
      /\ \A psi : Knows(l, mine, w, psi) => Matches(a, gates, psi, phi)
  BY <1>1 DEF Tracked
<1>3. \A m : <<c, m>> \notin w
  BY <1>2
<1>4. \A psi : Knows(l, mine \cup {c}, w, psi) => Knows(l, mine, w, psi)
  BY <1>3 DEF Knows
<1>5. w \subseteq (mine \cup {c} \cup {Default, NoContext}) \X Modes
  BY <1>2
<1>6. \A d \in mine \cup {c} : o[d] = 0 <=> \A m \in Modes : <<d, m>> \notin w
  BY <1>2, <1>3
<1>7. \A d \in mine \cup {c} : \A m \in Modes : w = {<<d, m>>} => l[d].mode = m
  BY <1>2, <1>3
<1> QED BY <1>2, <1>4, <1>5, <1>6, <1>7 DEF Tracked

\* Where gates went, when c is no context any more.
Renamed(w, c) == {IF x[1] = c THEN <<NoContext, x[2]>> ELSE x : x \in w}

\* A thread that has destroyed its context.
LEMMA TrackedDestroyed ==
  ASSUME NEW k, NEW n, NEW mine, NEW w, NEW a, NEW gates, NEW phi, Tracked(k, n, mine, w, a, gates, phi),
         NEW c, NoContext \notin mine, Default \notin mine, c # Default, NEW l, NEW o,
         \A d \in mine \ {c} : o[d] = n[d] /\ SameContext(l[d], k[d])
  PROVE  Tracked(l, o, mine \ {c}, Renamed(w, c), a, gates, phi)
<1> DEFINE v == Renamed(w, c)
<1>1. /\ w \subseteq (mine \cup {Default, NoContext}) \X Modes
      /\ \A d \in mine : n[d] = 0 <=> \A m \in Modes : <<d, m>> \notin w
      /\ \A d \in mine : \A m \in Modes : w = {<<d, m>>} => k[d].mode = m
      /\ \A psi : Knows(k, mine, w, psi) => Matches(a, gates, psi, phi)
  BY DEF Tracked
<1>2. \A x \in w : x = <<x[1], x[2]>> /\ x[1] \in mine \cup {Default, NoContext} /\ x[2] \in Modes
  BY <1>1
<1>3. \A x \in v : \E y \in w : x = IF y[1] = c THEN <<NoContext, y[2]>> ELSE y
  BY DEF Renamed
<1>4. \A y \in w : (IF y[1] = c THEN <<NoContext, y[2]>> ELSE y) \in v
  BY DEF Renamed
<1> HIDE DEF v
<1>5. v \subseteq ((mine \ {c}) \cup {Default, NoContext}) \X Modes
  <2> SUFFICES ASSUME NEW x \in v
               PROVE  x \in ((mine \ {c}) \cup {Default, NoContext}) \X Modes
    OBVIOUS
  <2>1. PICK y \in w : x = IF y[1] = c THEN <<NoContext, y[2]>> ELSE y
    BY <1>3
  <2> QED BY <1>2, <2>1
<1>6. \A d \in mine \ {c} : \A m \in Modes : <<d, m>> \in v <=> <<d, m>> \in w
  <2> SUFFICES ASSUME NEW d \in mine \ {c}, NEW m \in Modes
               PROVE  <<d, m>> \in v <=> <<d, m>> \in w
    OBVIOUS
  <2>1. ASSUME <<d, m>> \in v
        PROVE  <<d, m>> \in w
    <3>1. PICK y \in w : <<d, m>> = IF y[1] = c THEN <<NoContext, y[2]>> ELSE y
      BY <1>3, <2>1
    <3> QED BY <3>1
  <2>2. ASSUME <<d, m>> \in w
        PROVE  <<d, m>> \in v
    <3>1. <<d, m>>[1] = d /\ d # c
      OBVIOUS
    <3> QED BY <1>4, <2>2, <3>1
  <2> QED BY <2>1, <2>2
<1>7. \A d \in mine \ {c} : o[d] = 0 <=> \A m \in Modes : <<d, m>> \notin v
  BY <1>1, <1>6
<1>8. ASSUME NEW d \in mine \ {c}, NEW m \in Modes, v = {<<d, m>>}
      PROVE  w = {<<d, m>>}
  <2>1. <<d, m>> \in w
    BY <1>6, <1>8
  <2>2. ASSUME NEW y \in w
        PROVE  y = <<d, m>>
    <3>1. (IF y[1] = c THEN <<NoContext, y[2]>> ELSE y) = <<d, m>>
      BY <1>4, <1>8
    <3> QED BY <3>1
  <2> QED BY <2>1, <2>2
<1>9. \A d \in mine \ {c} : \A m \in Modes : v = {<<d, m>>} => l[d].mode = m
  BY <1>1, <1>8 DEF SameContext
<1>10. v = {} => w = {}
  BY <1>4
<1>11. ASSUME NEW psi, Knows(l, mine \ {c}, v, psi)
       PROVE  Knows(k, mine, w, psi)
  <2>1. "APPEND" \in Modes /\ "SIMULATE" \in Modes
    BY DEF Modes
  <2> QED BY <1>8, <1>10, <1>11, <2>1 DEF Knows, SameContext
<1> QED BY <1>1, <1>5, <1>7, <1>9, <1>11 DEF Tracked, v

\* The record y of a context becomes x when the gate g is executed.
Executed(x, y, g) ==
  /\ x.mode = y.mode /\ DOMAIN x = DOMAIN y
  /\ x.ir = IF y.mode = "APPEND" THEN Append(y.ir, g) ELSE y.ir
  /\ x.state = IF y.mode = "SIMULATE" /\ y.state # NoBridge THEN ExecSimulate(g, y.state) ELSE y.state

\* What a context does with a gate.
LEMMA ExecutedIs ==
  ASSUME NEW c, NEW y, NEW n, ContextIs(c, y, n), y.mode \in Modes, NEW g, NEW m
  PROVE  Executed([Execute(y, g) EXCEPT !.gate_count = m], y, g)
<1>1. DOMAIN y = {"mode", "gate_count", "ir", "state", "classical"}
  BY DEF ContextIs
<1>2. CASE y.mode = "COUNT_ONLY"
  BY <1>1, <1>2 DEF Execute, Executed
<1>3. CASE y.mode = "APPEND"
  BY <1>1, <1>3 DEF Execute, Executed
<1>4. CASE y.mode = "SIMULATE"
  BY <1>1, <1>4 DEF Execute, Executed
<1> QED BY <1>2, <1>3, <1>4 DEF Modes

\* A context that has executed a gate is one.
LEMMA ExecutedKeeps ==
  ASSUME NEW c, NEW y, NEW n, c # Default => n \in Nat, ContextIs(c, y, n), NEW g \in Gates, NEW x, Executed(x, y, g)
  PROVE  ContextIs(c, x, n + 1)
<1>1. Append(y.ir, g) \in Seq(Gates)
  BY DEF ContextIs
<1>2. c # Default => n + 1 # 0
  OBVIOUS
<1> QED BY <1>1, <1>2 DEF ContextIs, Executed

\* Of the contexts mine and the process default, c executes the gate g.
Executes(k, n, l, o, mine, c, g) ==
  /\ c \in mine \cup {Default} /\ ContextIs(c, k[c], n[c]) /\ k[c].mode \in Modes
  /\ Executed(l[c], k[c], g) /\ (c \in mine => n[c] \in Nat /\ o[c] = n[c] + 1)
  /\ \A d \in mine \ {c} : o[d] = n[d] /\ SameContext(l[d], k[d])

\* A thread that executes a gate: what it knew of the qubits is what they were
\* before the gate, and in one it had sent nothing to, they were 0.
LEMMA TrackedExecuted ==
  ASSUME NEW k, NEW n, NEW mine, NEW w, NEW a, BitsOK(a, Bits),
         NEW gates \in Seq(Gates), Len(gates) <= 3, gates # <<>>, NEW phi \in Vectors(Bits),
         Tracked(k, n, mine, w, a, gates, phi),
         Default \notin mine, NEW l, NEW o, NEW c, Executes(k, n, l, o, mine, c, Head(gates))
  PROVE  Tracked(l, o, mine, w \cup {<<c, k[c].mode>>}, a, Tail(gates), phi)
<1> DEFINE m == k[c].mode  v == w \cup {<<c, m>>}  g == Head(gates)
<1>0. /\ c \in mine \cup {Default} /\ ContextIs(c, k[c], n[c]) /\ k[c].mode \in Modes
      /\ Executed(l[c], k[c], g) /\ (c \in mine => n[c] \in Nat /\ o[c] = n[c] + 1)
      /\ \A d \in mine \ {c} : o[d] = n[d] /\ SameContext(l[d], k[d])
  BY DEF Executes
<1> USE <1>0
<1>1. /\ w \subseteq (mine \cup {Default, NoContext}) \X Modes
      /\ \A d \in mine : n[d] = 0 <=> \A x \in Modes : <<d, x>> \notin w
      /\ \A d \in mine : \A x \in Modes : w = {<<d, x>>} => k[d].mode = x
      /\ \A psi : Knows(k, mine, w, psi) => Matches(a, gates, psi, phi)
  BY DEF Tracked
<1>2. v \subseteq (mine \cup {Default, NoContext}) \X Modes
  BY <1>1
<1>3. \A d \in mine \ {c} : \A x : <<d, x>> \in v <=> <<d, x>> \in w
  OBVIOUS
<1>4. \A d \in mine : o[d] = 0 <=> \A x \in Modes : <<d, x>> \notin v
  <2> SUFFICES ASSUME NEW d \in mine
               PROVE  o[d] = 0 <=> \A x \in Modes : <<d, x>> \notin v
    OBVIOUS
  <2>1. CASE d = c
    <3>1. o[d] # 0
      BY <2>1
    <3> QED BY <2>1, <3>1
  <2>2. CASE d # c
    BY <1>1, <1>3, <2>2
  <2> QED BY <2>1, <2>2
<1>5. \A d, x : v = {<<d, x>>} => d = c /\ x = m /\ (w = {} \/ w = {<<c, m>>})
  <2> SUFFICES ASSUME NEW d, NEW x, v = {<<d, x>>}
               PROVE  d = c /\ x = m /\ (w = {} \/ w = {<<c, m>>})
    OBVIOUS
  <2>1. <<c, m>> = <<d, x>>
    OBVIOUS
  <2> QED BY <2>1
<1>6. l[c].mode = m
  BY DEF Executed
<1>7. \A d \in mine : \A x \in Modes : v = {<<d, x>>} => l[d].mode = x
  BY <1>5, <1>6
<1>8. v # {}
  OBVIOUS
<1> HIDE DEF v
<1>9. ASSUME NEW x \in Modes, v = {<<c, x>>}, c \in mine, w = {}
      PROVE  k[c].ir = <<>> /\ k[c].state \in {NoBridge, Basis(Qubits, {})}
  <2>1. n[c] = 0
    BY <1>1, <1>9
  <2> QED BY <1>9, <2>1 DEF ContextIs
<1>10. ASSUME NEW psi, NEW d \in mine, v = {<<d, "APPEND">>}, psi = Replay(l[d].ir)
       PROVE  Matches(a, Tail(gates), psi, phi)
  <2> DEFINE ir == k[c].ir
  <2>1. d = c /\ m = "APPEND" /\ (w = {} \/ w = {<<c, "APPEND">>})
    BY <1>5, <1>10
  <2>2. w = {} => ir = <<>>
    BY <1>9, <1>10, <2>1 DEF Modes
  <2>3. Knows(k, mine, w, Replay(ir))
    <3>1. CASE w = {}
      BY <2>2, <3>1, ReplayNothing DEF Knows
    <3>2. CASE w = {<<c, "APPEND">>}
      BY <1>10, <2>1, <3>2 DEF Knows
    <3> QED BY <2>1, <3>1, <3>2
  <2>4. Matches(a, gates, Replay(ir), phi)
    BY <1>1, <2>3
  <2>5. l[c].ir = Append(ir, g) /\ ir \in Seq(Gates)
    BY <2>1 DEF Executed, ContextIs
  <2>6. g \in Gates
    BY AfterHead
  <2> HIDE DEF ir, g
  <2>7. psi = Applied(g, Replay(ir))
    BY <1>10, <2>1, <2>5, <2>6, ReplayAppend
  <2>8. Matches(a, Tail(gates), Applied(g, Replay(ir)), phi)
    BY <2>4, MatchesExecuted DEF g
  <2> QED BY <2>7, <2>8
<1>11. ASSUME NEW psi, NEW d \in mine, v = {<<d, "SIMULATE">>}, psi = l[d].state, psi # NoBridge
       PROVE  Matches(a, Tail(gates), psi, phi)
  <2> DEFINE chi == k[c].state
  <2>1. d = c /\ m = "SIMULATE" /\ (w = {} \/ w = {<<c, "SIMULATE">>})
    BY <1>5, <1>11
  <2>2. psi = ExecSimulate(g, chi) /\ chi # NoBridge
    BY <1>11, <2>1 DEF Executed
  <2>3. w = {} => chi = Basis(Qubits, {})
    BY <1>9, <1>11, <2>1, <2>2 DEF Modes
  <2>4. Knows(k, mine, w, chi)
    <3>1. CASE w = {}
      BY <2>3, <3>1 DEF Knows
    <3>2. CASE w = {<<c, "SIMULATE">>}
      BY <1>11, <2>1, <2>2, <3>2 DEF Knows
    <3> QED BY <2>1, <3>1, <3>2
  <2>5. Matches(a, gates, chi, phi)
    BY <1>1, <2>4
  <2> HIDE DEF chi
  <2>6. Matches(a, Tail(gates), ExecSimulate(g, chi), phi)
    BY <2>5, MatchesExecuted
  <2> QED BY <2>2, <2>6
<1>12. \A psi : Knows(l, mine, v, psi) => Matches(a, Tail(gates), psi, phi)
  BY <1>8, <1>10, <1>11 DEF Knows
<1> QED BY <1>2, <1>4, <1>7, <1>12 DEF Tracked, v

\* A qubit that is 0 is found to be, and stays.
LEMMA ZeroMeasured ==
  ASSUME NEW q, NEW r \in Possible(q, Basis(Qubits, {}))
  PROVE  Collapse(q, r, Basis(Qubits, {})) = Basis(Qubits, {})
<1> DEFINE psi == Basis(Qubits, {})
<1>1. DOMAIN psi = SUBSET Qubits /\ \A s \in SUBSET Qubits : psi[s] = IF s = {} THEN One ELSE Zero
  BY DEF Basis
<1>2. psi = [s \in SUBSET Qubits |-> psi[s]]
  BY DEF Basis
<1> HIDE DEF psi
<1>3. \A s \in Support(psi) : s = {}
  BY <1>1 DEF Support
<1>4. r = 0
  BY <1>3 DEF Possible, psi
<1>5. \A s \in SUBSET Qubits : (IF (q \in s) = (r = 1) THEN psi[s] ELSE Zero) = psi[s]
  BY <1>1, <1>4
<1>6. Collapse(q, r, psi) = [s \in SUBSET Qubits |-> psi[s]]
  BY <1>1, <1>5 DEF Collapse
<1> QED BY <1>2, <1>6 DEF psi

\* The record y of a context becomes x when the qubit q is measured and found r.
Measured(x, y, q, r) ==
  /\ x.mode = y.mode /\ x.ir = y.ir /\ DOMAIN x = DOMAIN y
  /\ x.state = Collapse(q, r, y.state) /\ r \in Possible(q, y.state)

\* A context in which a qubit was measured is one.
LEMMA MeasuredKeeps ==
  ASSUME NEW c, NEW y, NEW n, ContextIs(c, y, n), y.state # NoBridge, NEW q, NEW r, NEW x, Measured(x, y, q, r)
  PROVE  ContextIs(c, x, n)
<1>1. c # Default
  BY DEF ContextIs
<1>2. n = 0 => x.state = Basis(Qubits, {})
  <2> SUFFICES ASSUME n = 0
               PROVE  x.state = Basis(Qubits, {})
    OBVIOUS
  <2>1. y.state = Basis(Qubits, {})
    BY <1>1 DEF ContextIs
  <2> QED BY <2>1, ZeroMeasured DEF Measured
<1> QED BY <1>1, <1>2 DEF ContextIs, Measured

\* A thread that measures a bit in the only context it has.
LEMMA TrackedMeasured ==
  ASSUME NEW k, NEW n, NEW m, NEW w, NEW a, BitsOK(a, Bits), NEW phi \in Vectors(Bits),
         Tracked(k, n, {m}, w, a, <<>>, phi), m # Default, ContextIs(m, k[m], n[m]),
         k[m].mode = "SIMULATE", k[m].state # NoBridge,
         NEW b \in Bits, ~IsClassical(a[b]), NEW r, NEW l, Measured(l[m], k[m], a[b].qubit, r)
  PROVE  Tracked(l, n, {m}, w, a, <<>>, Collapse(b, r, phi))
<1> DEFINE q == a[b].qubit  chi == k[m].state
<1>1. /\ w \subseteq {m, Default, NoContext} \X Modes
      /\ n[m] = 0 <=> \A x \in Modes : <<m, x>> \notin w
      /\ \A x \in Modes : w = {<<m, x>>} => k[m].mode = x
      /\ \A psi : Knows(k, {m}, w, psi) => Matches(a, <<>>, psi, phi)
  BY DEF Tracked
<1>2. l[m].mode = k[m].mode /\ l[m].state = Collapse(q, r, chi) /\ r \in Possible(q, chi)
  BY DEF Measured
<1>3. \A x \in Modes : w = {<<m, x>>} => x = "SIMULATE"
  BY <1>1
<1>4. ASSUME w = {} \/ w = {<<m, "SIMULATE">>}
      PROVE  Matches(a, <<>>, Collapse(q, r, chi), Collapse(b, r, phi))
  <2>1. Knows(k, {m}, w, chi)
    <3>1. CASE w = {}
      <4>1. chi = Basis(Qubits, {})
        BY <1>1, <3>1 DEF ContextIs
      <4> QED BY <3>1, <4>1 DEF Knows
    <3>2. CASE w = {<<m, "SIMULATE">>}
      BY <3>2 DEF Knows
    <3> QED BY <1>4, <3>1, <3>2
  <2>2. Matches(a, <<>>, chi, phi)
    BY <1>1, <2>1
  <2> HIDE DEF chi
  <2> QED BY <1>2, <2>2, MatchesMeasured
<1>5. w = {} => Collapse(q, r, chi) = Basis(Qubits, {})
  <2> SUFFICES ASSUME w = {}
               PROVE  Collapse(q, r, chi) = Basis(Qubits, {})
    OBVIOUS
  <2>1. chi = Basis(Qubits, {})
    BY <1>1 DEF ContextIs
  <2> QED BY <1>2, <2>1, ZeroMeasured
<1> HIDE DEF chi, q
<1>6. ASSUME NEW psi, Knows(l, {m}, w, psi)
      PROVE  Matches(a, <<>>, psi, Collapse(b, r, phi))
  <2>1. w # {<<m, "APPEND">>}
    BY <1>3 DEF Modes
  <2>2. (w = {} \/ w = {<<m, "SIMULATE">>}) /\ psi = Collapse(q, r, chi)
    BY <1>2, <1>5, <1>6, <2>1 DEF Knows
  <2> QED BY <1>4, <2>2
<1>7. \A x \in Modes : w = {<<m, x>>} => l[m].mode = x
  BY <1>1, <1>2
<1> QED BY <1>1, <1>6, <1>7 DEF Tracked

-----------------------------------------------------------------------------
(* The invariant. *)

\* What a thread has: its bits, the gates it has yet to execute, the state of its
\* bits, what it spent and where its gates went.
ThreadIs(a, gates, phi, s, w) ==
  /\ BitsOK(a, Bits) /\ gates \in Seq(Gates) /\ Len(gates) <= 3 /\ phi \in Vectors(Bits)
  /\ s \in [gates : Nat, calls : Nat] /\ (w # {} \/ gates # <<>> => s.gates > 0)

\* What holds whatever goes astray.
DataOK ==
  /\ passes \in 0..plan.passes
  /\ DOMAIN bits = Threads /\ DOMAIN ideal = Threads /\ DOMAIN spent = Threads /\ DOMAIN went = Threads
  /\ \A t \in Threads : ThreadIs(bits[t], todo[t], ideal[t], spent[t], went[t])
  /\ \A c \in Alive : ContextIs(c, context[c], sent[c])

\* Every thread is tracked.
AllTracked ==
  \A t \in Threads : Tracked(context, sent, Mine(t), went[t], bits[t], todo[t], ideal[t])

\* The properties leave out what may go astray.
AllExcused == {"nested", "throw", "memory"} \subseteq Excused

\* The inductive invariant.
ExactInv == IInv /\ DataOK /\ (AllExcused => Excuse \/ AllTracked)

-----------------------------------------------------------------------------
(* Steps of one thread. *)

\* A step of t leaves the other threads as they are.
Only(t) ==
  /\ \A u \in Threads : u # t =>
       /\ stack'[u] = stack[u] /\ installed'[u] = installed[u] /\ bits'[u] = bits[u] /\ todo'[u] = todo[u]
       /\ ideal'[u] = ideal[u] /\ spent'[u] = spent[u] /\ went'[u] = went[u]
  /\ DOMAIN bits' = Threads /\ DOMAIN ideal' = Threads /\ DOMAIN spent' = Threads /\ DOMAIN went' = Threads
  /\ passes' = passes /\ plan' = plan /\ mishaps \subseteq mishaps'

\* Every step of a thread is one of these.
LEMMA RunIsLocal ==
  ASSUME IInv, DataOK, NEW t \in Threads, Run(t)
  PROVE  Only(t)
<1>1. /\ DOMAIN stack = Threads /\ DOMAIN installed = Threads /\ DOMAIN todo = Threads
      /\ DOMAIN bits = Threads /\ DOMAIN ideal = Threads /\ DOMAIN spent = Threads /\ DOMAIN went = Threads
  BY DEF IInv, OwnersOK, Domains, DataOK
<1>2. CASE Create(t)
  BY <1>1, <1>2 DEF Create, programVars, Only
<1>3. CASE Install(t) \/ Return(t)
  BY <1>1, <1>3 DEF Install, Return, programVars, ghosts, Only
<1>4. CASE Destroy(t) \/ Throw(t)
  BY <1>1, <1>4 DEF Destroy, Throw, programVars, Only
<1>5. CASE CallRoot(t)
  BY <1>1, <1>5 DEF CallRoot, programVars, Only
<1>6. CASE CallHelp(t)
  BY <1>1, <1>6 DEF CallHelp, programVars, Only
<1>7. CASE Dispatch(t)
  BY <1>1, <1>7 DEF Dispatch, programVars, Only
<1>8. CASE LoadCount(t)
  BY <1>1, <1>8 DEF LoadCount, programVars, ghosts, Only
<1>9. CASE ExecuteGate(t)
  BY <1>1, <1>9 DEF ExecuteGate, programVars, Only
<1>10. CASE Measure(t)
  BY <1>1, <1>10 DEF Measure, programVars, Only
<1>11. CASE InitFromArgs(t) \/ Attach(t)
  BY <1>1, <1>11 DEF InitFromArgs, Attach, programVars, ghosts, Only
<1> QED BY <1>2, <1>3, <1>4, <1>5, <1>6, <1>7, <1>8, <1>9, <1>10, <1>11 DEF Run

\* What is left to show of a step of t.
LEMMA LocalStep ==
  ASSUME ExactInv, NEW t \in Threads, Only(t),
         ThreadIs(bits'[t], todo'[t], ideal'[t], spent'[t], went'[t]),
         \A c \in Alive' : ContextIs(c, context'[c], sent'[c]),
         \A c \in Alive \ (Mine(t) \cup {Default}) : sent'[c] = sent[c] /\ SameContext(context'[c], context[c]),
         /\ AllExcused /\ ~Excuse' /\ AtHome(stack[t], installed[t])
         /\ Tracked(context, sent, Mine(t), went[t], bits[t], todo[t], ideal[t])
         => Tracked(context', sent', MineOf(stack'[t], installed'[t]), went'[t], bits'[t], todo'[t], ideal'[t])
  PROVE  DataOK' /\ (AllExcused => Excuse' \/ AllTracked')
<1>1. DataOK'
  <2>1. \A u \in Threads : ThreadIs(bits'[u], todo'[u], ideal'[u], spent'[u], went'[u])
    BY DEF ExactInv, DataOK, Only
  <2>2. passes' \in 0..plan'.passes
    BY DEF ExactInv, DataOK, Only
  <2>3. DOMAIN bits' = Threads /\ DOMAIN ideal' = Threads /\ DOMAIN spent' = Threads /\ DOMAIN went' = Threads
    BY DEF Only
  <2> QED BY <2>1, <2>2, <2>3 DEF DataOK
<1>2. ASSUME AllExcused, ~Excuse', NEW u \in Threads
      PROVE  Tracked(context', sent', MineOf(stack'[u], installed'[u]), went'[u], bits'[u], todo'[u], ideal'[u])
  <2>1. ~Excuse
    BY <1>2 DEF Excuse, Only
  <2>2. \A x \in Threads : AtHome(stack[x], installed[x])
    BY <1>2, <2>1 DEF ExactInv, IInv, OwnersOK, AllExcused
  <2>3. \A x \in Threads : Tracked(context, sent, Mine(x), went[x], bits[x], todo[x], ideal[x])
    BY <1>2, <2>1 DEF ExactInv, AllTracked
  <2>4. CASE u = t
    BY <1>2, <2>2, <2>3, <2>4
  <2>5. CASE u # t
    <3>1. Tracked(context, sent, Mine(u), went[u], bits[u], todo[u], ideal[u])
      BY <2>3
    <3>2. Mine(u) \subseteq Alive \ {Default} /\ Mine(u) \cap Mine(t) = {}
      BY <2>5 DEF ExactInv, IInv, OwnersOK, Apart
    <3>3. \A c \in Mine(u) : sent'[c] = sent[c] /\ SameContext(context'[c], context[c])
      BY <3>2
    <3>4. Tracked(context', sent', Mine(u), went[u], bits[u], todo[u], ideal[u])
      BY <3>1, <3>3, TrackedStays
    <3> QED BY <2>5, <3>4 DEF Only, Mine
  <2> QED BY <2>4, <2>5
<1>3. AllExcused => Excuse' \/ AllTracked'
  BY <1>2 DEF AllTracked, Mine
<1> QED BY <1>1, <1>3

\* What is left to show of a step that changes neither bits nor contexts.
LEMMA QuietStep ==
  ASSUME ExactInv, NEW t \in Threads, Only(t), UNCHANGED <<context, sent, bits, todo, ideal, went>>,
         spent'[t] \in [gates : Nat, calls : Nat], spent'[t].gates = spent[t].gates,
         AllExcused /\ ~Excuse' /\ AtHome(stack[t], installed[t]) => MineOf(stack'[t], installed'[t]) = Mine(t)
  PROVE  DataOK' /\ (AllExcused => Excuse' \/ AllTracked')
<1>1. ThreadIs(bits'[t], todo'[t], ideal'[t], spent'[t], went'[t])
  <2>1. ThreadIs(bits[t], todo[t], ideal[t], spent[t], went[t])
    BY DEF ExactInv, DataOK
  <2> QED BY <2>1 DEF ThreadIs
<1>2. Alive' = Alive /\ \A c \in Alive : ContextIs(c, context[c], sent[c])
  BY DEF ExactInv, DataOK, Alive
<1>3. \A c \in Alive \ (Mine(t) \cup {Default}) : sent'[c] = sent[c] /\ SameContext(context'[c], context[c])
  BY DEF SameContext
<1>4. \A c \in Alive' : ContextIs(c, context'[c], sent'[c])
  BY <1>2
<1>5. /\ AllExcused /\ ~Excuse' /\ AtHome(stack[t], installed[t])
      /\ Tracked(context, sent, Mine(t), went[t], bits[t], todo[t], ideal[t])
      => Tracked(context', sent', MineOf(stack'[t], installed'[t]), went'[t], bits'[t], todo'[t], ideal'[t])
  OBVIOUS
<1> QED BY <1>1, <1>3, <1>4, <1>5, LocalStep

\* What a thread has, and its contexts.
LEMMA ThreadHas ==
  ASSUME ExactInv, NEW t \in Threads
  PROVE  /\ IInv /\ OwnersOK /\ DataOK
         /\ ThreadIs(bits[t], todo[t], ideal[t], spent[t], went[t])
         /\ spent[t] \in [gates : Nat, calls : Nat]
         /\ Mine(t) \subseteq Alive \ {Default} /\ NoContext \notin Mine(t)
         /\ DOMAIN stack = Threads /\ DOMAIN installed = Threads /\ DOMAIN todo = Threads
         /\ DOMAIN bits = Threads /\ DOMAIN ideal = Threads /\ DOMAIN spent = Threads /\ DOMAIN went = Threads
         /\ \A c \in Alive : /\ c \in DOMAIN sent /\ ContextIs(c, context[c], sent[c]) /\ ContextOK(context[c])
                             /\ c # Default => sent[c] \in Nat
  BY DEF ExactInv, IInv, OwnersOK, DataOK, ThreadIs, Apart, Mine, MineOf, Domains, Counts, CountIsExact, ContextOK

\* sturm_set_thread_context(ctx)
LEMMA InstallExact ==
  ASSUME ExactInv, NEW t \in Threads, Only(t), Install(t)
  PROVE  DataOK' /\ (AllExcused => Excuse' \/ AllTracked')
<1> DEFINE s == stack[t]  n == Len(s)  c == Top(t).own  r == At(t, "body")
<1>1. OwnersOK /\ DOMAIN stack = Threads /\ DOMAIN installed = Threads /\ spent[t] \in [gates : Nat, calls : Nat]
  BY ThreadHas
<1>2. /\ s # <<>> /\ Top(t).at = "install" /\ Top(t).wrapped /\ n \in 1..n /\ Top(t) = s[n]
  BY <1>1, TopOf DEF Install
<1>3. stack'[t] = r /\ installed'[t] = c /\ UNCHANGED <<context, sent, bits, todo, ideal, went, spent>>
  BY <1>1, <1>2 DEF Install, ghosts, At, Retop
<1>4. Len(r) = n /\ \A i \in 1..n : r[i].own = s[i].own
  BY <1>1, <1>2, WrapperGoesOn
<1> HIDE DEF r
<1>5. AtHome(s, installed[t]) => MineOf(r, c) = Mine(t)
  <2>1. AtHome(s, installed[t]) => installed[t] = NoContext
    BY <1>2 DEF AtHome
  <2> QED BY <1>2, <1>4, <2>1 DEF MineOf, Mine
<1> QED BY <1>1, <1>3, <1>5, QuietStep

\* A function without a wrapper is left.
LEMMA LeaveSame ==
  ASSUME ExactInv, NEW t \in Threads, stack[t] # <<>>, todo[t] = <<>>, ~Top(t).wrapped,
         stack' = [stack EXCEPT ![t] = Front(@)], installed' = installed
  PROVE  MineOf(stack'[t], installed'[t]) = Mine(t)
<1> DEFINE s == stack[t]  n == Len(s)  r == Front(s)
<1>1. OwnersOK /\ DOMAIN stack = Threads
  BY ThreadHas
<1>2. StackOK(s) /\ n \in 1..n /\ Top(t) = s[n]
  BY <1>1, TopOf
<1>3. s[n].own = NoContext
  BY <1>2 DEF StackOK, FrameOK
<1>4. /\ \A i \in 1..Len(r) : r[i] = s[i] /\ i \in 1..n
      /\ \A i \in 1..n : i # n => i \in 1..Len(r)
  BY <1>1, Pops
<1>5. stack'[t] = r /\ installed'[t] = installed[t]
  BY <1>1
<1> HIDE DEF r
<1>6. {r[i].own : i \in 1..Len(r)} \cup {NoContext} = {s[i].own : i \in 1..n} \cup {NoContext}
  <2>1. \A x : x \in {r[i].own : i \in 1..Len(r)} \cup {NoContext} <=> x \in {s[i].own : i \in 1..n} \cup {NoContext}
    BY <1>3, <1>4
  <2> QED BY <2>1
<1>7. \A x : x \in MineOf(r, installed[t]) <=> x \in Mine(t)
  BY <1>6 DEF MineOf, Mine
<1> QED BY <1>5, <1>7

\* The end of a body.
LEMMA ReturnExact ==
  ASSUME ExactInv, NEW t \in Threads, Only(t), Return(t)
  PROVE  DataOK' /\ (AllExcused => Excuse' \/ AllTracked')
<1> DEFINE s == stack[t]  n == Len(s)  r == At(t, "leave")
<1>1. OwnersOK /\ DOMAIN stack = Threads /\ DOMAIN installed = Threads /\ spent[t] \in [gates : Nat, calls : Nat]
  BY ThreadHas
<1>2. s # <<>> /\ Top(t).at = "body" /\ todo[t] = <<>> /\ n \in 1..n /\ Top(t) = s[n]
  BY <1>1, TopOf DEF Return, InBody
<1>3. UNCHANGED <<context, sent, bits, todo, ideal, went, spent>>
  BY DEF Return, ghosts
<1>4. AtHome(s, installed[t]) => MineOf(stack'[t], installed'[t]) = Mine(t)
  <2>1. CASE ~Top(t).wrapped
    <3>1. stack' = [stack EXCEPT ![t] = Front(@)] /\ installed' = installed
      BY <2>1 DEF Return
    <3> QED BY <1>2, <2>1, <3>1, LeaveSame
  <2>2. CASE Top(t).wrapped
    <3>1. stack'[t] = r /\ installed'[t] = NoContext
      BY <1>1, <1>2, <2>2 DEF Return, At, Retop
    <3>2. Len(r) = n /\ \A i \in 1..n : r[i].own = s[i].own
      BY <1>1, <1>2, <2>2, WrapperGoesOn
    <3> HIDE DEF r
    <3>3. AtHome(s, installed[t]) => installed[t] = s[n].own
      BY <1>2, <2>2 DEF AtHome
    <3> QED BY <1>2, <3>1, <3>2, <3>3 DEF MineOf, Mine
  <2> QED BY <2>1, <2>2
<1> QED BY <1>1, <1>3, <1>4, QuietStep

\* An exception leaves a function.
LEMMA ThrowExact ==
  ASSUME ExactInv, NEW t \in Threads, Only(t), Throw(t)
  PROVE  DataOK' /\ (AllExcused => Excuse' \/ AllTracked')
<1>1. spent[t] \in [gates : Nat, calls : Nat]
  BY ThreadHas
<1>2. /\ stack[t] # <<>> /\ todo[t] = <<>> /\ stack' = [stack EXCEPT ![t] = Front(@)]
      /\ UNCHANGED <<installed, context, sent, bits, todo, ideal, went, spent>>
  BY DEF Throw, InBody
<1>3. AllExcused /\ ~Excuse' => ~Top(t).wrapped
  BY DEF Throw, Excuse, AllExcused
<1>4. AllExcused /\ ~Excuse' => MineOf(stack'[t], installed'[t]) = Mine(t)
  BY <1>2, <1>3, LeaveSame
<1> QED BY <1>1, <1>2, <1>4, QuietStep

\* A function is called from another.
LEMMA CallHelpExact ==
  ASSUME ExactInv, NEW t \in Threads, Only(t), CallHelp(t)
  PROVE  DataOK' /\ (AllExcused => Excuse' \/ AllTracked')
<1> DEFINE s == stack[t]  wrapped == wrappers["help"] # <<>>  f == Frame("help", wrapped)  r == Append(s, f)
<1>1. /\ OwnersOK /\ DOMAIN stack = Threads /\ DOMAIN spent = Threads
      /\ spent[t] \in [gates : Nat, calls : Nat]
  BY ThreadHas
<1>2. s \in Seq(Frames) /\ Len(s) = 1
  BY <1>1, TopOf DEF CallHelp, InBody, StackOK
<1>3. /\ stack'[t] = r /\ installed'[t] = installed[t] /\ spent' = [spent EXCEPT ![t].calls = @ + 1]
      /\ UNCHANGED <<context, sent, bits, todo, ideal, went>>
  BY <1>1 DEF CallHelp
<1>4. spent'[t] \in [gates : Nat, calls : Nat] /\ spent'[t].gates = spent[t].gates
  BY <1>1, <1>3
<1>5. "help" \in Functions /\ wrapped \in BOOLEAN
  BY DEF Functions
<1>6. f \in Frames /\ f.own = NoContext
  BY <1>5, FrameIs
<1> HIDE DEF f, wrapped, s
<1>7. Len(r) = 2 /\ r[1] = s[1] /\ r[2] = f
  <2>1. s \in Seq(Frames)
    BY <1>2
  <2>2. /\ r \in Seq(Frames) /\ Len(r) = Len(s) + 1
        /\ \A i \in 1..(Len(s) + 1) : r[i] = IF i = Len(s) + 1 THEN f ELSE s[i]
    BY <1>6, <2>1
  <2> HIDE DEF r
  <2>3. 1 \in 1..(Len(s) + 1) /\ 2 \in 1..(Len(s) + 1)
    BY <1>2
  <2> QED BY <1>2, <2>2, <2>3
<1> HIDE DEF r
<1>8. MineOf(r, installed[t]) = Mine(t)
  <2>1. \A x : x \in {r[i].own : i \in 1..Len(r)} <=> x = s[1].own \/ x = NoContext
    <3>1. 1..Len(r) = {1, 2}
      BY <1>7
    <3> QED BY <1>6, <1>7, <3>1
  <2>2. \A x : x \in {s[i].own : i \in 1..Len(s)} <=> x = s[1].own
    BY <1>2
  <2>3. \A x : x \in MineOf(r, installed[t]) <=> x \in MineOf(s, installed[t])
    BY <2>1, <2>2 DEF MineOf
  <2> QED BY <2>3 DEF Mine, s
<1> QED BY <1>1, <1>3, <1>4, <1>8, QuietStep

\* A thread's function is called: its bits are classical, and it has no context.
LEMMA CallRootExact ==
  ASSUME ExactInv, NEW t \in Threads, Only(t), CallRoot(t)
  PROVE  DataOK' /\ (AllExcused => Excuse' \/ AllTracked')
<1> DEFINE f == Frame(Root(t), wrappers[Root(t)] # <<>>)  r == <<f>>
<1>1. /\ OwnersOK /\ DOMAIN stack = Threads /\ DOMAIN spent = Threads /\ DOMAIN bits = Threads
      /\ DOMAIN ideal = Threads /\ DOMAIN went = Threads /\ spent[t] \in [gates : Nat, calls : Nat]
      /\ ThreadOK(stack[t], installed[t], todo[t])
      /\ \A c \in Alive : ContextIs(c, context[c], sent[c])
  BY ThreadHas DEF OwnersOK
<1>2. PICK ones \in plan.values :
        /\ bits' = [bits EXCEPT ![t] = [b \in Bits |-> [value |-> IF b \in ones THEN 1 ELSE 0, qubit |-> Unpromoted]]]
        /\ ideal' = [ideal EXCEPT ![t] = Basis(Bits, ones)]
  BY DEF CallRoot
<1>3. /\ stack[t] = <<>> /\ stack'[t] = r /\ spent' = [spent EXCEPT ![t].calls = @ + 1, ![t].gates = 0]
      /\ went'[t] = {} /\ UNCHANGED <<context, installed, todo, sent>>
  BY <1>1 DEF CallRoot
<1>4. ones \in SUBSET Bits
  BY <1>2 DEF ExactInv, IInv, PlanOK
<1>5. IsStart(bits'[t], Bits, ones) /\ ideal'[t] = Basis(Bits, ones)
  BY <1>1, <1>2 DEF IsStart
<1>6. BitsOK(bits'[t], Bits) /\ ideal'[t] \in Vectors(Bits)
  BY <1>4, <1>5, MatchesStart
<1>7. todo[t] = <<>> /\ todo'[t] = <<>>
  BY <1>1, <1>3 DEF ThreadOK
<1>8. spent'[t] \in [gates : Nat, calls : Nat]
  <2>1. spent[t].calls + 1 \in Nat /\ 0 \in Nat
    BY <1>1
  <2>2. spent'[t] = [spent[t] EXCEPT !.calls = @ + 1, !.gates = 0]
    BY <1>1, <1>3
  <2> QED BY <1>1, <2>1, <2>2
<1>9. ThreadIs(bits'[t], todo'[t], ideal'[t], spent'[t], went'[t])
  <2>1. <<>> \in Seq(Gates) /\ Len(<<>>) <= 3
    OBVIOUS
  <2> QED BY <1>3, <1>6, <1>7, <1>8, <2>1 DEF ThreadIs
<1>10. f.own = NoContext
  BY DEF Frame
<1> HIDE DEF f
<1>11. AtHome(stack[t], installed[t]) => MineOf(stack'[t], installed'[t]) = {}
  <2>1. Len(r) = 1 /\ r[1] = f /\ 1..1 = {1}
    OBVIOUS
  <2> HIDE DEF r
  <2>2. AtHome(stack[t], installed[t]) => installed[t] = NoContext
    BY <1>3 DEF AtHome
  <2> QED BY <1>3, <1>10, <2>1, <2>2 DEF MineOf
<1>12. Tracked(context', sent', {}, {}, bits'[t], <<>>, Basis(Bits, ones))
  BY <1>4, <1>5, TrackedStart
<1>13. AtHome(stack[t], installed[t])
       => Tracked(context', sent', MineOf(stack'[t], installed'[t]), went'[t], bits'[t], todo'[t], ideal'[t])
  BY <1>3, <1>5, <1>7, <1>11, <1>12
<1>14. \A c \in Alive' : ContextIs(c, context'[c], sent'[c])
  BY <1>1, <1>3 DEF Alive
<1>15. \A c \in Alive \ (Mine(t) \cup {Default}) : sent'[c] = sent[c] /\ SameContext(context'[c], context[c])
  BY <1>3 DEF SameContext
<1> QED BY <1>9, <1>13, <1>14, <1>15, LocalStep

\* sturm_backend_create(mode), when there is memory: the context is new.
LEMMA CreateExact ==
  ASSUME ExactInv, NEW t \in Threads, Only(t), Create(t)
  PROVE  DataOK' /\ (AllExcused => Excuse' \/ AllTracked')
<1> DEFINE s == stack[t]  n == Len(s)
<1>1. /\ OwnersOK /\ DOMAIN stack = Threads /\ DOMAIN installed = Threads
      /\ ThreadIs(bits[t], todo[t], ideal[t], spent[t], went[t]) /\ spent[t] \in [gates : Nat, calls : Nat]
      /\ Mine(t) \subseteq Alive \ {Default} /\ NoContext \notin Mine(t)
      /\ \A d \in Alive : d \in DOMAIN sent /\ ContextIs(d, context[d], sent[d])
  BY ThreadHas
<1>2. s # <<>> /\ Top(t).at = "enter" /\ UNCHANGED <<installed, bits, todo, ideal, went, spent>>
  BY DEF Create
<1>3. n \in 1..n /\ Top(t) = s[n] /\ StackOK(s) /\ Top(t) \in Frames
  BY <1>1, <1>2, TopOf
<1>4. CASE \E mode \in plan.modes : \E c \in {FreshHandle} :
             /\ c # NoContext
             /\ context' = [d \in Alive \cup {c} |-> IF d = c THEN FreshContext(mode) ELSE context[d]]
             /\ stack' = [stack EXCEPT ![t][Len(stack[t])] = [@ EXCEPT !.own = c, !.at = "install"]]
             /\ sent' = [sent EXCEPT ![c] = 0]
             /\ UNCHANGED mishaps
  <2>1. PICK mode \in plan.modes, c \in {FreshHandle} :
             /\ c # NoContext
             /\ context' = [d \in Alive \cup {c} |-> IF d = c THEN FreshContext(mode) ELSE context[d]]
             /\ stack' = [stack EXCEPT ![t][Len(stack[t])] = [@ EXCEPT !.own = c, !.at = "install"]]
             /\ sent' = [sent EXCEPT ![c] = 0]
    BY <1>4
  <2> DEFINE f == [Top(t) EXCEPT !.own = c, !.at = "install"]  r == Retop(s, f)
  <2>2. c \in Heap /\ c \notin Alive
    BY <2>1 DEF FreshHandle
  <2>3. /\ Default \in Alive /\ c # Default /\ c \notin Mine(t) /\ c \in DOMAIN sent
    BY <1>1, <2>2 DEF OwnersOK, Counts, Domains
  <2>4. /\ Alive' = Alive \cup {c} /\ context'[c] = FreshContext(mode) /\ sent'[c] = 0
        /\ \A d \in Alive : context'[d] = context[d] /\ sent'[d] = sent[d]
    BY <1>1, <2>1, <2>2, <2>3 DEF Alive
  <2>5. stack'[t] = r /\ installed'[t] = installed[t]
    BY <1>1, <1>2, <1>3, <2>1 DEF Retop
  <2>6. f \in Frames /\ f.own = c
    BY <1>3, <2>2 DEF Frames
  <2> HIDE DEF f
  <2>7. Len(r) = n /\ r[n] = f /\ \A i \in 1..n : i # n => r[i] = s[i]
    BY <1>2, <1>3, <2>6, Retopped
  <2>8. s[n].own = NoContext
    BY <1>2, <1>3 DEF StackOK, FrameOK
  <2> HIDE DEF r
  <2>9. MineOf(r, installed[t]) = Mine(t) \cup {c}
    <3>1. \A x : x \in {r[i].own : i \in 1..n} <=> x = c \/ \E i \in 1..n : i # n /\ x = s[i].own
      BY <1>3, <2>6, <2>7
    <3>2. \A x : x \in {s[i].own : i \in 1..n} <=> x = NoContext \/ \E i \in 1..n : i # n /\ x = s[i].own
      BY <1>3, <2>8
    <3>3. \A x : x \in MineOf(r, installed[t]) <=> x \in Mine(t) \cup {c}
      BY <2>1, <2>7, <3>1, <3>2 DEF MineOf, Mine
    <3> QED BY <3>3
  <2>10. ContextIs(c, FreshContext(mode), 0)
    <3>1. <<>> \in Seq(Gates)
      OBVIOUS
    <3> QED BY <2>3, <3>1 DEF ContextIs, FreshContext
  <2>11. \A d \in Alive' : ContextIs(d, context'[d], sent'[d])
    BY <1>1, <2>4, <2>10
  <2>12. \A d \in Alive : sent'[d] = sent[d] /\ SameContext(context'[d], context[d])
    BY <2>4 DEF SameContext
  <2>13. ThreadIs(bits'[t], todo'[t], ideal'[t], spent'[t], went'[t])
    BY <1>1, <1>2
  <2>14. ASSUME Tracked(context, sent, Mine(t), went[t], bits[t], todo[t], ideal[t])
         PROVE  Tracked(context', sent', MineOf(stack'[t], installed'[t]), went'[t], bits'[t], todo'[t], ideal'[t])
    <3>1. c \notin Mine(t) \cup {Default, NoContext} /\ \A d \in Mine(t) : sent'[d] = sent[d] /\ SameContext(context'[d], context[d])
      BY <1>1, <2>1, <2>3, <2>12
    <3>2. Tracked(context', sent', Mine(t) \cup {c}, went[t], bits[t], todo[t], ideal[t])
      BY <2>4, <2>14, <3>1, TrackedCreated
    <3> QED BY <1>2, <2>5, <2>9, <3>2
  <2> QED BY <2>11, <2>12, <2>13, <2>14, LocalStep
<1>5. CASE mishaps' = mishaps \cup {"memory"} /\ UNCHANGED <<context, sent>>
  <2>1. AllExcused => Excuse'
    BY <1>5 DEF Excuse, AllExcused
  <2> QED BY <1>1, <1>2, <1>5, <2>1, QuietStep
<1> QED BY <1>4, <1>5 DEF Create

\* sturm_backend_destroy(ctx): the thread's context is gone.
LEMMA DestroyExact ==
  ASSUME ExactInv, NEW t \in Threads, Only(t), Destroy(t)
  PROVE  DataOK' /\ (AllExcused => Excuse' \/ AllTracked')
<1> DEFINE s == stack[t]  n == Len(s)  r == Front(s)  c == Top(t).own
<1>1. /\ OwnersOK /\ DOMAIN stack = Threads /\ DOMAIN installed = Threads /\ DOMAIN went = Threads
      /\ ThreadIs(bits[t], todo[t], ideal[t], spent[t], went[t])
      /\ Mine(t) \subseteq Alive \ {Default} /\ NoContext \notin Mine(t)
      /\ \A d \in Alive : ContextIs(d, context[d], sent[d])
  BY ThreadHas
<1>2. /\ s # <<>> /\ Top(t).at = "leave" /\ stack' = [stack EXCEPT ![t] = Front(@)]
      /\ context' = [d \in Alive \ {c} |-> context[d]] /\ went'[t] = Renamed(went[t], c)
      /\ UNCHANGED <<installed, sent, bits, todo, ideal, spent>>
  BY <1>1 DEF Destroy, Renamed
<1>3. /\ n \in 1..n /\ Top(t) = s[n] /\ StackOK(s) /\ Top(t).wrapped /\ todo[t] = <<>> /\ installed[t] = NoContext
      /\ c # NoContext => c \in Mine(t)
  BY <1>1, <1>2, TopOf DEF ThreadOK
<1>4. /\ \A i \in 1..Len(r) : r[i] = s[i] /\ i \in 1..n
      /\ \A i \in 1..n : i # n => i \in 1..Len(r)
      /\ c # NoContext => \A i \in 1..Len(r) : r[i].own # c
  BY <1>1, <1>2, <1>3, Pops
<1>5. stack'[t] = r /\ installed'[t] = NoContext
  BY <1>1, <1>2, <1>3
<1> HIDE DEF r
<1>6. c # NoContext => MineOf(r, NoContext) = Mine(t) \ {c}
  <2>1. \A x : x \in {s[i].own : i \in 1..n} <=> x = c \/ \E i \in 1..Len(r) : x = r[i].own
    BY <1>3, <1>4
  <2>2. c # NoContext => \A x : x \in MineOf(r, NoContext) <=> x \in Mine(t) \ {c}
    BY <1>3, <1>4, <2>1 DEF MineOf, Mine
  <2> QED BY <2>2
<1>7. Alive' = Alive \ {c} /\ \A d \in Alive \ {c} : context'[d] = context[d] /\ sent'[d] = sent[d]
  BY <1>2 DEF Alive
<1>8. went'[t] # {} => went[t] # {}
  BY <1>2 DEF Renamed
<1>9. ThreadIs(bits'[t], todo'[t], ideal'[t], spent'[t], went'[t])
  BY <1>1, <1>2, <1>8 DEF ThreadIs
<1>10. \A d \in Alive' : ContextIs(d, context'[d], sent'[d])
  BY <1>1, <1>7
<1>11. NoContext \notin Alive
  BY <1>1 DEF OwnersOK, Counts
<1>12. \A d \in Alive \ {c} : sent'[d] = sent[d] /\ SameContext(context'[d], context[d])
  BY <1>7 DEF SameContext
<1>13. \A d \in Alive \ (Mine(t) \cup {Default}) : sent'[d] = sent[d] /\ SameContext(context'[d], context[d])
  BY <1>3, <1>11, <1>12
<1> HIDE DEF c
<1>14. ASSUME AtHome(s, installed[t]), Tracked(context, sent, Mine(t), went[t], bits[t], todo[t], ideal[t])
       PROVE  Tracked(context', sent', MineOf(stack'[t], installed'[t]), went'[t], bits'[t], todo'[t], ideal'[t])
  <2>1. c # NoContext
    BY <1>2, <1>3, <1>14 DEF AtHome, c
  <2>2. c # Default /\ Default \notin Mine(t) /\ \A d \in Mine(t) \ {c} : sent'[d] = sent[d] /\ SameContext(context'[d], context[d])
    BY <1>1, <1>3, <1>12, <2>1
  <2>3. Tracked(context', sent', Mine(t) \ {c}, Renamed(went[t], c), bits[t], todo[t], ideal[t])
    BY <1>1, <1>14, <2>2, TrackedDestroyed
  <2> QED BY <1>2, <1>5, <1>6, <2>1, <2>3
<1> QED BY <1>9, <1>10, <1>13, <1>14, LocalStep

-----------------------------------------------------------------------------
(* Steps of a body. *)

\* The context that a thread's gates go to is its own or the process default.
LEMMA CurrentIs ==
  ASSUME ExactInv, NEW t \in Threads
  PROVE  /\ Current(t) \in Mine(t) \cup {Default} /\ Default \notin Mine(t) /\ Default \in Alive
         /\ Current(t) # Default => Current(t) = installed[t] /\ installed[t] # NoContext
         /\ installed[t] # NoContext => Current(t) = installed[t] /\ Current(t) # Default
<1>1. Mine(t) \subseteq Alive \ {Default} /\ OwnersOK
  BY ThreadHas
<1>2. installed[t] # NoContext => installed[t] \in Mine(t)
  BY DEF Mine, MineOf
<1> QED BY <1>1, <1>2 DEF Current, OwnersOK, Counts

\* Within a body, a thread that has a context installed has no other.
LEMMA HomeIsOnly ==
  ASSUME ExactInv, NEW t \in Threads, AtHome(stack[t], installed[t]), installed[t] # NoContext
  PROVE  Mine(t) = {installed[t]}
<1> DEFINE s == stack[t]  n == Len(s)
<1>1. OwnersOK
  BY ThreadHas
<1>2. /\ s # <<>> /\ s[n].at = "body" /\ \A i \in 1..n : s[i].wrapped => installed[t] = s[i].own
  BY DEF AtHome
<1>3. StackOK(s)
  BY <1>1, <1>2, TopOf
<1>4. \A i \in 1..n : s[i].own # NoContext => s[i].own = installed[t]
  BY <1>2, <1>3 DEF StackOK, FrameOK
<1>5. \A x : x \in Mine(t) <=> x = installed[t]
  BY <1>4 DEF Mine, MineOf
<1> QED BY <1>5

\* A gate is dispatched: bits and gates stand for what the gate, as written,
\* makes of the state of the bits.
LEMMA DispatchExact ==
  ASSUME ExactInv, NEW t \in Threads, Only(t), Dispatch(t)
  PROVE  DataOK' /\ (AllExcused => Excuse' \/ AllTracked')
<1> DEFINE a == bits[t]  phi == ideal[t]
<1>1. /\ IInv /\ DOMAIN bits = Threads /\ DOMAIN todo = Threads /\ DOMAIN ideal = Threads /\ DOMAIN spent = Threads
      /\ ThreadIs(bits[t], todo[t], ideal[t], spent[t], went[t]) /\ spent[t] \in [gates : Nat, calls : Nat]
      /\ \A d \in Alive : ContextIs(d, context[d], sent[d])
  BY ThreadHas
<1>2. /\ todo[t] = <<>> /\ spent' = [spent EXCEPT ![t].gates = @ + 1]
      /\ UNCHANGED <<context, installed, stack, went, sent>>
  BY DEF Dispatch, InBody
<1>3. PICK op \in plan.menu : \E d \in Dispatches(op.kind, op.z, a, op.ops) :
        /\ bits' = [bits EXCEPT ![t] = d.bits]
        /\ todo' = [todo EXCEPT ![t] = d.gates]
        /\ ideal' = [ideal EXCEPT ![t] = Meaning(op.kind, op.z, op.ops, @)]
  BY DEF Dispatch
<1>4. PICK d \in Dispatches(op.kind, op.z, a, op.ops) :
        bits'[t] = d.bits /\ todo'[t] = d.gates /\ ideal'[t] = Meaning(op.kind, op.z, op.ops, phi)
  BY <1>1, <1>3
<1>5. GateOK(op.kind, op.z, op.ops, Bits)
  <2>1. PlanOK(plan)
    BY <1>1 DEF IInv
  <2>2. op \in [kind : Kinds, z : Int \X Int, ops : Seq(Bits)]
    BY <2>1 DEF PlanOK
  <2>3. op.z # Zero /\ Len(op.ops) = Arity(op.kind) /\ IsInjective(op.ops)
    BY <2>1 DEF PlanOK
  <2> QED BY <2>2, <2>3 DEF GateOK, NonZero, Gaussian
<1>6. BitsOK(a, Bits) /\ phi \in Vectors(Bits)
  BY <1>1 DEF ThreadIs
<1> HIDE DEF a, phi
<1>7. BitsOK(d.bits, Bits) /\ d.gates \in Seq(Gates) /\ Len(d.gates) <= 3
  BY <1>5, <1>6, BitsAssumption, MatchesDispatch
<1>8. Meaning(op.kind, op.z, op.ops, phi) \in Vectors(Bits)
  BY <1>5, <1>6, MeaningIsVector
<1>9. spent'[t] \in [gates : Nat, calls : Nat] /\ spent'[t].gates > 0
  <2>1. spent[t].gates + 1 \in Nat /\ spent[t].gates + 1 > 0
    BY <1>1
  <2>2. spent'[t] = [spent[t] EXCEPT !.gates = @ + 1]
    BY <1>1, <1>2
  <2> QED BY <1>1, <2>1, <2>2
<1>10. ThreadIs(bits'[t], todo'[t], ideal'[t], spent'[t], went'[t])
  BY <1>4, <1>7, <1>8, <1>9 DEF ThreadIs
<1>11. \A c \in Alive' : ContextIs(c, context'[c], sent'[c])
  BY <1>1, <1>2 DEF Alive
<1>12. \A c \in Alive \ (Mine(t) \cup {Default}) : sent'[c] = sent[c] /\ SameContext(context'[c], context[c])
  BY <1>2 DEF SameContext
<1>13. ASSUME Tracked(context, sent, Mine(t), went[t], bits[t], todo[t], ideal[t])
       PROVE  Tracked(context', sent', MineOf(stack'[t], installed'[t]), went'[t], bits'[t], todo'[t], ideal'[t])
  <2>1. Tracked(context, sent, Mine(t), went[t], a, <<>>, phi)
    BY <1>2, <1>13 DEF a, phi
  <2>2. Tracked(context, sent, Mine(t), went[t], d.bits, d.gates, Meaning(op.kind, op.z, op.ops, phi))
    BY <1>5, <1>6, <2>1, TrackedDispatch
  <2> QED BY <1>2, <1>4, <2>2 DEF Mine
<1> QED BY <1>10, <1>11, <1>12, <1>13, LocalStep

\* gate_count is read.
LEMMA LoadCountExact ==
  ASSUME ExactInv, NEW t \in Threads, Only(t), LoadCount(t)
  PROVE  DataOK' /\ (AllExcused => Excuse' \/ AllTracked')
<1>1. spent[t] \in [gates : Nat, calls : Nat]
  BY ThreadHas
<1>2. UNCHANGED <<context, installed, stack, sent, bits, todo, ideal, went, spent>>
  BY DEF LoadCount, ghosts
<1> QED BY <1>1, <1>2, QuietStep DEF Mine

\* A gate is executed.
LEMMA ExecuteGateExact ==
  ASSUME ExactInv, NEW t \in Threads, Only(t), ExecuteGate(t)
  PROVE  DataOK' /\ (AllExcused => Excuse' \/ AllTracked')
<1> DEFINE c == Current(t)  g == Head(todo[t])  m == context[c].mode
<1>1. /\ IInv /\ DOMAIN todo = Threads /\ DOMAIN went = Threads
      /\ ThreadIs(bits[t], todo[t], ideal[t], spent[t], went[t])
      /\ \A d \in Alive : /\ d \in DOMAIN sent /\ ContextIs(d, context[d], sent[d]) /\ ContextOK(context[d])
                          /\ d # Default => sent[d] \in Nat
  BY ThreadHas
<1>2. /\ todo[t] # <<>> /\ c \in Alive
      /\ context' = [context EXCEPT ![c] = [Execute(@, g) EXCEPT !.gate_count = counter[t] + 1]]
      /\ sent' = [sent EXCEPT ![c] = @ + 1]
      /\ went' = [went EXCEPT ![t] = @ \cup {<<c, m>>}]
      /\ todo' = [todo EXCEPT ![t] = Tail(@)]
      /\ UNCHANGED <<installed, stack, bits, ideal, spent>>
  BY DEF ExecuteGate, Usable
<1>3. c \in Mine(t) \cup {Default} /\ Default \notin Mine(t)
  BY CurrentIs
<1>4. /\ ContextIs(c, context[c], sent[c]) /\ m \in Modes /\ (c # Default => sent[c] \in Nat)
  BY <1>1, <1>2 DEF ContextOK
<1> HIDE DEF c
<1>5. Executed(context'[c], context[c], g)
  <2>1. context'[c] = [Execute(context[c], g) EXCEPT !.gate_count = counter[t] + 1]
    BY <1>2 DEF Alive
  <2> QED BY <1>4, <2>1, ExecutedIs
<1>6. /\ Alive' = Alive /\ sent'[c] = sent[c] + 1
      /\ \A d \in Alive \ {c} : context'[d] = context[d] /\ sent'[d] = sent[d]
  BY <1>1, <1>2 DEF Alive
<1>7. todo'[t] = Tail(todo[t]) /\ went'[t] = went[t] \cup {<<c, m>>}
  BY <1>1, <1>2
<1>8. /\ BitsOK(bits[t], Bits) /\ todo[t] \in Seq(Gates) /\ Len(todo[t]) <= 3 /\ ideal[t] \in Vectors(Bits)
      /\ spent[t] \in [gates : Nat, calls : Nat] /\ spent[t].gates > 0
  BY <1>1, <1>2 DEF ThreadIs
<1>9. g \in Gates /\ Tail(todo[t]) \in Seq(Gates) /\ Len(Tail(todo[t])) <= 3
  <2>1. g \in Gates /\ Tail(todo[t]) \in Seq(Gates) /\ Len(Tail(todo[t])) = Len(todo[t]) - 1
    BY <1>2, <1>8, AfterHead
  <2>2. Len(todo[t]) \in Nat
    BY <1>8
  <2> QED BY <1>8, <2>1, <2>2
<1> HIDE DEF g
<1>10. ThreadIs(bits'[t], todo'[t], ideal'[t], spent'[t], went'[t])
  BY <1>2, <1>7, <1>8, <1>9 DEF ThreadIs
<1>11. ContextIs(c, context'[c], sent[c] + 1)
  BY <1>4, <1>5, <1>9, ExecutedKeeps
<1>12. \A d \in Alive' : ContextIs(d, context'[d], sent'[d])
  BY <1>1, <1>6, <1>11
<1>13. \A d \in Alive \ {c} : sent'[d] = sent[d] /\ SameContext(context'[d], context[d])
  BY <1>6 DEF SameContext
<1>14. Mine(t) \subseteq Alive
  BY ThreadHas
<1>15. ASSUME Tracked(context, sent, Mine(t), went[t], bits[t], todo[t], ideal[t])
       PROVE  Tracked(context', sent', MineOf(stack'[t], installed'[t]), went'[t], bits'[t], todo'[t], ideal'[t])
  <2>1. \A d \in Mine(t) \ {c} : sent'[d] = sent[d] /\ SameContext(context'[d], context[d])
    BY <1>13, <1>14
  <2>2. c \in Mine(t) => sent[c] \in Nat /\ sent'[c] = sent[c] + 1
    BY <1>3, <1>4, <1>6
  <2>3. Executes(context, sent, context', sent', Mine(t), c, Head(todo[t]))
    BY <1>3, <1>4, <1>5, <2>1, <2>2 DEF g, Executes
  <2>4. Tracked(context', sent', Mine(t), went[t] \cup {<<c, context[c].mode>>}, bits[t], Tail(todo[t]), ideal[t])
    BY <1>2, <1>3, <1>8, <1>15, <2>3, TrackedExecuted
  <2> QED BY <1>2, <1>7, <2>4 DEF Mine
<1>16. \A d \in Alive \ (Mine(t) \cup {Default}) : sent'[d] = sent[d] /\ SameContext(context'[d], context[d])
  BY <1>3, <1>13
<1> QED BY <1>10, <1>12, <1>15, <1>16, LocalStep

\* What is left to show of a step of t that changes what its context holds.
LEMMA OwnStep ==
  ASSUME ExactInv, NEW t \in Threads, Only(t), UNCHANGED <<installed, stack, bits, todo, went, sent>>,
         Alive' = Alive, \A d \in Alive \ {Current(t)} : context'[d] = context[d],
         ContextIs(Current(t), context'[Current(t)], sent[Current(t)]),
         ThreadIs(bits[t], todo[t], ideal'[t], spent'[t], went[t]),
         /\ AllExcused /\ ~Excuse' /\ AtHome(stack[t], installed[t])
         /\ Tracked(context, sent, Mine(t), went[t], bits[t], todo[t], ideal[t])
         => Tracked(context', sent, Mine(t), went[t], bits[t], todo[t], ideal'[t])
  PROVE  DataOK' /\ (AllExcused => Excuse' \/ AllTracked')
<1>1. \A c \in Alive : ContextIs(c, context[c], sent[c])
  BY ThreadHas
<1>2. \A c \in Alive' : ContextIs(c, context'[c], sent'[c])
  BY <1>1
<1>3. \A c \in Alive \ (Mine(t) \cup {Default}) : sent'[c] = sent[c] /\ SameContext(context'[c], context[c])
  BY CurrentIs DEF SameContext
<1>4. ThreadIs(bits'[t], todo'[t], ideal'[t], spent'[t], went'[t])
  OBVIOUS
<1>5. /\ AllExcused /\ ~Excuse' /\ AtHome(stack[t], installed[t])
      /\ Tracked(context, sent, Mine(t), went[t], bits[t], todo[t], ideal[t])
      => Tracked(context', sent', MineOf(stack'[t], installed'[t]), went'[t], bits'[t], todo'[t], ideal'[t])
  BY DEF Mine
<1> QED BY <1>2, <1>3, <1>4, <1>5, LocalStep

\* sturm_measure: the state of the bits goes where that of the qubits went.
LEMMA MeasureExact ==
  ASSUME ExactInv, NEW t \in Threads, Only(t), Measure(t)
  PROVE  DataOK' /\ (AllExcused => Excuse' \/ AllTracked')
<1> DEFINE m == Current(t)  k == context[m]
<1>1. /\ DOMAIN ideal = Threads /\ DOMAIN spent = Threads
      /\ ThreadIs(bits[t], todo[t], ideal[t], spent[t], went[t]) /\ spent[t] \in [gates : Nat, calls : Nat]
      /\ \A d \in Alive : ContextIs(d, context[d], sent[d])
  BY ThreadHas
<1>2. /\ todo[t] = <<>> /\ m \in Alive /\ spent' = [spent EXCEPT ![t].gates = @ + 1]
      /\ UNCHANGED <<installed, stack, bits, todo, went, sent>>
  BY DEF Measure, InBody, Usable
<1>3. PICK b \in Bits :
        /\ ~IsClassical(bits[t][b])
        /\ k.mode = "SIMULATE" => k.state # NoBridge
        /\ \E found \in Measurements(k, bits[t][b].qubit) :
             /\ context' = [context EXCEPT ![m] = found.context]
             /\ ideal' = IF k.mode = "SIMULATE" THEN [ideal EXCEPT ![t] = Collapse(b, found.outcome, @)] ELSE ideal
  BY DEF Measure
<1> DEFINE q == bits[t][b].qubit
<1>4. PICK found \in Measurements(k, q) :
        /\ context' = [context EXCEPT ![m] = found.context]
        /\ ideal' = IF k.mode = "SIMULATE" THEN [ideal EXCEPT ![t] = Collapse(b, found.outcome, @)] ELSE ideal
  BY <1>3
<1>5. /\ Alive' = Alive /\ context'[m] = found.context
      /\ \A d \in Alive \ {m} : context'[d] = context[d]
  BY <1>2, <1>4 DEF Alive
<1>6. /\ BitsOK(bits[t], Bits) /\ todo[t] \in Seq(Gates) /\ Len(todo[t]) <= 3 /\ ideal[t] \in Vectors(Bits)
  BY <1>1 DEF ThreadIs
<1>7. spent'[t] \in [gates : Nat, calls : Nat] /\ spent'[t].gates > 0
  <2>1. spent[t].gates + 1 \in Nat /\ spent[t].gates + 1 > 0
    BY <1>1
  <2>2. spent'[t] = [spent[t] EXCEPT !.gates = @ + 1]
    BY <1>1, <1>2
  <2> QED BY <1>1, <2>1, <2>2
<1>8. ContextIs(m, k, sent[m])
  BY <1>1, <1>2
<1>9. CASE k.mode # "SIMULATE"
  <2>1. found.context = k /\ ideal' = ideal
    BY <1>4, <1>9 DEF Measurements
  <2>2. ThreadIs(bits[t], todo[t], ideal'[t], spent'[t], went[t])
    BY <1>6, <1>7, <2>1 DEF ThreadIs
  <2>3. \A d \in Alive : context'[d] = context[d]
    BY <1>5, <2>1
  <2>4. \A d \in Mine(t) : SameContext(context'[d], context[d])
    BY <2>3, ThreadHas DEF SameContext
  <2>5. Tracked(context, sent, Mine(t), went[t], bits[t], todo[t], ideal[t])
        => Tracked(context', sent, Mine(t), went[t], bits[t], todo[t], ideal[t])
    BY <2>4, TrackedStays
  <2>6. ContextIs(m, context'[m], sent[m])
    BY <1>5, <1>8, <2>1
  <2> HIDE DEF m
  <2> QED BY <1>2, <1>5, <2>1, <2>2, <2>5, <2>6, OwnStep DEF m
<1>10. CASE k.mode = "SIMULATE"
  <2>1. PICK r \in Possible(q, k.state) :
          found = [outcome |-> r, context |-> [k EXCEPT !.state = Collapse(q, r, @), !.classical = (q :> r) @@ @]]
    BY <1>4, <1>10 DEF Measurements
  <2>2. found.outcome = r /\ found.context = [k EXCEPT !.state = Collapse(q, r, @), !.classical = (q :> r) @@ @]
    BY <2>1
  <2>3. DOMAIN k = {"mode", "gate_count", "ir", "state", "classical"}
    BY <1>8 DEF ContextIs
  <2>4. Measured(context'[m], k, q, r)
    BY <1>5, <2>1, <2>2, <2>3 DEF Measured
  <2>5. ideal'[t] = Collapse(b, r, ideal[t])
    BY <1>1, <1>4, <1>10, <2>2
  <2>6. k.state # NoBridge
    BY <1>3, <1>10
  <2> HIDE DEF q, k
  <2>7. ContextIs(m, context'[m], sent[m])
    BY <1>8, <2>4, <2>6, MeasuredKeeps
  <2>8. ideal'[t] \in Vectors(Bits)
    BY <1>6, <2>5, CollapseAt
  <2>9. ThreadIs(bits[t], todo[t], ideal'[t], spent'[t], went[t])
    BY <1>6, <1>7, <2>8 DEF ThreadIs
  <2>10. m # Default
    BY <1>8, <2>6 DEF ContextIs
  <2>11. installed[t] = m /\ installed[t] # NoContext
    BY <2>10, CurrentIs
  <2> HIDE DEF m
  <2>12. ASSUME AtHome(stack[t], installed[t]), Tracked(context, sent, Mine(t), went[t], bits[t], todo[t], ideal[t])
         PROVE  Tracked(context', sent, Mine(t), went[t], bits[t], todo[t], ideal'[t])
    <3>1. Mine(t) = {m}
      BY <2>11, <2>12, HomeIsOnly
    <3>2. Tracked(context, sent, {m}, went[t], bits[t], <<>>, ideal[t])
      BY <1>2, <2>12, <3>1
    <3>3. /\ context[m].mode = "SIMULATE" /\ context[m].state # NoBridge
          /\ ContextIs(m, context[m], sent[m]) /\ Measured(context'[m], context[m], bits[t][b].qubit, r)
      BY <1>8, <1>10, <2>4, <2>6 DEF k, q
    <3>4. Tracked(context', sent, {m}, went[t], bits[t], <<>>, Collapse(b, r, ideal[t]))
      BY <1>3, <1>6, <2>10, <3>2, <3>3, TrackedMeasured
    <3> QED BY <1>2, <2>5, <3>1, <3>4
  <2> QED BY <1>2, <1>5, <2>7, <2>9, <2>12, OwnStep DEF m
<1> QED BY <1>9, <1>10

\* sturm_init_from_args: no gate went anywhere yet.
LEMMA InitFromArgsExact ==
  ASSUME ExactInv, NEW t \in Threads, Only(t), InitFromArgs(t)
  PROVE  DataOK' /\ (AllExcused => Excuse' \/ AllTracked')
<1> DEFINE m == Current(t)
<1>1. /\ ThreadIs(bits[t], todo[t], ideal[t], spent[t], went[t])
      /\ \A d \in Alive : ContextIs(d, context[d], sent[d])
      /\ Mine(t) \subseteq Alive
  BY ThreadHas
<1>2. /\ m \in Alive /\ spent[t].gates = 0
      /\ UNCHANGED <<installed, stack, bits, todo, ideal, went, sent, spent>>
  BY DEF InitFromArgs, Usable, ghosts
<1>3. PICK mode \in Modes : context' = [context EXCEPT ![m].mode = mode]
  BY DEF InitFromArgs
<1>4. /\ Alive' = Alive /\ context'[m] = [context[m] EXCEPT !.mode = mode]
      /\ \A d \in Alive \ {m} : context'[d] = context[d]
  BY <1>2, <1>3 DEF Alive
<1>5. ContextIs(m, context'[m], sent[m])
  BY <1>1, <1>2, <1>4 DEF ContextIs
<1>6. went[t] = {}
  <2>1. ~(spent[t].gates > 0)
    BY <1>2
  <2> QED BY <1>1, <2>1 DEF ThreadIs
<1>7. \A c \in Mine(t) : \A x \in Modes : <<c, x>> \in went[t] => SameContext(context'[c], context[c])
  BY <1>6
<1>8. Tracked(context, sent, Mine(t), went[t], bits[t], todo[t], ideal[t])
      => Tracked(context', sent, Mine(t), went[t], bits[t], todo[t], ideal[t])
  BY <1>7, TrackedStays
<1> HIDE DEF m
<1> QED BY <1>1, <1>2, <1>4, <1>5, <1>8, OwnStep DEF m

\* A state vector is attached: no gate went to its context.
LEMMA AttachExact ==
  ASSUME ExactInv, NEW t \in Threads, Only(t), Attach(t)
  PROVE  DataOK' /\ (AllExcused => Excuse' \/ AllTracked')
<1> DEFINE m == Current(t)
<1>1. /\ ThreadIs(bits[t], todo[t], ideal[t], spent[t], went[t])
      /\ \A d \in Alive : ContextIs(d, context[d], sent[d])
      /\ Mine(t) \subseteq Alive
  BY ThreadHas
<1>2. /\ m \in Alive /\ installed[t] # NoContext /\ sent[m] = 0
      /\ context' = [context EXCEPT ![m] = AttachBridge(@)]
      /\ UNCHANGED <<installed, stack, bits, todo, ideal, went, sent, spent>>
  BY DEF Attach, Usable, ghosts
<1>3. /\ Alive' = Alive /\ context'[m] = AttachBridge(context[m])
      /\ \A d \in Alive \ {m} : context'[d] = context[d]
  BY <1>2 DEF Alive
<1>4. m # Default
  BY <1>2, CurrentIs
<1>5. ContextIs(m, context'[m], sent[m])
  BY <1>1, <1>2, <1>3, <1>4 DEF ContextIs, AttachBridge
<1>6. ASSUME Tracked(context, sent, Mine(t), went[t], bits[t], todo[t], ideal[t])
      PROVE  Tracked(context', sent, Mine(t), went[t], bits[t], todo[t], ideal[t])
  <2>1. m \in Mine(t) => \A x \in Modes : <<m, x>> \notin went[t]
    BY <1>2, <1>6 DEF Tracked
  <2>2. \A c \in Mine(t) : \A x \in Modes : <<c, x>> \in went[t] => SameContext(context'[c], context[c])
    BY <1>1, <1>3, <2>1 DEF SameContext
  <2> QED BY <1>6, <2>2, TrackedStays
<1> HIDE DEF m
<1> QED BY <1>1, <1>2, <1>3, <1>5, <1>6, OwnStep DEF m

-----------------------------------------------------------------------------
(* The theorems. *)

\* The state a program starts in.
LEMMA ExactInit == Init => ExactInv
<1> SUFFICES ASSUME Init
             PROVE  ExactInv
  OBVIOUS
<1>1. IInv
  BY InitHolds
<1>2. /\ context = [c \in {Default} |-> FreshContext("COUNT_ONLY")]
      /\ sent = [c \in Heap \cup {Default} |-> 0]
      /\ stack = [t \in Threads |-> <<>>] /\ installed = [t \in Threads |-> NoContext]
      /\ bits = [t \in Threads |-> [b \in Bits |-> [value |-> 0, qubit |-> Unpromoted]]]
      /\ todo = [t \in Threads |-> <<>>] /\ ideal = [t \in Threads |-> Basis(Bits, {})]
      /\ spent = [t \in Threads |-> [gates |-> 0, calls |-> 0]] /\ went = [t \in Threads |-> {}]
      /\ passes = 0
  BY DEF Init
<1>3. \A t \in Threads : IsStart(bits[t], Bits, {})
  <2>1. [b \in Bits |-> [value |-> 0, qubit |-> Unpromoted]]
          = [b \in Bits |-> [value |-> IF b \in {} THEN 1 ELSE 0, qubit |-> Unpromoted]]
    OBVIOUS
  <2> QED BY <1>2, <2>1 DEF IsStart
<1>4. \A t \in Threads : ThreadIs(bits[t], todo[t], ideal[t], spent[t], went[t])
  <2> SUFFICES ASSUME NEW t \in Threads
               PROVE  ThreadIs(bits[t], todo[t], ideal[t], spent[t], went[t])
    OBVIOUS
  <2>1. BitsOK(bits[t], Bits) /\ Basis(Bits, {}) \in Vectors(Bits)
    BY <1>3, MatchesStart
  <2>2. todo[t] = <<>> /\ ideal[t] = Basis(Bits, {}) /\ spent[t] = [gates |-> 0, calls |-> 0] /\ went[t] = {}
    BY <1>2
  <2>3. <<>> \in Seq(Gates) /\ Len(<<>>) <= 3 /\ [gates |-> 0, calls |-> 0] \in [gates : Nat, calls : Nat]
    OBVIOUS
  <2> QED BY <2>1, <2>2, <2>3 DEF ThreadIs
<1>5. \A c \in Alive : ContextIs(c, context[c], sent[c])
  <2>1. Alive = {Default} /\ context[Default] = FreshContext("COUNT_ONLY")
    BY <1>2 DEF Alive
  <2>2. <<>> \in Seq(Gates)
    OBVIOUS
  <2>3. ContextIs(Default, FreshContext("COUNT_ONLY"), sent[Default])
    BY <2>2 DEF ContextIs, FreshContext
  <2> QED BY <2>1, <2>3
<1>6. DataOK
  <2>1. passes \in 0..plan.passes
    BY <1>1, <1>2 DEF IInv, PlanOK
  <2>2. DOMAIN bits = Threads /\ DOMAIN ideal = Threads /\ DOMAIN spent = Threads /\ DOMAIN went = Threads
    BY <1>2
  <2> QED BY <1>4, <1>5, <2>1, <2>2 DEF DataOK
<1>7. AllTracked
  <2> SUFFICES ASSUME NEW t \in Threads
               PROVE  Tracked(context, sent, Mine(t), went[t], bits[t], todo[t], ideal[t])
    BY DEF AllTracked
  <2>1. Mine(t) = {}
    BY <1>2 DEF Mine, MineOf
  <2>2. Tracked(context, sent, {}, {}, bits[t], <<>>, Basis(Bits, {}))
    BY <1>3, TrackedStart
  <2> QED BY <1>2, <2>1, <2>2
<1> QED BY <1>1, <1>6, <1>7 DEF ExactInv

\* A step.
LEMMA ExactStep ==
  ASSUME ExactInv, [Next]_vars
  PROVE  ExactInv'
<1>1. IInv /\ DataOK /\ (AllExcused => Excuse \/ AllTracked)
  BY DEF ExactInv
<1>2. IInv'
  BY <1>1, StepHolds
<1>3. ASSUME NEW t \in Threads, Run(t)
      PROVE  DataOK' /\ (AllExcused => Excuse' \/ AllTracked')
  <2>1. Only(t)
    BY <1>1, <1>3, RunIsLocal
  <2>2. CASE Create(t)
    BY <2>1, <2>2, CreateExact
  <2>3. CASE Install(t)
    BY <2>1, <2>3, InstallExact
  <2>4. CASE Return(t)
    BY <2>1, <2>4, ReturnExact
  <2>5. CASE Destroy(t)
    BY <2>1, <2>5, DestroyExact
  <2>6. CASE Throw(t)
    BY <2>1, <2>6, ThrowExact
  <2>7. CASE CallRoot(t)
    BY <2>1, <2>7, CallRootExact
  <2>8. CASE CallHelp(t)
    BY <2>1, <2>8, CallHelpExact
  <2>9. CASE Dispatch(t)
    BY <2>1, <2>9, DispatchExact
  <2>10. CASE LoadCount(t)
    BY <2>1, <2>10, LoadCountExact
  <2>11. CASE ExecuteGate(t)
    BY <2>1, <2>11, ExecuteGateExact
  <2>12. CASE Measure(t)
    BY <2>1, <2>12, MeasureExact
  <2>13. CASE InitFromArgs(t)
    BY <2>1, <2>13, InitFromArgsExact
  <2>14. CASE Attach(t)
    BY <2>1, <2>14, AttachExact
  <2> QED BY <1>3, <2>2, <2>3, <2>4, <2>5, <2>6, <2>7, <2>8, <2>9, <2>10, <2>11, <2>12, <2>13, <2>14 DEF Run
<1>4. ASSUME passes' \in 0..plan'.passes, UNCHANGED <<context, installed, stack, bits, todo, ghosts>>
      PROVE  DataOK' /\ (AllExcused => Excuse' \/ AllTracked')
  <2>1. DataOK'
    BY <1>1, <1>4 DEF DataOK, Alive, ghosts
  <2>2. AllTracked => AllTracked'
    BY <1>4 DEF AllTracked, Mine, ghosts
  <2>3. Excuse' = Excuse
    BY <1>4 DEF Excuse, ghosts
  <2> QED BY <1>1, <2>1, <2>2, <2>3
<1>5. CASE Transpile
  <2>1. passes \in 0..plan.passes /\ passes < plan.passes /\ passes' = passes + 1 /\ plan' = plan
    BY <1>1, <1>5 DEF DataOK, Transpile
  <2>2. plan.passes \in Nat
    BY <1>1 DEF IInv, PlanOK
  <2>3. passes' \in 0..plan'.passes
    BY <2>1, <2>2
  <2>4. UNCHANGED <<context, installed, stack, bits, todo, ghosts>>
    BY <1>5 DEF Transpile
  <2> QED BY <1>2, <1>4, <2>3, <2>4 DEF ExactInv
<1>6. CASE UNCHANGED vars
  <2>1. passes' \in 0..plan'.passes /\ UNCHANGED <<context, installed, stack, bits, todo, ghosts>>
    BY <1>1, <1>6 DEF DataOK, vars, ghosts
  <2> QED BY <1>2, <1>4, <2>1 DEF ExactInv
<1>7. CASE \E t \in Threads : Run(t)
  BY <1>2, <1>3, <1>7 DEF ExactInv
<1> QED BY <1>5, <1>6, <1>7 DEF Next

\* In every reachable state, what the contexts of a thread and its bits have is
\* what the gates it dispatched make of them.
THEOREM ExactInvariance == Spec => []ExactInv
<1>1. Init => ExactInv
  BY ExactInit
<1>2. ExactInv /\ [Next]_vars => ExactInv'
  BY ExactStep
<1> QED BY <1>1, <1>2, PTL DEF Spec

\* Between its gates, the bits of a thread are in the state that the gates its
\* functions wrote make of them, however many threads there are and whatever
\* they dispatch, measure and call: unless an exception left a wrapper, a wrapped
\* function called another, or a context could not be allocated.
THEOREM DispatchStaysExact ==
  ASSUME {"nested", "throw", "memory"} \subseteq Excused
  PROVE  Spec => []DispatchIsExact
<1>1. ExactInv => DispatchIsExact
  <2> SUFFICES ASSUME ExactInv, ~Excuse, NEW t \in Threads, todo[t] = <<>>
               PROVE  /\ went[t] = {} => SameRay(Joint(t, Basis(Qubits, {})), ideal[t])
                      /\ \A c \in Alive \ {Default} :
                           /\ went[t] = {<<c, "APPEND">>} => SameRay(Joint(t, Replay(context[c].ir)), ideal[t])
                           /\ went[t] = {<<c, "SIMULATE">>} /\ context[c].state # NoBridge =>
                                SameRay(Joint(t, context[c].state), ideal[t])
    BY DEF DispatchIsExact
  <2> DEFINE a == bits[t]  w == went[t]
  <2>1. /\ Tracked(context, sent, Mine(t), w, a, <<>>, ideal[t])
        /\ ThreadIs(a, <<>>, ideal[t], spent[t], w)
    BY DEF ExactInv, AllExcused, AllTracked, DataOK
  <2>2. BitsOK(a, Bits) /\ ideal[t] \in Vectors(Bits)
    BY <2>1 DEF ThreadIs
  <2>3. DOMAIN a = Bits
    BY <2>2 DEF BitsOK
  <2>4. \A psi : Joint(t, psi) = Together(a, psi)
    BY <2>3 DEF Joint, Together, ClassicalOf, OnesOf, QubitsOf
  <2>5. \A psi : Knows(context, Mine(t), w, psi) => SameRay(Joint(t, psi), ideal[t])
    <3> SUFFICES ASSUME NEW psi, Knows(context, Mine(t), w, psi)
                 PROVE  SameRay(Joint(t, psi), ideal[t])
      OBVIOUS
    <3>1. Matches(a, <<>>, psi, ideal[t])
      BY <2>1 DEF Tracked
    <3>2. SameRay(Together(a, psi), ideal[t])
      BY <2>2, <3>1, MatchesRays
    <3> QED BY <2>4, <3>2
  <2>6. \A c \in Alive \ {Default} : \A m : w = {<<c, m>>} => c \in Mine(t)
    <3>1. w \subseteq (Mine(t) \cup {Default, NoContext}) \X Modes
      BY <2>1 DEF Tracked
    <3>2. NoContext \notin Alive
      BY DEF ExactInv, IInv, OwnersOK, Counts
    <3> QED BY <3>1, <3>2
  <2>7. w = {} => Knows(context, Mine(t), w, Basis(Qubits, {}))
    BY DEF Knows
  <2>8. \A c \in Mine(t) : w = {<<c, "APPEND">>} => Knows(context, Mine(t), w, Replay(context[c].ir))
    BY DEF Knows
  <2>9. \A c \in Mine(t) : w = {<<c, "SIMULATE">>} /\ context[c].state # NoBridge
                           => Knows(context, Mine(t), w, context[c].state)
    BY DEF Knows
  <2> QED BY <2>5, <2>6, <2>7, <2>8, <2>9
<1> QED BY <1>1, ExactInvariance, PTL

\* Each thread has a context installed, or none, and nothing else has.
InstalledOnce == installed = [t \in Threads |-> installed[t]]

\* It stays so.
LEMMA InstalledOnceHolds == Spec => []InstalledOnce
<1>1. Init => InstalledOnce
  BY DEF Init, InstalledOnce
<1>2. InstalledOnce /\ [Next]_vars => InstalledOnce'
  <2> SUFFICES ASSUME InstalledOnce, [Next]_vars
               PROVE  InstalledOnce'
    OBVIOUS
  <2>1. CASE UNCHANGED installed
    BY <2>1 DEF InstalledOnce
  <2>2. ASSUME NEW t \in Threads, NEW x, installed' = [installed EXCEPT ![t] = x]
        PROVE  InstalledOnce'
    BY <2>2 DEF InstalledOnce
  <2>3. ASSUME NEW t \in Threads, Run(t)
        PROVE  InstalledOnce'
    <3>1. CASE Install(t)
      BY <2>2, <3>1 DEF Install
    <3>2. CASE Return(t)
      BY <2>1, <2>2, <3>2 DEF Return
    <3>3. CASE ~Install(t) /\ ~Return(t)
      BY <2>1, <2>3, <3>3 DEF Run, Create, Destroy, Throw, CallRoot, CallHelp, Dispatch, LoadCount, ExecuteGate,
                              Measure, InitFromArgs, Attach
    <3> QED BY <3>1, <3>2, <3>3
  <2> QED BY <2>1, <2>3 DEF Next, Transpile, vars
<1> QED BY <1>1, <1>2, PTL DEF Spec

\* What is installed, called or counted is of the kind it should be.
THEOREM TypesStay == Spec => []TypeOK
<1>1. ExactInv /\ InstalledOnce => TypeOK
  <2> SUFFICES ASSUME ExactInv, InstalledOnce
               PROVE  TypeOK
    OBVIOUS
  <2>1. IInv /\ DataOK /\ OwnersOK /\ Counts /\ Apart
    BY DEF ExactInv, IInv, OwnersOK
  <2>2. PlanOK(plan) /\ passes \in 0..plan.passes
    BY <2>1 DEF IInv, DataOK
  <2>3. /\ Default \in Alive /\ Alive \subseteq Heap \cup {Default}
        /\ \A c \in Alive : context[c].mode \in Modes /\ context[c].gate_count \in Nat
        /\ \A t \in Threads : counter[t] \in Nat \cup {NotCounting}
    BY <2>1 DEF Counts, ContextOK
  <2>4. \A t \in Threads : installed[t] \in Heap \cup {NoContext}
    BY <2>1, <2>3 DEF Apart, Mine, MineOf
  <2>5. installed \in [Threads -> Heap \cup {NoContext}]
    BY <2>4 DEF InstalledOnce
  <2>6. \A t \in Threads : Len(stack[t]) <= 2
    BY <2>1 DEF OwnersOK, ThreadOK, StackOK
  <2>7. \A t \in Threads : \A b \in Bits : bits[t][b].value \in 0..1 /\ bits[t][b].qubit \in Qubits \cup {Unpromoted}
    <3> SUFFICES ASSUME NEW t \in Threads, NEW b \in Bits
                 PROVE  bits[t][b].value \in 0..1 /\ bits[t][b].qubit \in Qubits \cup {Unpromoted}
      OBVIOUS
    <3>1. bits[t] \in [Bits -> BitRecords]
      BY <2>1 DEF DataOK, ThreadIs, BitsOK
    <3>2. bits[t][b] \in BitRecords
      BY <3>1
    <3> QED BY <3>2 DEF BitRecords
  <2> QED BY <2>2, <2>3, <2>5, <2>6, <2>7 DEF TypeOK
<1> QED BY <1>1, ExactInvariance, InstalledOnceHolds, PTL
=============================================================================
