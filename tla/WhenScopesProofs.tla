-------------------------- MODULE WhenScopesProofs --------------------------
(***************************************************************************)
(* What WhenScopes promises, for every number of threads, flags and qubits *)
(* and every depth of nesting.                                             *)
(*                                                                         *)
(* The argument has three parts.  The scopes of a thread are looked at as  *)
(* a list that only grows and shrinks at its end; what is true of a scope  *)
(* depends on those below it alone.  The qubits are looked at as a table   *)
(* of places (flags, control temporaries) that is exact with the pool.     *)
(* And in every basis state the qubit a scope is guarded by is the         *)
(* conjunction of the flags of the scopes up to it: a temporary can then   *)
(* be uncomputed, and is zero when it goes back.                           *)
(***************************************************************************)
EXTENDS WhenScopes, QubitPoolProofs

\* No two threads share a backend context: at most one of them has the
\* process-wide default context.
OwnContexts == \A t, u \in Thread : ContextOf(t) = ContextOf(u) => t = u

-----------------------------------------------------------------------------
(* The scopes of one thread, s, when the flags are fl. *)

\* The qbool that the k-th guard tests.
ExprAt(fl, s, k) == IF s[k].kind = "named" THEN fl[s[k].flag] ELSE s[k].expr

\* The active control when s[k] is the innermost scope.
ControlAt(s, k) == IF k > 0 /\ s[k].modified_tls_ THEN k ELSE NoControl

\* The qubit of the control k.
QubitAt(fl, s, k) == IF k = NoControl THEN NoQubit ELSE ExprAt(fl, s, k).qubit

\* The temporary declared last in the outermost body.
LastLocal(s) == s[1].locals[Len(s[1].locals)]

\* What is true of a scope whatever opens above it, by kind.
NamedOK(fl, s, k) ==
  LET g == fl[s[k].flag]
  IN  /\ k = 1
      /\ g.super = HasQubit(g) /\ s[k].modified_tls_ = HasQubit(g)
      /\ s[k].run_ = (HasQubit(g) \/ g.value)

\* A nested scope is guarded by the conjunction that its body declared last, or
\* by a classical one.
NestedOK(fl, s, k) ==
  LET outer == fl[s[1].flag]
      g == fl[s[k].flag]
  IN  /\ k = 2 /\ s[1].kind = "named"
      /\ HasQubit(g) = HasQubit(outer) /\ s[k].modified_tls_ = HasQubit(g)
      /\ IF HasQubit(g)
           THEN s[1].locals # <<>> /\ s[k].expr = Ancilla(LastLocal(s))
           ELSE s[k].run_ = (outer.value /\ g.value) /\ s[k].expr = Classical(s[k].run_)

\* A lifted scope is guarded by the flag itself where no control was active,
\* and by a qubit of its own elsewhere.
LiftOK(fl, s, k) ==
  LET g == fl[s[k].flag]
  IN  /\ HasQubit(g) /\ s[k].modified_tls_
      /\ HasQubit(s[k].expr)
      /\ IF s[k].prev_control_ = NoControl
           THEN ~s[k].expr.owning /\ s[k].expr.qubit = g.qubit
           ELSE s[k].expr.owning

\* A guard remembers the control it found.
ScopeOK(fl, s, k) ==
  /\ s[k].prev_control_ = IF s[k].modified_tls_ THEN ControlAt(s, k - 1) ELSE NoControl
  /\ s[k].prev_control_qubit_ = QubitAt(fl, s, s[k].prev_control_)
  /\ s[k].modified_tls_ => s[k].run_
  /\ s[k].locals # <<>> => s[k].kind = "named" /\ s[k].modified_tls_
  /\ s[k].kind = "named" => NamedOK(fl, s, k)
  /\ s[k].kind = "nested" => NestedOK(fl, s, k)
  /\ s[k].kind = "lift" => LiftOK(fl, s, k)

\* The scopes of a thread test its own flags, and open in bodies that run.
ScopesOK(t, fl, s) ==
  /\ s \in Seq(Scope) /\ Len(s) <= MaxDepth
  /\ \A k \in 1..Len(s) :
        ScopeOK(fl, s, k) /\ ThreadOf[s[k].flag] = t /\ (k < Len(s) => s[k].run_)

\* The boolean of f when its context is in the basis state b.
Meant(fl, b, f) == IF HasQubit(fl[f]) THEN b[fl[f].qubit] ELSE ~fl[f].super /\ fl[f].value

\* What the guard of s[k] stands for is the conjunction of the conditions up
\* to it.
Holds(fl, s, b, k) == IF s[k].modified_tls_ THEN b[ExprAt(fl, s, k).qubit] ELSE s[k].run_

\* Every guard of the scopes s, in the basis state b.
Meaning(fl, s, b) ==
  \A k \in 1..Len(s) : Holds(fl, s, b, k) <=> \A j \in 1..k : Meant(fl, b, s[j].flag)

\* The temporary of a nested scope that was left is zero.
Guarding(s, j) == Len(s) > 1 /\ s[2].kind = "nested" /\ j = Len(s[1].locals)

\* Every other temporary of the outermost body is zero.
IdleZero(s, b) ==
  s # <<>> => \A j \in 1..Len(s[1].locals) : Guarding(s, j) \/ ~b[s[1].locals[j]]

\* The control of a thread whose cached control is cc, whose cached qubit is
\* ccq and whose context has the stack st.
ControlOK(fl, s, cc, ccq, st) ==
  /\ cc = ControlAt(s, Len(s))
  /\ ccq = QubitAt(fl, s, cc)
  /\ st = IF cc = NoControl THEN <<>> ELSE <<ccq>>

\* All of that, for the scopes, the control and the context of t.
ThreadOK(t) ==
  LET s == scope[t]
      c == ContextOf(t)
  IN  /\ ScopesOK(t, flag, s)
      /\ ControlOK(flag, s, current_control[t], current_control_qubit[t], control_stack[c])
      /\ Meaning(flag, s, bit[c])
      /\ IdleZero(s, bit[c])

-----------------------------------------------------------------------------
(* The qubits of all threads. *)

\* A place is a flag, a temporary that the outermost body of a thread declared,
\* or the temporary of a lifted scope.
Place == ({"flag"} \X Flag \X {0}) \cup ({"local", "lift"} \X Thread \X (Nat \ {0}))

FlagPlace(f) == <<"flag", f, 0>>
LocalPlace(t, j) == <<"local", t, j>>
LiftPlace(t, k) == <<"lift", t, k>>

\* The qubits at the places of a thread with the scopes s.
LocalAt(s, j) == IF s # <<>> /\ j <= Len(s[1].locals) THEN s[1].locals[j] ELSE NoQubit
LiftAt(s, k) ==
  IF k <= Len(s) /\ s[k].kind = "lift" /\ s[k].expr.owning THEN s[k].expr.qubit ELSE NoQubit

\* The qubit of each place.
Own(fl, sc) ==
  [p \in Place |-> IF p[1] = "flag" THEN fl[p[2]].qubit
                   ELSE IF p[1] = "local" THEN LocalAt(sc[p[2]], p[3])
                   ELSE LiftAt(sc[p[2]], p[3])]

\* The context in which a place's qubit is used.
ContextAt(p) == ContextOf(IF p[1] = "flag" THEN ThreadOf[p[2]] ELSE p[2])

\* A qubit is zero in a context that no place uses it in.
ZeroElsewhere(own, b) ==
  \A c \in Context, i \in Qubit : b[c][i] => \E p \in Place : own[p] = i /\ ContextAt(p) = c

FlagOK(q) == (HasQubit(q) => q.super) /\ (q.super => ~q.value)

\* The inductive invariant.
IInv ==
  /\ TypeOK
  /\ ~aborted
  /\ \A f \in Flag : FlagOK(flag[f])
  /\ \A t \in Thread : ThreadOK(t)
  /\ Exact(Own(flag, scope), free_, high_water_, in_use_)
  /\ ZeroElsewhere(Own(flag, scope), bit)

\* A step of t that leaves alone what other threads have.
OnlyAt(t) ==
  /\ scope' = [scope EXCEPT ![t] = scope'[t]]
  /\ current_control' = [current_control EXCEPT ![t] = current_control'[t]]
  /\ current_control_qubit' = [current_control_qubit EXCEPT ![t] = current_control_qubit'[t]]
  /\ control_stack' = [control_stack EXCEPT ![ContextOf(t)] = control_stack'[ContextOf(t)]]
  /\ bit' = [bit EXCEPT ![ContextOf(t)] = bit'[ContextOf(t)]]
  /\ \A f \in Flag : ThreadOf[f] # t => flag'[f] = flag[f]

-----------------------------------------------------------------------------
(* The table of places. *)

\* The places there are.
LEMMA Places ==
  /\ \A f \in Flag : FlagPlace(f) \in Place
  /\ \A t \in Thread, j \in Nat \ {0} : LocalPlace(t, j) \in Place /\ LiftPlace(t, j) \in Place
  /\ \A p \in Place : \/ \E f \in Flag : p = FlagPlace(f)
                      \/ \E t \in Thread, j \in Nat \ {0} : p = LocalPlace(t, j)
                      \/ \E t \in Thread, k \in Nat \ {0} : p = LiftPlace(t, k)
  BY DEF Place, FlagPlace, LocalPlace, LiftPlace

\* Different flags, temporaries and threads have different places.
LEMMA PlacesDiffer ==
  /\ \A f, g : FlagPlace(f) = FlagPlace(g) => f = g
  /\ \A t, u, j, k : LocalPlace(t, j) = LocalPlace(u, k) => t = u /\ j = k
  /\ \A t, u, j, k : LiftPlace(t, j) = LiftPlace(u, k) => t = u /\ j = k
  /\ \A f, t, k : FlagPlace(f) # LocalPlace(t, k) /\ FlagPlace(f) # LiftPlace(t, k)
  /\ \A t, u, j, k : LocalPlace(t, j) # LiftPlace(u, k)
  BY DEF FlagPlace, LocalPlace, LiftPlace

\* The table, place by place.
LEMMA OwnAt ==
  ASSUME NEW fl, NEW sc
  PROVE  /\ DOMAIN Own(fl, sc) = Place
         /\ \A f \in Flag : Own(fl, sc)[FlagPlace(f)] = fl[f].qubit
         /\ \A t \in Thread, j \in Nat \ {0} : Own(fl, sc)[LocalPlace(t, j)] = LocalAt(sc[t], j)
         /\ \A t \in Thread, k \in Nat \ {0} : Own(fl, sc)[LiftPlace(t, k)] = LiftAt(sc[t], k)
<1>1. \A p \in Place : Own(fl, sc)[p] = IF p[1] = "flag" THEN fl[p[2]].qubit
                                       ELSE IF p[1] = "local" THEN LocalAt(sc[p[2]], p[3])
                                       ELSE LiftAt(sc[p[2]], p[3])
  BY DEF Own
<1>2. /\ \A f : FlagPlace(f)[1] = "flag" /\ FlagPlace(f)[2] = f
      /\ \A t, j : LocalPlace(t, j)[1] = "local" /\ LocalPlace(t, j)[2] = t /\ LocalPlace(t, j)[3] = j
      /\ \A t, j : LiftPlace(t, j)[1] = "lift" /\ LiftPlace(t, j)[2] = t /\ LiftPlace(t, j)[3] = j
  BY DEF FlagPlace, LocalPlace, LiftPlace
<1>3. DOMAIN Own(fl, sc) = Place
  BY DEF Own
<1> QED BY <1>1, <1>2, <1>3, Places

\* A table that differs in one place.
LEMMA OwnDiffers ==
  ASSUME NEW fl, NEW sc, NEW fl2, NEW sc2, NEW p \in Place,
         \A r \in Place : r # p => Own(fl2, sc2)[r] = Own(fl, sc)[r]
  PROVE  Own(fl2, sc2) = [Own(fl, sc) EXCEPT ![p] = Own(fl2, sc2)[p]]
  BY DEF Own

\* Where a step changes one place, the table changes there only.
LEMMA OwnChange ==
  ASSUME NEW fl, NEW sc, NEW fl2, NEW sc2, NEW p \in Place,
         \A f \in Flag : FlagPlace(f) # p => fl2[f].qubit = fl[f].qubit,
         \A t \in Thread, j \in Nat \ {0} : LocalPlace(t, j) # p => LocalAt(sc2[t], j) = LocalAt(sc[t], j),
         \A t \in Thread, k \in Nat \ {0} : LiftPlace(t, k) # p => LiftAt(sc2[t], k) = LiftAt(sc[t], k)
  PROVE  Own(fl2, sc2) = [Own(fl, sc) EXCEPT ![p] = Own(fl2, sc2)[p]]
<1>1. \A r \in Place : r # p => Own(fl2, sc2)[r] = Own(fl, sc)[r]
  BY OwnAt, Places
<1> QED BY <1>1 DEF Own

\* Where a step changes no place, the table stays.
LEMMA OwnSame ==
  ASSUME NEW fl, NEW sc, NEW fl2, NEW sc2,
         \A f \in Flag : fl2[f].qubit = fl[f].qubit,
         \A t \in Thread, j \in Nat \ {0} : LocalAt(sc2[t], j) = LocalAt(sc[t], j),
         \A t \in Thread, k \in Nat \ {0} : LiftAt(sc2[t], k) = LiftAt(sc[t], k)
  PROVE  Own(fl2, sc2) = Own(fl, sc)
<1>1. \A r \in Place : Own(fl2, sc2)[r] = Own(fl, sc)[r]
  BY OwnAt, Places
<1> QED BY <1>1 DEF Own

\* Bits stay zero where no place uses them, when one bit changes.
LEMMA ZeroKept ==
  ASSUME NEW own, NEW own2, NEW c \in Context, NEW i \in Qubit,
         ZeroElsewhere(own, bit),
         \A d \in Context, j \in Qubit : (d = c /\ j = i) \/ bit'[d][j] = bit[d][j],
         \A p \in Place : own[p] = i => ContextAt(p) = c,
         \A p \in Place : own[p] \in Qubit \ {i} => own2[p] = own[p],
         bit'[c][i] => \E p \in Place : own2[p] = i /\ ContextAt(p) = c
  PROVE  ZeroElsewhere(own2, bit')
<1> SUFFICES ASSUME NEW d \in Context, NEW j \in Qubit, bit'[d][j]
             PROVE  \E p \in Place : own2[p] = j /\ ContextAt(p) = d
  BY DEF ZeroElsewhere
<1>1. CASE d = c /\ j = i
  BY <1>1
<1>2. CASE ~(d = c /\ j = i)
  <2>1. PICK p \in Place : own[p] = j /\ ContextAt(p) = d
    BY <1>2 DEF ZeroElsewhere
  <2>2. j # i
    BY <1>2, <2>1
  <2> QED BY <2>1, <2>2
<1> QED BY <1>1, <1>2

-----------------------------------------------------------------------------
(* The scopes of one thread. *)

\* A scope is opened in a body that runs.
LEMMA PushScope ==
  ASSUME NEW t, NEW fl, NEW s, NEW w \in Scope,
         ScopesOK(t, fl, s), Len(s) < MaxDepth, s # <<>> => s[Len(s)].run_,
         ScopeOK(fl, Append(s, w), Len(s) + 1), ThreadOf[w.flag] = t
  PROVE  ScopesOK(t, fl, Append(s, w))
<1> DEFINE r == Append(s, w)  n == Len(s)
<1>1. s \in Seq(Scope) /\ n \in Nat /\ MaxDepth \in Nat
  BY BoundAssumption DEF ScopesOK
<1>2. r \in Seq(Scope) /\ Len(r) = n + 1 /\ r[n + 1] = w /\ \A k \in 1..n : r[k] = s[k]
  BY <1>1
<1>3. ASSUME NEW k \in 1..n
      PROVE  ScopeOK(fl, r, k) /\ ThreadOf[r[k].flag] = t /\ r[k].run_
  <2>1. ScopeOK(fl, s, k) /\ ThreadOf[s[k].flag] = t /\ s[k].run_
    BY <1>1, EmptySeq DEF ScopesOK
  <2>2. r[k] = s[k] /\ r[1] = s[1] /\ (k > 1 => r[k - 1] = s[k - 1])
    BY <1>1, <1>2
  <2>3. ControlAt(r, k - 1) = ControlAt(s, k - 1) /\ ControlAt(s, k - 1) \in {0, k - 1}
    BY <2>2 DEF ControlAt, NoControl
  <2>4. s[k].prev_control_ \in {0, k - 1}
    BY <2>1, <2>3 DEF ScopeOK, NoControl
  <2>5. QubitAt(fl, r, s[k].prev_control_) = QubitAt(fl, s, s[k].prev_control_)
    BY <2>2, <2>4 DEF QubitAt, ExprAt, NoControl
  <2> HIDE DEF r, n
  <2>6. NamedOK(fl, r, k) = NamedOK(fl, s, k) /\ LiftOK(fl, r, k) = LiftOK(fl, s, k)
    BY <2>2 DEF NamedOK, LiftOK
  <2>7. NestedOK(fl, r, k) = NestedOK(fl, s, k)
    BY <2>2 DEF NestedOK, LastLocal
  <2>8. ScopeOK(fl, r, k)
    BY <2>1, <2>2, <2>3, <2>5, <2>6, <2>7 DEF ScopeOK
  <2> QED BY <2>1, <2>2, <2>8
<1> HIDE DEF r, n
<1>4. \A k \in 1..(n + 1) : k \in 1..n \/ k = n + 1
  BY <1>1
<1> QED BY <1>1, <1>2, <1>3, <1>4 DEF ScopesOK, r, n

\* The scopes up to some point stay as they are when other flags change.
LEMMA ScopesPrefix ==
  ASSUME NEW t, NEW fl, NEW fl2, NEW s, NEW r \in Seq(Scope),
         ScopesOK(t, fl, s), Len(r) <= Len(s),
         \A k \in 1..Len(r) : r[k] = s[k] /\ fl2[s[k].flag] = fl[s[k].flag]
  PROVE  ScopesOK(t, fl2, r)
<1> DEFINE n == Len(r)
<1>1. s \in Seq(Scope) /\ n \in Nat /\ Len(s) \in Nat /\ n <= Len(s) /\ Len(s) <= MaxDepth /\ MaxDepth \in Nat
  BY BoundAssumption DEF ScopesOK
<1>2. ASSUME NEW k \in 1..n
      PROVE  ScopeOK(fl2, r, k) /\ ThreadOf[r[k].flag] = t /\ (k < n => r[k].run_)
  <2>1. k \in 1..Len(s) /\ (k < n => k < Len(s))
    BY <1>1
  <2>2. ScopeOK(fl, s, k) /\ ThreadOf[s[k].flag] = t /\ (k < n => s[k].run_)
    BY <2>1 DEF ScopesOK
  <2>3. 1 \in 1..n /\ k \in 1..n /\ (k > 1 => k - 1 \in 1..n)
    BY <1>1
  <2>4. /\ r[k] = s[k] /\ r[1] = s[1] /\ (k > 1 => r[k - 1] = s[k - 1])
        /\ fl2[s[k].flag] = fl[s[k].flag] /\ fl2[s[1].flag] = fl[s[1].flag]
        /\ k > 1 => fl2[s[k - 1].flag] = fl[s[k - 1].flag]
    BY <2>3
  <2> HIDE DEF n
  <2>5. ControlAt(r, k - 1) = ControlAt(s, k - 1) /\ ControlAt(s, k - 1) \in {0, k - 1}
    BY <2>4 DEF ControlAt, NoControl
  <2>6. s[k].prev_control_ \in {0, k - 1}
    BY <2>2, <2>5 DEF ScopeOK, NoControl
  <2>7. QubitAt(fl2, r, s[k].prev_control_) = QubitAt(fl, s, s[k].prev_control_)
    BY <2>4, <2>6 DEF QubitAt, ExprAt, NoControl
  <2>8. NamedOK(fl2, r, k) = NamedOK(fl, s, k) /\ LiftOK(fl2, r, k) = LiftOK(fl, s, k)
    BY <2>4 DEF NamedOK, LiftOK
  <2>9. NestedOK(fl2, r, k) = NestedOK(fl, s, k)
    BY <2>4 DEF NestedOK, LastLocal
  <2>10. ScopeOK(fl2, r, k)
    BY <2>2, <2>4, <2>5, <2>7, <2>8, <2>9 DEF ScopeOK
  <2> QED BY <2>2, <2>4, <2>10
<1>3. n <= MaxDepth
  BY <1>1
<1> QED BY <1>1, <1>2, <1>3 DEF ScopesOK

\* What a scope is, given those below it.
LEMMA ScopeFacts ==
  ASSUME NEW t, NEW fl, NEW s, ScopesOK(t, fl, s), NEW k \in 1..Len(s)
  PROVE  /\ s[k] \in Scope /\ k \in Nat \ {0} /\ ScopeOK(fl, s, k) /\ ThreadOf[s[k].flag] = t
         /\ s[k].kind \in {"named", "nested", "lift"}
         /\ k > 1 => s[k - 1].run_ /\ k - 1 \in 1..Len(s)
         /\ s[k].prev_control_ \in {NoControl, k - 1}
         /\ s[k].modified_tls_ => HasQubit(ExprAt(fl, s, k)) /\ s[k].run_
         /\ ~s[k].modified_tls_ => k = 1 \/ ~s[k - 1].modified_tls_
         /\ s[k].modified_tls_ /\ s[k].prev_control_ = NoControl => k = 1 \/ ~s[k - 1].modified_tls_
         /\ s[k].prev_control_ # NoControl => s[k].modified_tls_ /\ k > 1 /\ s[k - 1].modified_tls_
         /\ k > 1 => s[k].locals = <<>>
<1>1. s \in Seq(Scope) /\ Len(s) \in Nat /\ s[k] \in Scope /\ k \in Nat \ {0}
  BY ElementOfSeq DEF ScopesOK
<1>2. ScopeOK(fl, s, k) /\ ThreadOf[s[k].flag] = t
  BY DEF ScopesOK
<1>3. s[k].kind \in {"named", "nested", "lift"} /\ s[k].modified_tls_ \in BOOLEAN
  BY <1>1 DEF Scope
<1>4. ASSUME k > 1
      PROVE  k - 1 \in 1..Len(s) /\ s[k - 1].run_ /\ ScopeOK(fl, s, k - 1) /\ s[k - 1] \in Scope
  <2>1. k - 1 \in 1..Len(s) /\ k - 1 < Len(s)
    BY <1>1, <1>4
  <2> QED BY <1>1, <2>1 DEF ScopesOK
<1>5. ControlAt(s, k - 1) = IF k > 1 /\ s[k - 1].modified_tls_ THEN k - 1 ELSE 0
  BY <1>1 DEF ControlAt, NoControl
<1>6. s[k].prev_control_ \in {NoControl, k - 1}
  BY <1>2, <1>5 DEF ScopeOK, NoControl
<1>7. ASSUME s[k].modified_tls_
      PROVE  HasQubit(ExprAt(fl, s, k)) /\ s[k].run_
  <2>1. CASE s[k].kind = "named"
    BY <1>2, <1>7, <2>1 DEF ScopeOK, NamedOK, ExprAt
  <2>2. CASE s[k].kind = "nested"
    <3>0. NestedOK(fl, s, k)
      BY <1>2, <2>2 DEF ScopeOK
    <3>1. k = 2 /\ HasQubit(fl[s[k].flag]) /\ s[1].locals # <<>> /\ s[k].expr = Ancilla(LastLocal(s))
      BY <1>7, <3>0 DEF NestedOK
    <3>2. s[k].expr.qubit = LastLocal(s) /\ s[1].locals \in Seq(Qubit)
      BY <1>4, <3>1 DEF Ancilla, Scope
    <3>3. Len(s[1].locals) \in 1..Len(s[1].locals)
      BY <3>1, <3>2, EmptySeq
    <3>4. LastLocal(s) \in Qubit
      BY <3>2, <3>3, ElementOfSeq DEF LastLocal
    <3>5. ExprAt(fl, s, k).qubit \in Qubit
      BY <2>2, <3>2, <3>4 DEF ExprAt
    <3>6. s[k].run_
      BY <1>2, <1>7 DEF ScopeOK
    <3> QED BY <3>5, <3>6 DEF HasQubit, NoQubit, Qubit
  <2>3. CASE s[k].kind = "lift"
    BY <1>2, <1>7, <2>3 DEF ScopeOK, LiftOK, ExprAt
  <2> QED BY <1>3, <2>1, <2>2, <2>3
<1>8. ASSUME ~s[k].modified_tls_
      PROVE  k = 1 \/ ~s[k - 1].modified_tls_
  <2>1. CASE s[k].kind = "nested"
    <3>1. k = 2 /\ s[1].kind = "named" /\ ~HasQubit(fl[s[1].flag])
      BY <1>2, <1>8, <2>1 DEF ScopeOK, NestedOK
    <3>2. NamedOK(fl, s, 1)
      BY <1>4, <3>1 DEF ScopeOK
    <3> QED BY <3>1, <3>2 DEF NamedOK
  <2>2. CASE s[k].kind # "nested"
    BY <1>2, <1>3, <1>8, <2>2 DEF ScopeOK, NamedOK, LiftOK
  <2> QED BY <2>1, <2>2
<1>9. s[k].modified_tls_ /\ s[k].prev_control_ = NoControl => k = 1 \/ ~s[k - 1].modified_tls_
  BY <1>1, <1>2, <1>5 DEF ScopeOK, NoControl
<1>10. s[k].prev_control_ # NoControl => s[k].modified_tls_ /\ k > 1 /\ s[k - 1].modified_tls_
  BY <1>2, <1>5 DEF ScopeOK, NoControl
<1>11. k > 1 => s[k].locals = <<>>
  BY <1>2 DEF ScopeOK, NamedOK
<1> QED BY <1>1, <1>2, <1>3, <1>4, <1>6, <1>7, <1>8, <1>9, <1>10, <1>11

\* The meaning of scopes whose flags and guards keep their bits.
LEMMA MeaningKept ==
  ASSUME NEW fl, NEW fl2, NEW s, NEW r, NEW b, NEW b2, Meaning(fl, s, b),
         Len(s) \in Nat, Len(r) \in Nat, Len(r) <= Len(s),
         \A k \in 1..Len(r) : /\ r[k].flag = s[k].flag
                              /\ Holds(fl2, r, b2, k) = Holds(fl, s, b, k)
                              /\ Meant(fl2, b2, s[k].flag) = Meant(fl, b, s[k].flag)
  PROVE  Meaning(fl2, r, b2)
<1> SUFFICES ASSUME NEW k \in 1..Len(r)
             PROVE  Holds(fl2, r, b2, k) <=> \A j \in 1..k : Meant(fl2, b2, r[j].flag)
  BY DEF Meaning
<1>1. k \in 1..Len(s) /\ \A j \in 1..k : j \in 1..Len(r)
  OBVIOUS
<1>2. Holds(fl, s, b, k) <=> \A j \in 1..k : Meant(fl, b, s[j].flag)
  BY <1>1 DEF Meaning
<1>3. \A j \in 1..k : Meant(fl2, b2, r[j].flag) = Meant(fl, b, s[j].flag)
  BY <1>1
<1> QED BY <1>2, <1>3

\* A new scope means what it guards and what the scopes below it mean.
LEMMA MeaningPush ==
  ASSUME NEW fl, NEW s \in Seq(Scope), NEW w \in Scope, NEW b, Meaning(fl, s, b),
         Holds(fl, Append(s, w), b, Len(s) + 1)
           <=> Meant(fl, b, w.flag) /\ (s # <<>> => Holds(fl, s, b, Len(s)))
  PROVE  Meaning(fl, Append(s, w), b)
<1> DEFINE r == Append(s, w)  n == Len(s)
<1>1. n \in Nat /\ Len(r) = n + 1 /\ r[n + 1] = w /\ \A k \in 1..n : r[k] = s[k]
  OBVIOUS
<1>2. s = <<>> \/ n \in 1..n
  BY <1>1, EmptySeq
<1>2a. s = <<>> => n = 0
  OBVIOUS
<1> SUFFICES ASSUME NEW k \in 1..(n + 1)
             PROVE  Holds(fl, r, b, k) <=> \A j \in 1..k : Meant(fl, b, r[j].flag)
  BY <1>1 DEF Meaning
<1>3. CASE k \in 1..n
  <2>1. r[k] = s[k] /\ \A j \in 1..k : r[j] = s[j] /\ j \in 1..n
    BY <1>1, <1>3
  <2>2. Holds(fl, r, b, k) = Holds(fl, s, b, k)
    BY <2>1 DEF Holds, ExprAt
  <2> QED BY <1>3, <2>1, <2>2 DEF Meaning
<1>4. CASE k = n + 1
  <2>1. \A j \in 1..k : j \in 1..n \/ j = n + 1
    BY <1>1, <1>4
  <2>2. (\A j \in 1..k : Meant(fl, b, r[j].flag))
           <=> Meant(fl, b, w.flag) /\ \A j \in 1..n : Meant(fl, b, s[j].flag)
    BY <1>1, <1>4, <2>1
  <2>3. (s # <<>> => Holds(fl, s, b, n)) <=> \A j \in 1..n : Meant(fl, b, s[j].flag)
    BY <1>1, <1>2, <1>2a DEF Meaning
  <2> QED BY <1>4, <2>2, <2>3
<1> QED BY <1>1, <1>3, <1>4

-----------------------------------------------------------------------------
(* The qubits of a thread's scopes in the table. *)

\* Every thread has a context.
LEMMA ContextType == \A t \in Thread : ContextOf(t) \in Context
  BY ContextAssumption DEF ContextOf

\* What the table says of two places.
LEMMA OneOwner ==
  ASSUME IInv
  PROVE  /\ DOMAIN Own(flag, scope) = Place
         /\ \A p, r \in Place : Own(flag, scope)[p] # NoQubit /\ Own(flag, scope)[p] = Own(flag, scope)[r]
                                  => p = r
         /\ \A p \in Place : Own(flag, scope)[p] \in Nat \cup {NoQubit} /\ Own(flag, scope)[p] < high_water_
<1>1. DOMAIN Own(flag, scope) = Place
  BY OwnAt
<1>2. Exact(Own(flag, scope), free_, high_water_, in_use_)
  BY DEF IInv
<1> QED BY <1>1, <1>2 DEF Exact, Nothing, NoQubit

\* The locals of a thread and the places they have.
LEMMA LocalFacts ==
  ASSUME IInv, NEW t \in Thread, scope[t] # <<>>
  PROVE  /\ Len(scope[t]) \in Nat \ {0} /\ 1 \in 1..Len(scope[t]) /\ scope[t][1] \in Scope
         /\ Len(scope[t]) \in 1..Len(scope[t])
         /\ scope[t][1].locals \in Seq(Qubit) /\ Len(scope[t][1].locals) \in Nat
         /\ \A j \in 1..Len(scope[t][1].locals) :
               /\ scope[t][1].locals[j] \in Qubit
               /\ LocalPlace(t, j) \in Place
               /\ Own(flag, scope)[LocalPlace(t, j)] = scope[t][1].locals[j]
         /\ scope[t][1].locals # <<>> => Len(scope[t][1].locals) \in 1..Len(scope[t][1].locals)
<1>1. scope[t] \in Seq(Scope)
  BY DEF IInv, ThreadOK, ScopesOK
<1>2. Len(scope[t]) \in Nat \ {0} /\ 1 \in 1..Len(scope[t]) /\ Len(scope[t]) \in 1..Len(scope[t])
  BY <1>1, EmptySeq
<1>3. scope[t][1] \in Scope
  BY <1>1, <1>2, ElementOfSeq
<1>4. scope[t][1].locals \in Seq(Qubit)
  BY <1>3 DEF Scope
<1>5. Len(scope[t][1].locals) \in Nat /\ (scope[t][1].locals # <<>> => Len(scope[t][1].locals) # 0)
  BY <1>4, EmptySeq
<1>6. ASSUME NEW j \in 1..Len(scope[t][1].locals)
      PROVE  /\ scope[t][1].locals[j] \in Qubit
             /\ LocalPlace(t, j) \in Place
             /\ Own(flag, scope)[LocalPlace(t, j)] = scope[t][1].locals[j]
  <2>1. j \in Nat \ {0} /\ scope[t][1].locals[j] \in Qubit
    BY <1>4, <1>5, ElementOfSeq
  <2>2. LocalAt(scope[t], j) = scope[t][1].locals[j]
    BY <2>1, <1>5 DEF LocalAt
  <2> QED BY <2>1, <2>2, OwnAt, Places
<1> QED BY <1>2, <1>3, <1>4, <1>5, <1>6

\* Where the qubit is that a scope is guarded by.
LEMMA GuardPlace ==
  ASSUME IInv, NEW t \in Thread, NEW k \in 1..Len(scope[t]), scope[t][k].modified_tls_
  PROVE  LET s == scope[t]
             q == ExprAt(flag, s, k).qubit
         IN  /\ q \in Qubit
             /\ \/ q = flag[s[k].flag].qubit /\ s[k].kind # "nested"
                                             /\ (s[k].kind = "lift" => s[k].prev_control_ = NoControl)
                \/ /\ q = Own(flag, scope)[LocalPlace(t, Len(s[1].locals))]
                   /\ s[k].kind = "nested" /\ k = 2 /\ Len(s[1].locals) \in 1..Len(s[1].locals)
                   /\ q = LastLocal(s)
                \/ q = Own(flag, scope)[LiftPlace(t, k)] /\ s[k].kind = "lift"
                                             /\ s[k].prev_control_ # NoControl /\ s[k].expr.owning
<1> DEFINE s == scope[t]  q == ExprAt(flag, s, k).qubit
<1>1. ScopesOK(t, flag, s) /\ flag \in [Flag -> Qbool]
  BY DEF IInv, ThreadOK, TypeOK
<1>2. /\ s[k] \in Scope /\ k \in Nat \ {0} /\ ScopeOK(flag, s, k)
      /\ s[k].kind \in {"named", "nested", "lift"} /\ HasQubit(ExprAt(flag, s, k))
  BY <1>1, ScopeFacts
<1>3. ExprAt(flag, s, k) \in Qbool
  BY <1>1, <1>2 DEF ExprAt, Scope
<1>4. q \in Qubit
  BY <1>2, <1>3 DEF Qbool, HasQubit
<1>5. CASE s[k].kind = "named"
  BY <1>4, <1>5 DEF ExprAt
<1>6. CASE s[k].kind = "nested"
  <2>1. NestedOK(flag, s, k)
    BY <1>2, <1>6 DEF ScopeOK
  <2>2. k = 2 /\ s[1].locals # <<>> /\ s[k].expr = Ancilla(LastLocal(s))
    BY <2>1 DEF NestedOK
  <2>3. q = LastLocal(s)
    BY <1>6, <2>2 DEF ExprAt, Ancilla
  <2>4. s # <<>>
    OBVIOUS
  <2> QED BY <1>4, <1>6, <2>2, <2>3, <2>4, LocalFacts DEF LastLocal
<1>7. CASE s[k].kind = "lift"
  <2>1. LiftOK(flag, s, k)
    BY <1>2, <1>7 DEF ScopeOK
  <2>2. CASE s[k].prev_control_ = NoControl
    BY <1>4, <1>7, <2>1, <2>2 DEF LiftOK, ExprAt
  <2>3. CASE s[k].prev_control_ # NoControl
    <3>1. q = LiftAt(s, k) /\ s[k].expr.owning
      BY <1>2, <1>7, <2>1, <2>3 DEF LiftOK, ExprAt, LiftAt
    <3> QED BY <1>2, <1>4, <1>7, <2>3, <3>1, OwnAt
  <2> QED BY <2>2, <2>3
<1> QED BY <1>2, <1>5, <1>6, <1>7

\* Nothing a thread's scopes rest on has this qubit.
Private(t, i) ==
  \A p \in Place : Own(flag, scope)[p] = i => \E f \in Flag \ Conditions(t) : p = FlagPlace(f)

\* A thread's scopes stay sound when qubits and flags change that they do not
\* rest on.
LEMMA ScopesKept ==
  ASSUME IInv, NEW t \in Thread, NEW fl, NEW b,
         \A f \in Conditions(t) : fl[f] = flag[f],
         \A q \in Qubit : Private(t, q) \/ b[q] = bit[ContextOf(t)][q]
  PROVE  /\ ScopesOK(t, fl, scope[t])
         /\ ControlOK(fl, scope[t], current_control[t], current_control_qubit[t], control_stack[ContextOf(t)])
         /\ Meaning(fl, scope[t], b)
         /\ IdleZero(scope[t], b)
<1> DEFINE s == scope[t]  c == ContextOf(t)
<1>1. /\ ScopesOK(t, flag, s) /\ s \in Seq(Scope) /\ Len(s) \in Nat
      /\ flag \in [Flag -> Qbool]
  BY DEF IInv, ThreadOK, ScopesOK, TypeOK
<1>2. \A k \in 1..Len(s) : s[k].flag \in Conditions(t) /\ s[k].flag \in Flag /\ fl[s[k].flag] = flag[s[k].flag]
  <2>1. \A k \in 1..Len(s) : s[k] \in Scope
    BY <1>1
  <2> QED BY <2>1 DEF Conditions, Scope
<1>3. ScopesOK(t, fl, s)
  <2>1. \A k \in 1..Len(s) : s[k] = s[k] /\ fl[s[k].flag] = flag[s[k].flag]
    BY <1>2
  <2> HIDE DEF s
  <2> QED BY <1>1, <2>1, ScopesPrefix
<1>4. \A k \in 1..Len(s) : ExprAt(fl, s, k) = ExprAt(flag, s, k)
  BY <1>2 DEF ExprAt
<1>5. ControlOK(fl, s, current_control[t], current_control_qubit[t], control_stack[c])
  <2>1. ControlOK(flag, s, current_control[t], current_control_qubit[t], control_stack[c])
    BY DEF IInv, ThreadOK
  <2>2. ControlAt(s, Len(s)) = NoControl \/ ControlAt(s, Len(s)) \in 1..Len(s)
    BY <1>1 DEF ControlAt, NoControl
  <2> QED BY <1>4, <2>1, <2>2 DEF ControlOK, QubitAt
<1>6. ASSUME NEW q \in Qubit, NEW p \in Place, Own(flag, scope)[p] = q,
             \A f \in Flag \ Conditions(t) : p # FlagPlace(f)
      PROVE  b[q] = bit[c][q]
  BY <1>6 DEF Private
<1>7. ASSUME NEW k \in 1..Len(s), HasQubit(flag[s[k].flag])
      PROVE  b[flag[s[k].flag].qubit] = bit[c][flag[s[k].flag].qubit]
  <2>1. flag[s[k].flag].qubit \in Qubit
    BY <1>1, <1>2, <1>7 DEF Qbool, HasQubit
  <2>2. FlagPlace(s[k].flag) \in Place /\ Own(flag, scope)[FlagPlace(s[k].flag)] = flag[s[k].flag].qubit
    BY <1>2, Places, OwnAt
  <2> QED BY <1>2, <1>6, <2>1, <2>2, PlacesDiffer
<1>8. ASSUME NEW k \in 1..Len(s), s[k].modified_tls_
      PROVE  b[ExprAt(flag, s, k).qubit] = bit[c][ExprAt(flag, s, k).qubit]
  <2> DEFINE q == ExprAt(flag, s, k).qubit
  <2>1. /\ q \in Qubit
        /\ \/ q = flag[s[k].flag].qubit
           \/ q = Own(flag, scope)[LocalPlace(t, Len(s[1].locals))] /\ Len(s[1].locals) \in 1..Len(s[1].locals)
           \/ q = Own(flag, scope)[LiftPlace(t, k)]
    BY <1>8, GuardPlace
  <2>2. CASE q = flag[s[k].flag].qubit
    BY <1>7, <2>1, <2>2 DEF HasQubit, Qubit, NoQubit
  <2>3. CASE q = Own(flag, scope)[LocalPlace(t, Len(s[1].locals))] /\ Len(s[1].locals) \in 1..Len(s[1].locals)
    <3>1. LocalPlace(t, Len(s[1].locals)) \in Place
      BY <2>3, Places
    <3> QED BY <1>6, <2>1, <2>3, <3>1, PlacesDiffer
  <2>4. CASE q = Own(flag, scope)[LiftPlace(t, k)]
    <3>1. LiftPlace(t, k) \in Place
      BY <1>1, Places
    <3> QED BY <1>6, <2>1, <2>4, <3>1, PlacesDiffer
  <2> QED BY <2>1, <2>2, <2>3, <2>4
<1>9. Meaning(fl, s, b)
  <2>1. Meaning(flag, s, bit[c])
    BY DEF IInv, ThreadOK
  <2>2. \A k \in 1..Len(s) : Holds(fl, s, b, k) = Holds(flag, s, bit[c], k)
    BY <1>4, <1>8 DEF Holds
  <2>3. \A k \in 1..Len(s) : Meant(fl, b, s[k].flag) = Meant(flag, bit[c], s[k].flag)
    BY <1>2, <1>7 DEF Meant
  <2> HIDE DEF s, c
  <2> QED BY <1>1, <2>1, <2>2, <2>3, MeaningKept
<1>10. IdleZero(s, b)
  <2> SUFFICES ASSUME s # <<>>, NEW j \in 1..Len(s[1].locals), ~Guarding(s, j)
               PROVE  ~b[s[1].locals[j]]
    BY DEF IdleZero
  <2>1. ~bit[c][s[1].locals[j]]
    BY DEF IInv, ThreadOK, IdleZero
  <2>2. /\ s[1].locals[j] \in Qubit /\ LocalPlace(t, j) \in Place
        /\ Own(flag, scope)[LocalPlace(t, j)] = s[1].locals[j]
    BY LocalFacts
  <2> QED BY <1>6, <2>1, <2>2, PlacesDiffer
<1> QED BY <1>3, <1>5, <1>9, <1>10

\* A flag that no scope tests, and an index nobody has, are private.
LEMMA WhatIsPrivate ==
  ASSUME IInv, NEW t \in Thread
  PROVE  /\ \A f \in Flag \ Conditions(t) : HasQubit(flag[f]) => Private(t, flag[f].qubit)
         /\ \A i : Unowned(Own(flag, scope), free_, high_water_, i) => Private(t, i)
<1>1. \A i : Unowned(Own(flag, scope), free_, high_water_, i) => Private(t, i)
  BY OneOwner DEF Unowned, Private
<1>2. ASSUME NEW f \in Flag \ Conditions(t), HasQubit(flag[f])
      PROVE  Private(t, flag[f].qubit)
  <2>1. FlagPlace(f) \in Place /\ Own(flag, scope)[FlagPlace(f)] = flag[f].qubit
    BY Places, OwnAt
  <2> QED BY <1>2, <2>1, OneOwner DEF Private, HasQubit
<1> QED BY <1>1, <1>2

-----------------------------------------------------------------------------
(* The threads that do not take the step. *)

\* A step of one thread leaves what is true of the others.
LEMMA OthersKept ==
  ASSUME OwnContexts, IInv, NEW t \in Thread, OnlyAt(t), ThreadOK(t)'
  PROVE  \A u \in Thread : ThreadOK(u)'
<1> SUFFICES ASSUME NEW u \in Thread, u # t
             PROVE  ThreadOK(u)'
  OBVIOUS
<1> DEFINE d == ContextOf(u)
<1>1. d \in Context /\ d # ContextOf(t)
  BY ContextType DEF OwnContexts
<1>2. /\ scope'[u] = scope[u] /\ current_control'[u] = current_control[u]
      /\ current_control_qubit'[u] = current_control_qubit[u]
      /\ control_stack'[d] = control_stack[d] /\ bit'[d] = bit[d]
  <2>1. /\ scope \in [Thread -> Seq(Scope)] /\ current_control \in [Thread -> NoControl..MaxDepth]
        /\ current_control_qubit \in [Thread -> Qubit \cup {NoQubit}]
        /\ control_stack \in [Context -> Seq(Qubit)] /\ bit \in [Context -> [Qubit -> BOOLEAN]]
    BY DEF IInv, TypeOK
  <2> HIDE DEF d
  <2> QED BY <1>1, <2>1 DEF OnlyAt
<1>3. \A f \in Conditions(u) : flag'[f] = flag[f]
  <2>1. ScopesOK(u, flag, scope[u])
    BY DEF IInv, ThreadOK
  <2>2. \A k \in 1..Len(scope[u]) : scope[u][k] \in Scope /\ ThreadOf[scope[u][k].flag] = u
    BY <2>1, ScopeFacts
  <2>3. \A k \in 1..Len(scope[u]) : flag'[scope[u][k].flag] = flag[scope[u][k].flag]
    BY <2>2 DEF OnlyAt, Scope
  <2> QED BY <2>3 DEF Conditions
<1>4. /\ ScopesOK(u, flag', scope[u])
      /\ ControlOK(flag', scope[u], current_control[u], current_control_qubit[u], control_stack[d])
      /\ Meaning(flag', scope[u], bit[d]) /\ IdleZero(scope[u], bit[d])
  BY <1>3, ScopesKept
<1> QED BY <1>2, <1>4 DEF ThreadOK

\* What a control looks like when the scopes of its thread are sound.
LEMMA ControlTypes ==
  ASSUME NEW t, NEW fl \in [Flag -> Qbool], NEW s, NEW cc, NEW ccq, NEW st,
         ScopesOK(t, fl, s), ControlOK(fl, s, cc, ccq, st)
  PROVE  /\ cc \in NoControl..MaxDepth /\ ccq \in Qubit \cup {NoQubit} /\ st \in Seq(Qubit)
         /\ cc # NoControl => /\ cc = Len(s) /\ cc \in 1..Len(s) /\ s[cc].modified_tls_
                              /\ ccq = ExprAt(fl, s, cc).qubit /\ ccq \in Qubit /\ st = <<ccq>>
         /\ cc = NoControl => ccq = NoQubit /\ st = <<>>
         /\ cc = NoControl /\ s # <<>> => ~s[Len(s)].modified_tls_
<1>1. s \in Seq(Scope) /\ Len(s) \in Nat /\ Len(s) <= MaxDepth /\ MaxDepth \in Nat
  BY BoundAssumption DEF ScopesOK
<1>2. cc = NoControl \/ (cc = Len(s) /\ cc \in 1..Len(s) /\ s[cc].modified_tls_)
  BY <1>1 DEF ControlOK, ControlAt, NoControl
<1>3. CASE cc = NoControl
  <2>1. ccq = NoQubit /\ st = <<>>
    BY <1>3 DEF ControlOK, QubitAt
  <2>2. cc \in NoControl..MaxDepth
    BY <1>1, <1>3 DEF NoControl
  <2>3. s # <<>> => ~s[Len(s)].modified_tls_
    <3>1. s # <<>> => Len(s) > 0
      BY <1>1, EmptySeq
    <3>2. s # <<>> /\ s[Len(s)].modified_tls_ => cc = Len(s)
      BY <3>1 DEF ControlOK, ControlAt
    <3> QED BY <1>3, <3>1, <3>2 DEF NoControl
  <2> QED BY <1>3, <2>1, <2>2, <2>3
<1>4. CASE cc = Len(s) /\ cc \in 1..Len(s) /\ s[cc].modified_tls_
  <2>1. s[cc] \in Scope /\ HasQubit(ExprAt(fl, s, cc))
    BY <1>4, ScopeFacts
  <2>2. ExprAt(fl, s, cc) \in Qbool
    BY <2>1 DEF ExprAt, Scope
  <2>3. cc # NoControl /\ cc \in NoControl..MaxDepth
    BY <1>1, <1>4 DEF NoControl
  <2>4. ccq = ExprAt(fl, s, cc).qubit /\ st = <<ccq>>
    BY <2>3 DEF ControlOK, QubitAt
  <2>5. ccq \in Qubit
    BY <2>1, <2>2, <2>4 DEF HasQubit, Qbool
  <2> QED BY <1>4, <2>3, <2>4, <2>5
<1> QED BY <1>2, <1>3, <1>4

\* What is left to show of a step of t.
LEMMA Conclude ==
  ASSUME OwnContexts, IInv, NEW t \in Thread, OnlyAt(t),
         flag' \in [Flag -> Qbool], bit'[ContextOf(t)] \in [Qubit -> BOOLEAN],
         aborted' = FALSE, \A f \in Flag : FlagOK(flag'[f]), ThreadOK(t)',
         Exact(Own(flag', scope'), free_', high_water_', in_use_'),
         ZeroElsewhere(Own(flag', scope'), bit')
  PROVE  IInv'
<1>1. \A u \in Thread : ThreadOK(u)'
  BY OthersKept
<1>2. PoolTypeOK'
  BY DEF Exact, PoolTypeOK
<1>3. /\ ScopesOK(t, flag', scope'[t])
      /\ ControlOK(flag', scope'[t], current_control'[t], current_control_qubit'[t],
                   control_stack'[ContextOf(t)])
  BY DEF ThreadOK
<1>4. /\ scope'[t] \in Seq(Scope) /\ current_control'[t] \in NoControl..MaxDepth
      /\ current_control_qubit'[t] \in Qubit \cup {NoQubit}
      /\ control_stack'[ContextOf(t)] \in Seq(Qubit)
  <2>1. scope'[t] \in Seq(Scope)
    BY <1>3 DEF ScopesOK
  <2>2. /\ current_control'[t] \in NoControl..MaxDepth
        /\ current_control_qubit'[t] \in Qubit \cup {NoQubit}
        /\ control_stack'[ContextOf(t)] \in Seq(Qubit)
    BY <1>3, ControlTypes
  <2> QED BY <2>1, <2>2
<1>5. TypeOK
  BY DEF IInv
<1>6. scope' \in [Thread -> Seq(Scope)]
  BY <1>4, <1>5 DEF TypeOK, OnlyAt
<1>7. current_control' \in [Thread -> NoControl..MaxDepth]
  BY <1>4, <1>5 DEF TypeOK, OnlyAt
<1>8. current_control_qubit' \in [Thread -> Qubit \cup {NoQubit}]
  BY <1>4, <1>5 DEF TypeOK, OnlyAt
<1>9. control_stack' \in [Context -> Seq(Qubit)]
  BY <1>4, <1>5 DEF TypeOK, OnlyAt
<1>10. bit' \in [Context -> [Qubit -> BOOLEAN]]
  BY <1>5 DEF TypeOK, OnlyAt
<1>11. TypeOK'
  BY <1>2, <1>6, <1>7, <1>8, <1>9, <1>10 DEF TypeOK
<1> QED BY <1>1, <1>11 DEF IInv

-----------------------------------------------------------------------------
(* Statements. *)

\* A qubit nobody has is zero in every context.
LEMMA UnownedIsZero ==
  ASSUME IInv, NEW i \in Qubit, Unowned(Own(flag, scope), free_, high_water_, i), NEW c \in Context
  PROVE  ~bit[c][i]
<1>1. \A p \in Place : Own(flag, scope)[p] # i
  BY OneOwner DEF Unowned
<1> QED BY <1>1 DEF IInv, ZeroElsewhere

\* The control of a thread's context is a qubit that somebody has, and no
\* scope is open without a control that its conditions ask for.
LEMMA ControlIsOwned ==
  ASSUME IInv, NEW t \in Thread, control_stack[ContextOf(t)] # <<>>
  PROVE  /\ current_control[t] # NoControl
         /\ control_stack[ContextOf(t)] = <<current_control_qubit[t]>>
         /\ current_control_qubit[t] \in Qubit
         /\ \E p \in Place : Own(flag, scope)[p] = current_control_qubit[t]
<1> DEFINE s == scope[t]  k == current_control[t]
<1>1. /\ ScopesOK(t, flag, s)
      /\ ControlOK(flag, s, k, current_control_qubit[t], control_stack[ContextOf(t)])
      /\ flag \in [Flag -> Qbool]
  BY DEF IInv, ThreadOK, TypeOK
<1>2. /\ k # NoControl /\ k \in 1..Len(s) /\ s[k].modified_tls_
      /\ current_control_qubit[t] = ExprAt(flag, s, k).qubit /\ current_control_qubit[t] \in Qubit
      /\ control_stack[ContextOf(t)] = <<current_control_qubit[t]>>
  BY <1>1, ControlTypes
<1>3. s[k] \in Scope /\ s[k].flag \in Flag /\ k \in Nat \ {0}
  BY <1>1, <1>2, ScopeFacts DEF Scope
<1>4. /\ FlagPlace(s[k].flag) \in Place /\ LiftPlace(t, k) \in Place
      /\ Own(flag, scope)[FlagPlace(s[k].flag)] = flag[s[k].flag].qubit
      /\ Len(s[1].locals) \in 1..Len(s[1].locals) => LocalPlace(t, Len(s[1].locals)) \in Place
  BY <1>3, Places, OwnAt
<1> QED BY <1>2, <1>4, GuardPlace

\* The qubit that a lifted CCX borrows is free, and free again after it.
LEMMA NextIndexIsUnowned ==
  ASSUME IInv, Borrow
  PROVE  /\ Unowned(Own(flag, scope), free_, high_water_, NextIndex)
         /\ Exact(Own(flag, scope), free_', high_water_', in_use_')
<1>1. Exact(Own(flag, scope), free_, high_water_, in_use_) /\ DOMAIN Own(flag, scope) = Place
  BY OneOwner DEF IInv
<1> DEFINE own == Own(flag, scope)
<1> HIDE DEF own
<1>2. CASE free_ # <<>>
  <2>1. Len(free_) \in 1..Len(free_) /\ free_[Len(free_)] \in Nat /\ NextIndex = free_[Len(free_)]
    BY <1>1, <1>2, EmptySeq DEF Exact, NextIndex
  <2>2. UNCHANGED poolVars
    BY <1>2 DEF Borrow
  <2>3. Unowned(own, free_, high_water_, NextIndex)
    BY <1>1, <2>1 DEF Exact, Unowned, own
  <2> QED BY <1>1, <2>2, <2>3 DEF poolVars, own
<1>3. CASE free_ = <<>>
  <2>1. /\ NextIndex = high_water_ /\ free_' = <<high_water_>> /\ high_water_' = high_water_ + 1
        /\ in_use_' = in_use_ /\ Len(free_) = 0
    BY <1>3 DEF Borrow, NextIndex
  <2>2. /\ high_water_ \in Nat /\ in_use_ \in Int /\ in_use_ = high_water_
        /\ \A p \in DOMAIN own : own[p] \in Nat \cup {Nothing} /\ own[p] < high_water_
        /\ own \in [DOMAIN own -> Nat \cup {Nothing}]
        /\ \A p, r \in DOMAIN own : own[p] # Nothing /\ own[p] = own[r] => p = r
    BY <1>1, <2>1 DEF Exact, own
  <2>3. /\ free_' \in Seq(Nat) /\ Len(free_') = 1 /\ free_'[1] = high_water_
        /\ \A k \in 1..Len(free_') : k = 1
    BY <2>1, <2>2
  <2>4. \A q \in 0..(high_water_ - 1) : \E p \in DOMAIN own : own[p] = q
    BY <1>1, <1>3, <2>1 DEF Exact, own
  <2>5. \A q \in 0..(high_water_' - 1) :
          (\E k \in 1..Len(free_') : free_'[k] = q) \/ (\E p \in DOMAIN own : own[p] = q)
    <3> SUFFICES ASSUME NEW q \in 0..high_water_
                 PROVE  (\E k \in 1..Len(free_') : free_'[k] = q) \/ (\E p \in DOMAIN own : own[p] = q)
      BY <2>1, <2>2
    <3>1. 1 \in 1..Len(free_')
      BY <2>3
    <3>2. q = high_water_ \/ q \in 0..(high_water_ - 1)
      BY <2>2
    <3> QED BY <2>3, <2>4, <3>1, <3>2
  <2>6. \A p \in DOMAIN own : own[p] # high_water_ /\ own[p] < high_water_'
    BY <2>1, <2>2 DEF Nothing
  <2>7. Exact(own, free_', high_water_', in_use_')
    BY <2>1, <2>2, <2>3, <2>5, <2>6 DEF Exact
  <2>8. Unowned(own, free_, high_water_, NextIndex)
    BY <2>1, <2>2, <2>6 DEF Unowned
  <2> QED BY <2>7, <2>8 DEF own
<1> QED BY <1>2, <1>3

\* The statement toggles the qubit of f where the control of t is on and the
\* operands are true, and does nothing else to the basis state.
GateOn(t, f, operands) ==
  LET b == bit[ContextOf(t)]
      q == flag[f].qubit
  IN  /\ MayChange(t, f) /\ HasQubit(flag[f])
      /\ \A g \in operands : g # f /\ ThreadOf[g] = t
      /\ bit' = [bit EXCEPT ![ContextOf(t)] =
                    [b EXCEPT ![q] = b[q] # (Controlled(t) /\ \A g \in operands : Value(g))]]
      /\ UNCHANGED <<flag, guardVars>>

\* The qubit of a flag, as a position of a basis state.
LEMMA FlagQubit ==
  ASSUME IInv, NEW f \in Flag, HasQubit(flag[f])
  PROVE  /\ flag[f].qubit \in Qubit /\ flag[f].super /\ ~flag[f].value
         /\ FlagPlace(f) \in Place /\ Own(flag, scope)[FlagPlace(f)] = flag[f].qubit
         /\ \A g \in Flag : flag[g].qubit = flag[f].qubit => g = f
<1>1. flag[f] \in Qbool /\ FlagOK(flag[f])
  BY DEF IInv, TypeOK
<1>2. FlagPlace(f) \in Place /\ Own(flag, scope)[FlagPlace(f)] = flag[f].qubit
  BY Places, OwnAt
<1>3. ASSUME NEW g \in Flag, flag[g].qubit = flag[f].qubit
      PROVE  g = f
  <2>1. FlagPlace(g) \in Place /\ Own(flag, scope)[FlagPlace(g)] = flag[f].qubit
    BY <1>3, Places, OwnAt
  <2> QED BY <1>2, <2>1, OneOwner, PlacesDiffer DEF HasQubit
<1> QED BY <1>1, <1>2, <1>3 DEF Qbool, HasQubit, FlagOK

\* emit_CCX_lifted is a toggle by the control and both operands: the ancilla
\* it borrows is free, so it is zero before and after.
LEMMA LiftedCCX ==
  ASSUME NEW b \in [Qubit -> BOOLEAN], NEW x \in Qubit, NEW y \in Qubit, NEW z \in Qubit,
         NEW n \in Qubit, NEW q \in Qubit, x # z, y # z, n \notin {x, y, z, q}, ~b[n]
  PROVE  CCX(CCX(CCX(b, x, y, n), q, n, z), x, y, n) = [b EXCEPT ![z] = b[z] # (b[q] /\ b[x] /\ b[y])]
<1> DEFINE b1 == CCX(b, x, y, n)  b2 == CCX(b1, q, n, z)  b3 == CCX(b2, x, y, n)
<1>1. /\ b1 \in [Qubit -> BOOLEAN] /\ b1[n] = (b[x] /\ b[y])
      /\ \A j \in Qubit \ {n} : b1[j] = b[j]
  BY DEF CCX, Toggle
<1>2. /\ b2 \in [Qubit -> BOOLEAN] /\ b2[z] = (b1[z] # (b1[q] /\ b1[n]))
      /\ \A j \in Qubit \ {z} : b2[j] = b1[j]
  BY <1>1 DEF CCX, Toggle
<1>3. /\ b3 \in [Qubit -> BOOLEAN] /\ b3[n] = (b2[n] # (b2[x] /\ b2[y]))
      /\ \A j \in Qubit \ {n} : b3[j] = b2[j]
  BY <1>2 DEF CCX, Toggle
<1> HIDE DEF b1, b2, b3
<1>4. b2[n] = b1[n] /\ b2[x] = b[x] /\ b2[y] = b[y]
  BY <1>1, <1>2
<1>5. b3[n] = b[n]
  BY <1>1, <1>3, <1>4
<1>6. b3[z] = (b[z] # (b[q] /\ b[x] /\ b[y]))
  BY <1>1, <1>2, <1>3
<1>7. \A j \in Qubit \ {z} : b3[j] = b[j]
  BY <1>1, <1>2, <1>3, <1>5
<1>8. b3 = [b EXCEPT ![z] = b[z] # (b[q] /\ b[x] /\ b[y])]
  <2> DEFINE v == b[z] # (b[q] /\ b[x] /\ b[y])
  <2>1. b3[z] = v /\ v \in BOOLEAN
    BY <1>6
  <2> HIDE DEF v
  <2>2. b3 = [b EXCEPT ![z] = v]
    BY <1>3, <1>7, <2>1
  <2> QED BY <2>2 DEF v
<1> QED BY <1>8 DEF b1, b2, b3

\* Three flags are three flags.
LEMMA ThreeFlags ==
  ASSUME NEW f, NEW g, NEW h, Cardinality({f, g, h}) = 3
  PROVE  g # f /\ h # f
<1>1. /\ g = f => {f, g, h} = {f} \cup {h}
      /\ h = f => {f, g, h} = {f} \cup {g}
  OBVIOUS
<1>2. IsFiniteSet({f}) /\ Cardinality({f}) = 1
  BY FS_Singleton
<1>3. ASSUME NEW w
      PROVE  Cardinality({f} \cup {w}) # 3
  <2>1. Cardinality({f} \cup {w}) = IF w \in {f} THEN Cardinality({f}) ELSE Cardinality({f}) + 1
    BY <1>2, FS_AddElement
  <2>2. CASE w \in {f}
    BY <1>2, <2>1, <2>2
  <2>3. CASE w \notin {f}
    BY <1>2, <2>1, <2>3
  <2> QED BY <2>2, <2>3
<1> QED BY <1>1, <1>3

\* f.flip(), f ^= g and f ^= (g & h), as one gate or lifted, are gates with no,
\* one and two operands.  The one gate of ccnot_inplace has no control: it is
\* such a gate where the thread has none.
LEMMA StatementIsGate ==
  ASSUME IInv, NEW t \in Thread, NEW f \in Flag, NEW g \in Flag, NEW h \in Flag
  PROVE  /\ Flip(t, f) => GateOn(t, f, {}) /\ UNCHANGED poolVars
         /\ XorInto(t, f, g) => GateOn(t, f, {g}) /\ UNCHANGED poolVars
         /\ AndInto(t, f, g, h) => GateOn(t, f, {g, h}) /\ (UNCHANGED poolVars \/ Borrow)
         /\ current_control[t] = NoControl /\ FuseInto(t, f, g, h)
              => GateOn(t, f, {g, h}) /\ UNCHANGED poolVars
<1> DEFINE c == ContextOf(t)  b == bit[c]
<1>1. b \in [Qubit -> BOOLEAN]
  BY ContextType DEF IInv, TypeOK
<1>2. \A x \in Flag : HasQubit(flag[x]) /\ ThreadOf[x] = t => Value(x) = b[flag[x].qubit]
  BY DEF Value
<1>3. ASSUME Flip(t, f)
      PROVE  GateOn(t, f, {}) /\ UNCHANGED poolVars
  <2>1. flag[f].qubit \in Qubit
    BY <1>3, FlagQubit DEF Flip
  <2>2. EmitX(t, flag[f].qubit) = [b EXCEPT ![flag[f].qubit] = b[flag[f].qubit] # Controlled(t)]
    BY <1>1, <2>1 DEF EmitX, Toggle
  <2>3. (Controlled(t) /\ \A x \in {} : Value(x)) = Controlled(t)
    BY DEF Controlled
  <2> QED BY <1>3, <2>2, <2>3 DEF Flip, GateOn
<1>4. ASSUME XorInto(t, f, g)
      PROVE  GateOn(t, f, {g}) /\ UNCHANGED poolVars
  <2>1. flag[f].qubit \in Qubit /\ flag[g].qubit \in Qubit /\ Value(g) = b[flag[g].qubit]
    BY <1>2, <1>4, FlagQubit DEF XorInto
  <2>2. EmitCX(t, flag[g].qubit, flag[f].qubit) =
          [b EXCEPT ![flag[f].qubit] = b[flag[f].qubit] # (Controlled(t) /\ b[flag[g].qubit])]
    BY <1>1, <2>1 DEF EmitCX, Toggle
  <2>3. (Controlled(t) /\ \A x \in {g} : Value(x)) = (Controlled(t) /\ b[flag[g].qubit])
    BY <2>1
  <2> QED BY <1>4, <2>2, <2>3 DEF XorInto, GateOn
<1>5. ASSUME AndInto(t, f, g, h)
      PROVE  GateOn(t, f, {g, h}) /\ (UNCHANGED poolVars \/ Borrow)
  <2> DEFINE x == flag[g].qubit  y == flag[h].qubit  z == flag[f].qubit
  <2>1. x \in Qubit /\ y \in Qubit /\ z \in Qubit /\ Value(g) = b[x] /\ Value(h) = b[y]
    BY <1>2, <1>5, FlagQubit DEF AndInto
  <2>2. g # f /\ h # f /\ ThreadOf[g] = t /\ ThreadOf[h] = t
    BY <1>5, ThreeFlags DEF AndInto
  <2>3. x # z /\ y # z
    BY <1>5, <2>2, FlagQubit DEF AndInto
  <2>4. (Controlled(t) /\ \A w \in {g, h} : Value(w)) = (Controlled(t) /\ b[x] /\ b[y])
    BY <2>1
  <2>5. CASE control_stack[c] = <<>>
    <3>1. EmitCCX(t, x, y, z) = [b EXCEPT ![z] = b[z] # (b[x] /\ b[y])]
      BY <1>1, <2>1, <2>5 DEF EmitCCX, CCX, Toggle
    <3>2. Controlled(t)
      BY <2>5 DEF Controlled
    <3>3. (b[z] # (b[x] /\ b[y])) = (b[z] # (Controlled(t) /\ \A w \in {g, h} : Value(w)))
      BY <2>4, <3>2
    <3> QED BY <1>5, <2>2, <2>5, <3>1, <3>3 DEF AndInto, GateOn
  <2>6. CASE control_stack[c] # <<>>
    <3> DEFINE q == current_control_qubit[t]  n == NextIndex
    <3>1. control_stack[c] = <<q>> /\ q \in Qubit /\ \E p \in Place : Own(flag, scope)[p] = q
      BY <2>6, ControlIsOwned
    <3>2. n \in Qubit /\ Borrow
      BY <1>5, <2>6 DEF AndInto
    <3>3. Unowned(Own(flag, scope), free_, high_water_, n)
      BY <3>2, NextIndexIsUnowned
    <3>4. n \notin {x, y, z, q}
      BY <1>5, <3>1, <3>3, FlagQubit, OneOwner DEF AndInto, Unowned
    <3>5. ~b[n]
      BY <3>2, <3>3, UnownedIsZero, ContextType
    <3>6. EmitCCX(t, x, y, z) = CCX(CCX(CCX(b, x, y, n), q, n, z), x, y, n)
      BY <3>1 DEF EmitCCX
    <3>7. EmitCCX(t, x, y, z) = [b EXCEPT ![z] = b[z] # (b[q] /\ b[x] /\ b[y])]
      <4> HIDE DEF x, y, z, n, q, b, c
      <4> QED BY <1>1, <2>1, <2>3, <3>1, <3>2, <3>4, <3>5, <3>6, LiftedCCX
    <3>8. Controlled(t) = b[q]
      BY <1>1, <3>1 DEF Controlled
    <3>9. (b[z] # (b[q] /\ b[x] /\ b[y])) = (b[z] # (Controlled(t) /\ \A w \in {g, h} : Value(w)))
      BY <2>4, <3>8
    <3> QED BY <1>5, <2>2, <3>2, <3>7, <3>9 DEF AndInto, GateOn
  <2> QED BY <2>5, <2>6
<1>6. ASSUME current_control[t] = NoControl, FuseInto(t, f, g, h)
      PROVE  GateOn(t, f, {g, h}) /\ UNCHANGED poolVars
  <2> DEFINE x == flag[g].qubit  y == flag[h].qubit  z == flag[f].qubit
  <2>1. x \in Qubit /\ y \in Qubit /\ z \in Qubit /\ Value(g) = b[x] /\ Value(h) = b[y]
    BY <1>2, <1>6, FlagQubit DEF FuseInto
  <2>2. g # f /\ h # f /\ ThreadOf[g] = t /\ ThreadOf[h] = t
    BY <1>6, ThreeFlags DEF FuseInto
  <2>3. Controlled(t)
    BY <1>6, ControlIsOwned DEF Controlled
  <2>4. CCX(b, x, y, z) = [b EXCEPT ![z] = b[z] # (b[x] /\ b[y])]
    BY <1>1, <2>1 DEF CCX, Toggle
  <2>5. (b[z] # (b[x] /\ b[y])) = (b[z] # (Controlled(t) /\ \A w \in {g, h} : Value(w)))
    BY <2>1, <2>3
  <2>6. bit' = [bit EXCEPT ![c] = CCX(b, x, y, z)]
    BY <1>6 DEF FuseInto
  <2>7. MayChange(t, f) /\ HasQubit(flag[f]) /\ UNCHANGED <<poolVars, flag, guardVars>>
    BY <1>6 DEF FuseInto
  <2> QED BY <2>2, <2>4, <2>5, <2>6, <2>7 DEF GateOn
<1> QED BY <1>3, <1>4, <1>5, <1>6

\* A statement that changes qubits and flags no scope of its thread rests on.
LEMMA StatementKeeps ==
  ASSUME OwnContexts, IInv, NEW t \in Thread, NEW b \in [Qubit -> BOOLEAN],
         UNCHANGED guardVars, bit' = [bit EXCEPT ![ContextOf(t)] = b],
         flag' \in [Flag -> Qbool], \A f \in Flag : FlagOK(flag'[f]),
         \A f \in Flag : ThreadOf[f] # t \/ f \in Conditions(t) => flag'[f] = flag[f],
         \A q \in Qubit : Private(t, q) \/ b[q] = bit[ContextOf(t)][q],
         Exact(Own(flag', scope), free_', high_water_', in_use_'),
         ZeroElsewhere(Own(flag', scope), bit')
  PROVE  IInv'
<1>1. TypeOK /\ ContextOf(t) \in Context /\ aborted = FALSE
  BY ContextType DEF IInv, TypeOK
<1>2. bit'[ContextOf(t)] = b
  BY <1>1 DEF TypeOK
<1>3. OnlyAt(t)
  <2>1. /\ scope' = scope /\ current_control' = current_control /\ control_stack' = control_stack
        /\ current_control_qubit' = current_control_qubit
    BY DEF guardVars
  <2>2. /\ scope = [scope EXCEPT ![t] = scope[t]]
        /\ current_control = [current_control EXCEPT ![t] = current_control[t]]
        /\ current_control_qubit = [current_control_qubit EXCEPT ![t] = current_control_qubit[t]]
        /\ control_stack = [control_stack EXCEPT ![ContextOf(t)] = control_stack[ContextOf(t)]]
    BY <1>1 DEF TypeOK
  <2> QED BY <1>2, <2>1, <2>2 DEF OnlyAt
<1>4. \A f \in Conditions(t) : flag'[f] = flag[f]
  <2>1. ScopesOK(t, flag, scope[t])
    BY DEF IInv, ThreadOK
  <2>2. Conditions(t) \subseteq Flag
    BY <2>1, ScopeFacts DEF Conditions, Scope
  <2> QED BY <2>2
<1>5. /\ ScopesOK(t, flag', scope[t])
      /\ ControlOK(flag', scope[t], current_control[t], current_control_qubit[t], control_stack[ContextOf(t)])
      /\ Meaning(flag', scope[t], b)
      /\ IdleZero(scope[t], b)
  BY <1>4, ScopesKept
<1>6. ThreadOK(t)'
  BY <1>2, <1>5 DEF guardVars, ThreadOK
<1>7. scope' = scope /\ aborted' = FALSE
  BY <1>1 DEF guardVars
<1> QED BY <1>2, <1>3, <1>6, <1>7, Conclude

\* A gate of the program.
LEMMA GateKeeps ==
  ASSUME OwnContexts, IInv, NEW t \in Thread, NEW f \in Flag, NEW operands,
         GateOn(t, f, operands), UNCHANGED poolVars \/ Borrow
  PROVE  IInv'
<1> DEFINE c == ContextOf(t)
           q == flag[f].qubit
           b == [bit[c] EXCEPT ![q] = bit[c][q] # (Controlled(t) /\ \A g \in operands : Value(g))]
<1>1. /\ c \in Context /\ bit \in [Context -> [Qubit -> BOOLEAN]] /\ flag \in [Flag -> Qbool]
      /\ f \notin Conditions(t) /\ ThreadOf[f] = t /\ HasQubit(flag[f])
  BY ContextType DEF IInv, TypeOK, GateOn, MayChange
<1>2. /\ q \in Qubit /\ FlagPlace(f) \in Place /\ Own(flag, scope)[FlagPlace(f)] = q
  BY <1>1, FlagQubit
<1>3. b \in [Qubit -> BOOLEAN] /\ \A j \in Qubit \ {q} : b[j] = bit[c][j]
  BY <1>1, <1>2
<1>4. bit' = [bit EXCEPT ![c] = b] /\ flag' = flag /\ UNCHANGED guardVars
  BY DEF GateOn
<1>5. Exact(Own(flag', scope), free_', high_water_', in_use_')
  <2>1. CASE UNCHANGED poolVars
    BY <1>4, <2>1 DEF IInv, poolVars
  <2>2. CASE Borrow
    BY <1>4, <2>2, NextIndexIsUnowned
  <2> QED BY <2>1, <2>2
<1>6. ZeroElsewhere(Own(flag', scope), bit')
  <2> HIDE DEF b
  <2>1. \A d \in Context, j \in Qubit : (d = c /\ j = q) \/ bit'[d][j] = bit[d][j]
    BY <1>1, <1>3, <1>4
  <2>2. ContextAt(FlagPlace(f)) = c
    BY <1>1 DEF ContextAt, FlagPlace
  <2>3. \A p \in Place : Own(flag, scope)[p] = q => p = FlagPlace(f)
    BY <1>1, <1>2, OneOwner DEF HasQubit
  <2> HIDE DEF c, q
  <2>4. ZeroElsewhere(Own(flag, scope), bit)
    BY DEF IInv
  <2>5. ZeroElsewhere(Own(flag, scope), bit')
    BY <1>1, <1>2, <2>1, <2>2, <2>3, <2>4, ZeroKept
  <2> QED BY <1>4, <2>5
<1>7. Private(t, q)
  BY <1>1, WhatIsPrivate
<1>8. \A g \in Flag : FlagOK(flag'[g])
  BY <1>4 DEF IInv
<1> HIDE DEF b, c, q
<1>9. \A j \in Qubit : Private(t, j) \/ b[j] = bit[c][j]
  BY <1>3, <1>7
<1> QED BY <1>1, <1>3, <1>4, <1>5, <1>6, <1>8, <1>9, StatementKeeps DEF c

\* A flag without a qubit takes the one the pool hands out.
LEMMA FlagTakes ==
  ASSUME IInv, NEW f \in Flag, NEW i \in Qubit, Allocate(i), ~HasQubit(flag[f]),
         \A g \in Flag : flag'[g].qubit = IF g = f THEN i ELSE flag[g].qubit,
         \A d \in Context, j \in Qubit :
            (d = ContextOf(ThreadOf[f]) /\ j = i) \/ bit'[d][j] = bit[d][j]
  PROVE  /\ Exact(Own(flag', scope), free_', high_water_', in_use_')
         /\ ZeroElsewhere(Own(flag', scope), bit')
         /\ Unowned(Own(flag, scope), free_, high_water_, i)
<1> DEFINE own == Own(flag, scope)  own2 == Own(flag', scope)  c == ContextOf(ThreadOf[f])  p == FlagPlace(f)
<1>1. /\ Exact(own, free_, high_water_, in_use_) /\ DOMAIN own = Place /\ p \in Place
      /\ own[p] = Nothing /\ own2[p] = i
  BY OneOwner, Places, OwnAt DEF IInv, HasQubit, NoQubit, Nothing
<1>2. own2 = [own EXCEPT ![p] = own2[p]]
  <2>1. \A g \in Flag : FlagPlace(g) # p => flag'[g].qubit = flag[g].qubit
    OBVIOUS
  <2> HIDE DEF p
  <2> QED BY <1>1, <2>1, OwnChange
<1>3. Unowned(own, free_, high_water_, i) /\ Exact(own2, free_', high_water_', in_use_')
  <2> HIDE DEF own, own2, p
  <2> QED BY <1>1, <1>2, AllocateKeepsExact, AllocatedIsUnowned
<1>4. ZeroElsewhere(own2, bit')
  <2>1. c \in Context /\ bit \in [Context -> [Qubit -> BOOLEAN]] /\ ContextAt(p) = c
    BY ThreadOfAssumption, ContextType DEF IInv, TypeOK, ContextAt, FlagPlace
  <2>2. \A d \in Context, j \in Qubit : (d = c /\ j = i) \/ bit'[d][j] = bit[d][j]
    OBVIOUS
  <2>3. \A r \in Place : own[r] # i /\ (own[r] \in Qubit \ {i} => own2[r] = own[r])
    <3>1. \A r \in Place : own[r] # i
      BY <1>1, <1>3 DEF Unowned
    <3>2. \A r \in Place : r # p => own2[r] = own[r]
      BY <1>1, <1>2
    <3>3. own[p] \notin Qubit
      BY <1>1 DEF Qubit, Nothing
    <3> QED BY <3>1, <3>2, <3>3
  <2>4. ZeroElsewhere(own, bit)
    BY DEF IInv
  <2>5. /\ \A r \in Place : own[r] = i => ContextAt(r) = c
        /\ \A r \in Place : own[r] \in Qubit \ {i} => own2[r] = own[r]
        /\ \E r \in Place : own2[r] = i /\ ContextAt(r) = c
    BY <1>1, <2>1, <2>3
  <2> HIDE DEF own, own2, p, c
  <2> QED BY <2>1, <2>2, <2>4, <2>5, ZeroKept
<1> QED BY <1>3, <1>4

\* f = qbool(p)
LEMMA PrepareKeeps ==
  ASSUME OwnContexts, IInv, NEW t \in Thread, NEW f \in Flag, Prepare(t, f)
  PROVE  IInv'
<1> DEFINE c == ContextOf(t)
<1>1. PICK i \in Qubit, v \in BOOLEAN :
        /\ Allocate(i) /\ flag' = [flag EXCEPT ![f] = Ancilla(i)]
        /\ bit' = [bit EXCEPT ![ContextOf(t)][i] = v]
  BY DEF Prepare
<1>2. /\ c \in Context /\ bit \in [Context -> [Qubit -> BOOLEAN]] /\ flag \in [Flag -> Qbool]
      /\ f \notin Conditions(t) /\ ThreadOf[f] = t /\ ~HasQubit(flag[f]) /\ UNCHANGED guardVars
      /\ \A g \in Flag : FlagOK(flag[g])
  BY ContextType DEF IInv, TypeOK, Prepare, MayChange
<1>3. /\ Ancilla(i) \in Qbool /\ FlagOK(Ancilla(i)) /\ Ancilla(i).qubit = i
  BY DEF Ancilla, Qbool, FlagOK
<1>4. flag' \in [Flag -> Qbool] /\ (\A g \in Flag : FlagOK(flag'[g]))
      /\ (\A g \in Flag : flag'[g].qubit = IF g = f THEN i ELSE flag[g].qubit)
      /\ \A g \in Flag \ {f} : flag'[g] = flag[g]
  BY <1>1, <1>2, <1>3
<1>5. /\ Exact(Own(flag', scope), free_', high_water_', in_use_')
      /\ ZeroElsewhere(Own(flag', scope), bit')
      /\ Unowned(Own(flag, scope), free_, high_water_, i)
  <2>1. \A d \in Context, j \in Qubit : (d = ContextOf(ThreadOf[f]) /\ j = i) \/ bit'[d][j] = bit[d][j]
    BY <1>1, <1>2
  <2> QED BY <1>1, <1>2, <1>4, <2>1, FlagTakes
<1> DEFINE b == [bit[c] EXCEPT ![i] = v]
<1>6. b \in [Qubit -> BOOLEAN] /\ bit' = [bit EXCEPT ![c] = b] /\ \A j \in Qubit \ {i} : b[j] = bit[c][j]
  BY <1>1, <1>2
<1>7. \A j \in Qubit : Private(t, j) \/ b[j] = bit[c][j]
  BY <1>5, <1>6, WhatIsPrivate
<1>8. \A g \in Flag : ThreadOf[g] # t \/ g \in Conditions(t) => flag'[g] = flag[g]
  BY <1>2, <1>4
<1> HIDE DEF b, c
<1> QED BY <1>2, <1>4, <1>5, <1>6, <1>7, <1>8, StatementKeeps DEF c

\* f = g
LEMMA CopyKeeps ==
  ASSUME OwnContexts, IInv, NEW t \in Thread, NEW f \in Flag, NEW g \in Flag, Copy(t, f, g)
  PROVE  IInv'
<1> DEFINE c == ContextOf(t)
<1>1. /\ c \in Context /\ bit \in [Context -> [Qubit -> BOOLEAN]] /\ flag \in [Flag -> Qbool]
      /\ f \notin Conditions(t) /\ ThreadOf[f] = t /\ ~HasQubit(flag[f]) /\ UNCHANGED guardVars
      /\ UNCHANGED poolVars /\ bit' = bit /\ flag' = [flag EXCEPT ![f] = [flag[g] EXCEPT !.qubit = NoQubit]]
      /\ \A x \in Flag : FlagOK(flag[x])
  BY ContextType DEF IInv, TypeOK, Copy, MayChange
<1>2. flag[g] \in Qbool /\ FlagOK(flag[g])
  BY <1>1
<1>3. /\ [flag[g] EXCEPT !.qubit = NoQubit] \in Qbool /\ FlagOK([flag[g] EXCEPT !.qubit = NoQubit])
      /\ [flag[g] EXCEPT !.qubit = NoQubit].qubit = NoQubit
  BY <1>2 DEF Qbool, FlagOK, HasQubit
<1>4. flag' \in [Flag -> Qbool] /\ (\A x \in Flag : FlagOK(flag'[x]))
      /\ (\A x \in Flag : flag'[x].qubit = flag[x].qubit)
      /\ \A x \in Flag \ {f} : flag'[x] = flag[x]
  BY <1>1, <1>3 DEF HasQubit
<1>5. Own(flag', scope) = Own(flag, scope)
  BY <1>4, OwnSame
<1>6. /\ Exact(Own(flag', scope), free_', high_water_', in_use_')
      /\ ZeroElsewhere(Own(flag', scope), bit')
  BY <1>1, <1>5 DEF IInv, poolVars
<1>7. bit[c] \in [Qubit -> BOOLEAN] /\ bit' = [bit EXCEPT ![c] = bit[c]]
  BY <1>1
<1>8. \A x \in Flag : ThreadOf[x] # t \/ x \in Conditions(t) => flag'[x] = flag[x]
  BY <1>1, <1>4
<1> HIDE DEF c
<1> QED BY <1>1, <1>4, <1>6, <1>7, <1>8, StatementKeeps DEF c

\* BitProxy::ensure_quantum(), then BitProxy::flip(): what the flips leave in
\* the bit is a boolean, whatever it is.
LEMMA PromoteKeeps ==
  ASSUME OwnContexts, IInv, NEW t \in Thread, NEW f \in Flag, ~flag[f].value, PromoteAndFlip(t, f)
  PROVE  /\ IInv'
         /\ \E i \in Qubit : /\ flag' = [flag EXCEPT ![f].qubit = i, ![f].super = TRUE]
                             /\ bit' = [bit EXCEPT ![ContextOf(t)][i] = Controlled(t)]
                             /\ Unowned(Own(flag, scope), free_, high_water_, i)
<1> DEFINE c == ContextOf(t)
<1>1. PICK i \in Qubit :
        /\ Allocate(i) /\ flag' = [flag EXCEPT ![f].qubit = i, ![f].super = TRUE]
        /\ bit' = [bit EXCEPT ![c] =
                      LET set == IF flag[f].value THEN EmitX(t, i) ELSE @
                      IN  Toggle(set, Controlled(t), i)]
  BY DEF PromoteAndFlip
<1>2. /\ c \in Context /\ bit \in [Context -> [Qubit -> BOOLEAN]] /\ flag \in [Flag -> Qbool]
      /\ f \notin Conditions(t) /\ ThreadOf[f] = t /\ ~HasQubit(flag[f]) /\ UNCHANGED guardVars
      /\ \A g \in Flag : FlagOK(flag[g])
  BY ContextType DEF IInv, TypeOK, PromoteAndFlip, MayChange
<1>3. Exact(Own(flag, scope), free_, high_water_, in_use_)
  BY DEF IInv
<1>4. Unowned(Own(flag, scope), free_, high_water_, i)
  BY <1>1, <1>3, AllocatedIsUnowned
<1>5. ~bit[c][i] /\ bit[c] \in [Qubit -> BOOLEAN]
  BY <1>2, <1>4, UnownedIsZero
<1>6. PICK v \in BOOLEAN : v = Controlled(t)
  BY DEF Controlled
<1>7. Toggle(bit[c], Controlled(t), i) = [bit[c] EXCEPT ![i] = v]
  <2>1. Toggle(bit[c], Controlled(t), i) = [bit[c] EXCEPT ![i] = bit[c][i] # Controlled(t)]
    BY DEF Toggle
  <2>2. (bit[c][i] # Controlled(t)) = v
    BY <1>5, <1>6
  <2> QED BY <2>1, <2>2
<1> DEFINE b == [bit[c] EXCEPT ![i] = v]
<1>8. b \in [Qubit -> BOOLEAN] /\ bit' = [bit EXCEPT ![c] = b] /\ \A j \in Qubit \ {i} : b[j] = bit[c][j]
  BY <1>1, <1>5, <1>7
<1>9. bit' = [bit EXCEPT ![c][i] = v]
  BY <1>2, <1>8
<1>10. PICK w : w = [flag[f] EXCEPT !.qubit = i, !.super = TRUE]
  OBVIOUS
<1>11. w \in Qbool /\ FlagOK(w) /\ w.qubit = i
  BY <1>2, <1>10 DEF Qbool, FlagOK
<1>12. flag' = [flag EXCEPT ![f] = w]
  BY <1>1, <1>2, <1>10
<1>13. flag' \in [Flag -> Qbool] /\ (\A g \in Flag : FlagOK(flag'[g]))
      /\ (\A g \in Flag : flag'[g].qubit = IF g = f THEN i ELSE flag[g].qubit)
      /\ \A g \in Flag \ {f} : flag'[g] = flag[g]
  BY <1>2, <1>11, <1>12
<1>14. /\ Exact(Own(flag', scope), free_', high_water_', in_use_')
       /\ ZeroElsewhere(Own(flag', scope), bit')
  <2>1. \A d \in Context, j \in Qubit : (d = ContextOf(ThreadOf[f]) /\ j = i) \/ bit'[d][j] = bit[d][j]
    BY <1>2, <1>9
  <2> QED BY <1>1, <1>2, <1>13, <2>1, FlagTakes
<1>15. \A j \in Qubit : Private(t, j) \/ b[j] = bit[c][j]
  BY <1>4, <1>8, WhatIsPrivate
<1>16. \A g \in Flag : ThreadOf[g] # t \/ g \in Conditions(t) => flag'[g] = flag[g]
  BY <1>2, <1>13
<1> HIDE DEF b, c
<1>17. IInv'
  BY <1>2, <1>8, <1>13, <1>14, <1>15, <1>16, StatementKeeps DEF c
<1> QED BY <1>1, <1>4, <1>6, <1>9, <1>17 DEF c

-----------------------------------------------------------------------------
(* Guards. *)

\* The scope s after the constructor of its guard, which guards expr.
Opened(t, s, expr) ==
  [s EXCEPT !.run_ = expr.super \/ expr.value, !.modified_tls_ = expr.super,
            !.prev_control_ = IF expr.super THEN current_control[t] ELSE NoControl,
            !.prev_control_qubit_ = IF expr.super THEN current_control_qubit[t] ELSE NoQubit]

\* The scopes after the guard of s has run on top of `scopes`.
Pushed(t, scopes, s, expr) == Append(scopes, Opened(t, s, expr))

\* The scopes of t without the innermost one.
Popped(t) == SubSeq(scope[t], 1, Len(scope[t]) - 1)

\* The active control of a thread, as its context has it.
LEMMA ThreadControl ==
  ASSUME IInv, NEW t \in Thread
  PROVE  LET s == scope[t]
             cc == current_control[t]
             ccq == current_control_qubit[t]
         IN  /\ s \in Seq(Scope) /\ Len(s) \in Nat /\ Len(s) <= MaxDepth /\ ScopesOK(t, flag, s)
             /\ cc \in NoControl..MaxDepth /\ ccq \in Qubit \cup {NoQubit}
             /\ cc = ControlAt(s, Len(s)) /\ ccq = QubitAt(flag, s, cc)
             /\ cc = NoControl => ccq = NoQubit /\ control_stack[ContextOf(t)] = <<>>
             /\ cc # NoControl => /\ cc = Len(s) /\ cc \in 1..Len(s) /\ s[cc].modified_tls_
                                  /\ ccq = ExprAt(flag, s, cc).qubit /\ ccq \in Qubit
                                  /\ HasQubit(ExprAt(flag, s, cc))
                                  /\ control_stack[ContextOf(t)] = <<ccq>>
             /\ cc = NoControl /\ s # <<>> => ~s[Len(s)].modified_tls_
             /\ flag \in [Flag -> Qbool] /\ ContextOf(t) \in Context
<1> DEFINE s == scope[t]  cc == current_control[t]  ccq == current_control_qubit[t]
           st == control_stack[ContextOf(t)]
<1>1. /\ ScopesOK(t, flag, s) /\ ControlOK(flag, s, cc, ccq, st) /\ flag \in [Flag -> Qbool]
      /\ ContextOf(t) \in Context
  BY ContextType DEF IInv, ThreadOK, TypeOK
<1>2. s \in Seq(Scope) /\ Len(s) \in Nat /\ Len(s) <= MaxDepth
  BY <1>1 DEF ScopesOK
<1>3. cc = ControlAt(s, Len(s)) /\ ccq = QubitAt(flag, s, cc)
  BY <1>1 DEF ControlOK
<1> HIDE DEF s, cc, ccq, st
<1>4. /\ cc \in NoControl..MaxDepth /\ ccq \in Qubit \cup {NoQubit}
      /\ cc # NoControl => /\ cc = Len(s) /\ cc \in 1..Len(s) /\ s[cc].modified_tls_
                           /\ ccq = ExprAt(flag, s, cc).qubit /\ ccq \in Qubit /\ st = <<ccq>>
      /\ cc = NoControl => ccq = NoQubit /\ st = <<>>
      /\ cc = NoControl /\ s # <<>> => ~s[Len(s)].modified_tls_
  BY <1>1, ControlTypes
<1>5. cc # NoControl => HasQubit(ExprAt(flag, s, cc))
  BY <1>4 DEF HasQubit, Qubit, NoQubit
<1> QED BY <1>1, <1>2, <1>3, <1>4, <1>5 DEF s, cc, ccq, st

\* What the constructor of a guard does to sound scopes.
Guarded(t, scopes, s, expr) ==
  /\ aborted' = FALSE
  /\ scope' = [scope EXCEPT ![t] = Pushed(t, scopes, s, expr)]
  /\ expr.super =>
       /\ control_stack' = [control_stack EXCEPT ![ContextOf(t)] = <<expr.qubit>>]
       /\ current_control' = [current_control EXCEPT ![t] = Len(scope[t]) + 1]
       /\ current_control_qubit' = [current_control_qubit EXCEPT ![t] = expr.qubit]
  /\ ~expr.super => UNCHANGED <<control_stack, current_control, current_control_qubit>>

\* The constructor: no assertion fails, and a superposed expression becomes
\* the only control.
LEMMA Guards ==
  ASSUME IInv, NEW t \in Thread, NEW scopes, NEW s, NEW expr, WhenGuard(t, scopes, s, expr)
  PROVE  Guarded(t, scopes, s, expr)
<1>1. aborted = FALSE
  BY DEF IInv, TypeOK
<1>2. scope' = [scope EXCEPT ![t] = Pushed(t, scopes, s, expr)]
  BY DEF WhenGuard, Pushed, Opened
<1>3. StackToPushOn(t) = <<>> /\ ~PushAsserts(t)
  <2>1. CASE current_control[t] = NoControl
    <3>1. ~Swaps(t) /\ control_stack[ContextOf(t)] = <<>>
      BY <2>1, ThreadControl DEF Swaps
    <3> QED BY <3>1 DEF StackToPushOn, PushAsserts
  <2>2. CASE current_control[t] # NoControl
    <3>1. Swaps(t) /\ control_stack[ContextOf(t)] = <<current_control_qubit[t]>>
      BY <2>2, ThreadControl DEF Swaps, Expr, ExprAt
    <3>2. PopControl(<<current_control_qubit[t]>>) = <<>>
      <4>1. Len(<<current_control_qubit[t]>>) - 1 = 0
        OBVIOUS
      <4>2. SubSeq(<<current_control_qubit[t]>>, 1, 0) = <<>>
        BY SubSeqEmpty
      <4> QED BY <4>1, <4>2 DEF PopControl
    <3> QED BY <3>1, <3>2 DEF StackToPushOn, PushAsserts
  <2> QED BY <2>1, <2>2
<1>4. Append(<<>>, expr.qubit) = <<expr.qubit>>
  OBVIOUS
<1>5. expr.super =>
        /\ aborted' = PushAsserts(t)
        /\ control_stack' =
             [control_stack EXCEPT ![ContextOf(t)] = Append(StackToPushOn(t), expr.qubit)]
        /\ current_control' = [current_control EXCEPT ![t] = Len(scope[t]) + 1]
        /\ current_control_qubit' = [current_control_qubit EXCEPT ![t] = expr.qubit]
  BY DEF WhenGuard
<1>6. ~expr.super => UNCHANGED <<aborted, control_stack, current_control, current_control_qubit>>
  BY DEF WhenGuard
<1>7. PushAsserts(t) = FALSE
  BY <1>3 DEF PushAsserts
<1>8. aborted' = FALSE
  BY <1>1, <1>5, <1>6, <1>7
<1> QED BY <1>2, <1>3, <1>4, <1>5, <1>6, <1>8 DEF Guarded

\* A scope with a guard is put on top of sound scopes.
LEMMA PushGuarded ==
  ASSUME NEW t, NEW fl \in [Flag -> Qbool], NEW s, NEW w \in Scope, NEW cc, NEW ccq,
         ScopesOK(t, fl, s), Len(s) < MaxDepth, s # <<>> => s[Len(s)].run_,
         cc = ControlAt(s, Len(s)), ccq = QubitAt(fl, s, cc),
         w.prev_control_ = IF w.modified_tls_ THEN cc ELSE NoControl,
         w.prev_control_qubit_ = IF w.modified_tls_ THEN ccq ELSE NoQubit,
         w.modified_tls_ => w.run_, w.locals = <<>>, ThreadOf[w.flag] = t,
         w.kind = "named" => NamedOK(fl, Append(s, w), Len(s) + 1),
         w.kind = "nested" => NestedOK(fl, Append(s, w), Len(s) + 1),
         w.kind = "lift" => LiftOK(fl, Append(s, w), Len(s) + 1),
         ~w.modified_tls_ => cc = NoControl
  PROVE  LET r == Append(s, w)
             q == ExprAt(fl, r, Len(s) + 1).qubit
         IN  /\ ScopesOK(t, fl, r)
             /\ w.modified_tls_ => ControlOK(fl, r, Len(s) + 1, q, <<q>>)
             /\ ~w.modified_tls_ => ControlOK(fl, r, NoControl, NoQubit, <<>>)
<1> DEFINE r == Append(s, w)  n == Len(s)
<1>1. s \in Seq(Scope) /\ n \in Nat
  BY DEF ScopesOK
<1>2. r \in Seq(Scope) /\ Len(r) = n + 1 /\ r[n + 1] = w /\ \A k \in 1..n : r[k] = s[k]
  BY <1>1
<1>3. n + 1 - 1 = n /\ n + 1 > 0 /\ (n > 0 => n \in 1..n)
  BY <1>1
<1>4. ControlAt(r, n) = cc
  BY <1>1, <1>2, <1>3 DEF ControlAt
<1>5. QubitAt(fl, r, cc) = ccq
  <2>1. cc = NoControl \/ cc \in 1..n
    BY <1>3, <1>1 DEF ControlAt
  <2> QED BY <1>2, <2>1 DEF QubitAt, ExprAt
<1>6. ScopeOK(fl, r, n + 1)
  <2>1. QubitAt(fl, r, NoControl) = NoQubit
    BY DEF QubitAt
  <2> QED BY <1>2, <1>3, <1>4, <1>5, <2>1 DEF ScopeOK
<1>7. ScopesOK(t, fl, r)
  BY <1>6, PushScope
<1>8. w.modified_tls_ => ControlOK(fl, r, n + 1, ExprAt(fl, r, n + 1).qubit, <<ExprAt(fl, r, n + 1).qubit>>)
  BY <1>1, <1>2, <1>3 DEF ControlOK, ControlAt, QubitAt, NoControl
<1>9. ~w.modified_tls_ => ControlOK(fl, r, NoControl, NoQubit, <<>>)
  BY <1>1, <1>2, <1>3 DEF ControlOK, ControlAt, QubitAt, NoControl
<1> QED BY <1>7, <1>8, <1>9

\* The temporaries of a lone scope may change.
LEMMA LocalsChange ==
  ASSUME NEW t, NEW fl, NEW s, NEW r \in Seq(Scope), ScopesOK(t, fl, s), Len(s) = 1, Len(r) = 1,
         s[1].kind = "named", s[1].modified_tls_, r[1].kind = "named", r[1].modified_tls_,
         r[1].flag = s[1].flag, r[1].run_ = s[1].run_,
         r[1].prev_control_ = s[1].prev_control_, r[1].prev_control_qubit_ = s[1].prev_control_qubit_
  PROVE  ScopesOK(t, fl, r)
<1>1. 1 \in 1..Len(s) /\ s \in Seq(Scope) /\ Len(s) <= MaxDepth
  BY DEF ScopesOK
<1>2. s[1] \in Scope /\ ScopeOK(fl, s, 1) /\ ThreadOf[s[1].flag] = t
  <2>1. \A k \in 1..Len(s) : ScopeOK(fl, s, k) /\ ThreadOf[s[k].flag] = t
    BY DEF ScopesOK
  <2>2. \A k \in 1..Len(s) : s[k] \in Scope
    BY <1>1, ElementOfSeq
  <2> QED BY <1>1, <2>1, <2>2
<1>3. ControlAt(s, 0) = NoControl /\ ControlAt(r, 0) = NoControl
  BY DEF ControlAt
<1>4. s[1].prev_control_ = NoControl /\ s[1].prev_control_qubit_ = NoQubit
  BY <1>2, <1>3 DEF ScopeOK, QubitAt
<1>5. NamedOK(fl, r, 1)
  <2>1. NamedOK(fl, s, 1)
    BY <1>2 DEF ScopeOK
  <2> QED BY <2>1 DEF NamedOK
<1>6. s[1].run_
  BY <1>2 DEF ScopeOK
<1>7. ScopeOK(fl, r, 1)
  BY <1>2, <1>3, <1>4, <1>5, <1>6 DEF ScopeOK, QubitAt
<1>8. \A k \in 1..1 : k = 1
  OBVIOUS
<1> QED BY <1>1, <1>2, <1>7, <1>8 DEF ScopesOK

-----------------------------------------------------------------------------
(* Steps that open or close a scope. *)

\* The flags and the table of places after a step of t.
FlagsKept(t) ==
  /\ flag' \in [Flag -> Qbool]
  /\ \A f \in Flag : FlagOK(flag'[f])
  /\ \A f \in Flag : ThreadOf[f] # t => flag'[f] = flag[f]

\* The table is exact again.
TableKept ==
  /\ Exact(Own(flag', scope'), free_', high_water_', in_use_')
  /\ ZeroElsewhere(Own(flag', scope'), bit')

\* A step of t leaves it the scopes s under the control cc, ccq, and its
\* context the stack st and the basis state b.
Assigns(t, s, cc, ccq, st, b) ==
  /\ scope' = [scope EXCEPT ![t] = s]
  /\ current_control' = [current_control EXCEPT ![t] = cc]
  /\ current_control_qubit' = [current_control_qubit EXCEPT ![t] = ccq]
  /\ control_stack' = [control_stack EXCEPT ![ContextOf(t)] = st]
  /\ bit' = [bit EXCEPT ![ContextOf(t)] = b]
  /\ b \in [Qubit -> BOOLEAN]
  /\ aborted' = FALSE

\* Those are what the invariant asks of a thread.
Sound(t, fl, s, cc, ccq, st, b) ==
  /\ ScopesOK(t, fl, s)
  /\ ControlOK(fl, s, cc, ccq, st)
  /\ Meaning(fl, s, b)
  /\ IdleZero(s, b)

\* What is left to show of a step of t, given what it assigns.
LEMMA StepKeeps ==
  ASSUME OwnContexts, IInv, NEW t \in Thread, NEW s, NEW cc, NEW ccq, NEW st, NEW b,
         Assigns(t, s, cc, ccq, st, b), Sound(t, flag', s, cc, ccq, st, b), FlagsKept(t), TableKept
  PROVE  IInv'
<1>1. TypeOK /\ ContextOf(t) \in Context
  BY ContextType DEF IInv
<1>2. /\ scope'[t] = s /\ current_control'[t] = cc /\ current_control_qubit'[t] = ccq
      /\ control_stack'[ContextOf(t)] = st /\ bit'[ContextOf(t)] = b
  BY <1>1 DEF TypeOK, Assigns
<1>3. OnlyAt(t)
  BY <1>2 DEF OnlyAt, Assigns, FlagsKept
<1>4. ThreadOK(t)'
  BY <1>2 DEF ThreadOK, Sound
<1>5. /\ flag' \in [Flag -> Qbool] /\ (\A f \in Flag : FlagOK(flag'[f])) /\ aborted' = FALSE
      /\ bit'[ContextOf(t)] \in [Qubit -> BOOLEAN]
      /\ Exact(Own(flag', scope'), free_', high_water_', in_use_')
      /\ ZeroElsewhere(Own(flag', scope'), bit')
  BY <1>2 DEF Assigns, FlagsKept, TableKept
<1> QED BY <1>3, <1>4, <1>5, Conclude

\* The scopes `base` stand for those t is in, and may get one more.
BaseOK(t, base, b) ==
  /\ Len(base) = Len(scope[t]) /\ Len(base) < MaxDepth
  /\ ScopesOK(t, flag', base)
  /\ base # <<>> => base[Len(base)].run_
  /\ ControlAt(base, Len(base)) = current_control[t]
  /\ QubitAt(flag', base, current_control[t]) = current_control_qubit[t]
  /\ Meaning(flag', base, b)

\* The scope s, guarded by expr, fits on top of `base`.
Fits(t, base, s, expr, b) ==
  LET r == Pushed(t, base, s, expr)
      k == Len(base) + 1
  IN  /\ s \in Scope /\ expr \in Qbool
      /\ ~expr.super => current_control[t] = NoControl
      /\ s.locals = <<>> /\ ThreadOf[s.flag] = t
      /\ s.kind = "named" => NamedOK(flag', r, k)
      /\ s.kind = "nested" => NestedOK(flag', r, k)
      /\ s.kind = "lift" => LiftOK(flag', r, k)
      /\ expr.super => ExprAt(flag', r, k).qubit = expr.qubit
      /\ Holds(flag', r, b, k)
           <=> Meant(flag', b, s.flag) /\ (base # <<>> => Holds(flag', base, b, Len(base)))
      /\ IdleZero(r, b)

\* The fields of a scope once its guard has run.
LEMMA OpenedFields ==
  ASSUME IInv, NEW t \in Thread, NEW s \in Scope, NEW expr \in Qbool
  PROVE  LET w == Opened(t, s, expr)
         IN  /\ w \in Scope /\ w.modified_tls_ = expr.super /\ w.run_ = (expr.super \/ expr.value)
             /\ w.prev_control_ = IF w.modified_tls_ THEN current_control[t] ELSE NoControl
             /\ w.prev_control_qubit_ = IF w.modified_tls_ THEN current_control_qubit[t] ELSE NoQubit
             /\ w.locals = s.locals /\ w.kind = s.kind /\ w.flag = s.flag /\ w.expr = s.expr
             /\ w.closing = s.closing
<1>1. current_control[t] \in NoControl..MaxDepth /\ current_control_qubit[t] \in Qubit \cup {NoQubit}
  BY ThreadControl
<1>2. expr.super \in BOOLEAN /\ expr.value \in BOOLEAN /\ NoControl \in NoControl..MaxDepth
  BY BoundAssumption DEF Qbool, NoControl
<1> QED BY <1>1, <1>2 DEF Scope, Opened

\* A step that opens a scope on top of `base`.
LEMMA GuardOpens ==
  ASSUME OwnContexts, IInv, NEW t \in Thread, NEW base, NEW s, NEW expr, NEW b,
         WhenGuard(t, base, s, expr), BaseOK(t, base, b), Fits(t, base, s, expr, b),
         b \in [Qubit -> BOOLEAN], bit' = [bit EXCEPT ![ContextOf(t)] = b], FlagsKept(t), TableKept
  PROVE  IInv'
<1> DEFINE w == Opened(t, s, expr)  c == ContextOf(t)  r == Pushed(t, base, s, expr)  n == Len(base)
<1>1. /\ current_control[t] = NoControl => current_control_qubit[t] = NoQubit /\ control_stack[c] = <<>>
      /\ c \in Context
  BY ThreadControl
<1>2. s \in Scope /\ expr \in Qbool /\ expr.super \in BOOLEAN
  BY DEF Fits, Qbool
<1>3. /\ w \in Scope /\ w.modified_tls_ = expr.super /\ w.run_ = (expr.super \/ expr.value)
      /\ w.prev_control_ = IF w.modified_tls_ THEN current_control[t] ELSE NoControl
      /\ w.prev_control_qubit_ = IF w.modified_tls_ THEN current_control_qubit[t] ELSE NoQubit
      /\ w.locals = s.locals /\ w.kind = s.kind /\ w.flag = s.flag
  BY <1>2, OpenedFields
<1>4. base \in Seq(Scope) /\ r = Append(base, w) /\ n \in Nat /\ n = Len(scope[t])
  BY DEF ScopesOK, BaseOK, Pushed
<1>5. Guarded(t, base, s, expr)
  BY Guards
<1> HIDE DEF w, r, n
<1>6. /\ ScopesOK(t, flag', r)
      /\ w.modified_tls_ => ControlOK(flag', r, n + 1, ExprAt(flag', r, n + 1).qubit,
                                      <<ExprAt(flag', r, n + 1).qubit>>)
      /\ ~w.modified_tls_ => ControlOK(flag', r, NoControl, NoQubit, <<>>)
  <2>1. /\ w.kind = "named" => NamedOK(flag', r, n + 1)
        /\ w.kind = "nested" => NestedOK(flag', r, n + 1)
        /\ w.kind = "lift" => LiftOK(flag', r, n + 1)
        /\ w.locals = <<>> /\ ThreadOf[w.flag] = t /\ (~w.modified_tls_ => current_control[t] = NoControl)
    BY <1>3 DEF Fits, r, n
  <2>2. /\ current_control[t] = ControlAt(base, n)
        /\ current_control_qubit[t] = QubitAt(flag', base, current_control[t])
        /\ base # <<>> => base[n].run_
        /\ ScopesOK(t, flag', base) /\ n < MaxDepth
    BY DEF BaseOK, n
  <2>3. w.modified_tls_ => w.run_
    BY <1>3
  <2>4. flag' \in [Flag -> Qbool]
    BY DEF FlagsKept
  <2> QED BY <1>3, <1>4, <2>1, <2>2, <2>3, <2>4, PushGuarded DEF n
<1>7. Meaning(flag', r, b)
  <2>1. Holds(flag', r, b, n + 1) <=> Meant(flag', b, w.flag) /\ (base # <<>> => Holds(flag', base, b, n))
    BY <1>3 DEF Fits, r, n
  <2>2. Meaning(flag', base, b)
    BY DEF BaseOK
  <2> QED BY <1>3, <1>4, <2>1, <2>2, MeaningPush DEF n
<1>8. IdleZero(r, b)
  BY DEF Fits, r
<1>9. aborted' = FALSE /\ scope' = [scope EXCEPT ![t] = r]
  BY <1>5 DEF Guarded, r
<1>10. CASE expr.super
  <2>1. ExprAt(flag', r, n + 1).qubit = expr.qubit
    BY <1>10 DEF Fits, r, n
  <2>2. ControlOK(flag', r, n + 1, expr.qubit, <<expr.qubit>>)
    BY <1>3, <1>6, <1>10, <2>1
  <2>3. Assigns(t, r, n + 1, expr.qubit, <<expr.qubit>>, b)
    <3>1. /\ control_stack' = [control_stack EXCEPT ![ContextOf(t)] = <<expr.qubit>>]
          /\ current_control' = [current_control EXCEPT ![t] = Len(scope[t]) + 1]
          /\ current_control_qubit' = [current_control_qubit EXCEPT ![t] = expr.qubit]
      BY <1>5, <1>10 DEF Guarded
    <3>2. current_control' = [current_control EXCEPT ![t] = n + 1]
      BY <1>4, <3>1
    <3> QED BY <1>9, <3>1, <3>2 DEF Assigns
  <2>4. Sound(t, flag', r, n + 1, expr.qubit, <<expr.qubit>>, b)
    BY <1>6, <1>7, <1>8, <2>2 DEF Sound
  <2> QED BY <2>3, <2>4, StepKeeps
<1>11. CASE ~expr.super
  <2>1. ControlOK(flag', r, NoControl, NoQubit, <<>>)
    BY <1>3, <1>6, <1>11
  <2>2. current_control[t] = NoControl /\ current_control_qubit[t] = NoQubit /\ control_stack[c] = <<>>
    BY <1>1, <1>11 DEF Fits
  <2>3. Assigns(t, r, NoControl, NoQubit, <<>>, b)
    <3>1. TypeOK
      BY DEF IInv
    <3>2. UNCHANGED <<control_stack, current_control, current_control_qubit>>
      BY <1>5, <1>11 DEF Guarded
    <3>3. current_control' = [current_control EXCEPT ![t] = NoControl]
      BY <2>2, <3>1, <3>2 DEF TypeOK
    <3>4. current_control_qubit' = [current_control_qubit EXCEPT ![t] = NoQubit]
      BY <2>2, <3>1, <3>2 DEF TypeOK
    <3>5. control_stack' = [control_stack EXCEPT ![c] = <<>>]
      BY <1>1, <2>2, <3>1, <3>2 DEF TypeOK
    <3> QED BY <1>9, <3>3, <3>4, <3>5 DEF Assigns
  <2>4. Sound(t, flag', r, NoControl, NoQubit, <<>>, b)
    BY <1>6, <1>7, <1>8, <2>1 DEF Sound
  <2> QED BY <2>3, <2>4, StepKeeps
<1> QED BY <1>2, <1>10, <1>11

\* What the destructor of the innermost guard of t does.
Unguarded(t, cc, ccq, st) ==
  /\ ControlOK(flag, Popped(t), cc, ccq, st)
  /\ scope' = [scope EXCEPT ![t] = Popped(t)]
  /\ current_control' = [current_control EXCEPT ![t] = cc]
  /\ current_control_qubit' = [current_control_qubit EXCEPT ![t] = ccq]
  /\ control_stack' = [control_stack EXCEPT ![ContextOf(t)] = st]

\* What the guard of the innermost scope leaves.
LEMMA Unguards ==
  ASSUME IInv, NEW t \in Thread, scope[t] # <<>>, EndGuard(t)
  PROVE  /\ Len(scope[t]) \in 1..Len(scope[t]) /\ Len(scope[t]) \in Nat \ {0}
         /\ Popped(t) \in Seq(Scope) /\ Len(Popped(t)) = Len(scope[t]) - 1
         /\ \A k \in 1..(Len(scope[t]) - 1) : Popped(t)[k] = scope[t][k]
         /\ ScopesOK(t, flag, Popped(t)) /\ ~UnwindAsserts(t)
         /\ \E cc, ccq, st : Unguarded(t, cc, ccq, st)
<1> DEFINE c == ContextOf(t)  cc == current_control[t]  ccq == current_control_qubit[t]
           s == scope[t]  n == Len(s)  r == Popped(t)
<1>1. /\ s \in Seq(Scope) /\ n = Len(s) /\ ScopesOK(t, flag, s) /\ c \in Context
      /\ cc = ControlAt(s, n)
      /\ cc = NoControl => ccq = NoQubit /\ control_stack[c] = <<>>
      /\ cc # NoControl => cc = n /\ control_stack[c] = <<ccq>>
  BY ThreadControl
<1>1a. s # <<>>
  OBVIOUS
<1> HIDE DEF s
<1>2. /\ n \in Nat \ {0} /\ r \in Seq(Scope) /\ Len(r) = n - 1 /\ \A k \in 1..(n - 1) : r[k] = s[k]
  BY <1>1, <1>1a, Shortened DEF Popped, s
<1> HIDE DEF r, n
<1>3. n \in 1..n
  BY <1>2
<1>4. ScopesOK(t, flag, r)
  <2>1. r \in Seq(Scope) /\ Len(r) <= Len(s) /\ ScopesOK(t, flag, s)
    BY <1>1, <1>2
  <2>2. \A k \in 1..Len(r) : r[k] = s[k] /\ flag[s[k].flag] = flag[s[k].flag]
    BY <1>2
  <2> QED BY <2>1, <2>2, ScopesPrefix
<1>5. /\ s[n].modified_tls_ \in BOOLEAN /\ ScopeOK(flag, s, n)
      /\ s[n].prev_control_ \in {NoControl, n - 1}
      /\ ~s[n].modified_tls_ => n = 1 \/ ~s[n - 1].modified_tls_
      /\ s[n].prev_control_ # NoControl => n > 1 /\ s[n - 1].modified_tls_
  <2>1. ScopesOK(t, flag, s) /\ n \in 1..Len(s)
    BY <1>1, <1>3
  <2>2. s[n] \in Scope
    BY <2>1, ScopeFacts
  <2> QED BY <2>1, <2>2, ScopeFacts DEF Scope
<1>6. ControlAt(r, n - 1) = ControlAt(s, n - 1)
  BY <1>2 DEF ControlAt
<1>7. \A k \in {NoControl, n - 1} : QubitAt(flag, r, k) = QubitAt(flag, s, k)
  <2>1. n - 1 = 0 \/ n - 1 \in 1..(n - 1)
    BY <1>2
  <2>2. n - 1 # 0 => r[n - 1] = s[n - 1]
    BY <1>2, <2>1
  <2> QED BY <2>2 DEF QubitAt, ExprAt, NoControl
<1>8. s[n].modified_tls_ => cc = n /\ cc # NoControl
  BY <1>1, <1>2 DEF ControlAt, NoControl
<1>9. scope' = [scope EXCEPT ![t] = r]
  BY DEF EndGuard, Popped, r
<1>10. CASE s[n].modified_tls_
  <2> DEFINE prev == s[n].prev_control_  prevq == s[n].prev_control_qubit_
             st == IF prev = NoControl THEN <<>> ELSE <<prevq>>
  <2>1. prev = ControlAt(r, n - 1) /\ prevq = QubitAt(flag, r, prev)
    BY <1>5, <1>6, <1>7, <1>10 DEF ScopeOK
  <2>2. ControlOK(flag, r, prev, prevq, st)
    BY <1>2, <2>1 DEF ControlOK
  <2>3. PopControl(control_stack[c]) = <<>>
    <3>1. Len(<<ccq>>) - 1 = 0 /\ control_stack[c] = <<ccq>>
      BY <1>1, <1>8, <1>10
    <3>2. SubSeq(<<ccq>>, 1, 0) = <<>>
      BY SubSeqEmpty
    <3> QED BY <3>1, <3>2 DEF PopControl
  <2>4. Unwound(t) = st
    <3>1. CASE prev = NoControl
      BY <2>3, <3>1 DEF Unwound, Top, s, n
    <3>2. CASE prev # NoControl
      <4>1. prev = n - 1 /\ n - 1 \in 1..Len(s) /\ s[n - 1].modified_tls_
        BY <1>1, <1>2, <1>5, <3>2
      <4>2. HasQubit(ExprAt(flag, s, n - 1))
        BY <1>1, <4>1, ScopeFacts
      <4>3. Expr(t, prev) = ExprAt(flag, s, prev)
        BY DEF Expr, ExprAt, s
      <4>4. prevq = ExprAt(flag, s, prev).qubit
        BY <1>7, <2>1, <3>2, <4>1 DEF QubitAt
      <4>5. Append(<<>>, prevq) = <<prevq>>
        OBVIOUS
      <4> QED BY <2>3, <3>2, <4>1, <4>2, <4>3, <4>4, <4>5 DEF Unwound, Top, s, n
    <3> QED BY <3>1, <3>2
  <2>5. /\ control_stack' = [control_stack EXCEPT ![c] = st]
        /\ current_control' = [current_control EXCEPT ![t] = prev]
        /\ current_control_qubit' = [current_control_qubit EXCEPT ![t] = prevq]
    BY <1>10, <2>4 DEF EndGuard, Top, s, n
  <2>6. ~UnwindAsserts(t)
    <3>1. control_stack[c] = <<ccq>>
      BY <1>1, <1>8, <1>10
    <3>2. Len(control_stack[c]) = 1
      BY <3>1
    <3> QED BY <3>2 DEF UnwindAsserts
  <2>7. Unguarded(t, prev, prevq, st)
    BY <1>9, <2>2, <2>5 DEF Unguarded, r
  <2> QED BY <1>2, <1>3, <1>4, <2>6, <2>7 DEF r, s, n
<1>11. CASE ~s[n].modified_tls_
  <2>1. cc = NoControl /\ ccq = NoQubit /\ control_stack[c] = <<>>
    BY <1>1, <1>11 DEF ControlAt
  <2>2. ControlAt(r, n - 1) = NoControl
    BY <1>2, <1>5, <1>6, <1>11 DEF ControlAt
  <2>3. ControlOK(flag, r, NoControl, NoQubit, <<>>)
    BY <1>2, <2>2 DEF ControlOK, QubitAt
  <2>4. /\ current_control' = [current_control EXCEPT ![t] = NoControl]
        /\ current_control_qubit' = [current_control_qubit EXCEPT ![t] = NoQubit]
        /\ control_stack' = [control_stack EXCEPT ![c] = <<>>]
    <3>1. TypeOK
      BY DEF IInv
    <3>2. UNCHANGED <<control_stack, current_control, current_control_qubit>>
      BY <1>11 DEF EndGuard, Top, s, n
    <3> QED BY <1>1, <2>1, <3>1, <3>2 DEF TypeOK
  <2>5. ~UnwindAsserts(t)
    BY <1>11 DEF UnwindAsserts, Top, s, n
  <2>6. Unguarded(t, NoControl, NoQubit, <<>>)
    BY <1>9, <2>3, <2>4 DEF Unguarded, r
  <2> QED BY <1>2, <1>3, <1>4, <2>5, <2>6 DEF r, s, n
<1> QED BY <1>5, <1>10, <1>11

\* A step that closes the innermost scope.
LEMMA GuardCloses ==
  ASSUME OwnContexts, IInv, NEW t \in Thread, scope[t] # <<>>, EndGuard(t), NEW b,
         b \in [Qubit -> BOOLEAN], bit' = [bit EXCEPT ![ContextOf(t)] = b], flag' = flag, aborted' = FALSE,
         Meaning(flag, Popped(t), b), IdleZero(Popped(t), b), TableKept
  PROVE  IInv'
<1> DEFINE r == Popped(t)
<1>1. PICK cc, ccq, st : Unguarded(t, cc, ccq, st)
  BY Unguards
<1>2. ScopesOK(t, flag, r)
  BY Unguards
<1> HIDE DEF r
<1>3. Assigns(t, r, cc, ccq, st, b)
  BY <1>1 DEF Unguarded, Assigns, r
<1>4. Sound(t, flag', r, cc, ccq, st, b)
  BY <1>1, <1>2 DEF Unguarded, Sound, r
<1>5. FlagsKept(t)
  BY DEF IInv, TypeOK, FlagsKept
<1> QED BY <1>3, <1>4, <1>5, StepKeeps

\* A place without a qubit takes the one the pool hands out.
LEMMA PlaceTakes ==
  ASSUME IInv, NEW p \in Place, NEW i \in Qubit, Allocate(i), ContextAt(p) \in Context,
         Own(flag, scope)[p] = NoQubit,
         Own(flag', scope') = [Own(flag, scope) EXCEPT ![p] = i],
         \A d \in Context, j \in Qubit : (d = ContextAt(p) /\ j = i) \/ bit'[d][j] = bit[d][j]
  PROVE  /\ Exact(Own(flag', scope'), free_', high_water_', in_use_')
         /\ ZeroElsewhere(Own(flag', scope'), bit')
<1> DEFINE own == Own(flag, scope)  own2 == Own(flag', scope')  c == ContextAt(p)
<1>1. /\ Exact(own, free_, high_water_, in_use_) /\ DOMAIN own = Place
      /\ own[p] = Nothing /\ own2 = [own EXCEPT ![p] = i]
  BY OneOwner DEF IInv, NoQubit, Nothing
<1>2. ZeroElsewhere(own, bit) /\ c \in Context
  BY DEF IInv
<1>3. \A d \in Context, j \in Qubit : (d = c /\ j = i) \/ bit'[d][j] = bit[d][j]
  OBVIOUS
<1> HIDE DEF own, own2, c
<1>4. Unowned(own, free_, high_water_, i) /\ Exact(own2, free_', high_water_', in_use_')
  BY <1>1, AllocateKeepsExact, AllocatedIsUnowned
<1>5. /\ \A r \in Place : own[r] = i => ContextAt(r) = c
      /\ \A r \in Place : own[r] \in Qubit \ {i} => own2[r] = own[r]
  <2>1. \A r \in Place : own[r] # i
    BY <1>1, <1>4 DEF Unowned
  <2>2. own[p] \notin Qubit
    BY <1>1 DEF Qubit, Nothing
  <2> QED BY <1>1, <2>1, <2>2
<1>6. \E r \in Place : own2[r] = i /\ ContextAt(r) = c
  BY <1>1 DEF c
<1>7. ZeroElsewhere(own2, bit')
  BY <1>2, <1>3, <1>5, <1>6, ZeroKept
<1> QED BY <1>4, <1>7 DEF own2

\* A place gives its qubit back, which is zero by then.
LEMMA PlaceGives ==
  ASSUME IInv, NEW p \in Place, NEW i \in Qubit, Release(i), ContextAt(p) \in Context,
         Own(flag, scope)[p] = i,
         Own(flag', scope') = [Own(flag, scope) EXCEPT ![p] = NoQubit],
         ~bit'[ContextAt(p)][i],
         \A d \in Context, j \in Qubit : (d = ContextAt(p) /\ j = i) \/ bit'[d][j] = bit[d][j]
  PROVE  /\ Exact(Own(flag', scope'), free_', high_water_', in_use_')
         /\ ZeroElsewhere(Own(flag', scope'), bit')
<1> DEFINE own == Own(flag, scope)  own2 == Own(flag', scope')  c == ContextAt(p)
<1>1. /\ Exact(own, free_, high_water_, in_use_) /\ DOMAIN own = Place
      /\ own[p] = i /\ own2 = [own EXCEPT ![p] = Nothing] /\ i # Nothing
  BY OneOwner DEF IInv, NoQubit, Nothing, Qubit
<1>2. ZeroElsewhere(own, bit) /\ c \in Context /\ ~bit'[c][i]
  BY DEF IInv
<1>3. \A d \in Context, j \in Qubit : (d = c /\ j = i) \/ bit'[d][j] = bit[d][j]
  OBVIOUS
<1>4. \A r \in Place : own[r] = i => r = p
  BY <1>1, OneOwner DEF NoQubit, Nothing
<1>4a. \A r \in Place : own[r] = i => ContextAt(r) = c
  BY <1>4
<1> HIDE DEF own, own2, c
<1>5. Exact(own2, free_', high_water_', in_use_')
  BY <1>1, ReleaseKeepsExact
<1>6. \A r \in Place : own[r] \in Qubit \ {i} => own2[r] = own[r]
  BY <1>1
<1>7. ZeroElsewhere(own2, bit')
  BY <1>2, <1>3, <1>4a, <1>6, ZeroKept
<1> QED BY <1>5, <1>7 DEF own2

\* A qubit that stays where it is may change in its own context.
LEMMA PlaceChanges ==
  ASSUME IInv, NEW p \in Place, NEW i \in Qubit, Own(flag, scope)[p] = i, ContextAt(p) \in Context,
         Own(flag', scope') = Own(flag, scope),
         \A d \in Context, j \in Qubit : (d = ContextAt(p) /\ j = i) \/ bit'[d][j] = bit[d][j]
  PROVE  ZeroElsewhere(Own(flag', scope'), bit')
<1> DEFINE own == Own(flag, scope)  c == ContextAt(p)
<1>1. ZeroElsewhere(own, bit) /\ c \in Context /\ own[p] = i
  BY DEF IInv
<1>2. \A d \in Context, j \in Qubit : (d = c /\ j = i) \/ bit'[d][j] = bit[d][j]
  OBVIOUS
<1>3. \A r \in Place : own[r] = i => r = p
  BY <1>1, OneOwner DEF Qubit, NoQubit
<1>4. /\ \A r \in Place : own[r] = i => ContextAt(r) = c
      /\ \E r \in Place : own[r] = i /\ ContextAt(r) = c
      /\ \A r \in Place : own[r] \in Qubit \ {i} => own[r] = own[r]
  BY <1>1, <1>3
<1> HIDE DEF own, c
<1>5. ZeroElsewhere(own, bit')
  BY <1>1, <1>2, <1>4, ZeroKept
<1> QED BY <1>5 DEF own

\* Scopes that agree with those of t keep their meaning when the only bits
\* that change belong to temporaries none of them is guarded by.
LEMMA MeaningPrefix ==
  ASSUME IInv, NEW t \in Thread, NEW r \in Seq(Scope), NEW b, Len(r) <= Len(scope[t]),
         \A k \in 1..Len(r) : /\ r[k].flag = scope[t][k].flag /\ r[k].kind = scope[t][k].kind
                              /\ r[k].expr = scope[t][k].expr /\ r[k].run_ = scope[t][k].run_
                              /\ r[k].modified_tls_ = scope[t][k].modified_tls_,
         \A p \in Place : \/ Own(flag, scope)[p] \notin Qubit
                          \/ b[Own(flag, scope)[p]] = bit[ContextOf(t)][Own(flag, scope)[p]]
                          \/ Len(r) < 2 /\ \E j : p = LocalPlace(t, j)
                          \/ \E k : k \notin 1..Len(r) /\ p = LiftPlace(t, k)
  PROVE  Meaning(flag, r, b)
<1> DEFINE s == scope[t]  c == ContextOf(t)  own == Own(flag, scope)  m == Len(r)
<1>1. /\ s \in Seq(Scope) /\ Len(s) \in Nat /\ m \in Nat /\ ScopesOK(t, flag, s)
      /\ Meaning(flag, s, bit[c])
  BY DEF IInv, ThreadOK, ScopesOK
<1>2. \A k \in 1..m : k \in 1..Len(s) /\ k \in Nat \ {0}
  BY <1>1
<1>3. ASSUME NEW p \in Place, own[p] \in Qubit,
             ~(m < 2 /\ \E j : p = LocalPlace(t, j)), ~\E k : k \notin 1..m /\ p = LiftPlace(t, k)
      PROVE  b[own[p]] = bit[c][own[p]]
  BY <1>3
<1>4. ASSUME NEW k \in 1..m
      PROVE  Meant(flag, b, s[k].flag) = Meant(flag, bit[c], s[k].flag)
  <2>1. s[k].flag \in Flag
    BY <1>1, <1>2, ScopeFacts DEF Scope
  <2>2. CASE HasQubit(flag[s[k].flag])
    <3>1. /\ flag[s[k].flag].qubit \in Qubit /\ FlagPlace(s[k].flag) \in Place
          /\ own[FlagPlace(s[k].flag)] = flag[s[k].flag].qubit
      BY <2>1, <2>2, FlagQubit
    <3>2. b[flag[s[k].flag].qubit] = bit[c][flag[s[k].flag].qubit]
      BY <1>3, <3>1, PlacesDiffer
    <3> QED BY <2>2, <3>2 DEF Meant
  <2> QED BY <2>2 DEF Meant
<1>5. ASSUME NEW k \in 1..m, s[k].modified_tls_
      PROVE  b[ExprAt(flag, s, k).qubit] = bit[c][ExprAt(flag, s, k).qubit]
  <2> DEFINE q == ExprAt(flag, s, k).qubit
  <2>1. /\ q \in Qubit
        /\ \/ q = flag[s[k].flag].qubit
           \/ /\ q = own[LocalPlace(t, Len(s[1].locals))] /\ k = 2
              /\ Len(s[1].locals) \in 1..Len(s[1].locals)
           \/ q = own[LiftPlace(t, k)]
    BY <1>2, <1>5, GuardPlace
  <2>2. CASE q = flag[s[k].flag].qubit
    <3>1. s[k].flag \in Flag
      BY <1>1, <1>2, ScopeFacts DEF Scope
    <3>2. FlagPlace(s[k].flag) \in Place /\ own[FlagPlace(s[k].flag)] = q
      BY <2>2, <3>1, Places, OwnAt
    <3> QED BY <1>3, <2>1, <3>2, PlacesDiffer
  <2>3. CASE q = own[LocalPlace(t, Len(s[1].locals))] /\ k = 2 /\ Len(s[1].locals) \in 1..Len(s[1].locals)
    <3>1. LocalPlace(t, Len(s[1].locals)) \in Place /\ ~(m < 2)
      BY <1>1, <2>3, Places
    <3> QED BY <1>3, <2>1, <2>3, <3>1, PlacesDiffer
  <2>4. CASE q = own[LiftPlace(t, k)]
    <3>1. LiftPlace(t, k) \in Place
      BY <1>2, Places
    <3> QED BY <1>3, <2>1, <2>4, <3>1, PlacesDiffer
  <2> QED BY <2>1, <2>2, <2>3, <2>4
<1>6. \A k \in 1..m : Holds(flag, r, b, k) = Holds(flag, s, bit[c], k)
  <2> SUFFICES ASSUME NEW k \in 1..m
               PROVE  Holds(flag, r, b, k) = Holds(flag, s, bit[c], k)
    OBVIOUS
  <2>1. ExprAt(flag, r, k) = ExprAt(flag, s, k) /\ r[k].modified_tls_ = s[k].modified_tls_ /\ r[k].run_ = s[k].run_
    BY DEF ExprAt
  <2> QED BY <1>5, <2>1 DEF Holds
<1>7. \A k \in 1..m : r[k].flag = s[k].flag
  OBVIOUS
<1>8. m <= Len(s)
  OBVIOUS
<1> HIDE DEF s, c, own
<1> QED BY <1>1, <1>4, <1>6, <1>7, <1>8, MeaningKept

\* A scope stands for its own condition and the scope below it.
LEMMA MeansStep ==
  ASSUME NEW fl, NEW s, NEW b, Meaning(fl, s, b), Len(s) \in Nat, NEW k \in 1..Len(s)
  PROVE  Holds(fl, s, b, k) <=> Meant(fl, b, s[k].flag) /\ (k > 1 => Holds(fl, s, b, k - 1))
<1>1. Holds(fl, s, b, k) <=> \A j \in 1..k : Meant(fl, b, s[j].flag)
  BY DEF Meaning
<1>2. k > 1 => k - 1 \in 1..Len(s)
  OBVIOUS
<1>3. k > 1 => (Holds(fl, s, b, k - 1) <=> \A j \in 1..(k - 1) : Meant(fl, b, s[j].flag))
  BY <1>2 DEF Meaning
<1>4. (\A j \in 1..k : Meant(fl, b, s[j].flag))
         <=> Meant(fl, b, s[k].flag) /\ \A j \in 1..(k - 1) : Meant(fl, b, s[j].flag)
  <2>1. \A j \in 1..k : j = k \/ j \in 1..(k - 1)
    OBVIOUS
  <2>2. k \in 1..k /\ \A j \in 1..(k - 1) : j \in 1..k
    OBVIOUS
  <2> QED BY <2>1, <2>2
<1>5. ~(k > 1) => \A j \in 1..(k - 1) : FALSE
  OBVIOUS
<1> QED BY <1>1, <1>3, <1>4, <1>5

\* What a scope without temporaries of its own adds to the places below it.
LEMMA OneScopeMore ==
  ASSUME NEW s \in Seq(Scope), NEW r \in Seq(Scope), Len(r) = Len(s) + 1,
         \A k \in 1..Len(s) : r[k] = s[k], r[Len(r)].locals = <<>>
  PROVE  /\ \A j \in Nat \ {0} : LocalAt(r, j) = LocalAt(s, j)
         /\ \A k \in Nat \ {0} : k # Len(r) => LiftAt(r, k) = LiftAt(s, k)
         /\ LiftAt(s, Len(r)) = NoQubit
         /\ LiftAt(r, Len(r)) = IF r[Len(r)].kind = "lift" /\ r[Len(r)].expr.owning
                                  THEN r[Len(r)].expr.qubit ELSE NoQubit
<1>1. Len(s) \in Nat /\ Len(r) \in Nat \ {0} /\ r # <<>>
  BY EmptySeq
<1>2. ASSUME NEW j \in Nat \ {0}
      PROVE  LocalAt(r, j) = LocalAt(s, j)
  <2>1. CASE s = <<>>
    <3>1. Len(r) = 1
      BY <2>1
    <3>2. r[1].locals = <<>>
      BY <3>1
    <3>3. Len(r[1].locals) = 0
      BY <3>2
    <3> QED BY <2>1, <3>3 DEF LocalAt
  <2>2. CASE s # <<>>
    <3>1. 1 \in 1..Len(s)
      BY <1>1, <2>2, EmptySeq
    <3> QED BY <1>1, <2>2, <3>1 DEF LocalAt
  <2> QED BY <2>1, <2>2
<1>3. ASSUME NEW k \in Nat \ {0}, k # Len(r)
      PROVE  LiftAt(r, k) = LiftAt(s, k)
  <2>1. (k <= Len(r)) = (k <= Len(s))
    BY <1>1, <1>3
  <2>2. k <= Len(s) => r[k] = s[k]
    OBVIOUS
  <2> QED BY <2>1, <2>2 DEF LiftAt
<1>4. ~(Len(r) <= Len(s)) /\ Len(r) <= Len(r)
  BY <1>1
<1> QED BY <1>2, <1>3, <1>4 DEF LiftAt

\* How the table changes with the scopes of one thread.
Rescoped(t, r) ==
  /\ \A u \in Thread : scope'[u] = IF u = t THEN r ELSE scope[u]
  /\ \A f \in Flag : flag'[f].qubit = flag[f].qubit

\* The scopes r have the temporaries that t has now.
SameLocals(t, r) == \A j \in Nat \ {0} : LocalAt(r, j) = LocalAt(scope[t], j)
SameLifts(t, r) == \A k \in Nat \ {0} : LiftAt(r, k) = LiftAt(scope[t], k)

\* No temporary changes.
LEMMA TableSame ==
  ASSUME NEW t \in Thread, NEW r, Rescoped(t, r), SameLocals(t, r), SameLifts(t, r)
  PROVE  Own(flag', scope') = Own(flag, scope)
<1>1. /\ \A u \in Thread, j \in Nat \ {0} : LocalAt(scope'[u], j) = LocalAt(scope[u], j)
      /\ \A u \in Thread, k \in Nat \ {0} : LiftAt(scope'[u], k) = LiftAt(scope[u], k)
      /\ \A f \in Flag : flag'[f].qubit = flag[f].qubit
  BY DEF Rescoped, SameLocals, SameLifts
<1> QED BY <1>1, OwnSame

\* The temporary of one lifted scope changes.
LEMMA TableLift ==
  ASSUME NEW t \in Thread, NEW r, Rescoped(t, r), NEW k \in Nat \ {0}, SameLocals(t, r),
         \A i \in Nat \ {0} : i # k => LiftAt(r, i) = LiftAt(scope[t], i)
  PROVE  Own(flag', scope') = [Own(flag, scope) EXCEPT ![LiftPlace(t, k)] = LiftAt(r, k)]
<1> DEFINE p == LiftPlace(t, k)
<1>1. p \in Place /\ Own(flag', scope')[p] = LiftAt(r, k)
  BY OwnAt, Places DEF Rescoped
<1>2. /\ \A u \in Thread, j \in Nat \ {0} : LocalPlace(u, j) # p => LocalAt(scope'[u], j) = LocalAt(scope[u], j)
      /\ \A u \in Thread, j \in Nat \ {0} : LiftPlace(u, j) # p => LiftAt(scope'[u], j) = LiftAt(scope[u], j)
      /\ \A f \in Flag : FlagPlace(f) # p => flag'[f].qubit = flag[f].qubit
  BY DEF Rescoped, SameLocals
<1> HIDE DEF p
<1>3. \A x \in Place : x # p => Own(flag', scope')[x] = Own(flag, scope)[x]
  BY <1>2, OwnAt, Places
<1>4. Own(flag', scope') = [Own(flag, scope) EXCEPT ![p] = Own(flag', scope')[p]]
  BY <1>1, <1>3, OwnDiffers
<1> QED BY <1>1, <1>4 DEF p

\* One temporary of the outermost body changes.
LEMMA TableLocal ==
  ASSUME NEW t \in Thread, NEW r, Rescoped(t, r), NEW k \in Nat \ {0}, SameLifts(t, r),
         \A i \in Nat \ {0} : i # k => LocalAt(r, i) = LocalAt(scope[t], i)
  PROVE  Own(flag', scope') = [Own(flag, scope) EXCEPT ![LocalPlace(t, k)] = LocalAt(r, k)]
<1> DEFINE p == LocalPlace(t, k)
<1>1. p \in Place /\ Own(flag', scope')[p] = LocalAt(r, k)
  BY OwnAt, Places DEF Rescoped
<1>2. /\ \A u \in Thread, j \in Nat \ {0} : LocalPlace(u, j) # p => LocalAt(scope'[u], j) = LocalAt(scope[u], j)
      /\ \A u \in Thread, j \in Nat \ {0} : LiftPlace(u, j) # p => LiftAt(scope'[u], j) = LiftAt(scope[u], j)
      /\ \A f \in Flag : FlagPlace(f) # p => flag'[f].qubit = flag[f].qubit
  BY DEF Rescoped, SameLifts
<1> HIDE DEF p
<1>3. \A x \in Place : x # p => Own(flag', scope')[x] = Own(flag, scope)[x]
  BY <1>2, OwnAt, Places
<1>4. Own(flag', scope') = [Own(flag, scope) EXCEPT ![p] = Own(flag', scope')[p]]
  BY <1>1, <1>3, OwnDiffers
<1> QED BY <1>1, <1>4 DEF p

-----------------------------------------------------------------------------
(* The scopes that open and close. *)

\* WHEN(f) outside of every scope.
LEMMA EnterWhenKeeps ==
  ASSUME OwnContexts, IInv, NEW t \in Thread, NEW f \in Flag, scope[t] = <<>>, EnterWhen(t, f)
  PROVE  /\ IInv'
         /\ scope' = [scope EXCEPT ![t] = Append(scope[t], scope'[t][Len(scope[t]) + 1])]
         /\ scope'[t][Len(scope[t]) + 1].flag = f
         /\ \A g \in Flag : \/ flag'[g] = flag[g]
                            \/ /\ flag[g].super /\ ~HasQubit(flag[g])
                               /\ flag'[g].qubit \in Qubit
                               /\ Unowned(Own(flag, scope), free_, high_water_, flag'[g].qubit)
<1> DEFINE c == ContextOf(t)  e == Classical(FALSE)  s == Declare("named", f, e)
           w == Opened(t, s, flag'[f])
<1>1. /\ c \in Context /\ bit \in [Context -> [Qubit -> BOOLEAN]] /\ flag \in [Flag -> Qbool]
      /\ ThreadOf[f] = t /\ bit' = bit /\ \A g \in Flag : FlagOK(flag[g])
      /\ Len(scope[t]) < MaxDepth /\ WhenGuard(t, scope[t], s, flag'[f])
      /\ scope \in [Thread -> Seq(Scope)]
  BY ContextType DEF IInv, TypeOK, EnterWhen, MayEnter
<1>2. /\ flag' \in [Flag -> Qbool] /\ (\A g \in Flag : FlagOK(flag'[g]))
      /\ \A g \in Flag \ {f} : flag'[g] = flag[g]
      /\ flag'[f].super = HasQubit(flag'[f])
      /\ Exact(Own(flag', scope), free_', high_water_', in_use_')
      /\ ZeroElsewhere(Own(flag', scope), bit')
      /\ flag'[f] # flag[f] => /\ flag[f].super /\ ~HasQubit(flag[f]) /\ flag'[f].qubit \in Qubit
                               /\ Unowned(Own(flag, scope), free_, high_water_, flag'[f].qubit)
  <2>1. CASE flag[f].super /\ ~HasQubit(flag[f])
    <3>1. PICK i \in Qubit : Allocate(i) /\ flag' = [flag EXCEPT ![f].qubit = i]
      BY <2>1 DEF EnterWhen
    <3>2. PICK q : q = [flag[f] EXCEPT !.qubit = i]
      OBVIOUS
    <3>3. q \in Qbool /\ q.qubit = i /\ q.super = flag[f].super /\ q.value = flag[f].value
      BY <1>1, <3>2 DEF Qbool
    <3>4. flag' = [flag EXCEPT ![f] = q] /\ HasQubit(q) /\ FlagOK(q)
      BY <1>1, <2>1, <3>1, <3>2, <3>3 DEF HasQubit, NoQubit, Qubit, FlagOK
    <3>5. \A g \in Flag : flag'[g].qubit = IF g = f THEN i ELSE flag[g].qubit
      BY <1>1, <3>3, <3>4
    <3>6. /\ Exact(Own(flag', scope), free_', high_water_', in_use_')
          /\ ZeroElsewhere(Own(flag', scope), bit')
          /\ Unowned(Own(flag, scope), free_, high_water_, i)
      BY <1>1, <2>1, <3>1, <3>5, FlagTakes
    <3>7. flag' \in [Flag -> Qbool] /\ (\A g \in Flag : FlagOK(flag'[g]))
          /\ (\A g \in Flag \ {f} : flag'[g] = flag[g]) /\ flag'[f] = q
      BY <1>1, <3>3, <3>4
    <3> QED BY <1>1, <2>1, <3>3, <3>4, <3>6, <3>7
  <2>2. CASE ~(flag[f].super /\ ~HasQubit(flag[f]))
    <3>1. flag' = flag /\ UNCHANGED poolVars
      BY <2>2 DEF EnterWhen
    <3>2. flag[f].super = HasQubit(flag[f])
      <4>1. FlagOK(flag[f]) /\ flag[f].super \in BOOLEAN
        BY <1>1 DEF Qbool
      <4> QED BY <2>2, <4>1 DEF FlagOK, HasQubit
    <3>3. /\ Exact(Own(flag, scope), free_, high_water_, in_use_)
          /\ ZeroElsewhere(Own(flag, scope), bit)
      BY DEF IInv
    <3> QED BY <1>1, <3>1, <3>2, <3>3 DEF poolVars
  <2> QED BY <2>1, <2>2
<1>3. /\ s \in Scope /\ e \in Qbool /\ s.kind = "named" /\ s.flag = f /\ s.locals = <<>> /\ flag'[f] \in Qbool
  BY <1>2, BoundAssumption DEF Declare, Classical, Qbool, Scope, NoControl, NoQubit
<1>4. /\ w.kind = "named" /\ w.flag = f /\ w.locals = <<>>
      /\ w.modified_tls_ = flag'[f].super /\ w.run_ = (flag'[f].super \/ flag'[f].value)
  BY <1>3 DEF Opened, Declare
<1>4a. w \in Scope
  <2>1. /\ current_control[t] \in NoControl..MaxDepth /\ current_control_qubit[t] \in Qubit \cup {NoQubit}
    BY ThreadControl
  <2>2. NoControl \in NoControl..MaxDepth /\ flag'[f].super \in BOOLEAN /\ flag'[f].value \in BOOLEAN
    BY <1>3, BoundAssumption DEF NoControl, Qbool
  <2> HIDE DEF s
  <2> QED BY <1>3, <2>1, <2>2 DEF Scope, Opened
<1> HIDE DEF s, w, e
<1> DEFINE r == Append(scope[t], w)
<1>5. /\ r \in Seq(Scope) /\ Len(r) = 1 /\ r[1] = w /\ Len(scope[t]) = 0
      /\ scope' = [scope EXCEPT ![t] = r] /\ scope'[t] = r
  <2>1. Guarded(t, scope[t], s, flag'[f])
    BY <1>1, Guards
  <2>2. scope' = [scope EXCEPT ![t] = r]
    BY <2>1 DEF Guarded, Pushed, w
  <2>3. scope[t] \in Seq(Scope) /\ Len(scope[t]) = 0
    BY <1>1
  <2>4. r \in Seq(Scope) /\ Len(r) = 1 /\ r[1] = w
    BY <1>4a, <2>3
  <2> QED BY <1>1, <2>2, <2>3, <2>4
<1>6. Own(flag', scope') = Own(flag', scope)
  <2>1. /\ \A j \in Nat \ {0} : LocalAt(r, j) = LocalAt(scope[t], j)
        /\ \A k \in Nat \ {0} : LiftAt(r, k) = LiftAt(scope[t], k)
    <3>1. Len(<<>>) = 0 /\ <<>> \in Seq(Scope)
      OBVIOUS
    <3>2. LiftAt(r, 1) = NoQubit /\ LiftAt(<<>>, 1) = NoQubit
      BY <1>4, <1>5, <3>1 DEF LiftAt
    <3>3. \A j \in Nat \ {0} : LocalAt(r, j) = NoQubit /\ LocalAt(<<>>, j) = NoQubit
      BY <1>4, <1>5 DEF LocalAt
    <3>4. \A k \in Nat \ {0} : k # 1 => LiftAt(r, k) = NoQubit /\ LiftAt(<<>>, k) = NoQubit
      BY <1>5, <3>1 DEF LiftAt
    <3> QED BY <3>2, <3>3, <3>4
  <2>2. /\ \A u \in Thread, j \in Nat \ {0} : LocalAt(scope'[u], j) = LocalAt(scope[u], j)
        /\ \A u \in Thread, j \in Nat \ {0} : LiftAt(scope'[u], j) = LiftAt(scope[u], j)
    BY <1>1, <1>5, <2>1
  <2> QED BY <2>2, OwnSame
<1> HIDE DEF r, c
<1>7. IInv'
  <2>1. current_control[t] = NoControl /\ current_control_qubit[t] = NoQubit
    BY ThreadControl DEF ControlAt, QubitAt
  <2>2. ControlAt(scope[t], 0) = current_control[t]
    BY <2>1 DEF ControlAt
  <2>3. QubitAt(flag', scope[t], current_control[t]) = current_control_qubit[t]
    BY <2>1 DEF QubitAt
  <2>4. ScopesOK(t, flag', scope[t])
    BY <1>1, BoundAssumption DEF ScopesOK
  <2>5. NamedOK(flag', r, 1)
    BY <1>2, <1>3, <1>4, <1>5 DEF NamedOK
  <2>6. ExprAt(flag', r, 1).qubit = flag'[f].qubit
    BY <1>4, <1>5 DEF ExprAt
  <2>7. Meaning(flag', scope[t], bit[c]) /\ Len(scope[t]) < MaxDepth
    BY <1>1, <1>5 DEF Meaning
  <2>8. IdleZero(r, bit[c])
    BY <1>4, <1>5 DEF IdleZero
  <2>9. Holds(flag', r, bit[c], 1) <=> Meant(flag', bit[c], s.flag)
    BY <1>2, <1>3, <1>4, <1>5, <2>6 DEF Holds, Meant
  <2>10. bit[c] \in [Qubit -> BOOLEAN] /\ bit' = [bit EXCEPT ![c] = bit[c]]
    BY <1>1
  <2>11. \A g \in Flag : ThreadOf[g] # t => flag'[g] = flag[g]
    BY <1>1, <1>2
  <2>12. /\ Exact(Own(flag', scope'), free_', high_water_', in_use_')
         /\ ZeroElsewhere(Own(flag', scope'), bit')
    BY <1>2, <1>6
  <2>13. r = Pushed(t, scope[t], s, flag'[f])
    BY DEF r, w, Pushed
  <2>14. BaseOK(t, scope[t], bit[c])
    BY <1>1, <1>5, <2>2, <2>3, <2>4, <2>7 DEF BaseOK
  <2>15. Fits(t, scope[t], s, flag'[f], bit[c])
    <3>1. Len(scope[t]) + 1 = 1
      BY <1>5
    <3> QED BY <1>1, <1>3, <2>1, <2>5, <2>6, <2>8, <2>9, <2>13, <3>1 DEF Fits
  <2>16. FlagsKept(t)
    BY <1>2, <2>11 DEF FlagsKept
  <2>17. TableKept
    BY <2>12 DEF TableKept
  <2> QED BY <1>1, <2>10, <2>14, <2>15, <2>16, <2>17, GuardOpens DEF c
<1>8. scope' = [scope EXCEPT ![t] = Append(scope[t], scope'[t][Len(scope[t]) + 1])]
  <2>1. scope'[t][Len(scope[t]) + 1] = w
    BY <1>5
  <2> QED BY <1>5, <2>1 DEF r
<1>9. scope'[t][Len(scope[t]) + 1].flag = f
  BY <1>4, <1>5
<1>10. ASSUME NEW g \in Flag
       PROVE  \/ flag'[g] = flag[g]
              \/ /\ flag[g].super /\ ~HasQubit(flag[g])
                 /\ flag'[g].qubit \in Qubit
                 /\ Unowned(Own(flag, scope), free_, high_water_, flag'[g].qubit)
  BY <1>2
<1> QED BY <1>7, <1>8, <1>9, <1>10

\* A list of scopes with one more.
LEMMA Appended ==
  ASSUME NEW s \in Seq(Scope), NEW w \in Scope
  PROVE  /\ Append(s, w) \in Seq(Scope) /\ Len(Append(s, w)) = Len(s) + 1
         /\ Append(s, w)[Len(s) + 1] = w
         /\ \A k \in 1..Len(s) : Append(s, w)[k] = s[k]
  OBVIOUS

\* The conditions of a list of scopes.
Names(s) == [k \in 1..Len(s) |-> s[k].flag]

\* Every flag keeps its value when a bit changes that no flag has.
LEMMA ValuesKept ==
  ASSUME IInv, flag' = flag, NEW c \in Context, NEW i,
         \A d \in Context, j \in Qubit : (d = c /\ j = i) \/ bit'[d][j] = bit[d][j],
         \A g \in Flag : flag[g].qubit # i
  PROVE  \A g \in Flag : Value(g)' = Value(g)
<1> SUFFICES ASSUME NEW g \in Flag
             PROVE  Value(g)' = Value(g)
  OBVIOUS
<1>1. CASE HasQubit(flag[g])
  <2>1. flag[g].qubit \in Qubit /\ ContextOf(ThreadOf[g]) \in Context
    BY <1>1, FlagQubit, ContextType, ThreadOfAssumption
  <2>2. bit'[ContextOf(ThreadOf[g])][flag[g].qubit] = bit[ContextOf(ThreadOf[g])][flag[g].qubit]
    BY <2>1
  <2> QED BY <1>1, <2>2 DEF Value
<1>2. CASE ~HasQubit(flag[g])
  BY <1>2 DEF Value
<1> QED BY <1>1, <1>2

\* A place whose qubit is none of a flag's.
LEMMA NotAFlag ==
  ASSUME IInv, NEW i,
         \/ Unowned(Own(flag, scope), free_, high_water_, i)
         \/ \E p \in Place : Own(flag, scope)[p] = i /\ i # NoQubit /\ \A g \in Flag : p # FlagPlace(g)
  PROVE  \A g \in Flag : flag[g].qubit # i
<1> SUFFICES ASSUME NEW g \in Flag, flag[g].qubit = i
             PROVE  FALSE
  OBVIOUS
<1>1. FlagPlace(g) \in Place /\ Own(flag, scope)[FlagPlace(g)] = i
  BY Places, OwnAt
<1> QED BY <1>1, OneOwner DEF Unowned

\* A named scope is the only one when it is the innermost.
LEMMA LoneScope ==
  ASSUME IInv, NEW t \in Thread, scope[t] # <<>>, Top(t).kind = "named"
  PROVE  /\ scope[t] \in Seq(Scope) /\ Len(scope[t]) = 1 /\ 1 \in 1..Len(scope[t])
         /\ Top(t) = scope[t][1] /\ scope[t][1] \in Scope /\ scope[t][1].kind = "named"
         /\ scope[t][1].flag \in Flag /\ ThreadOf[scope[t][1].flag] = t
         /\ NamedOK(flag, scope[t], 1) /\ ScopesOK(t, flag, scope[t])
         /\ scope[t][1].locals # <<>> => scope[t][1].modified_tls_
         /\ Meaning(flag, scope[t], bit[ContextOf(t)]) /\ IdleZero(scope[t], bit[ContextOf(t)])
<1> DEFINE s == scope[t]  n == Len(s)
<1>1. s \in Seq(Scope) /\ n \in 1..Len(s) /\ ScopesOK(t, flag, s)
      /\ Meaning(flag, s, bit[ContextOf(t)]) /\ IdleZero(s, bit[ContextOf(t)])
  BY LocalFacts DEF IInv, ThreadOK, ScopesOK
<1>2. s[n] \in Scope /\ ScopeOK(flag, s, n) /\ ThreadOf[s[n].flag] = t /\ s[n].kind = "named"
  BY <1>1, ScopeFacts DEF Top
<1>3. NamedOK(flag, s, n) /\ n = 1 /\ (s[n].locals # <<>> => s[n].modified_tls_)
  BY <1>2 DEF ScopeOK, NamedOK
<1>4. s[n].flag \in Flag
  BY <1>2 DEF Scope
<1> QED BY <1>1, <1>2, <1>3, <1>4 DEF Top

\* WHEN(f) in the body of a WHEN on a classical qbool.
LEMMA EnterNestedClassical ==
  ASSUME OwnContexts, IInv, NEW t \in Thread, NEW f \in Flag,
         Innermost(t, {"named"}), SameKind(t, f), EnterNested(t, f), ~HasQubit(flag[f])
  PROVE  /\ IInv'
         /\ scope' = [scope EXCEPT ![t] = scope'[t]] /\ Names(scope'[t]) = Append(Names(scope[t]), f)
         /\ \A g \in Flag : Value(g)' = Value(g)
<1> DEFINE c == ContextOf(t)  s0 == scope[t]  outer == flag[s0[1].flag]
           v == outer.value /\ flag[f].value
           s == Declare("nested", f, Classical(v))  expr == Classical(v)
           r == Pushed(t, s0, s, expr)
<1>1. /\ s0 \in Seq(Scope) /\ Len(s0) = 1 /\ 1 \in 1..Len(s0) /\ s0[1] \in Scope /\ s0[1].kind = "named"
      /\ NamedOK(flag, s0, 1) /\ ScopesOK(t, flag, s0) /\ Top(t) = s0[1] /\ s0[1].flag \in Flag
      /\ Meaning(flag, s0, bit[c]) /\ IdleZero(s0, bit[c]) /\ s0 # <<>>
  BY LoneScope DEF Innermost
<1>2. /\ c \in Context /\ bit \in [Context -> [Qubit -> BOOLEAN]] /\ flag \in [Flag -> Qbool]
      /\ scope \in [Thread -> Seq(Scope)] /\ ThreadOf[f] = t /\ Len(s0) < MaxDepth /\ flag' = flag
      /\ s0[1].run_ /\ \A g \in Flag : FlagOK(flag[g])
  BY <1>1, ContextType DEF IInv, TypeOK, EnterNested, MayEnter, InBody
<1>3. ~HasQubit(outer) /\ FlagOK(flag[f]) /\ FlagOK(outer) /\ flag[f] \in Qbool /\ outer \in Qbool
  BY <1>1, <1>2 DEF SameKind
<1>4. /\ ~outer.super /\ ~s0[1].modified_tls_ /\ outer.value
  <2>1. outer.super = HasQubit(outer) /\ s0[1].modified_tls_ = HasQubit(outer)
        /\ s0[1].run_ = (HasQubit(outer) \/ outer.value)
    BY <1>1 DEF NamedOK
  <2> QED BY <1>2, <1>3, <2>1
<1>5. WhenGuard(t, s0, s, expr) /\ UNCHANGED poolVars /\ bit' = bit
  <2>1. PICK i \in Qubit :
           /\ BoolAnd(t, outer, flag[f], i)
           /\ LET ctrl == AndResult(outer, flag[f], i)
                  declared == [scope[t] EXCEPT ![Len(scope[t])].locals = Append(@, i)]
              IN  WhenGuard(t, IF ctrl = Ancilla(i) THEN declared ELSE scope[t],
                            Declare("nested", f, ctrl), ctrl)
    BY <1>1 DEF EnterNested
  <2>2. AndResult(outer, flag[f], i) = expr
    BY <1>3 DEF AndResult
  <2>3. expr # Ancilla(i)
    <3>1. expr.qubit = NoQubit /\ Ancilla(i).qubit = i /\ i # NoQubit
      BY DEF Classical, Ancilla, NoQubit, Qubit
    <3> QED BY <3>1
  <2>4. UNCHANGED poolVars /\ bit' = bit
    BY <1>3, <2>1 DEF BoolAnd
  <2> QED BY <2>1, <2>2, <2>3, <2>4
<1>6. s \in Scope /\ expr \in Qbool /\ expr.super = FALSE /\ expr.value = v /\ expr = Classical(v)
      /\ s.locals = <<>> /\ s.flag = f /\ s.kind = "nested" /\ s.expr = expr /\ v \in BOOLEAN
  BY <1>3, BoundAssumption DEF Declare, Classical, Qbool, Scope, NoControl, NoQubit
<1> DEFINE w == Opened(t, s, expr)
<1> HIDE DEF s, expr, w
<1>7. w \in Scope /\ w.modified_tls_ = FALSE /\ w.run_ = v /\ w.locals = <<>> /\ w.flag = f
      /\ w.kind = "nested" /\ w.expr = expr
  BY <1>6, OpenedFields DEF w
<1>8. r \in Seq(Scope) /\ Len(r) = 2 /\ r[1] = s0[1] /\ r[2] = w /\ r = Append(s0, w) /\ Len(s0) + 1 = 2
  <2>1. r = Append(s0, w)
    BY DEF Pushed, w
  <2>2. /\ Append(s0, w) \in Seq(Scope) /\ Len(Append(s0, w)) = Len(s0) + 1
        /\ Append(s0, w)[Len(s0) + 1] = w
        /\ \A k \in 1..Len(s0) : Append(s0, w)[k] = s0[k]
    BY <1>1, <1>7, Appended
  <2> HIDE DEF r, s0
  <2> QED BY <1>1, <2>1, <2>2
<1>9. scope' = [scope EXCEPT ![t] = r] /\ scope'[t] = r
  <2>1. Guarded(t, s0, s, expr)
    BY <1>5, Guards
  <2> QED BY <1>2, <2>1 DEF Guarded
<1>10. current_control[t] = NoControl /\ ControlAt(s0, 1) = NoControl
       /\ current_control_qubit[t] = NoQubit
  <2>1. ControlAt(s0, 1) = NoControl
    BY <1>4 DEF ControlAt
  <2>2. current_control[t] = ControlAt(s0, Len(s0)) /\ (current_control[t] = NoControl => current_control_qubit[t] = NoQubit)
    BY ThreadControl
  <2> QED BY <1>1, <2>1, <2>2
<1>11. BaseOK(t, s0, bit[c])
  BY <1>1, <1>2, <1>10 DEF BaseOK, QubitAt
<1> HIDE DEF r
<1>12. Fits(t, s0, s, expr, bit[c])
  <2>1. NestedOK(flag', r, 2)
    <3>1. r[2].run_ = (outer.value /\ flag[f].value) /\ r[2].expr = Classical(r[2].run_)
      BY <1>6, <1>7, <1>8
    <3>2. r[2].flag = f /\ r[2].modified_tls_ = FALSE /\ r[1] = s0[1] /\ s0[1].kind = "named"
      BY <1>1, <1>7, <1>8
    <3>3. flag' = flag /\ ~HasQubit(flag[f]) /\ ~HasQubit(outer)
      BY <1>2, <1>3
    <3>4. HasQubit(flag[f]) = FALSE /\ HasQubit(outer) = FALSE
      BY <3>3 DEF HasQubit
    <3> HIDE DEF v, s0
    <3> QED BY <3>1, <3>2, <3>3, <3>4 DEF NestedOK, s0
  <2>2. Holds(flag', r, bit[c], 2) = v
    BY <1>7, <1>8 DEF Holds
  <2>3. Meant(flag', bit[c], f) = flag[f].value
    BY <1>2, <1>3 DEF Meant, FlagOK, Qbool
  <2>4. Holds(flag', s0, bit[c], 1)
    BY <1>2, <1>4 DEF Holds
  <2>5. IdleZero(r, bit[c])
    <3>1. \A j \in 1..Len(s0[1].locals) : ~bit[c][s0[1].locals[j]]
      BY <1>1 DEF IdleZero, Guarding
    <3> QED BY <1>8, <3>1 DEF IdleZero
  <2>6. v = flag[f].value
    BY <1>3, <1>4 DEF Qbool
  <2> QED BY <1>1, <1>2, <1>6, <1>8, <1>10, <2>1, <2>2, <2>3, <2>4, <2>5, <2>6 DEF Fits, r
<1>13. FlagsKept(t)
  BY <1>2 DEF FlagsKept
<1>14. TableKept
  <2>1. SameLocals(t, r) /\ SameLifts(t, r)
    <3>1. r[Len(r)] = w /\ Len(r) = Len(s0) + 1 /\ \A k \in 1..Len(s0) : r[k] = s0[k]
      BY <1>1, <1>8
    <3>2. /\ \A j \in Nat \ {0} : LocalAt(r, j) = LocalAt(s0, j)
          /\ \A k \in Nat \ {0} : k # Len(r) => LiftAt(r, k) = LiftAt(s0, k)
          /\ LiftAt(s0, Len(r)) = NoQubit
          /\ LiftAt(r, Len(r)) = IF r[Len(r)].kind = "lift" /\ r[Len(r)].expr.owning
                                  THEN r[Len(r)].expr.qubit ELSE NoQubit
      BY <1>1, <1>7, <1>8, <3>1, OneScopeMore
    <3> QED BY <1>7, <3>1, <3>2 DEF SameLocals, SameLifts
  <2>2. Rescoped(t, r)
    BY <1>2, <1>9 DEF Rescoped
  <2>3. Own(flag', scope') = Own(flag, scope)
    BY <2>1, <2>2, TableSame
  <2> QED BY <1>5, <2>3 DEF IInv, TableKept, poolVars
<1>15. bit[c] \in [Qubit -> BOOLEAN] /\ bit' = [bit EXCEPT ![c] = bit[c]]
  BY <1>2, <1>5
<1>16. IInv'
  BY <1>5, <1>11, <1>12, <1>13, <1>14, <1>15, GuardOpens
<1>17. Names(r) = Append(Names(s0), f)
  BY <1>1, <1>7, <1>8 DEF Names
<1>18. \A g \in Flag : Value(g)' = Value(g)
  BY <1>2, <1>5 DEF Value
<1> QED BY <1>9, <1>16, <1>17, <1>18

\* operator&(a, b) on qubits.
Ands(c, x, y, i) == Allocate(i) /\ bit' = [bit EXCEPT ![c] = CCX(bit[c], x, y, i)]

\* A fresh ancilla holds the conjunction.
LEMMA FreshAnd ==
  ASSUME IInv, NEW c \in Context, NEW x \in Qubit, NEW y \in Qubit, NEW i \in Qubit, Ands(c, x, y, i)
  PROVE  /\ Unowned(Own(flag, scope), free_, high_water_, i)
         /\ \A p \in Place : Own(flag, scope)[p] # i
         /\ bit'[c] \in [Qubit -> BOOLEAN] /\ bit' = [bit EXCEPT ![c] = bit'[c]]
         /\ bit'[c][i] = (bit[c][x] /\ bit[c][y])
         /\ \A d \in Context, j \in Qubit : (d = c /\ j = i) \/ bit'[d][j] = bit[d][j]
         /\ \A g \in Flag : flag[g].qubit # i
<1>1. Unowned(Own(flag, scope), free_, high_water_, i)
  BY AllocatedIsUnowned DEF IInv, Ands
<1>2. \A p \in Place : Own(flag, scope)[p] # i
  BY <1>1, OneOwner DEF Unowned
<1>3. ~bit[c][i] /\ bit \in [Context -> [Qubit -> BOOLEAN]] /\ bit[c] \in [Qubit -> BOOLEAN]
  BY <1>1, UnownedIsZero DEF IInv, TypeOK
<1>4. PICK b : b = CCX(bit[c], x, y, i)
  OBVIOUS
<1>5. b = [bit[c] EXCEPT ![i] = bit[c][i] # (bit[c][x] /\ bit[c][y])]
  BY <1>4 DEF CCX, Toggle
<1>6. b \in [Qubit -> BOOLEAN] /\ b[i] = (bit[c][x] /\ bit[c][y]) /\ \A j \in Qubit : j # i => b[j] = bit[c][j]
  BY <1>3, <1>5
<1>7. bit'[c] = b /\ bit' = [bit EXCEPT ![c] = b]
  BY <1>3, <1>4 DEF Ands
<1>8. \A d \in Context, j \in Qubit : (d = c /\ j = i) \/ bit'[d][j] = bit[d][j]
  BY <1>3, <1>6, <1>7
<1>9. \A g \in Flag : flag[g].qubit # i
  BY <1>1, NotAFlag
<1> QED BY <1>1, <1>2, <1>6, <1>7, <1>8, <1>9

\* WHEN(f) in the body of a WHEN on a qubit: the body declares a temporary.
LEMMA EnterNestedQuantum ==
  ASSUME OwnContexts, IInv, NEW t \in Thread, NEW f \in Flag,
         Innermost(t, {"named"}), SameKind(t, f), EnterNested(t, f), HasQubit(flag[f])
  PROVE  /\ IInv'
         /\ scope' = [scope EXCEPT ![t] = scope'[t]] /\ Names(scope'[t]) = Append(Names(scope[t]), f)
         /\ \A g \in Flag : Value(g)' = Value(g)
<1> DEFINE c == ContextOf(t)  s0 == scope[t]  outer == flag[s0[1].flag]  old == s0[1].locals  n == Len(old)
<1>1. /\ s0 \in Seq(Scope) /\ Len(s0) = 1 /\ 1 \in 1..Len(s0) /\ s0[1] \in Scope /\ s0[1].kind = "named"
      /\ NamedOK(flag, s0, 1) /\ ScopesOK(t, flag, s0) /\ Top(t) = s0[1] /\ s0[1].flag \in Flag
      /\ Meaning(flag, s0, bit[c]) /\ IdleZero(s0, bit[c]) /\ s0 # <<>>
  BY LoneScope DEF Innermost
<1>2. /\ c \in Context /\ bit \in [Context -> [Qubit -> BOOLEAN]] /\ flag \in [Flag -> Qbool]
      /\ scope \in [Thread -> Seq(Scope)] /\ ThreadOf[f] = t /\ Len(s0) < MaxDepth /\ flag' = flag
      /\ s0[1].run_ /\ \A g \in Flag : FlagOK(flag[g])
  BY <1>1, ContextType DEF IInv, TypeOK, EnterNested, MayEnter, InBody
<1>3. HasQubit(outer) /\ outer.qubit \in Qubit /\ flag[f].qubit \in Qubit
  BY <1>1, <1>2, FlagQubit DEF SameKind
<1>4. s0[1].modified_tls_ = TRUE
  BY <1>1, <1>3 DEF NamedOK, HasQubit
<1>5. old \in Seq(Qubit) /\ n \in Nat
  BY <1>1 DEF Scope
<1>6. PICK i \in Qubit :
         /\ BoolAnd(t, outer, flag[f], i)
         /\ LET ctrl == AndResult(outer, flag[f], i)
                declared == [scope[t] EXCEPT ![Len(scope[t])].locals = Append(@, i)]
            IN  WhenGuard(t, IF ctrl = Ancilla(i) THEN declared ELSE scope[t],
                          Declare("nested", f, ctrl), ctrl)
  BY <1>1 DEF EnterNested
<1> DEFINE expr == Ancilla(i)  s == Declare("nested", f, expr)
           base == [s0 EXCEPT ![Len(s0)].locals = Append(@, i)]
           r == Pushed(t, base, s, expr)
           w == Opened(t, s, expr)
<1>7. /\ WhenGuard(t, base, s, expr) /\ Allocate(i)
      /\ bit' = [bit EXCEPT ![c] = CCX(bit[c], outer.qubit, flag[f].qubit, i)]
  <2>1. AndResult(outer, flag[f], i) = expr
    BY <1>3 DEF AndResult
  <2> QED BY <1>3, <1>6, <2>1 DEF BoolAnd
<1>8. /\ Unowned(Own(flag, scope), free_, high_water_, i)
      /\ \A p \in Place : Own(flag, scope)[p] # i
      /\ bit'[c] \in [Qubit -> BOOLEAN] /\ bit' = [bit EXCEPT ![c] = bit'[c]]
      /\ bit'[c][i] = (bit[c][outer.qubit] /\ bit[c][flag[f].qubit])
      /\ \A d \in Context, j \in Qubit : (d = c /\ j = i) \/ bit'[d][j] = bit[d][j]
      /\ \A g \in Flag : flag[g].qubit # i
  <2>1. Ands(c, outer.qubit, flag[f].qubit, i)
    BY <1>7 DEF Ands
  <2> HIDE DEF c, outer
  <2> QED BY <1>2, <1>3, <2>1, FreshAnd
<1>9. PICK b : b = bit'[c]
  OBVIOUS
<1>9a. /\ b \in [Qubit -> BOOLEAN] /\ bit' = [bit EXCEPT ![c] = b]
       /\ b[i] = (bit[c][outer.qubit] /\ bit[c][flag[f].qubit])
       /\ \A j \in Qubit : j # i => b[j] = bit[c][j]
  BY <1>2, <1>8, <1>9
<1>10. /\ s \in Scope /\ expr \in Qbool /\ expr.super = TRUE /\ expr.qubit = i /\ expr = Ancilla(i)
       /\ s.locals = <<>> /\ s.flag = f /\ s.kind = "nested" /\ s.expr = expr
  BY BoundAssumption DEF Declare, Ancilla, Qbool, Scope, NoControl, NoQubit
<1>11. /\ base \in Seq(Scope) /\ Len(base) = 1
       /\ base[1].locals = Append(old, i) /\ base[1].kind = "named" /\ base[1].flag = s0[1].flag
       /\ base[1].run_ = s0[1].run_ /\ base[1].modified_tls_ = s0[1].modified_tls_
       /\ base[1].prev_control_ = s0[1].prev_control_ /\ base[1].expr = s0[1].expr
       /\ base[1].prev_control_qubit_ = s0[1].prev_control_qubit_
  <2>1. PICK v : v = [s0[1] EXCEPT !.locals = Append(old, i)]
    OBVIOUS
  <2>2. /\ v \in Scope /\ v.locals = Append(old, i) /\ v.kind = s0[1].kind /\ v.flag = s0[1].flag
        /\ v.run_ = s0[1].run_ /\ v.modified_tls_ = s0[1].modified_tls_ /\ v.expr = s0[1].expr
        /\ v.prev_control_ = s0[1].prev_control_ /\ v.prev_control_qubit_ = s0[1].prev_control_qubit_
    <3>1. Append(old, i) \in Seq(Qubit)
      BY <1>5
    <3> QED BY <1>1, <2>1, <3>1 DEF Scope
  <2>3. base = [s0 EXCEPT ![1] = v]
    BY <1>1, <2>1
  <2> HIDE DEF base, s0
  <2>4. base \in Seq(Scope) /\ Len(base) = 1 /\ base[1] = v
    BY <1>1, <2>2, <2>3, ExceptSeq
  <2> QED BY <1>1, <2>2, <2>4
<1> HIDE DEF s, expr, base
<1>12. /\ w \in Scope /\ w.modified_tls_ = TRUE /\ w.locals = <<>> /\ w.flag = f
       /\ w.kind = "nested" /\ w.expr = expr
  BY <1>10, OpenedFields
<1> HIDE DEF w
<1>13. r \in Seq(Scope) /\ Len(r) = 2 /\ r[1] = base[1] /\ r[2] = w /\ Len(base) + 1 = 2
  <2>1. r = Append(base, w)
    BY DEF Pushed, w
  <2>2. /\ Append(base, w) \in Seq(Scope) /\ Len(Append(base, w)) = Len(base) + 1
        /\ Append(base, w)[Len(base) + 1] = w
        /\ \A k \in 1..Len(base) : Append(base, w)[k] = base[k]
    BY <1>11, <1>12, Appended
  <2> HIDE DEF r
  <2> QED BY <1>11, <2>1, <2>2
<1>14. scope' = [scope EXCEPT ![t] = r] /\ scope'[t] = r
  <2>1. Guarded(t, base, s, expr)
    BY <1>7, Guards
  <2> QED BY <1>2, <2>1 DEF Guarded
<1> HIDE DEF r
<1>15. base[1].locals[n + 1] = i /\ Len(base[1].locals) = n + 1 /\ \A j \in 1..n : base[1].locals[j] = old[j]
  BY <1>5, <1>11
<1>16. ControlAt(base, 1) = ControlAt(s0, 1) /\ current_control[t] = ControlAt(s0, 1)
       /\ QubitAt(flag', base, current_control[t]) = current_control_qubit[t]
  <2>1. ControlAt(base, 1) = ControlAt(s0, 1)
    BY <1>11 DEF ControlAt
  <2>2. current_control[t] = ControlAt(s0, Len(s0)) /\ current_control_qubit[t] = QubitAt(flag, s0, current_control[t])
    BY ThreadControl
  <2>3. current_control[t] = ControlAt(s0, 1) /\ current_control[t] \in {NoControl, 1}
    BY <1>1, <2>2 DEF ControlAt
  <2>4. QubitAt(flag', base, current_control[t]) = QubitAt(flag, s0, current_control[t])
    BY <1>1, <1>2, <1>11, <2>3 DEF QubitAt, ExprAt
  <2> QED BY <2>1, <2>2, <2>3, <2>4
<1>17. Meaning(flag, base, b)
  <2>1. \A p \in Place : \/ Own(flag, scope)[p] \notin Qubit
                         \/ b[Own(flag, scope)[p]] = bit[c][Own(flag, scope)[p]]
    BY <1>8, <1>9a
  <2>2. \A k \in 1..Len(base) : k = 1
    BY <1>11
  <2>3. \A k \in 1..Len(base) : /\ base[k].flag = scope[t][k].flag /\ base[k].kind = scope[t][k].kind
                                /\ base[k].expr = scope[t][k].expr /\ base[k].run_ = scope[t][k].run_
                                /\ base[k].modified_tls_ = scope[t][k].modified_tls_
    BY <1>1, <1>11, <2>2
  <2>4. Len(base) <= Len(scope[t])
    BY <1>1, <1>11
  <2> HIDE DEF s0
  <2> QED BY <1>11, <2>1, <2>3, <2>4, MeaningPrefix
<1>18. ScopesOK(t, flag, base)
  <2>1. s0[1].modified_tls_ /\ base[1].modified_tls_
    BY <1>4, <1>11
  <2> HIDE DEF s0
  <2> QED BY <1>1, <1>11, <2>1, LocalsChange
<1>19. BaseOK(t, base, b)
  <2>1. base # <<>> => base[1].run_
    BY <1>2, <1>11
  <2> QED BY <1>1, <1>2, <1>11, <1>16, <1>17, <1>18, <2>1 DEF BaseOK
<1>20. Fits(t, base, s, expr, b)
  <2>1. NestedOK(flag', r, 2)
    <3>1. LastLocal(r) = i /\ r[1].locals # <<>>
      BY <1>5, <1>13, <1>15 DEF LastLocal
    <3>2. HasQubit(flag[f]) = TRUE /\ HasQubit(outer) = TRUE
      BY <1>3 DEF HasQubit
    <3>3. r[1].kind = "named" /\ r[1].flag = s0[1].flag /\ r[2].flag = f /\ r[2].modified_tls_ = TRUE
          /\ r[2].expr = Ancilla(LastLocal(r))
      BY <1>10, <1>11, <1>12, <1>13, <3>1
    <3> HIDE DEF s0
    <3> QED BY <1>2, <3>1, <3>2, <3>3 DEF NestedOK, s0
  <2>2. ExprAt(flag', r, 2) = expr
    BY <1>12, <1>13 DEF ExprAt
  <2>3. Holds(flag', r, b, 2) = b[i]
    BY <1>10, <1>12, <1>13, <2>2 DEF Holds
  <2>4. Meant(flag', b, f) = bit[c][flag[f].qubit]
    BY <1>2, <1>3, <1>8, <1>9a DEF Meant
  <2>5. Holds(flag', base, b, 1) = bit[c][outer.qubit]
    <3>1. ExprAt(flag', base, 1).qubit = outer.qubit
      BY <1>2, <1>11 DEF ExprAt
    <3>2. b[outer.qubit] = bit[c][outer.qubit]
      BY <1>1, <1>3, <1>8, <1>9a
    <3>3. base[1].modified_tls_
      BY <1>4, <1>11
    <3> QED BY <3>1, <3>2, <3>3 DEF Holds
  <2>6. IdleZero(r, b)
    <3>1. \A j \in 1..n : ~bit[c][old[j]]
      BY <1>1 DEF IdleZero, Guarding
    <3>2. \A j \in 1..n : old[j] \in Qubit /\ LocalPlace(t, j) \in Place /\ Own(flag, scope)[LocalPlace(t, j)] = old[j]
      BY <1>1, LocalFacts
    <3>3. \A j \in 1..n : ~b[old[j]]
      <4> SUFFICES ASSUME NEW j \in 1..n
                   PROVE  ~b[old[j]]
        OBVIOUS
      <4>1. old[j] \in Qubit /\ old[j] # i
        BY <1>8, <3>2
      <4> QED BY <1>9a, <3>1, <4>1
    <3>4. \A j \in 1..(n + 1) : j = n + 1 \/ j \in 1..n
      BY <1>5
    <3>5. \A j \in 1..Len(r[1].locals) : Guarding(r, j) \/ ~b[r[1].locals[j]]
      BY <1>12, <1>13, <1>15, <3>3, <3>4 DEF Guarding
    <3> QED BY <3>5 DEF IdleZero
  <2>7. Holds(flag', r, b, 2) <=> Meant(flag', b, s.flag) /\ (base # <<>> => Holds(flag', base, b, Len(base)))
    <3>1. Len(base) = 1 /\ s.flag = f
      BY <1>10, <1>11
    <3>2. base # <<>>
      BY <3>1
    <3> QED BY <1>9a, <2>3, <2>4, <2>5, <3>1, <3>2
  <2> QED BY <1>2, <1>10, <1>13, <2>1, <2>2, <2>6, <2>7 DEF Fits, r
<1>21. FlagsKept(t)
  BY <1>2 DEF FlagsKept
<1>22. TableKept
  <2> DEFINE p == LocalPlace(t, n + 1)
  <2>1. n + 1 \in Nat \ {0} /\ p \in Place /\ ContextAt(p) = c
    <3>1. n + 1 \in Nat \ {0}
      BY <1>5
    <3>2. p[1] = "local" /\ p[2] = t
      BY DEF LocalPlace
    <3> QED BY <3>1, <3>2, Places DEF ContextAt
  <2>2. SameLifts(t, r)
    <3>1. \A k \in Nat \ {0} : k <= 2 => k = 1 \/ k = 2
      OBVIOUS
    <3>2. LiftAt(r, 1) = NoQubit /\ LiftAt(r, 2) = NoQubit /\ LiftAt(s0, 1) = NoQubit /\ LiftAt(s0, 2) = NoQubit
      BY <1>1, <1>11, <1>12, <1>13 DEF LiftAt
    <3>3. \A k \in Nat \ {0} : ~(k <= 2) => LiftAt(r, k) = NoQubit /\ LiftAt(s0, k) = NoQubit
      BY <1>1, <1>13 DEF LiftAt
    <3> QED BY <3>1, <3>2, <3>3 DEF SameLifts
  <2>3. /\ LocalAt(r, n + 1) = i /\ LocalAt(s0, n + 1) = NoQubit
        /\ \A j \in Nat \ {0} : j # n + 1 => LocalAt(r, j) = LocalAt(s0, j)
    <3>1. r # <<>> /\ r[1].locals = base[1].locals
      BY <1>13
    <3>2. ASSUME NEW j \in Nat \ {0}, j # n + 1
          PROVE  LocalAt(r, j) = LocalAt(s0, j)
      <4>1. CASE j \in 1..n
        BY <1>1, <1>5, <1>15, <3>1, <4>1 DEF LocalAt
      <4>2. CASE ~(j <= n + 1) /\ ~(j <= n)
        BY <1>15, <3>1, <4>2 DEF LocalAt
      <4> QED BY <1>5, <3>2, <4>1, <4>2
    <3>3. n + 1 <= Len(r[1].locals) /\ ~(n + 1 <= n)
      BY <1>5, <1>15, <3>1
    <3> QED BY <1>15, <3>1, <3>2, <3>3 DEF LocalAt
  <2>4. Rescoped(t, r)
    BY <1>2, <1>14 DEF Rescoped
  <2>5. Own(flag, scope)[p] = NoQubit
    BY <2>1, <2>3, OwnAt
  <2>6. Own(flag', scope') = [Own(flag, scope) EXCEPT ![LocalPlace(t, n + 1)] = LocalAt(r, n + 1)]
    BY <2>1, <2>2, <2>3, <2>4, TableLocal
  <2>7. Own(flag', scope') = [Own(flag, scope) EXCEPT ![p] = i]
    BY <2>3, <2>6
  <2>8. \A d \in Context, j \in Qubit : (d = ContextAt(p) /\ j = i) \/ bit'[d][j] = bit[d][j]
    BY <1>8, <2>1
  <2> HIDE DEF p, c
  <2> QED BY <1>2, <1>7, <2>1, <2>5, <2>7, <2>8, PlaceTakes DEF TableKept
<1>23. IInv'
  BY <1>7, <1>9a, <1>19, <1>20, <1>21, <1>22, GuardOpens
<1>24. Names(r) = Append(Names(s0), f)
  BY <1>1, <1>11, <1>12, <1>13 DEF Names
<1>25. \A g \in Flag : Value(g)' = Value(g)
  <2> HIDE DEF c
  <2> QED BY <1>2, <1>8, ValuesKept
<1> QED BY <1>14, <1>23, <1>24, <1>25

\* lift_under guards f by expr, and leaves the basis state b: f itself when no
\* control is active, else a fresh qubit that holds the conjunction.
Lifts(t, f, expr, b) ==
  LET c == ContextOf(t)
      cc == current_control[t]
  IN  /\ WhenGuard(t, scope[t], Declare("lift", f, expr), expr)
      /\ expr \in Qbool /\ expr.super = TRUE /\ expr.qubit \in Qubit
      /\ b \in [Qubit -> BOOLEAN] /\ bit' = [bit EXCEPT ![c] = b]
      /\ b[expr.qubit] = (bit[c][flag[f].qubit]
                            /\ (cc # NoControl => bit[c][current_control_qubit[t]]))
      /\ IF cc = NoControl
           THEN /\ expr.owning = FALSE /\ expr.qubit = flag[f].qubit
                /\ UNCHANGED poolVars /\ b = bit[c]
           ELSE /\ expr.owning = TRUE /\ Allocate(expr.qubit)
                /\ Unowned(Own(flag, scope), free_, high_water_, expr.qubit)
                /\ \A j \in Qubit : j # expr.qubit => b[j] = bit[c][j]

\* lift_under(f, body), when it opens its scope.
LEMMA LiftOpens ==
  ASSUME OwnContexts, IInv, NEW t \in Thread, NEW f \in Flag, MayEnter(t, f), HasQubit(flag[f]),
         flag' = flag, NEW expr, NEW b, Lifts(t, f, expr, b)
  PROVE  /\ IInv'
         /\ scope' = [scope EXCEPT ![t] = scope'[t]] /\ Names(scope'[t]) = Append(Names(scope[t]), f)
         /\ \A g \in Flag : Value(g)' = Value(g)
<1> DEFINE c == ContextOf(t)  s0 == scope[t]  n == Len(s0)  cc == current_control[t]
           ccq == current_control_qubit[t]
           s == Declare("lift", f, expr)  w == Opened(t, s, expr)  r == Pushed(t, s0, s, expr)
<1>1. /\ s0 \in Seq(Scope) /\ n \in Nat /\ ScopesOK(t, flag, s0)
      /\ cc = ControlAt(s0, n) /\ ccq = QubitAt(flag, s0, cc)
      /\ cc = NoControl => ccq = NoQubit
      /\ cc # NoControl => /\ cc = n /\ n \in 1..n /\ s0[n].modified_tls_
                           /\ ccq = ExprAt(flag, s0, n).qubit /\ ccq \in Qubit
      /\ cc = NoControl /\ s0 # <<>> => ~s0[n].modified_tls_
      /\ flag \in [Flag -> Qbool] /\ c \in Context
  BY ThreadControl
<1>2. /\ bit \in [Context -> [Qubit -> BOOLEAN]] /\ scope \in [Thread -> Seq(Scope)]
      /\ ThreadOf[f] = t /\ n < MaxDepth /\ (\A g \in Flag : FlagOK(flag[g]))
      /\ (s0 # <<>> => s0[n].run_)
  BY DEF IInv, TypeOK, MayEnter, InBody, Top
<1>3. /\ WhenGuard(t, s0, s, expr)
      /\ expr \in Qbool /\ expr.super = TRUE /\ expr.qubit \in Qubit
      /\ b \in [Qubit -> BOOLEAN] /\ bit' = [bit EXCEPT ![c] = b] /\ bit'[c] = b
      /\ b[expr.qubit] = (bit[c][flag[f].qubit] /\ (cc # NoControl => bit[c][ccq]))
  BY <1>1, <1>2 DEF Lifts
<1>4. /\ cc = NoControl => expr.owning = FALSE /\ expr.qubit = flag[f].qubit /\ UNCHANGED poolVars
                           /\ b = bit[c]
      /\ cc # NoControl => /\ expr.owning = TRUE /\ Allocate(expr.qubit)
                           /\ Unowned(Own(flag, scope), free_, high_water_, expr.qubit)
                           /\ \A j \in Qubit : j # expr.qubit => b[j] = bit[c][j]
  BY DEF Lifts
<1>5. \A j \in Qubit : Unowned(Own(flag, scope), free_, high_water_, j) \/ b[j] = bit[c][j]
  BY <1>4
<1>6. /\ s \in Scope /\ s.locals = <<>> /\ s.flag = f /\ s.kind = "lift" /\ s.expr = expr
  BY <1>3, BoundAssumption DEF Declare, Scope, NoControl, NoQubit
<1> HIDE DEF s, w, r, n, cc, ccq
<1>7. /\ w \in Scope /\ w.modified_tls_ = TRUE /\ w.run_ = TRUE /\ w.locals = <<>> /\ w.flag = f
      /\ w.kind = "lift" /\ w.expr = expr /\ w.prev_control_ = cc
  <2>1. /\ w \in Scope /\ w.modified_tls_ = expr.super /\ w.run_ = (expr.super \/ expr.value)
        /\ w.prev_control_ = IF w.modified_tls_ THEN current_control[t] ELSE NoControl
        /\ w.locals = s.locals /\ w.kind = s.kind /\ w.flag = s.flag /\ w.expr = s.expr
    BY <1>3, <1>6, OpenedFields DEF w
  <2>2. w.modified_tls_ = TRUE /\ w.run_ = TRUE
    BY <1>3, <2>1
  <2>3. w.prev_control_ = cc
    BY <2>1, <2>2 DEF cc
  <2> QED BY <1>6, <2>1, <2>2, <2>3
<1>8. /\ r \in Seq(Scope) /\ Len(r) = n + 1 /\ r[n + 1] = w /\ \A k \in 1..n : r[k] = s0[k]
  <2>1. r = Append(s0, w)
    BY DEF r, Pushed, w
  <2>2. /\ Append(s0, w) \in Seq(Scope) /\ Len(Append(s0, w)) = Len(s0) + 1
        /\ Append(s0, w)[Len(s0) + 1] = w
        /\ \A k \in 1..Len(s0) : Append(s0, w)[k] = s0[k]
    BY <1>1, <1>7, Appended
  <2> HIDE DEF s0
  <2> QED BY <2>1, <2>2 DEF n
<1>9. scope' = [scope EXCEPT ![t] = r] /\ scope'[t] = r
  <2>1. Guarded(t, s0, s, expr)
    BY <1>3, Guards
  <2>2. scope' = [scope EXCEPT ![t] = r]
    BY <2>1 DEF Guarded, r
  <2> QED BY <1>2, <2>2
<1>10. Meaning(flag, s0, b) /\ IdleZero(s0, b)
  <2>1. \A q \in Qubit : Private(t, q) \/ b[q] = bit[c][q]
    BY <1>5, WhatIsPrivate
  <2> QED BY <2>1, ScopesKept
<1>11. BaseOK(t, s0, b)
  BY <1>1, <1>2, <1>10 DEF BaseOK, n, cc, ccq
<1>12. Fits(t, s0, s, expr, b)
  <2>1. LiftOK(flag, r, n + 1)
    <3>1. HasQubit(expr) = TRUE /\ HasQubit(flag[f]) = TRUE
      BY <1>3 DEF HasQubit, Qubit, NoQubit
    <3> QED BY <1>4, <1>7, <1>8, <3>1 DEF LiftOK
  <2>2. ExprAt(flag, r, n + 1) = expr
    BY <1>7, <1>8 DEF ExprAt
  <2>3. Holds(flag, r, b, n + 1) = b[expr.qubit]
    BY <1>7, <1>8, <2>2 DEF Holds
  <2>4. Meant(flag, b, f) = bit[c][flag[f].qubit]
    <3>1. /\ flag[f].qubit \in Qubit /\ FlagPlace(f) \in Place
          /\ Own(flag, scope)[FlagPlace(f)] = flag[f].qubit
      BY FlagQubit
    <3>2. ~Unowned(Own(flag, scope), free_, high_water_, flag[f].qubit)
      BY <3>1, OwnAt DEF Unowned
    <3>3. b[flag[f].qubit] = bit[c][flag[f].qubit]
      BY <1>5, <3>1, <3>2
    <3> QED BY <3>3 DEF Meant
  <2>5. s0 # <<>> => Holds(flag, s0, b, n) = (cc # NoControl => bit[c][ccq])
    <3>1. CASE cc # NoControl
      <4>1. Holds(flag, s0, b, n) = b[ccq]
        BY <1>1, <3>1 DEF Holds, n
      <4>2. \E p \in Place : Own(flag, scope)[p] = ccq
        <5>1. control_stack[ContextOf(t)] = <<ccq>>
          BY <3>1, ThreadControl DEF cc, ccq
        <5>2. control_stack[ContextOf(t)] # <<>>
          BY <5>1
        <5> QED BY <5>2, ControlIsOwned DEF ccq
      <4>3. ~Unowned(Own(flag, scope), free_, high_water_, ccq)
        BY <4>2, OwnAt DEF Unowned
      <4>4. b[ccq] = bit[c][ccq] /\ bit[c][ccq] \in BOOLEAN
        BY <1>1, <1>2, <1>5, <3>1, <4>3
      <4> QED BY <3>1, <4>1, <4>4
    <3>2. CASE cc = NoControl
      <4> SUFFICES ASSUME s0 # <<>>
                   PROVE  Holds(flag, s0, b, n)
        BY <3>2, <1>1
      <4>1. ~s0[n].modified_tls_ /\ s0[n].run_
        BY <1>1, <1>2, <3>2 DEF n
      <4>2. Holds(flag, s0, b, n) = s0[n].run_
        BY <4>1 DEF Holds
      <4> QED BY <4>1, <4>2
    <3> QED BY <3>1, <3>2
  <2>6. s0 = <<>> => cc = NoControl
    BY <1>1 DEF n
  <2>7. Holds(flag, r, b, n + 1) <=> Meant(flag, b, s.flag) /\ (s0 # <<>> => Holds(flag, s0, b, n))
    BY <1>3, <1>6, <2>3, <2>4, <2>5, <2>6
  <2>8. IdleZero(r, b)
    <3>1. CASE s0 = <<>>
      <4>1. n = 0
        BY <3>1 DEF n
      <4>2. r[1].locals = <<>>
        BY <1>7, <1>8, <4>1
      <4> QED BY <4>2 DEF IdleZero
    <3>2. CASE s0 # <<>>
      <4>1. n >= 1 /\ r[1] = s0[1]
        BY <1>1, <1>8, <3>2 DEF n
      <4>2. \A j \in 1..Len(s0[1].locals) : Guarding(s0, j) \/ ~b[s0[1].locals[j]]
        BY <1>10, <3>2 DEF IdleZero
      <4>3. \A j : Guarding(s0, j) => Guarding(r, j)
        <5>1. n > 1 => r[2] = s0[2]
          BY <1>1, <1>8
        <5> QED BY <1>1, <1>8, <4>1, <5>1 DEF Guarding, n
      <4> QED BY <4>1, <4>2, <4>3 DEF IdleZero
    <3> QED BY <3>1, <3>2
  <2> HIDE DEF s0
  <2> QED BY <1>2, <1>3, <1>6, <2>1, <2>2, <2>7, <2>8 DEF Fits, r, n
<1>13. FlagsKept(t)
  BY <1>1, <1>2 DEF FlagsKept
<1>14. TableKept
  <2>1. /\ SameLocals(t, r)
        /\ \A k \in Nat \ {0} : k # n + 1 => LiftAt(r, k) = LiftAt(s0, k)
        /\ LiftAt(s0, n + 1) = NoQubit
        /\ LiftAt(r, n + 1) = IF expr.owning THEN expr.qubit ELSE NoQubit
    <3>1. r[Len(r)] = w /\ Len(r) = Len(s0) + 1 /\ \A k \in 1..Len(s0) : r[k] = s0[k]
      BY <1>1, <1>8 DEF n
    <3>2. /\ \A j \in Nat \ {0} : LocalAt(r, j) = LocalAt(s0, j)
          /\ \A k \in Nat \ {0} : k # Len(r) => LiftAt(r, k) = LiftAt(s0, k)
          /\ LiftAt(s0, Len(r)) = NoQubit
          /\ LiftAt(r, Len(r)) = IF r[Len(r)].kind = "lift" /\ r[Len(r)].expr.owning
                                  THEN r[Len(r)].expr.qubit ELSE NoQubit
      BY <1>1, <1>7, <1>8, <3>1, OneScopeMore
    <3> QED BY <1>7, <1>8, <3>1, <3>2 DEF SameLocals
  <2>2. Rescoped(t, r)
    BY <1>2, <1>9 DEF Rescoped
  <2>3. CASE cc = NoControl
    <3>1. SameLifts(t, r)
      BY <1>4, <2>1, <2>3 DEF SameLifts
    <3>2. Own(flag', scope') = Own(flag, scope)
      BY <2>1, <2>2, <3>1, TableSame
    <3>3. UNCHANGED poolVars /\ bit' = bit
      BY <1>1, <1>2, <1>3, <1>4, <2>3
    <3> QED BY <3>2, <3>3 DEF IInv, TableKept, poolVars
  <2>4. CASE cc # NoControl
    <3> DEFINE p == LiftPlace(t, n + 1)
    <3>1. n + 1 \in Nat \ {0} /\ p \in Place /\ ContextAt(p) = c
      <4>1. n + 1 \in Nat \ {0}
        BY <1>1
      <4>2. p[1] = "lift" /\ p[2] = t
        BY DEF LiftPlace
      <4> QED BY <4>1, <4>2, Places DEF ContextAt
    <3>2. Own(flag', scope') = [Own(flag, scope) EXCEPT ![LiftPlace(t, n + 1)] = LiftAt(r, n + 1)]
      BY <2>1, <2>2, <3>1, TableLift
    <3>3. Own(flag', scope') = [Own(flag, scope) EXCEPT ![p] = expr.qubit]
      BY <1>4, <2>1, <2>4, <3>2
    <3>4. Own(flag, scope)[p] = NoQubit
      BY <2>1, <3>1, OwnAt
    <3>5. \A d \in Context, j \in Qubit : (d = ContextAt(p) /\ j = expr.qubit) \/ bit'[d][j] = bit[d][j]
      BY <1>1, <1>2, <1>3, <1>4, <2>4, <3>1
    <3> HIDE DEF p, c
    <3> QED BY <1>1, <1>3, <1>4, <2>4, <3>1, <3>3, <3>4, <3>5, PlaceTakes DEF TableKept
  <2> QED BY <2>3, <2>4
<1>15. IInv'
  <2> HIDE DEF s0
  <2> QED BY <1>3, <1>11, <1>12, <1>13, <1>14, GuardOpens
<1>16. Names(r) = Append(Names(s0), f)
  BY <1>1, <1>7, <1>8 DEF Names, n
<1>17. \A g \in Flag : Value(g)' = Value(g)
  <2>1. CASE cc = NoControl
    <3>1. bit' = bit
      BY <1>1, <1>2, <1>3, <1>4, <2>1
    <3> QED BY <3>1 DEF Value
  <2>2. CASE cc # NoControl
    <3>1. \A g \in Flag : flag[g].qubit # expr.qubit
      BY <1>4, <2>2, NotAFlag
    <3>2. \A d \in Context, j \in Qubit : (d = c /\ j = expr.qubit) \/ bit'[d][j] = bit[d][j]
      BY <1>1, <1>2, <1>3, <1>4, <2>2
    <3> HIDE DEF c
    <3> QED BY <1>1, <3>1, <3>2, ValuesKept
  <2> QED BY <2>1, <2>2
<1> QED BY <1>9, <1>15, <1>16, <1>17

\* lift_under(f, body)
LEMMA LiftUnderKeeps ==
  ASSUME OwnContexts, IInv, NEW t \in Thread, NEW f \in Flag, LiftUnder(t, f)
  PROVE  /\ IInv'
         /\ scope' = [scope EXCEPT ![t] = scope'[t]] /\ Names(scope'[t]) = Append(Names(scope[t]), f)
         /\ \A g \in Flag : Value(g)' = Value(g)
<1> DEFINE c == ContextOf(t)  cc == current_control[t]  ccq == current_control_qubit[t]
           flag_q == [View(flag[f]) EXCEPT !.super = TRUE]
           outer == Expr(t, cc)
<1>1. /\ bit \in [Context -> [Qubit -> BOOLEAN]] /\ flag \in [Flag -> Qbool] /\ c \in Context
      /\ MayEnter(t, f) /\ HasQubit(flag[f]) /\ flag' = flag
  BY ContextType DEF IInv, TypeOK, LiftUnder
<1>2. flag[f].qubit \in Qubit /\ flag[f] \in Qbool
  BY <1>1, FlagQubit
<1>3. flag_q \in Qbool /\ flag_q.super = TRUE /\ flag_q.owning = FALSE /\ flag_q.qubit = flag[f].qubit
      /\ HasQubit(flag_q)
  BY <1>1, <1>2 DEF View, Qbool, HasQubit
<1> HIDE DEF flag_q
<1>4. CASE cc = NoControl
  <2>1. WhenGuard(t, scope[t], Declare("lift", f, flag_q), flag_q) /\ UNCHANGED <<poolVars, bit>>
    BY <1>4 DEF LiftUnder, flag_q
  <2>2. bit[c] \in [Qubit -> BOOLEAN] /\ bit' = [bit EXCEPT ![c] = bit[c]] /\ bit[c][flag[f].qubit] \in BOOLEAN
    BY <1>1, <1>2, <2>1
  <2>3. Lifts(t, f, flag_q, bit[c])
    BY <1>2, <1>3, <1>4, <2>1, <2>2 DEF Lifts
  <2> HIDE DEF c
  <2> QED BY <1>1, <2>3, LiftOpens
<1>5. CASE cc # NoControl
  <2>1. PICK i \in Qubit :
           /\ BoolAnd(t, outer, flag_q, i)
           /\ LET tmp == AndResult(outer, flag_q, i)
              IN  WhenGuard(t, scope[t], Declare("lift", f, tmp), tmp)
    BY <1>5 DEF LiftUnder, flag_q
  <2>2. HasQubit(outer) /\ outer.qubit = ccq /\ ccq \in Qubit
    BY <1>5, ThreadControl DEF Expr, ExprAt
  <2>3. AndResult(outer, flag_q, i) = Ancilla(i)
    BY <1>3, <2>2 DEF AndResult
  <2>4. Ancilla(i) \in Qbool /\ Ancilla(i).super = TRUE /\ Ancilla(i).qubit = i /\ Ancilla(i).owning = TRUE
    BY DEF Ancilla, Qbool
  <2>5. Ands(c, ccq, flag[f].qubit, i)
    BY <1>3, <2>1, <2>2 DEF BoolAnd, Ands
  <2>6. WhenGuard(t, scope[t], Declare("lift", f, Ancilla(i)), Ancilla(i))
    BY <2>1, <2>3
  <2>7. /\ Unowned(Own(flag, scope), free_, high_water_, i)
        /\ bit'[c] \in [Qubit -> BOOLEAN] /\ bit' = [bit EXCEPT ![c] = bit'[c]]
        /\ bit'[c][i] = (bit[c][ccq] /\ bit[c][flag[f].qubit])
        /\ \A d \in Context, j \in Qubit : (d = c /\ j = i) \/ bit'[d][j] = bit[d][j]
    <3> HIDE DEF c, ccq
    <3> QED BY <1>1, <1>2, <2>2, <2>5, FreshAnd
  <2>8. PICK b : b = bit'[c]
    OBVIOUS
  <2>9. /\ b \in [Qubit -> BOOLEAN] /\ bit' = [bit EXCEPT ![c] = b]
        /\ b[i] = (bit[c][flag[f].qubit] /\ (cc # NoControl => bit[c][ccq]))
        /\ \A j \in Qubit : j # i => b[j] = bit[c][j]
    <3>1. bit[c][ccq] \in BOOLEAN /\ bit[c][flag[f].qubit] \in BOOLEAN
      BY <1>1, <1>2, <2>2
    <3> QED BY <1>1, <1>5, <2>7, <2>8, <3>1
  <2> HIDE DEF outer
  <2>10. Allocate(i)
    BY <2>5 DEF Ands
  <2>11. Lifts(t, f, Ancilla(i), b)
    BY <1>5, <2>4, <2>6, <2>7, <2>9, <2>10 DEF Lifts
  <2> HIDE DEF c, cc, ccq
  <2> QED BY <1>1, <2>11, LiftOpens
<1> QED BY <1>4, <1>5

\* The body is over: its last temporary is zero, and goes back.
LEMMA EndLocalKeeps ==
  ASSUME OwnContexts, IInv, NEW t \in Thread, EndLocal(t)
  PROVE  /\ IInv'
         /\ scope' = [scope EXCEPT ![t] = scope'[t]] /\ Names(scope'[t]) = Names(scope[t])
<1> DEFINE c == ContextOf(t)  s0 == scope[t]  old == s0[1].locals  n == Len(old)  i == old[n]
           kept == SubSeq(old, 1, n - 1)
<1>1. s0 # <<>> /\ Top(t).locals # <<>> /\ ~aborted
  BY DEF EndLocal
<1>2. Len(s0) = 1 /\ Top(t).kind = "named"
  <2>1. Len(s0) \in 1..Len(s0) /\ Len(s0) \in Nat \ {0}
    BY <1>1, LocalFacts
  <2>2. ScopesOK(t, flag, s0)
    BY ThreadControl
  <2>3. /\ Len(s0) > 1 => s0[Len(s0)].locals = <<>>
        /\ ScopeOK(flag, s0, Len(s0))
    BY <2>1, <2>2, ScopeFacts
  <2>4. Top(t) = s0[Len(s0)]
    BY DEF Top
  <2>5. ~(Len(s0) > 1)
    BY <1>1, <2>3, <2>4
  <2>6. s0[Len(s0)].kind = "named"
    <3>1. s0[Len(s0)].locals # <<>> => s0[Len(s0)].kind = "named"
      <4> HIDE DEF s0
      <4> QED BY <2>3 DEF ScopeOK
    <3> QED BY <1>1, <2>4, <3>1
  <2>7. \A k \in Nat \ {0} : k > 1 \/ k = 1
    OBVIOUS
  <2>8. Len(s0) = 1
    BY <2>1, <2>5, <2>7
  <2> QED BY <2>4, <2>6, <2>8
<1>3. /\ s0 \in Seq(Scope) /\ Len(s0) = 1 /\ 1 \in 1..Len(s0) /\ s0[1] \in Scope /\ s0[1].kind = "named"
      /\ ScopesOK(t, flag, s0) /\ Top(t) = s0[1] /\ s0[1].modified_tls_
      /\ IdleZero(s0, bit[c])
  BY <1>1, <1>2, LoneScope
<1>4. /\ c \in Context /\ bit \in [Context -> [Qubit -> BOOLEAN]] /\ flag \in [Flag -> Qbool]
      /\ scope \in [Thread -> Seq(Scope)] /\ flag' = flag /\ bit' = bit /\ Release(i) /\ aborted' = FALSE
      /\ UNCHANGED <<current_control, current_control_qubit, control_stack>>
      /\ \A g \in Flag : FlagOK(flag[g])
  BY <1>3, ContextType DEF IInv, TypeOK, EndLocal
<1>5. /\ n \in Nat \ {0} /\ n \in 1..n /\ i \in Qubit /\ LocalPlace(t, n) \in Place
      /\ Own(flag, scope)[LocalPlace(t, n)] = i /\ old \in Seq(Qubit)
  <2>1. old # <<>>
    BY <1>1, <1>3
  <2> QED BY <1>1, <2>1, LocalFacts
<1>6. kept \in Seq(Qubit) /\ Len(kept) = n - 1 /\ \A j \in 1..(n - 1) : kept[j] = old[j]
  BY <1>5
<1> DEFINE v == [s0[1] EXCEPT !.closing = TRUE, !.locals = kept]
           r == [s0 EXCEPT ![1] = v]
<1>7. /\ v \in Scope /\ v.locals = kept /\ v.kind = s0[1].kind /\ v.flag = s0[1].flag
      /\ v.run_ = s0[1].run_ /\ v.modified_tls_ = s0[1].modified_tls_ /\ v.expr = s0[1].expr
      /\ v.prev_control_ = s0[1].prev_control_ /\ v.prev_control_qubit_ = s0[1].prev_control_qubit_
  <2> HIDE DEF kept, s0
  <2> QED BY <1>3, <1>6 DEF Scope
<1>8. scope' = [scope EXCEPT ![t] = r] /\ scope'[t] = r
  <2>1. scope' = [scope EXCEPT ![t][1].closing = TRUE, ![t][1].locals = kept]
    BY <1>2, <1>3 DEF EndLocal
  <2>2. scope' = [scope EXCEPT ![t] = r]
    BY <1>3, <1>4, <2>1
  <2> QED BY <1>4, <2>2
<1> HIDE DEF v
<1>9. r \in Seq(Scope) /\ Len(r) = 1 /\ r[1] = v
  <2>1. r = [s0 EXCEPT ![1] = v]
    OBVIOUS
  <2> HIDE DEF r, s0
  <2>2. v \in Scope /\ s0 \in Seq(Scope) /\ 1 \in 1..Len(s0)
    BY <1>3, <1>7
  <2>3. /\ [s0 EXCEPT ![1] = v] \in Seq(Scope) /\ Len([s0 EXCEPT ![1] = v]) = Len(s0)
        /\ \A j \in 1..Len(s0) : [s0 EXCEPT ![1] = v][j] = IF j = 1 THEN v ELSE s0[j]
    BY ONLY <2>2, ExceptSeq
  <2> QED BY <1>3, <2>1, <2>3
<1> HIDE DEF r
<1>10. ScopesOK(t, flag, r)
  <2> HIDE DEF s0
  <2> QED BY <1>3, <1>7, <1>9, LocalsChange
<1>11. Meaning(flag, r, bit[c])
  <2>1. \A k \in 1..Len(r) : k = 1
    BY <1>9
  <2>2. \A k \in 1..Len(r) : /\ r[k].flag = scope[t][k].flag /\ r[k].kind = scope[t][k].kind
                             /\ r[k].expr = scope[t][k].expr /\ r[k].run_ = scope[t][k].run_
                             /\ r[k].modified_tls_ = scope[t][k].modified_tls_
    BY <1>7, <1>9, <2>1
  <2>3. Len(r) <= Len(scope[t])
    BY <1>3, <1>9
  <2> HIDE DEF s0
  <2> QED BY <1>9, <2>2, <2>3, MeaningPrefix
<1>12. /\ \A j \in 1..n : ~bit[c][old[j]]
  BY <1>3 DEF IdleZero, Guarding
<1>13. IdleZero(r, bit[c])
  <2>1. r[1].locals = kept
    BY <1>7, <1>9
  <2>2. \A j \in 1..Len(kept) : ~bit[c][kept[j]]
    <3> HIDE DEF kept
    <3>1. \A j \in 1..(n - 1) : j \in 1..n
      BY <1>5
    <3> QED BY <1>6, <1>12, <3>1
  <2> HIDE DEF kept
  <2> QED BY <2>1, <2>2 DEF IdleZero
<1>14. ControlOK(flag, r, current_control[t], current_control_qubit[t], control_stack[c])
  <2>1. ControlAt(r, 1) = ControlAt(s0, 1)
    BY <1>7, <1>9 DEF ControlAt
  <2>2. /\ current_control[t] = ControlAt(s0, 1) /\ current_control_qubit[t] = QubitAt(flag, s0, current_control[t])
        /\ current_control[t] # NoControl => control_stack[c] = <<current_control_qubit[t]>>
        /\ current_control[t] = NoControl => control_stack[c] = <<>>
    BY <1>3, ThreadControl
  <2>3. current_control[t] \in {NoControl, 1}
    BY <2>2 DEF ControlAt
  <2>4. QubitAt(flag, r, current_control[t]) = QubitAt(flag, s0, current_control[t])
    BY <1>3, <1>7, <1>9, <2>3 DEF QubitAt, ExprAt
  <2> QED BY <1>9, <2>1, <2>2, <2>4 DEF ControlOK
<1>15. TableKept
  <2> DEFINE p == LocalPlace(t, n)
  <2>1. ContextAt(p) = c
    BY DEF LocalPlace, ContextAt
  <2>2. SameLifts(t, r)
    <3>1. LiftAt(r, 1) = NoQubit /\ LiftAt(s0, 1) = NoQubit
      BY <1>3, <1>7, <1>9 DEF LiftAt
    <3>2. \A k \in Nat \ {0} : k # 1 => LiftAt(r, k) = NoQubit /\ LiftAt(s0, k) = NoQubit
      BY <1>3, <1>9 DEF LiftAt
    <3> QED BY <3>1, <3>2 DEF SameLifts
  <2>3. /\ LocalAt(r, n) = NoQubit
        /\ \A j \in Nat \ {0} : j # n => LocalAt(r, j) = LocalAt(s0, j)
    <3>0. r # <<>>
      BY <1>9
    <3>1. r # <<>> /\ s0 # <<>> /\ r[1].locals = kept
      BY <1>1, <1>7, <1>9, <3>0
    <3>2. \A j \in Nat \ {0} : j <= n - 1 => kept[j] = old[j]
      BY <1>5, <1>6
    <3> HIDE DEF kept
    <3> QED BY <1>5, <1>6, <3>1, <3>2 DEF LocalAt
  <2>4. Rescoped(t, r)
    BY <1>4, <1>8 DEF Rescoped
  <2>5. Own(flag', scope') = [Own(flag, scope) EXCEPT ![LocalPlace(t, n)] = LocalAt(r, n)]
    BY <1>5, <2>2, <2>3, <2>4, TableLocal
  <2>6. Own(flag', scope') = [Own(flag, scope) EXCEPT ![p] = NoQubit]
    BY <2>3, <2>5
  <2>7. ~bit'[ContextAt(p)][i]
    BY <1>4, <1>5, <1>12, <2>1
  <2>8. \A d \in Context, j \in Qubit : bit'[d][j] = bit[d][j]
    BY <1>4
  <2> HIDE DEF p, c, i
  <2> QED BY <1>4, <1>5, <2>1, <2>6, <2>7, <2>8, PlaceGives DEF TableKept, p
<1>16. IInv'
  <2>1. Assigns(t, r, current_control[t], current_control_qubit[t], control_stack[c], bit[c])
    <3>1. /\ current_control' = [current_control EXCEPT ![t] = current_control[t]]
          /\ current_control_qubit' = [current_control_qubit EXCEPT ![t] = current_control_qubit[t]]
          /\ control_stack' = [control_stack EXCEPT ![c] = control_stack[c]]
          /\ bit' = [bit EXCEPT ![c] = bit[c]] /\ bit[c] \in [Qubit -> BOOLEAN]
      BY <1>4 DEF IInv, TypeOK
    <3> QED BY <1>4, <1>8, <3>1 DEF Assigns
  <2>2. Sound(t, flag', r, current_control[t], current_control_qubit[t], control_stack[c], bit[c])
    BY <1>4, <1>10, <1>11, <1>13, <1>14 DEF Sound
  <2>3. FlagsKept(t)
    BY <1>4 DEF FlagsKept
  <2> HIDE DEF c
  <2> QED BY <1>15, <2>1, <2>2, <2>3, StepKeeps
<1>17. Names(r) = Names(s0)
  BY <1>3, <1>7, <1>9 DEF Names
<1> QED BY <1>8, <1>16, <1>17

\* The end of WHEN(f).
LEMMA LeaveWhenKeeps ==
  ASSUME OwnContexts, IInv, NEW t \in Thread, LeaveWhen(t)
  PROVE  /\ IInv'
         /\ scope' = [scope EXCEPT ![t] = scope'[t]] /\ scope'[t] = Popped(t)
         /\ scope[t] # <<>> /\ flag' = flag /\ \A g \in Flag : Value(g)' = Value(g)
<1> DEFINE c == ContextOf(t)  s0 == scope[t]  r == Popped(t)
<1>1. /\ s0 # <<>> /\ EndGuard(t) /\ Top(t).kind = "named" /\ Top(t).locals = <<>>
      /\ flag' = flag /\ bit' = bit /\ UNCHANGED poolVars /\ aborted' = UnwindAsserts(t)
  BY DEF LeaveWhen, MayLeave
<1>2. /\ c \in Context /\ bit \in [Context -> [Qubit -> BOOLEAN]] /\ scope \in [Thread -> Seq(Scope)]
  BY ContextType DEF IInv, TypeOK
<1>3. Len(s0) = 1 /\ Top(t) = s0[1] /\ s0[1].kind = "named"
  BY <1>1, LoneScope
<1>4. r \in Seq(Scope) /\ Len(r) = 0 /\ ~UnwindAsserts(t)
  <2>1. r \in Seq(Scope) /\ Len(r) = Len(s0) - 1 /\ ~UnwindAsserts(t)
    BY <1>1, Unguards
  <2> QED BY <1>3, <2>1
<1>5. scope' = [scope EXCEPT ![t] = r] /\ scope'[t] = r
  BY <1>1, <1>2 DEF EndGuard, Popped
<1> HIDE DEF r
<1>6. r = <<>>
  BY <1>4, EmptySeq
<1>7. Meaning(flag, r, bit[c]) /\ IdleZero(r, bit[c])
  BY <1>4, <1>6 DEF Meaning, IdleZero
<1>8. TableKept
  <2>1. SameLocals(t, r)
    BY <1>1, <1>3, <1>6 DEF SameLocals, LocalAt
  <2>2. SameLifts(t, r)
    <3>1. LiftAt(s0, 1) = NoQubit
      BY <1>3 DEF LiftAt
    <3>2. \A k \in Nat \ {0} : k # 1 => LiftAt(s0, k) = NoQubit
      BY <1>3 DEF LiftAt
    <3>3. \A k \in Nat \ {0} : LiftAt(r, k) = NoQubit
      BY <1>4 DEF LiftAt
    <3> QED BY <3>1, <3>2, <3>3 DEF SameLifts
  <2>3. Rescoped(t, r)
    BY <1>1, <1>2, <1>5 DEF Rescoped
  <2>4. Own(flag', scope') = Own(flag, scope)
    BY <2>1, <2>2, <2>3, TableSame
  <2> QED BY <1>1, <2>4 DEF IInv, TableKept, poolVars
<1>9. bit[c] \in [Qubit -> BOOLEAN] /\ bit' = [bit EXCEPT ![c] = bit[c]] /\ aborted' = FALSE
  BY <1>1, <1>2, <1>4
<1>10. IInv'
  BY <1>1, <1>7, <1>8, <1>9, GuardCloses DEF r
<1> QED BY <1>1, <1>5, <1>10 DEF r, Value

\* The end of a nested WHEN on qubits: the temporary is uncomputed.
Uncomputes(t, i, b) ==
  /\ i \in Qubit /\ Own(flag, scope)[LocalPlace(t, Len(scope[t][1].locals))] = i
  /\ Len(scope[t][1].locals) \in 1..Len(scope[t][1].locals)
  /\ LocalPlace(t, Len(scope[t][1].locals)) \in Place
  /\ scope[t][1].locals[Len(scope[t][1].locals)] = i
  /\ ~b[i] /\ \A j \in Qubit : j # i => b[j] = bit[ContextOf(t)][j]

\* What a nested scope is when it is the innermost.
LEMMA NestedScope ==
  ASSUME IInv, NEW t \in Thread, LeaveNested(t)
  PROVE  LET s == scope[t]
         IN  /\ s \in Seq(Scope) /\ Len(s) = 2 /\ s # <<>> /\ EndGuard(t) /\ Top(t) = s[2]
             /\ 1 \in 1..Len(s) /\ 2 \in 1..Len(s)
             /\ s[2].kind = "nested" /\ s[1].kind = "named" /\ s[1].flag \in Flag /\ s[2].flag \in Flag
             /\ s[1] \in Scope /\ s[2] \in Scope
             /\ NamedOK(flag, s, 1) /\ NestedOK(flag, s, 2)
             /\ (s[1].locals # <<>> => HasQubit(flag[s[2].flag]))
             /\ Meaning(flag, s, bit[ContextOf(t)]) /\ IdleZero(s, bit[ContextOf(t)])
<1> DEFINE s == scope[t]  n == Len(s)
<1>1. s # <<>> /\ EndGuard(t) /\ Top(t).kind = "nested"
  BY DEF LeaveNested, MayLeave
<1>2. ScopesOK(t, flag, s) /\ s \in Seq(Scope) /\ n \in Nat
  BY ThreadControl
<1>3. n \in Nat \ {0} /\ n \in 1..n /\ 1 \in 1..n
  BY <1>1, LocalFacts
<1>4. PICK k : k = n
  OBVIOUS
<1>5. s[k] = Top(t) /\ k \in 1..Len(s)
  BY <1>3, <1>4 DEF Top
<1> HIDE DEF s, n
<1>6. \A j \in 1..Len(s) : ScopeOK(flag, s, j) /\ s[j] \in Scope
  BY <1>2, ScopeFacts
<1>7. NestedOK(flag, s, k) /\ s[k].kind = "nested"
  BY <1>1, <1>5, <1>6 DEF ScopeOK
<1>8. k = 2 /\ s[1].kind = "named"
  BY <1>7 DEF NestedOK
<1>9. NamedOK(flag, s, 1)
  BY <1>3, <1>6, <1>8 DEF ScopeOK, n
<1>10. Meaning(flag, s, bit[ContextOf(t)]) /\ IdleZero(s, bit[ContextOf(t)])
  BY DEF IInv, ThreadOK, s
<1>11. s[1].flag \in Flag /\ s[2].flag \in Flag
  BY <1>3, <1>4, <1>5, <1>6, <1>8 DEF Scope, n
<1>12. Len(s) = 2 /\ 1 \in 1..Len(s) /\ 2 \in 1..Len(s)
  BY <1>3, <1>4, <1>8 DEF n
<1>13. s[1].locals # <<>> => HasQubit(flag[s[2].flag])
  <2>1. s[1].locals # <<>> => s[1].modified_tls_
    BY <1>6, <1>12 DEF ScopeOK
  <2> QED BY <1>7, <1>8, <1>9, <2>1 DEF NamedOK, NestedOK
<1> QED BY <1>1, <1>2, <1>5, <1>6, <1>7, <1>8, <1>9, <1>10, <1>11, <1>12, <1>13 DEF s

\* uncompute_and: no assertion fails, and the temporary is zero afterwards.
LEMMA NestedUncomputes ==
  ASSUME IInv, NEW t \in Thread, LeaveNested(t)
  PROVE  /\ aborted' = UnwindAsserts(t)
         /\ \E b \in [Qubit -> BOOLEAN] :
               /\ bit' = [bit EXCEPT ![ContextOf(t)] = b]
               /\ \/ b = bit[ContextOf(t)] /\ ~HasQubit(flag[scope[t][2].flag])
                  \/ \E i \in Qubit : Uncomputes(t, i, b)
<1> DEFINE c == ContextOf(t)  s == scope[t]  outer == flag[s[1].flag]  inner == flag[s[2].flag]
           ctrl == s[2].expr
<1>1. /\ s \in Seq(Scope) /\ Len(s) = 2 /\ s # <<>> /\ Top(t) = s[2]
      /\ 1 \in 1..Len(s) /\ 2 \in 1..Len(s)
      /\ s[2].kind = "nested" /\ s[1].kind = "named" /\ s[1].flag \in Flag /\ s[2].flag \in Flag
      /\ NamedOK(flag, s, 1) /\ NestedOK(flag, s, 2)
      /\ Meaning(flag, s, bit[c]) /\ IdleZero(s, bit[c])
  BY NestedScope
<1>2. UncomputeAnd(t, ctrl, outer, inner)
      /\ aborted' = (UnwindAsserts(t) \/ UncomputeAsserts(ctrl, outer, inner))
  BY <1>1 DEF LeaveNested
<1>3. /\ c \in Context /\ bit \in [Context -> [Qubit -> BOOLEAN]] /\ flag \in [Flag -> Qbool]
  BY ContextType DEF IInv, TypeOK
<1>4. /\ HasQubit(inner) = HasQubit(outer) /\ s[2].modified_tls_ = HasQubit(inner)
      /\ s[1].modified_tls_ = HasQubit(outer)
      /\ HasQubit(inner) => s[1].locals # <<>> /\ ctrl = Ancilla(LastLocal(s))
      /\ ~HasQubit(inner) => ctrl = Classical(s[2].run_)
  BY <1>1 DEF NamedOK, NestedOK
<1>5. UnwindAsserts(t) \in BOOLEAN
  BY <1>1 DEF UnwindAsserts, Scope
<1> HIDE DEF s
<1>6. CASE ~HasQubit(inner)
  <2>1. ~HasQubit(ctrl)
    BY <1>4, <1>6 DEF Classical, HasQubit
  <2>2. bit' = bit /\ ~UncomputeAsserts(ctrl, outer, inner)
    BY <1>2, <1>4, <1>6, <2>1 DEF UncomputeAnd, UncomputeAsserts
  <2>3. bit[c] \in [Qubit -> BOOLEAN] /\ bit' = [bit EXCEPT ![c] = bit[c]]
    BY <1>3, <2>2
  <2> QED BY <1>2, <1>5, <1>6, <2>2, <2>3 DEF s
<1>7. CASE HasQubit(inner)
  <2> DEFINE n == Len(s[1].locals)  i == s[1].locals[n]
  <2>1. /\ n \in 1..n /\ i \in Qubit /\ LocalPlace(t, n) \in Place
        /\ Own(flag, scope)[LocalPlace(t, n)] = i
    BY <1>1, <1>4, <1>7, LocalFacts DEF s
  <2>2. ctrl = Ancilla(i) /\ HasQubit(ctrl) /\ ctrl.qubit = i /\ HasQubit(outer)
    BY <1>4, <1>7, <2>1 DEF LastLocal, Ancilla, HasQubit, Qubit, NoQubit
  <2>3. bit' = [bit EXCEPT ![c] = CCX(bit[c], outer.qubit, inner.qubit, i)]
    BY <1>2, <1>7, <2>2 DEF UncomputeAnd
  <2>4. ~UncomputeAsserts(ctrl, outer, inner)
    BY <2>2 DEF UncomputeAsserts
  <2>5. outer.qubit \in Qubit /\ inner.qubit \in Qubit
    BY <1>1, <1>7, <2>2, FlagQubit
  <2>6. bit[c][i] <=> (bit[c][inner.qubit] /\ bit[c][outer.qubit])
    <3>1. Holds(flag, s, bit[c], 2) <=> Meant(flag, bit[c], s[2].flag) /\ (2 > 1 => Holds(flag, s, bit[c], 2 - 1))
      BY <1>1, MeansStep
    <3>2. Holds(flag, s, bit[c], 2) = bit[c][i]
      BY <1>1, <1>4, <1>7, <2>2 DEF Holds, ExprAt
    <3>3. Holds(flag, s, bit[c], 1) = bit[c][outer.qubit]
      BY <1>1, <1>4, <1>7 DEF Holds, ExprAt
    <3>4. Meant(flag, bit[c], s[2].flag) = bit[c][inner.qubit]
      BY <1>7 DEF Meant
    <3> QED BY <3>1, <3>2, <3>3, <3>4
  <2>7. PICK b : b = CCX(bit[c], outer.qubit, inner.qubit, i)
    OBVIOUS
  <2>8. PICK v : v = (bit[c][outer.qubit] /\ bit[c][inner.qubit])
    OBVIOUS
  <2>9. v \in BOOLEAN /\ bit[c][i] = v /\ bit[c] \in [Qubit -> BOOLEAN]
    BY <1>3, <2>1, <2>5, <2>6, <2>8
  <2>10. b = [bit[c] EXCEPT ![i] = bit[c][i] # v]
    BY <2>7, <2>8 DEF CCX, Toggle
  <2>11. b \in [Qubit -> BOOLEAN] /\ ~b[i] /\ \A j \in Qubit : j # i => b[j] = bit[c][j]
    <3> HIDE DEF i, c
    <3> QED BY <2>1, <2>9, <2>10
  <2>12. Uncomputes(t, i, b)
    BY <2>1, <2>11 DEF Uncomputes, s
  <2> QED BY <1>2, <1>5, <2>1, <2>3, <2>4, <2>7, <2>11, <2>12 DEF s
<1> QED BY <1>6, <1>7

\* The end of a nested WHEN.
LEMMA LeaveNestedKeeps ==
  ASSUME OwnContexts, IInv, NEW t \in Thread, LeaveNested(t)
  PROVE  /\ IInv'
         /\ scope' = [scope EXCEPT ![t] = scope'[t]] /\ scope'[t] = Popped(t)
         /\ scope[t] # <<>> /\ flag' = flag /\ \A g \in Flag : Value(g)' = Value(g)
<1> DEFINE c == ContextOf(t)  s0 == scope[t]  r == Popped(t)  n == Len(s0[1].locals)
           p == LocalPlace(t, n)
<1>1. /\ s0 \in Seq(Scope) /\ Len(s0) = 2 /\ s0 # <<>> /\ EndGuard(t)
      /\ s0[2].kind = "nested" /\ s0[1].kind = "named"
      /\ NestedOK(flag, s0, 2) /\ IdleZero(s0, bit[c]) /\ s0[1] \in Scope
  BY NestedScope
<1>2. /\ c \in Context /\ bit \in [Context -> [Qubit -> BOOLEAN]] /\ scope \in [Thread -> Seq(Scope)]
      /\ flag' = flag /\ UNCHANGED poolVars
  BY ContextType DEF IInv, TypeOK, LeaveNested
<1>3. r \in Seq(Scope) /\ Len(r) = 1 /\ r[1] = s0[1] /\ ~UnwindAsserts(t)
  <2>1. /\ r \in Seq(Scope) /\ Len(r) = Len(s0) - 1 /\ ~UnwindAsserts(t)
        /\ \A k \in 1..(Len(s0) - 1) : r[k] = s0[k]
    BY <1>1, Unguards
  <2> QED BY <1>1, <2>1
<1>4. scope' = [scope EXCEPT ![t] = r] /\ scope'[t] = r
  BY <1>1, <1>2 DEF EndGuard, Popped
<1> HIDE DEF r
<1>5. aborted' = FALSE
  BY <1>3, NestedUncomputes
<1>6. PICK b \in [Qubit -> BOOLEAN] :
         /\ bit' = [bit EXCEPT ![c] = b]
         /\ \/ b = bit[c] /\ ~HasQubit(flag[s0[2].flag])
            \/ \E i \in Qubit : Uncomputes(t, i, b)
  BY NestedUncomputes
<1>7. bit'[c] = b /\ \A d \in Context : d # c => bit'[d] = bit[d]
  BY <1>2, <1>6
<1>8. Own(flag', scope') = Own(flag, scope)
  <2>1. SameLocals(t, r)
    <3>0. Len(r) = 1
      BY <1>3
    <3>1. r # <<>>
      BY ONLY <3>0
    <3> QED BY <1>1, <1>3, <3>1 DEF SameLocals, LocalAt
  <2>2. SameLifts(t, r)
    <3>1. \A k \in Nat \ {0} : k <= 2 => k = 1 \/ k = 2
      OBVIOUS
    <3>2. LiftAt(r, 1) = NoQubit /\ LiftAt(r, 2) = NoQubit /\ LiftAt(s0, 1) = NoQubit /\ LiftAt(s0, 2) = NoQubit
      BY <1>1, <1>3 DEF LiftAt
    <3>3. \A k \in Nat \ {0} : ~(k <= 2) => LiftAt(r, k) = NoQubit /\ LiftAt(s0, k) = NoQubit
      BY <1>1, <1>3 DEF LiftAt
    <3> QED BY <3>1, <3>2, <3>3 DEF SameLifts
  <2>3. Rescoped(t, r)
    BY <1>2, <1>4 DEF Rescoped
  <2> QED BY <2>1, <2>2, <2>3, TableSame
<1>9. /\ Meaning(flag, r, b) /\ IdleZero(r, b) /\ ZeroElsewhere(Own(flag', scope'), bit')
      /\ \A g \in Flag : Value(g)' = Value(g)
  <2>0. /\ \A k \in 1..Len(r) : /\ r[k].flag = scope[t][k].flag /\ r[k].kind = scope[t][k].kind
                                /\ r[k].expr = scope[t][k].expr /\ r[k].run_ = scope[t][k].run_
                                /\ r[k].modified_tls_ = scope[t][k].modified_tls_
        /\ Len(r) <= Len(scope[t]) /\ Len(r) < 2
    <3>1. \A k \in 1..Len(r) : k = 1
      BY <1>3
    <3> QED BY <1>1, <1>3, <3>1
  <2>1. CASE b = bit[c] /\ ~HasQubit(flag[s0[2].flag])
    <3>1. bit' = bit
      BY <1>2, <1>6, <2>1
    <3>2. \A q \in Place : \/ Own(flag, scope)[q] \notin Qubit
                           \/ b[Own(flag, scope)[q]] = bit[c][Own(flag, scope)[q]]
      BY <2>1
    <3>3. Meaning(flag, r, b)
      <4> HIDE DEF s0
      <4> QED BY <1>3, <2>0, <3>2, MeaningPrefix
    <3>4. IdleZero(r, b)
      <4>1. s0[1].locals = <<>>
        BY <2>1, NestedScope
      <4> QED BY <1>3, <4>1 DEF IdleZero
    <3> QED BY <1>8, <3>1, <3>3, <3>4, <1>2 DEF IInv, Value
  <2>2. ASSUME NEW i \in Qubit, Uncomputes(t, i, b)
        PROVE  /\ Meaning(flag, r, b) /\ IdleZero(r, b) /\ ZeroElsewhere(Own(flag', scope'), bit')
               /\ \A g \in Flag : Value(g)' = Value(g)
    <3>1. /\ Own(flag, scope)[p] = i /\ n \in 1..n /\ p \in Place /\ s0[1].locals[n] = i
          /\ ~b[i] /\ \A j \in Qubit : j # i => b[j] = bit[c][j]
      BY <2>2 DEF Uncomputes
    <3>2. p[1] = "local" /\ p[2] = t /\ ContextAt(p) = c
      BY DEF LocalPlace, ContextAt
    <3>3. \A d \in Context, j \in Qubit : (d = c /\ j = i) \/ bit'[d][j] = bit[d][j]
      BY <1>7, <3>1
    <3>4. ZeroElsewhere(Own(flag', scope'), bit')
      <4>1. \A d \in Context, j \in Qubit : (d = ContextAt(p) /\ j = i) \/ bit'[d][j] = bit[d][j]
        BY <3>2, <3>3
      <4> HIDE DEF p, c
      <4> QED BY <1>2, <1>8, <3>1, <3>2, <4>1, PlaceChanges
    <3>5. \A g \in Flag : flag[g].qubit # i
      <4>1. i # NoQubit /\ \A g \in Flag : p # FlagPlace(g)
        BY PlacesDiffer DEF Qubit, NoQubit
      <4> HIDE DEF p
      <4> QED BY <3>1, <4>1, NotAFlag
    <3>6. \A g \in Flag : Value(g)' = Value(g)
      <4> HIDE DEF c
      <4> QED BY <1>2, <3>3, <3>5, ValuesKept
    <3>7. \A q \in Place : q = p \/ Own(flag, scope)[q] # i
      <4>1. i # NoQubit
        BY DEF Qubit, NoQubit
      <4> HIDE DEF p
      <4> QED BY <3>1, <4>1, OneOwner
    <3>8. Meaning(flag, r, b)
      <4>1. \A q \in Place : \/ Own(flag, scope)[q] \notin Qubit
                             \/ b[Own(flag, scope)[q]] = bit[ContextOf(t)][Own(flag, scope)[q]]
                             \/ Len(r) < 2 /\ \E j : q = LocalPlace(t, j)
        BY <2>0, <3>1, <3>7
      <4> HIDE DEF s0
      <4> QED BY <1>3, <2>0, <4>1, MeaningPrefix
    <3>9. IdleZero(r, b)
      <4>1. \A j \in 1..n : ~b[s0[1].locals[j]]
        <5> SUFFICES ASSUME NEW j \in 1..n
                     PROVE  ~b[s0[1].locals[j]]
          OBVIOUS
        <5>1. CASE j = n
          BY <3>1, <5>1
        <5>2. CASE j # n
          <6>1. ~bit[c][s0[1].locals[j]]
            BY <1>1, <5>2 DEF IdleZero, Guarding
          <6>2. s0[1].locals[j] \in Qubit /\ LocalPlace(t, j) \in Place
                /\ Own(flag, scope)[LocalPlace(t, j)] = s0[1].locals[j]
            BY <1>1, LocalFacts
          <6>3. LocalPlace(t, j) # p
            BY <5>2, PlacesDiffer
          <6>4. s0[1].locals[j] # i
            BY <3>7, <6>2, <6>3
          <6> QED BY <3>1, <6>1, <6>2, <6>4
        <5> QED BY <5>1, <5>2
      <4> QED BY <1>3, <4>1 DEF IdleZero
    <3> QED BY <3>4, <3>6, <3>8, <3>9
  <2> QED BY <1>6, <2>1, <2>2
<1>10. TableKept
  BY <1>2, <1>8, <1>9 DEF IInv, TableKept, poolVars
<1>11. IInv'
  <2> HIDE DEF c
  <2> QED BY <1>1, <1>2, <1>5, <1>6, <1>9, <1>10, GuardCloses DEF r, c
<1> QED BY <1>1, <1>2, <1>4, <1>9, <1>11 DEF r

\* What a lifted scope is when it is the innermost.
LEMMA LiftScope ==
  ASSUME IInv, NEW t \in Thread, LeaveLift(t)
  PROVE  LET s == scope[t]
             n == Len(s)
         IN  /\ s \in Seq(Scope) /\ s # <<>> /\ n \in Nat \ {0} /\ n \in 1..n /\ EndGuard(t) /\ Top(t) = s[n]
             /\ s[n].kind = "lift" /\ LiftOK(flag, s, n) /\ s[n] \in Scope /\ s[n].flag \in Flag
             /\ s[n].modified_tls_
             /\ s[n].prev_control_ # NoControl =>
                  /\ s[n].prev_control_ = n - 1 /\ n - 1 \in 1..n /\ n > 1 /\ s[n - 1].modified_tls_
                  /\ HasQubit(ExprAt(flag, s, n - 1))
             /\ Meaning(flag, s, bit[ContextOf(t)]) /\ IdleZero(s, bit[ContextOf(t)])
<1> DEFINE s == scope[t]  n == Len(s)
<1>1. s # <<>> /\ EndGuard(t) /\ Top(t).kind = "lift"
  BY DEF LeaveLift, MayLeave
<1>2. ScopesOK(t, flag, s) /\ s \in Seq(Scope) /\ n \in Nat
  BY ThreadControl
<1>3. n \in Nat \ {0} /\ n \in 1..n
  BY <1>1, LocalFacts
<1>4. Top(t) = s[n]
  BY DEF Top
<1>5. /\ s[n] \in Scope /\ ScopeOK(flag, s, n) /\ s[n].prev_control_ \in {NoControl, n - 1}
      /\ s[n].prev_control_ # NoControl => s[n].modified_tls_ /\ n > 1 /\ s[n - 1].modified_tls_
  BY <1>2, <1>3, ScopeFacts
<1> HIDE DEF s
<1>6. LiftOK(flag, s, n)
  <2> HIDE DEF n
  <2> QED BY <1>1, <1>4, <1>5 DEF ScopeOK
<1>7. s[n].modified_tls_ /\ s[n].flag \in Flag
  BY <1>5, <1>6 DEF LiftOK, Scope
<1>8. ASSUME s[n].prev_control_ # NoControl
      PROVE  /\ s[n].prev_control_ = n - 1 /\ n - 1 \in 1..n /\ n > 1 /\ s[n - 1].modified_tls_
             /\ HasQubit(ExprAt(flag, s, n - 1))
  <2>1. n - 1 \in 1..n /\ s[n - 1].modified_tls_
    BY <1>3, <1>5, <1>8
  <2>2. HasQubit(ExprAt(flag, s, n - 1))
    <3> HIDE DEF n
    <3>1. PICK k : k = n - 1
      OBVIOUS
    <3>2. k \in 1..Len(s) /\ s[k].modified_tls_
      BY <2>1, <3>1 DEF n
    <3> QED BY <1>2, <3>1, <3>2, ScopeFacts
  <2> QED BY <1>5, <1>8, <2>1, <2>2
<1>9. Meaning(flag, s, bit[ContextOf(t)]) /\ IdleZero(s, bit[ContextOf(t)])
  BY DEF IInv, ThreadOK, s
<1> QED BY <1>1, <1>2, <1>3, <1>4, <1>5, <1>6, <1>7, <1>8, <1>9 DEF s

\* The temporary of a lifted scope goes back, and b is what it leaves.
Returns(t, i, b) ==
  /\ i \in Qubit /\ Own(flag, scope)[LiftPlace(t, Len(scope[t]))] = i /\ Release(i)
  /\ ~b[i] /\ \A j \in Qubit : j # i => b[j] = bit[ContextOf(t)][j]

\* tmp is zero when it is destroyed.
LEMMA LiftUncomputes ==
  ASSUME IInv, NEW t \in Thread, LeaveLift(t)
  PROVE  \E b \in [Qubit -> BOOLEAN] :
            /\ bit' = [bit EXCEPT ![ContextOf(t)] = b]
            /\ \/ /\ b = bit[ContextOf(t)] /\ UNCHANGED poolVars
                  /\ ~scope[t][Len(scope[t])].expr.owning
               \/ \E i \in Qubit : Returns(t, i, b)
<1> DEFINE c == ContextOf(t)  s == scope[t]  n == Len(s)  g == flag[s[n].flag]  tmp == s[n].expr
<1>1. /\ n \in Nat \ {0} /\ n \in 1..n /\ Top(t) = s[n]
      /\ s[n].kind = "lift" /\ LiftOK(flag, s, n) /\ s[n] \in Scope /\ s[n].flag \in Flag /\ s[n].modified_tls_
      /\ s[n].prev_control_ # NoControl =>
           /\ s[n].prev_control_ = n - 1 /\ n - 1 \in 1..n /\ n > 1 /\ s[n - 1].modified_tls_
           /\ HasQubit(ExprAt(flag, s, n - 1))
      /\ Meaning(flag, s, bit[c])
  BY LiftScope
<1>2. /\ c \in Context /\ bit \in [Context -> [Qubit -> BOOLEAN]] /\ flag \in [Flag -> Qbool]
  BY ContextType DEF IInv, TypeOK
<1>3. /\ HasQubit(g) /\ HasQubit(tmp) /\ (s[n].prev_control_ = NoControl => ~tmp.owning)
      /\ (s[n].prev_control_ # NoControl => tmp.owning)
  BY <1>1 DEF LiftOK
<1>4. CASE s[n].prev_control_ = NoControl
  <2>1. bit' = bit /\ UNCHANGED poolVars
    BY <1>1, <1>4 DEF LeaveLift
  <2>2. bit[c] \in [Qubit -> BOOLEAN] /\ bit' = [bit EXCEPT ![c] = bit[c]]
    BY <1>2, <2>1
  <2> QED BY <1>3, <1>4, <2>1, <2>2
<1>5. CASE s[n].prev_control_ # NoControl
  <2> DEFINE outer == ExprAt(flag, s, n - 1)  i == tmp.qubit
  <2>1. UncomputeAnd(t, tmp, Expr(t, s[n].prev_control_), g) /\ Release(i)
    BY <1>1, <1>5 DEF LeaveLift
  <2>2. Expr(t, s[n].prev_control_) = outer /\ HasQubit(outer)
    BY <1>1, <1>5 DEF Expr, ExprAt
  <2>3. i \in Qubit /\ Own(flag, scope)[LiftPlace(t, n)] = i
    <3>1. tmp \in Qbool
      BY <1>1 DEF Scope
    <3>2. i \in Qubit
      BY <1>3, <3>1 DEF Qbool, HasQubit
    <3>3. LiftAt(s, n) = i
      BY <1>1, <1>3, <1>5 DEF LiftAt
    <3> QED BY <1>1, <3>2, <3>3, OwnAt
  <2>4. bit' = [bit EXCEPT ![c] = CCX(bit[c], outer.qubit, g.qubit, i)]
    BY <1>3, <2>1, <2>2 DEF UncomputeAnd
  <2>5. outer.qubit \in Qubit /\ g.qubit \in Qubit
    <3>1. g.qubit \in Qubit
      BY <1>1, <1>3, FlagQubit
    <3>2. outer.qubit \in Qubit
      <4>1. PICK k : k = n - 1
        OBVIOUS
      <4>2. k \in 1..Len(scope[t]) /\ scope[t][k].modified_tls_
        BY <1>1, <1>5, <4>1
      <4> QED BY <4>1, <4>2, GuardPlace
    <3> QED BY <3>1, <3>2
  <2>6. bit[c][i] <=> (bit[c][g.qubit] /\ bit[c][outer.qubit])
    <3>1. Holds(flag, s, bit[c], n) <=> Meant(flag, bit[c], s[n].flag) /\ (n > 1 => Holds(flag, s, bit[c], n - 1))
      <4> HIDE DEF s, c
      <4> QED BY <1>1, MeansStep
    <3>2. Holds(flag, s, bit[c], n) = bit[c][i]
      BY <1>1 DEF Holds, ExprAt
    <3>3. Holds(flag, s, bit[c], n - 1) = bit[c][outer.qubit]
      BY <1>1, <1>5 DEF Holds
    <3>4. Meant(flag, bit[c], s[n].flag) = bit[c][g.qubit]
      BY <1>3 DEF Meant
    <3> QED BY <1>1, <1>5, <3>1, <3>2, <3>3, <3>4
  <2> HIDE DEF outer
  <2>7. PICK b : b = CCX(bit[c], outer.qubit, g.qubit, i)
    OBVIOUS
  <2>8. PICK v : v = (bit[c][outer.qubit] /\ bit[c][g.qubit])
    OBVIOUS
  <2>9. v \in BOOLEAN /\ bit[c][i] = v /\ bit[c] \in [Qubit -> BOOLEAN]
    BY <1>2, <2>3, <2>5, <2>6, <2>8
  <2>10. b = [bit[c] EXCEPT ![i] = bit[c][i] # v]
    BY <2>7, <2>8 DEF CCX, Toggle
  <2>11. b \in [Qubit -> BOOLEAN] /\ ~b[i] /\ \A j \in Qubit : j # i => b[j] = bit[c][j]
    <3> HIDE DEF i, c
    <3> QED BY <2>3, <2>9, <2>10
  <2>12. Returns(t, i, b)
    BY <2>1, <2>3, <2>11 DEF Returns
  <2> QED BY <2>3, <2>4, <2>7, <2>11, <2>12
<1> QED BY <1>4, <1>5

\* The end of lift_under's body.
LEMMA LeaveLiftKeeps ==
  ASSUME OwnContexts, IInv, NEW t \in Thread, LeaveLift(t)
  PROVE  /\ IInv'
         /\ scope' = [scope EXCEPT ![t] = scope'[t]] /\ scope'[t] = Popped(t)
         /\ scope[t] # <<>> /\ flag' = flag /\ \A g \in Flag : Value(g)' = Value(g)
<1> DEFINE c == ContextOf(t)  s0 == scope[t]  r == Popped(t)  n == Len(s0)  p == LiftPlace(t, n)
<1>1. /\ s0 \in Seq(Scope) /\ s0 # <<>> /\ n \in Nat \ {0} /\ EndGuard(t)
      /\ s0[n].kind = "lift" /\ IdleZero(s0, bit[c])
  BY LiftScope
<1>2. /\ c \in Context /\ bit \in [Context -> [Qubit -> BOOLEAN]] /\ scope \in [Thread -> Seq(Scope)]
      /\ flag' = flag
  BY ContextType DEF IInv, TypeOK, LeaveLift
<1>3. /\ r \in Seq(Scope) /\ Len(r) = n - 1 /\ (\A k \in 1..(n - 1) : r[k] = s0[k]) /\ ~UnwindAsserts(t)
  BY <1>1, Unguards
<1>4. scope' = [scope EXCEPT ![t] = r] /\ scope'[t] = r
  BY <1>1, <1>2 DEF EndGuard, Popped
<1> HIDE DEF r
<1>5. aborted' = FALSE
  BY <1>3 DEF LeaveLift
<1>6. PICK b \in [Qubit -> BOOLEAN] :
         /\ bit' = [bit EXCEPT ![c] = b]
         /\ \/ b = bit[c] /\ UNCHANGED poolVars /\ ~s0[n].expr.owning
            \/ \E i \in Qubit : Returns(t, i, b)
  BY LiftUncomputes
<1>7. bit'[c] = b /\ \A d \in Context : d # c => bit'[d] = bit[d]
  BY <1>2, <1>6
<1>8. /\ SameLocals(t, r) /\ LiftAt(r, n) = NoQubit
      /\ \A k \in Nat \ {0} : k # n => LiftAt(r, k) = LiftAt(s0, k)
      /\ LiftAt(s0, n) = IF s0[n].expr.owning THEN s0[n].expr.qubit ELSE NoQubit
  <2>1. s0[n].locals = <<>>
    BY LiftScope DEF LeaveLift, MayLeave
  <2>2. n = Len(r) + 1 /\ \A k \in 1..Len(r) : s0[k] = r[k]
    BY <1>1, <1>3
  <2>3. /\ \A j \in Nat \ {0} : LocalAt(s0, j) = LocalAt(r, j)
        /\ \A k \in Nat \ {0} : k # n => LiftAt(s0, k) = LiftAt(r, k)
        /\ LiftAt(r, n) = NoQubit
        /\ LiftAt(s0, n) = IF s0[n].kind = "lift" /\ s0[n].expr.owning
                             THEN s0[n].expr.qubit ELSE NoQubit
    BY <1>1, <1>3, <2>1, <2>2, OneScopeMore
  <2> QED BY <1>1, <2>3 DEF SameLocals
<1>9. Rescoped(t, r)
  BY <1>2, <1>4 DEF Rescoped
<1>10. \A k \in 1..Len(r) : /\ r[k].flag = scope[t][k].flag /\ r[k].kind = scope[t][k].kind
                            /\ r[k].expr = scope[t][k].expr /\ r[k].run_ = scope[t][k].run_
                            /\ r[k].modified_tls_ = scope[t][k].modified_tls_
  BY <1>1, <1>3
<1>11. Len(r) <= Len(scope[t])
  BY <1>1, <1>3
<1>12. r # <<>> => /\ r[1] = s0[1]
                   /\ \A j \in 1..Len(s0[1].locals) : Guarding(r, j) \/ ~bit[c][s0[1].locals[j]]
  <2> SUFFICES ASSUME r # <<>>
               PROVE  /\ r[1] = s0[1]
                      /\ \A j \in 1..Len(s0[1].locals) : Guarding(r, j) \/ ~bit[c][s0[1].locals[j]]
    OBVIOUS
  <2>1. Len(r) # 0
    BY <1>3, EmptySeq
  <2>2. r[1] = s0[1] /\ n > 1
    BY <1>1, <1>3, <2>1
  <2>3. \A j : Guarding(s0, j) => Guarding(r, j)
    <3>1. s0[2].kind = "nested" => n # 2
      BY <1>1
    <3>2. n > 2 => r[2] = s0[2]
      BY <1>1, <1>3
    <3> QED BY <1>1, <1>3, <2>2, <3>1, <3>2 DEF Guarding
  <2>4. \A j \in 1..Len(s0[1].locals) : Guarding(s0, j) \/ ~bit[c][s0[1].locals[j]]
    BY <1>1 DEF IdleZero
  <2> QED BY <2>2, <2>3, <2>4
<1>13. /\ Meaning(flag, r, b) /\ IdleZero(r, b) /\ TableKept
       /\ \A g \in Flag : Value(g)' = Value(g)
  <2>1. CASE b = bit[c] /\ UNCHANGED poolVars /\ ~s0[n].expr.owning
    <3>1. bit' = bit
      BY <1>2, <1>6, <2>1
    <3>2. \A q \in Place : \/ Own(flag, scope)[q] \notin Qubit
                           \/ b[Own(flag, scope)[q]] = bit[c][Own(flag, scope)[q]]
      BY <2>1
    <3>3. Meaning(flag, r, b)
      <4> HIDE DEF s0
      <4> QED BY <1>3, <1>10, <1>11, <3>2, MeaningPrefix
    <3>4. IdleZero(r, b)
      BY <1>12, <2>1 DEF IdleZero
    <3>5. SameLifts(t, r)
      BY <1>8, <2>1 DEF SameLifts
    <3>6. Own(flag', scope') = Own(flag, scope)
      BY <1>8, <1>9, <3>5, TableSame
    <3> QED BY <1>2, <2>1, <3>1, <3>3, <3>4, <3>6 DEF IInv, Value, TableKept, poolVars
  <2>2. ASSUME NEW i \in Qubit, Returns(t, i, b)
        PROVE  /\ Meaning(flag, r, b) /\ IdleZero(r, b) /\ TableKept
               /\ \A g \in Flag : Value(g)' = Value(g)
    <3>1. /\ Own(flag, scope)[p] = i /\ Release(i)
          /\ ~b[i] /\ \A j \in Qubit : j # i => b[j] = bit[c][j]
      BY <2>2 DEF Returns
    <3>2. p \in Place /\ ContextAt(p) = c
      <4>1. p[1] = "lift" /\ p[2] = t
        BY DEF LiftPlace
      <4> QED BY <1>1, <4>1, Places DEF ContextAt
    <3>3. \A d \in Context, j \in Qubit : (d = c /\ j = i) \/ bit'[d][j] = bit[d][j]
      BY <1>7, <3>1
    <3>4. TableKept
      <4>1. \A d \in Context, j \in Qubit : (d = ContextAt(p) /\ j = i) \/ bit'[d][j] = bit[d][j]
        BY <3>2, <3>3
      <4>2. ~bit'[ContextAt(p)][i]
        BY <1>7, <3>1, <3>2
      <4>3. Own(flag', scope') = [Own(flag, scope) EXCEPT ![LiftPlace(t, n)] = LiftAt(r, n)]
        BY <1>1, <1>8, <1>9, TableLift
      <4>4. Own(flag', scope') = [Own(flag, scope) EXCEPT ![p] = NoQubit]
        BY <1>8, <4>3
      <4> HIDE DEF p, c
      <4> QED BY <1>2, <3>1, <3>2, <4>1, <4>2, <4>4, PlaceGives DEF TableKept
    <3>5. i # NoQubit
      BY DEF Qubit, NoQubit
    <3>6. \A g \in Flag : flag[g].qubit # i
      <4>1. \A g \in Flag : p # FlagPlace(g)
        BY PlacesDiffer
      <4> HIDE DEF p
      <4> QED BY <3>1, <3>2, <3>5, <4>1, NotAFlag
    <3>7. \A g \in Flag : Value(g)' = Value(g)
      <4> HIDE DEF c
      <4> QED BY <1>2, <3>3, <3>6, ValuesKept
    <3>8. \A q \in Place : q = p \/ Own(flag, scope)[q] # i
      <4> HIDE DEF p
      <4> QED BY <3>1, <3>2, <3>5, OneOwner
    <3>9. Meaning(flag, r, b)
      <4>1. n \notin 1..Len(r)
        BY <1>1, <1>3
      <4>2. \A q \in Place : \/ Own(flag, scope)[q] \notin Qubit
                             \/ b[Own(flag, scope)[q]] = bit[ContextOf(t)][Own(flag, scope)[q]]
                             \/ \E k : k \notin 1..Len(r) /\ q = LiftPlace(t, k)
        BY <3>1, <3>8, <4>1
      <4> HIDE DEF s0
      <4> QED BY <1>3, <1>10, <1>11, <4>2, MeaningPrefix
    <3>10. IdleZero(r, b)
      <4> SUFFICES ASSUME r # <<>>, NEW j \in 1..Len(s0[1].locals)
                   PROVE  Guarding(r, j) \/ ~b[s0[1].locals[j]]
        BY <1>12 DEF IdleZero
      <4>1. Guarding(r, j) \/ ~bit[c][s0[1].locals[j]]
        BY <1>12
      <4>2. s0[1].locals[j] \in Qubit /\ LocalPlace(t, j) \in Place
            /\ Own(flag, scope)[LocalPlace(t, j)] = s0[1].locals[j]
        BY <1>1, LocalFacts
      <4>3. LocalPlace(t, j) # p
        BY PlacesDiffer
      <4>4. s0[1].locals[j] # i
        BY <3>8, <4>2, <4>3
      <4> QED BY <3>1, <4>1, <4>2, <4>4
    <3> QED BY <3>4, <3>7, <3>9, <3>10
  <2> QED BY <1>6, <2>1, <2>2
<1>14. IInv'
  <2> HIDE DEF c
  <2> QED BY <1>1, <1>2, <1>5, <1>6, <1>13, GuardCloses DEF r, c
<1> QED BY <1>1, <1>2, <1>4, <1>13, <1>14 DEF r

-----------------------------------------------------------------------------
(* Every reachable state. *)

\* The invariant holds at the start.
LEMMA InitHolds == Init => IInv
<1> SUFFICES ASSUME Init
             PROVE  IInv
  OBVIOUS
<1>1. TypeOK
  <2>1. \A v \in BOOLEAN : Classical(v) \in Qbool
    BY DEF Classical, Qbool, NoQubit
  <2>2. flag \in [Flag -> Qbool]
    BY <2>1 DEF Init
  <2>3. NoControl \in NoControl..MaxDepth
    BY BoundAssumption DEF NoControl
  <2>4. PoolTypeOK
    BY DEF Init, PoolInit, PoolTypeOK
  <2>5. <<>> \in Seq(Scope) /\ <<>> \in Seq(Qubit)
    OBVIOUS
  <2>6. scope \in [Thread -> Seq(Scope)] /\ control_stack \in [Context -> Seq(Qubit)]
    BY <2>5 DEF Init
  <2>7. /\ current_control \in [Thread -> NoControl..MaxDepth]
        /\ current_control_qubit \in [Thread -> Qubit \cup {NoQubit}]
    BY <2>3 DEF Init
  <2>8. bit \in [Context -> [Qubit -> BOOLEAN]] /\ aborted \in BOOLEAN
    BY DEF Init
  <2> QED BY <2>2, <2>4, <2>6, <2>7, <2>8 DEF TypeOK
<1>2. \A f \in Flag : ~HasQubit(flag[f]) /\ ~flag[f].super /\ flag[f].qubit = NoQubit
  BY DEF Init, Classical, HasQubit
<1>3. \A t \in Thread : scope[t] = <<>>
  BY DEF Init
<1>4. DOMAIN Own(flag, scope) = Place /\ \A p \in Place : Own(flag, scope)[p] = NoQubit
  <2>1. DOMAIN Own(flag, scope) = Place
    BY OwnAt
  <2>2. /\ \A f \in Flag : Own(flag, scope)[FlagPlace(f)] = NoQubit
        /\ \A t \in Thread, j \in Nat \ {0} : Own(flag, scope)[LocalPlace(t, j)] = NoQubit
        /\ \A t \in Thread, k \in Nat \ {0} : Own(flag, scope)[LiftPlace(t, k)] = NoQubit
    <3>1. Len(<<>>) = 0
      OBVIOUS
    <3>2. \A j \in Nat \ {0} : LocalAt(<<>>, j) = NoQubit /\ LiftAt(<<>>, j) = NoQubit
      BY <3>1 DEF LocalAt, LiftAt
    <3> QED BY <1>2, <1>3, <3>2, OwnAt
  <2> QED BY <2>1, <2>2, Places
<1>5. Exact(Own(flag, scope), free_, high_water_, in_use_)
  <2>1. free_ = <<>> /\ high_water_ = 0 /\ in_use_ = 0 /\ Len(free_) = 0 /\ free_ \in Seq(Nat)
    BY DEF Init, PoolInit
  <2>2. Own(flag, scope) \in [DOMAIN Own(flag, scope) -> Nat \cup {Nothing}]
    BY <1>4 DEF Own, NoQubit, Nothing
  <2> QED BY <1>4, <2>1, <2>2 DEF Exact, NoQubit, Nothing
<1>6. ZeroElsewhere(Own(flag, scope), bit)
  BY DEF Init, ZeroElsewhere
<1>7. \A t \in Thread : ThreadOK(t)
  <2> SUFFICES ASSUME NEW t \in Thread
               PROVE  ThreadOK(t)
    OBVIOUS
  <2>1. scope[t] = <<>> /\ current_control[t] = NoControl /\ current_control_qubit[t] = NoQubit
        /\ control_stack[ContextOf(t)] = <<>>
    BY ContextType DEF Init
  <2>2. <<>> \in Seq(Scope) /\ Len(<<>>) = 0
    OBVIOUS
  <2>3. ScopesOK(t, flag, <<>>)
    BY <2>2, BoundAssumption DEF ScopesOK
  <2>4. ControlOK(flag, <<>>, NoControl, NoQubit, <<>>)
    BY <2>2 DEF ControlOK, ControlAt, QubitAt
  <2>5. Meaning(flag, <<>>, bit[ContextOf(t)]) /\ IdleZero(<<>>, bit[ContextOf(t)])
    BY <2>2 DEF Meaning, IdleZero
  <2> QED BY <2>1, <2>3, <2>4, <2>5 DEF ThreadOK
<1>8. ~aborted /\ \A f \in Flag : FlagOK(flag[f])
  BY <1>2 DEF Init, FlagOK
<1> QED BY <1>1, <1>5, <1>6, <1>7, <1>8 DEF IInv

\* f.flip(), f ^= g and f ^= (g & h), lifted or as the one gate of ccnot_inplace.
LEMMA StatementGateKeeps ==
  ASSUME OwnContexts, IInv, NEW t \in Thread, NEW f \in Flag, NEW g \in Flag, NEW h \in Flag,
         \/ Flip(t, f) \/ XorInto(t, f, g) \/ AndInto(t, f, g, h)
         \/ (current_control[t] = NoControl /\ FuseInto(t, f, g, h))
  PROVE  /\ IInv'
         /\ \E operands \in SUBSET Flag : GateOn(t, f, operands)
<1>1. /\ Flip(t, f) => GateOn(t, f, {}) /\ UNCHANGED poolVars
      /\ XorInto(t, f, g) => GateOn(t, f, {g}) /\ UNCHANGED poolVars
      /\ AndInto(t, f, g, h) => GateOn(t, f, {g, h}) /\ (UNCHANGED poolVars \/ Borrow)
      /\ current_control[t] = NoControl /\ FuseInto(t, f, g, h)
           => GateOn(t, f, {g, h}) /\ UNCHANGED poolVars
  BY StatementIsGate
<1>2. PICK operands \in SUBSET Flag : GateOn(t, f, operands) /\ (UNCHANGED poolVars \/ Borrow)
  BY <1>1
<1>3. IInv'
  BY <1>2, GateKeeps
<1> QED BY <1>2, <1>3

\* Every step keeps the invariant.
LEMMA StepHolds ==
  ASSUME OwnContexts, IInv, [Next]_vars
  PROVE  IInv'
<1>1. ASSUME NEW t \in Thread, Leave(t)
      PROVE  IInv'
  BY <1>1, EndLocalKeeps, LeaveWhenKeeps, LeaveNestedKeeps, LeaveLiftKeeps DEF Leave
<1>2. ASSUME NEW t \in Thread, NEW f \in Flag, Enter(t, f)
      PROVE  IInv'
  <2>1. CASE scope[t] = <<>> /\ EnterWhen(t, f)
    BY <2>1, EnterWhenKeeps
  <2>2. CASE Innermost(t, {"named"}) /\ SameKind(t, f) /\ EnterNested(t, f)
    BY <2>2, EnterNestedClassical, EnterNestedQuantum
  <2>3. CASE LiftUnder(t, f)
    BY <2>3, LiftUnderKeeps
  <2> QED BY <1>2, <2>1, <2>2, <2>3 DEF Enter
<1>3. ASSUME NEW t \in Thread, NEW f \in Flag, Statement(t, f)
      PROVE  IInv'
  <2>1. CASE Prepare(t, f)
    BY <2>1, PrepareKeeps
  <2>2. CASE Flip(t, f)
    BY <2>2, StatementGateKeeps
  <2>3. CASE ~flag[f].value /\ PromoteAndFlip(t, f)
    BY <2>3, PromoteKeeps
  <2>4. ASSUME NEW g \in Flag, Copy(t, f, g)
        PROVE  IInv'
    BY <2>4, CopyKeeps
  <2>5. ASSUME NEW g \in Flag, XorInto(t, f, g)
        PROVE  IInv'
    BY <2>5, StatementGateKeeps
  <2>6. ASSUME NEW g \in Flag, NEW h \in Flag, AndInto(t, f, g, h)
        PROVE  IInv'
    BY <2>6, StatementGateKeeps
  <2>7. ASSUME NEW g \in Flag, NEW h \in Flag,
               current_control[t] = NoControl, FuseInto(t, f, g, h)
        PROVE  IInv'
    BY <2>7, StatementGateKeeps
  <2> QED BY <1>3, <2>1, <2>2, <2>3, <2>4, <2>5, <2>6, <2>7 DEF Statement
<1>4. CASE UNCHANGED vars
  <2>1. /\ flag' = flag /\ scope' = scope /\ current_control' = current_control /\ bit' = bit
        /\ current_control_qubit' = current_control_qubit /\ control_stack' = control_stack
        /\ aborted' = aborted /\ free_' = free_ /\ high_water_' = high_water_ /\ in_use_' = in_use_
    BY <1>4 DEF vars, guardVars, poolVars
  <2>2. TypeOK'
    BY <2>1 DEF IInv, TypeOK, PoolTypeOK
  <2>3. \A t \in Thread : ThreadOK(t)'
    BY <2>1 DEF IInv, ThreadOK
  <2> QED BY <2>1, <2>2, <2>3 DEF IInv
<1> QED BY <1>1, <1>2, <1>3, <1>4 DEF Next

\* The scopes, the control and the qubits stay in step: the strengthening that
\* the results below are read from.
THEOREM Invariance ==
  ASSUME OwnContexts
  PROVE  Spec => []IInv
<1>1. Init => IInv
  BY InitHolds
<1>2. IInv /\ [Next]_vars => IInv'
  BY StepHolds
<1> QED BY <1>1, <1>2, PTL DEF Spec

\* Every variable has its type.
THEOREM TypeCorrect ==
  ASSUME OwnContexts
  PROVE  Spec => []TypeOK
<1>1. IInv => TypeOK
  BY DEF IInv
<1> QED BY <1>1, Invariance, PTL

\* A thread's context has one control while a quantum condition is open, and
\* the cached qubit is its qubit.
THEOREM AlwaysOneControl ==
  ASSUME OwnContexts
  PROVE  Spec => []OneControl
<1>1. IInv => OneControl
  <2> SUFFICES ASSUME IInv, NEW t \in Thread
               PROVE  IF current_control[t] = NoControl
                        THEN control_stack[ContextOf(t)] = <<>> /\ current_control_qubit[t] = NoQubit
                        ELSE LET q == Expr(t, current_control[t]).qubit
                             IN  control_stack[ContextOf(t)] = <<q>> /\ current_control_qubit[t] = q
    BY DEF OneControl
  <2>1. /\ current_control[t] = NoControl =>
             current_control_qubit[t] = NoQubit /\ control_stack[ContextOf(t)] = <<>>
        /\ current_control[t] # NoControl =>
             /\ current_control_qubit[t] = ExprAt(flag, scope[t], current_control[t]).qubit
             /\ control_stack[ContextOf(t)] = <<current_control_qubit[t]>>
    BY ThreadControl
  <2>2. ExprAt(flag, scope[t], current_control[t]) = Expr(t, current_control[t])
    BY DEF ExprAt, Expr
  <2> QED BY <2>1, <2>2
<1> QED BY <1>1, Invariance, PTL

\* The assertions of the control stack and of uncompute_and hold.
THEOREM AssertionsHold ==
  ASSUME OwnContexts
  PROVE  Spec => []NoAssertFails
<1>1. IInv => NoAssertFails
  BY DEF IInv, NoAssertFails
<1> QED BY <1>1, Invariance, PTL

\* What the control of a body is in a basis state.
LEMMA ControlOfBody ==
  ASSUME IInv, NEW t \in Thread, InBody(t)
  PROVE  Controlled(t) <=> \A f \in Conditions(t) : Value(f)
<1> DEFINE c == ContextOf(t)  s == scope[t]  n == Len(s)
<1>1. /\ s \in Seq(Scope) /\ n \in Nat /\ ScopesOK(t, flag, s)
      /\ current_control[t] = ControlAt(s, n)
      /\ current_control[t] = NoControl => control_stack[c] = <<>>
      /\ current_control[t] # NoControl =>
           /\ current_control[t] = n /\ n \in 1..n /\ s[n].modified_tls_
           /\ current_control_qubit[t] = ExprAt(flag, s, n).qubit
           /\ control_stack[c] = <<current_control_qubit[t]>>
      /\ current_control[t] = NoControl /\ s # <<>> => ~s[n].modified_tls_
  BY ThreadControl
<1>2. Meaning(flag, s, bit[c]) /\ (s # <<>> => s[n].run_)
  BY DEF IInv, ThreadOK, InBody, Top
<1>3. \A k \in 1..n : Meant(flag, bit[c], s[k].flag) = Value(s[k].flag)
  <2> SUFFICES ASSUME NEW k \in 1..n
               PROVE  Meant(flag, bit[c], s[k].flag) = Value(s[k].flag)
    OBVIOUS
  <2>1. ThreadOf[s[k].flag] = t
    BY <1>1, ScopeFacts
  <2> QED BY <2>1 DEF Meant, Value
<1>4. (\A f \in Conditions(t) : Value(f)) <=> \A k \in 1..n : Meant(flag, bit[c], s[k].flag)
  BY <1>3 DEF Conditions
<1>5. s # <<>> => n \in 1..n
  BY LocalFacts
<1> HIDE DEF s, c
<1>6. CASE s = <<>>
  <2>1. n = 0
    BY <1>6
  <2>2. current_control[t] = NoControl
    BY <1>1, <2>1
  <2>3. Controlled(t)
    BY <1>1, <2>2 DEF Controlled, c
  <2>4. \A k \in 1..n : Meant(flag, bit[c], s[k].flag)
    BY <2>1
  <2> QED BY <1>4, <2>3, <2>4
<1>7. CASE s # <<>>
  <2>1. Holds(flag, s, bit[c], n) <=> \A k \in 1..n : Meant(flag, bit[c], s[k].flag)
    BY <1>2, <1>5, <1>7 DEF Meaning
  <2>2. Controlled(t) <=> Holds(flag, s, bit[c], n)
    <3>1. CASE current_control[t] = NoControl
      <4>1. Controlled(t)
        BY <1>1, <3>1 DEF Controlled, c
      <4>2. ~s[n].modified_tls_ /\ s[n].run_
        BY <1>1, <1>2, <1>7, <3>1
      <4>3. Holds(flag, s, bit[c], n)
        BY <4>2 DEF Holds
      <4> QED BY <4>1, <4>3
    <3>2. CASE current_control[t] # NoControl
      <4>1. control_stack[c] = <<current_control_qubit[t]>> /\ control_stack[c] # <<>>
            /\ control_stack[c][1] = current_control_qubit[t]
        BY <1>1, <3>2
      <4>2. Controlled(t) <=> bit[c][current_control_qubit[t]]
        BY <4>1 DEF Controlled, c
      <4>3. Holds(flag, s, bit[c], n) = bit[c][current_control_qubit[t]]
        BY <1>1, <3>2 DEF Holds
      <4> QED BY <4>2, <4>3
    <3> QED BY <3>1, <3>2
  <2> QED BY <1>4, <2>1, <2>2
<1> QED BY <1>6, <1>7

\* A body's gates act in exactly the basis states that satisfy the condition
\* of every open scope.
THEOREM ControlIsConjunction ==
  ASSUME OwnContexts
  PROVE  Spec => []ControlMeansEveryScope
<1>1. IInv => ControlMeansEveryScope
  BY ControlOfBody DEF ControlMeansEveryScope
<1> QED BY <1>1, Invariance, PTL

\* Whatever the pool hands out is |0> in every context.
THEOREM FreeQubitsAreZero ==
  ASSUME OwnContexts
  PROVE  Spec => []FreeIsZero
<1>1. IInv => FreeIsZero
  <2> SUFFICES ASSUME IInv, NEW c \in Context, NEW i \in Qubit, i \in FreeSet \/ i >= high_water_
               PROVE  ~bit[c][i]
    BY DEF FreeIsZero
  <2>1. Unowned(Own(flag, scope), free_, high_water_, i)
    BY DEF IInv, Exact, Unowned, FreeSet, Qubit
  <2> QED BY <2>1, UnownedIsZero
<1> QED BY <1>1, Invariance, PTL

-----------------------------------------------------------------------------
(* The pool's count. *)

\* Places that have qubits are as many as the qubits they have.
LEMMA PlacesAreCounted ==
  ASSUME IInv, NEW S, NEW m \in [S -> Place],
         \A x, y \in S : m[x] = m[y] => x = y,
         \A x \in S : Own(flag, scope)[m[x]] # NoQubit
  PROVE  LET T == {Own(flag, scope)[m[x]] : x \in S}
         IN  T \subseteq Given(Own(flag, scope)) /\ Cardinality(S) = Cardinality(T)
<1> DEFINE own == Own(flag, scope)  T == {own[m[x]] : x \in S}  h == [x \in S |-> own[m[x]]]
<1>1. DOMAIN own = Place /\ \A p, r \in Place : own[p] # NoQubit /\ own[p] = own[r] => p = r
  BY OneOwner
<1>2. T \subseteq Given(own)
  BY <1>1 DEF Given, NoQubit, Nothing
<1>3. IsFiniteSet(Given(own))
  <2>1. Exact(own, free_, high_water_, in_use_)
    BY DEF IInv
  <2> HIDE DEF own
  <2> QED BY <2>1, CountIsGiven
<1>4. IsFiniteSet(T)
  <2> HIDE DEF T, own
  <2> QED BY <1>2, <1>3, FS_Subset
<1> HIDE DEF own
<1>5. h \in Injection(S, T) /\ h \in Surjection(S, T)
  <2>1. h \in [S -> T] /\ \A x, y \in S : h[x] = h[y] => x = y
    BY <1>1 DEF own
  <2>2. \A y \in T : \E x \in S : h[x] = y
    OBVIOUS
  <2> QED BY <2>1, <2>2 DEF Injection, Surjection, IsInjective
<1>6. Cardinality(S) = Cardinality(T)
  <2> HIDE DEF h, T
  <2> QED BY <1>4, <1>5, FS_Injection
<1> QED BY <1>2, <1>6 DEF own

\* A thread has no more temporaries than the pool has issued indices.
LEMMA LocalsAreIssued ==
  ASSUME IInv, NEW t \in Thread, scope[t] # <<>>
  PROVE  Len(scope[t][1].locals) <= high_water_
<1> DEFINE old == scope[t][1].locals  n == Len(old)
<1>1. /\ n \in Nat /\ old \in Seq(Qubit)
      /\ \A j \in 1..n : /\ old[j] \in Qubit /\ LocalPlace(t, j) \in Place
                         /\ Own(flag, scope)[LocalPlace(t, j)] = old[j]
  BY LocalFacts
<1>2. \A j, k \in 1..n : old[j] = old[k] => j = k
  <2> SUFFICES ASSUME NEW j \in 1..n, NEW k \in 1..n, old[j] = old[k]
               PROVE  j = k
    OBVIOUS
  <2>1. old[j] # NoQubit
    BY <1>1 DEF Qubit, NoQubit
  <2>2. LocalPlace(t, j) = LocalPlace(t, k)
    BY <1>1, <2>1, OneOwner
  <2> QED BY <2>2, PlacesDiffer
<1>3. high_water_ \in Nat
  BY DEF IInv, TypeOK, PoolTypeOK
<1>4. old \in [1..n -> 0..(high_water_ - 1)]
  <2>1. \A j \in 1..n : old[j] \in 0..(high_water_ - 1)
    <3> SUFFICES ASSUME NEW j \in 1..n
                 PROVE  old[j] \in 0..(high_water_ - 1)
      OBVIOUS
    <3>1. old[j] < high_water_ /\ old[j] \in Qubit
      BY <1>1, OneOwner
    <3> QED BY <1>3, <3>1 DEF Qubit
  <2> QED BY <1>1, <2>1
<1> HIDE DEF old, n
<1>5. n <= high_water_
  BY <1>1, <1>2, <1>3, <1>4, NoMoreThanIssued
<1> QED BY <1>5 DEF n, old

\* The temporaries a thread declared are those at its places.
LEMMA LocalsArePlaces ==
  ASSUME IInv, NEW t \in Thread
  PROVE  /\ \A l \in LocalsOf(t) : /\ l = <<1, l[2]>> /\ l[2] \in Nat \ {0}
                                   /\ LocalAt(scope[t], l[2]) # NoQubit
         /\ \A j \in Nat \ {0} : LocalAt(scope[t], j) # NoQubit => <<1, j>> \in LocalsOf(t)
<1> DEFINE s == scope[t]  n == Len(s)
<1>1. s \in Seq(Scope) /\ n \in Nat /\ n <= MaxDepth /\ ScopesOK(t, flag, s)
  BY ThreadControl
<1>2. high_water_ \in Nat /\ MaxDepth \in Nat
  BY BoundAssumption DEF IInv, TypeOK, PoolTypeOK
<1>3. ASSUME NEW l \in LocalsOf(t)
      PROVE  l = <<1, l[2]>> /\ l[2] \in Nat \ {0} /\ LocalAt(s, l[2]) # NoQubit
  <2>1. /\ l \in (1..MaxDepth) \X (1..high_water_)
        /\ l[1] <= n /\ l[2] <= Len(s[l[1]].locals)
    BY <1>3 DEF LocalsOf
  <2>2. l = <<l[1], l[2]>> /\ l[1] \in 1..n /\ l[2] \in Nat \ {0}
    BY <1>1, <1>2, <2>1
  <2>3. ~(l[1] > 1)
    <3> SUFFICES ASSUME l[1] > 1
                 PROVE  FALSE
      OBVIOUS
    <3>1. s[l[1]].locals = <<>>
      BY <1>1, <2>2, ScopeFacts
    <3>2. Len(s[l[1]].locals) = 0
      BY <3>1
    <3> QED BY <2>1, <2>2, <3>2
  <2>4. l[1] = 1
    BY <1>1, <2>2, <2>3
  <2>5. s # <<>>
    BY <1>1, <2>2
  <2>6. /\ s[1].locals \in Seq(Qubit) /\ Len(s[1].locals) \in Nat
        /\ \A j \in 1..Len(s[1].locals) : s[1].locals[j] \in Qubit
    BY <2>5, LocalFacts
  <2>7. s[1].locals[l[2]] \in Qubit /\ l[2] <= Len(s[1].locals)
    BY <2>1, <2>2, <2>4, <2>6
  <2>8. LocalAt(s, l[2]) = s[1].locals[l[2]]
    BY <2>5, <2>7 DEF LocalAt
  <2> QED BY <2>2, <2>4, <2>7, <2>8 DEF Qubit, NoQubit
<1>4. ASSUME NEW j \in Nat \ {0}, LocalAt(s, j) # NoQubit
      PROVE  <<1, j>> \in LocalsOf(t)
  <2>1. s # <<>> /\ j <= Len(s[1].locals)
    BY <1>4 DEF LocalAt
  <2>2. 1 \in 1..n /\ Len(s[1].locals) \in Nat
    BY <2>1, LocalFacts
  <2>3. Len(s[1].locals) <= high_water_
    BY <2>1, LocalsAreIssued
  <2>4. 1 \in 1..MaxDepth /\ j \in 1..high_water_ /\ 1 <= n
    BY <1>1, <1>2, <2>1, <2>2, <2>3
  <2> QED BY <2>1, <2>4 DEF LocalsOf
<1> QED BY <1>3, <1>4

\* The temporaries of a thread's lifted scopes are those at its places.
LEMMA LiftsArePlaces ==
  ASSUME IInv, NEW t \in Thread
  PROVE  /\ \A k \in LiftsOf(t) : k \in Nat \ {0} /\ LiftAt(scope[t], k) # NoQubit
         /\ \A k \in Nat \ {0} : LiftAt(scope[t], k) # NoQubit => k \in LiftsOf(t)
<1> DEFINE s == scope[t]  n == Len(s)
<1>1. s \in Seq(Scope) /\ n \in Nat /\ ScopesOK(t, flag, s)
  BY ThreadControl
<1>2. ASSUME NEW k \in LiftsOf(t)
      PROVE  k \in Nat \ {0} /\ LiftAt(s, k) # NoQubit
  <2>1. k \in 1..n /\ s[k].kind = "lift" /\ s[k].expr.owning
    BY <1>2 DEF LiftsOf
  <2>2. ScopeOK(flag, s, k) /\ k \in Nat \ {0}
    BY <1>1, <2>1, ScopeFacts
  <2>3. HasQubit(s[k].expr)
    BY <2>1, <2>2 DEF ScopeOK, LiftOK
  <2>4. LiftAt(s, k) = s[k].expr.qubit
    BY <1>1, <2>1 DEF LiftAt
  <2> QED BY <2>2, <2>3, <2>4 DEF HasQubit
<1>3. ASSUME NEW k \in Nat \ {0}, LiftAt(s, k) # NoQubit
      PROVE  k \in LiftsOf(t)
  <2>1. k <= n /\ s[k].kind = "lift" /\ s[k].expr.owning
    BY <1>3 DEF LiftAt
  <2> QED BY <1>1, <2>1 DEF LiftsOf
<1> QED BY <1>2, <1>3

\* The qubits in use are those of the flags, of the declared temporaries and
\* of the lifted scopes, and each is counted once.
LEMMA AllAreCounted ==
  ASSUME IInv
  PROVE  TemporariesAreCounted
<1> DEFINE own == Own(flag, scope)
           F == {flag[f].qubit : f \in Flag} \ {NoQubit}
           LP == UNION {{<<t, l>> : l \in LocalsOf(t)} : t \in Thread}
           KP == UNION {{<<t, k>> : k \in LiftsOf(t)} : t \in Thread}
           ml == [x \in LP |-> LocalPlace(x[1], x[2][2])]
           mk == [x \in KP |-> LiftPlace(x[1], x[2])]
           L == {own[ml[x]] : x \in LP}
           K == {own[mk[x]] : x \in KP}
<1>1. Exact(own, free_, high_water_, in_use_)
  BY DEF IInv
<1>2. IsFiniteSet(Given(own)) /\ Cardinality(Given(own)) = in_use_
  <2> HIDE DEF own
  <2> QED BY <1>1, CountIsGiven
<1>3. /\ DOMAIN own = Place
      /\ \A f \in Flag : own[FlagPlace(f)] = flag[f].qubit
      /\ \A t \in Thread, j \in Nat \ {0} : own[LocalPlace(t, j)] = LocalAt(scope[t], j)
      /\ \A t \in Thread, k \in Nat \ {0} : own[LiftPlace(t, k)] = LiftAt(scope[t], k)
  BY OwnAt
<1>4. \A x \in LP : /\ x[1] \in Thread /\ x = <<x[1], <<1, x[2][2]>>>> /\ x[2][2] \in Nat \ {0}
                    /\ LocalAt(scope[x[1]], x[2][2]) # NoQubit
  <2> SUFFICES ASSUME NEW t \in Thread, NEW l \in LocalsOf(t)
               PROVE  l = <<1, l[2]>> /\ l[2] \in Nat \ {0} /\ LocalAt(scope[t], l[2]) # NoQubit
    OBVIOUS
  <2> QED BY LocalsArePlaces
<1>5. \A x \in KP : /\ x[1] \in Thread /\ x = <<x[1], x[2]>> /\ x[2] \in Nat \ {0}
                    /\ LiftAt(scope[x[1]], x[2]) # NoQubit
  <2> SUFFICES ASSUME NEW t \in Thread, NEW k \in LiftsOf(t)
               PROVE  k \in Nat \ {0} /\ LiftAt(scope[t], k) # NoQubit
    OBVIOUS
  <2> QED BY LiftsArePlaces
<1>6. \A t \in Thread, j \in Nat \ {0} : LocalAt(scope[t], j) # NoQubit => <<t, <<1, j>>>> \in LP
  <2>1. \A t \in Thread : \A l \in LocalsOf(t) : <<t, l>> \in LP
    OBVIOUS
  <2>2. \A t \in Thread, j \in Nat \ {0} : LocalAt(scope[t], j) # NoQubit => <<1, j>> \in LocalsOf(t)
    BY LocalsArePlaces
  <2> HIDE DEF LP
  <2> QED BY <2>1, <2>2
<1>7. \A t \in Thread, k \in Nat \ {0} : LiftAt(scope[t], k) # NoQubit => <<t, k>> \in KP
  BY LiftsArePlaces
<1> HIDE DEF LP, KP, own
<1>8. /\ ml \in [LP -> Place] /\ (\A x, y \in LP : ml[x] = ml[y] => x = y)
      /\ \A x \in LP : own[ml[x]] # NoQubit
  <2>1. \A x \in LP : LocalPlace(x[1], x[2][2]) \in Place
    BY <1>4, Places
  <2>2. ASSUME NEW x \in LP, NEW y \in LP, ml[x] = ml[y]
        PROVE  x = y
    <3>1. x[1] = y[1] /\ x[2][2] = y[2][2]
      BY <2>2, PlacesDiffer
    <3> QED BY <1>4, <3>1
  <2> QED BY <1>3, <1>4, <2>1, <2>2
<1>9. /\ mk \in [KP -> Place] /\ (\A x, y \in KP : mk[x] = mk[y] => x = y)
      /\ \A x \in KP : own[mk[x]] # NoQubit
  <2>1. \A x \in KP : LiftPlace(x[1], x[2]) \in Place
    BY <1>5, Places
  <2>2. ASSUME NEW x \in KP, NEW y \in KP, mk[x] = mk[y]
        PROVE  x = y
    <3>1. x[1] = y[1] /\ x[2] = y[2]
      BY <2>2, PlacesDiffer
    <3> QED BY <1>5, <3>1
  <2> QED BY <1>3, <1>5, <2>1, <2>2
<1>10. F \subseteq Given(own)
  BY <1>3, Places DEF Given, NoQubit, Nothing
<1>11. \A q \in Given(own) : q \in F \/ q \in L \/ q \in K
  <2> SUFFICES ASSUME NEW p \in Place, own[p] # NoQubit
               PROVE  own[p] \in F \/ own[p] \in L \/ own[p] \in K
    BY <1>3 DEF Given, NoQubit, Nothing
  <2>1. CASE \E f \in Flag : p = FlagPlace(f)
    BY <1>3, <2>1
  <2>2. ASSUME NEW t \in Thread, NEW j \in Nat \ {0}, p = LocalPlace(t, j)
        PROVE  own[p] \in L
    <3>1. <<t, <<1, j>>>> \in LP
      BY <1>3, <1>6, <2>2
    <3>2. ml[<<t, <<1, j>>>>] = p
      BY <2>2, <3>1
    <3> QED BY <3>1, <3>2
  <2>3. ASSUME NEW t \in Thread, NEW k \in Nat \ {0}, p = LiftPlace(t, k)
        PROVE  own[p] \in K
    <3>1. <<t, k>> \in KP
      BY <1>3, <1>7, <2>3
    <3>2. mk[<<t, k>>] = p
      BY <2>3, <3>1
    <3> QED BY <3>1, <3>2
  <2> QED BY <2>1, <2>2, <2>3, Places
<1>12. \A p, r \in Place : own[p] # NoQubit /\ own[p] = own[r] => p = r
  BY OneOwner DEF own
<1>13. F \cap L = {} /\ (F \cup L) \cap K = {}
  <2>1. \A f \in Flag, x \in LP : flag[f].qubit # own[ml[x]]
    BY <1>3, <1>8, <1>12, Places, PlacesDiffer
  <2>2. \A f \in Flag, x \in KP : flag[f].qubit # own[mk[x]]
    BY <1>3, <1>9, <1>12, Places, PlacesDiffer
  <2>3. \A x \in LP, y \in KP : own[ml[x]] # own[mk[y]]
    BY <1>8, <1>9, <1>12, PlacesDiffer
  <2> QED BY <2>1, <2>2, <2>3
<1> HIDE DEF ml, mk
<1>14. L \subseteq Given(own) /\ Cardinality(LP) = Cardinality(L)
  <2> HIDE DEF LP
  <2> QED BY <1>8, PlacesAreCounted DEF own
<1>15. K \subseteq Given(own) /\ Cardinality(KP) = Cardinality(K)
  BY <1>9, PlacesAreCounted DEF own
<1> HIDE DEF F, L, K
<1>16. IsFiniteSet(F) /\ IsFiniteSet(L) /\ IsFiniteSet(K)
  BY <1>2, <1>10, <1>14, <1>15, FS_Subset
<1>17. Given(own) = (F \cup L) \cup K
  BY <1>10, <1>11, <1>14, <1>15
<1>18. IsFiniteSet(F \cup L) /\ Cardinality(F \cup L) = Cardinality(F) + Cardinality(L) - Cardinality({})
  BY <1>13, <1>16, FS_Union
<1>19. Cardinality((F \cup L) \cup K) = Cardinality(F \cup L) + Cardinality(K) - Cardinality({})
  BY <1>13, <1>16, <1>18, FS_Union
<1>20. Cardinality({}) = 0 /\ Cardinality(F) \in Nat /\ Cardinality(L) \in Nat /\ Cardinality(K) \in Nat
  BY <1>16, FS_EmptySet, FS_CardinalityType
<1>21. in_use_ = Cardinality(F) + Cardinality(LP) + Cardinality(KP)
  BY <1>2, <1>14, <1>15, <1>17, <1>18, <1>19, <1>20
<1> QED BY <1>21 DEF TemporariesAreCounted, F, LP, KP

\* The pool's count is the number of flags and temporaries that have a qubit.
THEOREM CountedTemporaries ==
  ASSUME OwnContexts
  PROVE  Spec => []TemporariesAreCounted
<1>1. IInv => TemporariesAreCounted
  BY AllAreCounted
<1> QED BY <1>1, Invariance, PTL

-----------------------------------------------------------------------------
(* Nested classical conditionals. *)

\* What the abstract specification sees of a state.
Vals == [f \in Flag |-> Value(f)]
Conds == [t \in Thread |-> Names(scope[t])]

\* The abstract actions, on what it sees.
LEMMA Mapping ==
  /\ \A f \in Flag : /\ Conds' = [Conds EXCEPT ![ThreadOf[f]] = Append(Conds[ThreadOf[f]], f)]
                     /\ Vals' = Vals
                     => Branches!Enter(f)
  /\ \A t \in Thread : /\ Conds[t] # <<>>
                       /\ Conds' = [Conds EXCEPT ![t] = SubSeq(Conds[t], 1, Len(Conds[t]) - 1)]
                       /\ Vals' = Vals
                       => Branches!Leave(t)
  /\ \A f \in Flag, v \in BOOLEAN : /\ Conds[ThreadOf[f]] = <<>>
                                    /\ Vals' = [Vals EXCEPT ![f] = v]
                                    /\ Conds' = Conds
                                    => Branches!Assign(f, v)
  /\ Vals' = Vals /\ Conds' = Conds => UNCHANGED Branches!branchVars
<1>1. ASSUME NEW f \in Flag, Conds' = [Conds EXCEPT ![ThreadOf[f]] = Append(Conds[ThreadOf[f]], f)], Vals' = Vals
      PROVE  Branches!Enter(f)
  BY <1>1 DEF Branches!Enter, Vals, Conds, Names
<1>2. ASSUME NEW t \in Thread, Conds[t] # <<>>, Vals' = Vals,
             Conds' = [Conds EXCEPT ![t] = SubSeq(Conds[t], 1, Len(Conds[t]) - 1)]
      PROVE  Branches!Leave(t)
  BY <1>2 DEF Branches!Leave, Vals, Conds, Names
<1>3. ASSUME NEW f \in Flag, NEW v \in BOOLEAN, Conds[ThreadOf[f]] = <<>>, Conds' = Conds,
             Vals' = [Vals EXCEPT ![f] = v]
      PROVE  Branches!Assign(f, v)
  BY <1>3 DEF Branches!Assign, Vals, Conds, Names
<1>4. ASSUME Vals' = Vals, Conds' = Conds
      PROVE  UNCHANGED Branches!branchVars
  BY <1>4 DEF Branches!branchVars, Vals, Conds, Names
<1> QED BY <1>1, <1>2, <1>3, <1>4

\* A statement in a body acts in the basis states its conditions hold in.
LEMMA MappedToggle ==
  ASSUME NEW f \in Flag, NEW operands \in SUBSET Flag,
         f \notin Conditions(ThreadOf[f]) \cup operands,
         Conds' = Conds,
         Vals' = [Vals EXCEPT ![f] = Vals[f] # ((\A g \in Conditions(ThreadOf[f]) : Value(g))
                                                  /\ \A g \in operands : Value(g))],
         \A g \in Conditions(ThreadOf[f]) : g \in Flag
  PROVE  Branches!Toggle(f, operands)
<1> DEFINE t == ThreadOf[f]
<1>1. t \in Thread
  BY ThreadOfAssumption
<1>2. Branches!Conditions(t) = Conditions(t)
  <2>1. Conds[t] = Names(scope[t]) /\ Len(Names(scope[t])) = Len(scope[t])
    BY <1>1 DEF Conds, Names
  <2> QED BY <1>1, <2>1 DEF Branches!Conditions, Conditions, Conds, Names
<1>3. Branches!Taken(t) <=> \A g \in Conditions(t) : Value(g)
  BY <1>2 DEF Branches!Taken
<1> QED BY <1>1, <1>2, <1>3 DEF Branches!Toggle, Vals, Conds, Names

\* The scopes of other threads stay what they are.
LEMMA CondsChange ==
  ASSUME IInv, NEW t \in Thread, scope' = [scope EXCEPT ![t] = scope'[t]]
  PROVE  Conds' = [Conds EXCEPT ![t] = Names(scope'[t])] /\ Conds[t] = Names(scope[t])
BY DEF Conds, IInv, TypeOK, Names

\* The value of a flag is a boolean.
LEMMA ValueType ==
  ASSUME IInv, NEW f \in Flag
  PROVE  Value(f) \in BOOLEAN
<1>1. flag \in [Flag -> Qbool] /\ bit \in [Context -> [Qubit -> BOOLEAN]] /\ ContextOf(ThreadOf[f]) \in Context
  BY ThreadOfAssumption, ContextType DEF IInv, TypeOK
<1>2. flag[f] \in Qbool
  BY <1>1
<1>3. CASE HasQubit(flag[f])
  <2>1. flag[f].qubit \in Qubit
    BY <1>3, FlagQubit
  <2> QED BY <1>1, <1>3, <2>1 DEF Value
<1>4. CASE ~HasQubit(flag[f])
  BY <1>2, <1>4 DEF Value, Qbool
<1> QED BY <1>3, <1>4

\* WHEN(f) and lift_under(f, body) enter a conditional.
LEMMA EnterMaps ==
  ASSUME OwnContexts, IInv, NEW t \in Thread, NEW f \in Flag, Enter(t, f)
  PROVE  Branches!Enter(f)
<1>1. ThreadOf[f] = t
  BY DEF Enter, EnterWhen, EnterNested, LiftUnder, MayEnter
<1>2. /\ scope' = [scope EXCEPT ![t] = scope'[t]]
      /\ Names(scope'[t]) = Append(Names(scope[t]), f)
      /\ \A g \in Flag : Value(g)' = Value(g)
  <2>1. CASE scope[t] = <<>> /\ EnterWhen(t, f)
    <3> DEFINE w == scope'[t][Len(scope[t]) + 1]
    <3>1. /\ scope' = [scope EXCEPT ![t] = Append(scope[t], w)] /\ w.flag = f
          /\ \A g \in Flag : \/ flag'[g] = flag[g]
                             \/ /\ flag[g].super /\ ~HasQubit(flag[g])
                                /\ flag'[g].qubit \in Qubit
                                /\ Unowned(Own(flag, scope), free_, high_water_, flag'[g].qubit)
      BY <2>1, EnterWhenKeeps
    <3> HIDE DEF w
    <3>2. scope'[t] = Append(<<>>, w)
      BY <2>1, <3>1 DEF IInv, TypeOK
    <3>3. Names(scope'[t]) = Append(Names(scope[t]), f)
      BY <2>1, <3>1, <3>2 DEF Names
    <3>4. bit' = bit
      BY <2>1 DEF EnterWhen
    <3>5. ASSUME NEW g \in Flag
          PROVE  Value(g)' = Value(g)
      <4>1. CASE flag'[g] = flag[g]
        BY <3>4, <4>1 DEF Value
      <4>2. CASE /\ flag[g].super /\ ~HasQubit(flag[g])
                 /\ flag'[g].qubit \in Qubit
                 /\ Unowned(Own(flag, scope), free_, high_water_, flag'[g].qubit)
        <5>1. Value(g) = FALSE
          BY <4>2 DEF Value
        <5>2. ContextOf(ThreadOf[g]) \in Context
          BY ThreadOfAssumption, ContextType
        <5>3. bit[ContextOf(ThreadOf[g])][flag'[g].qubit] = FALSE
          <6>1. ~bit[ContextOf(ThreadOf[g])][flag'[g].qubit]
            BY <4>2, <5>2, UnownedIsZero
          <6>2. bit[ContextOf(ThreadOf[g])][flag'[g].qubit] \in BOOLEAN
            BY <4>2, <5>2 DEF IInv, TypeOK
          <6> QED BY <6>1, <6>2
        <5>4. HasQubit(flag'[g])
          BY <4>2 DEF HasQubit, Qubit, NoQubit
        <5>5. Value(g)' = bit[ContextOf(ThreadOf[g])][flag'[g].qubit]
          BY <3>4, <5>4 DEF Value
        <5> QED BY <5>1, <5>3, <5>5
      <4> QED BY <3>1, <4>1, <4>2
    <3>6. scope' = [scope EXCEPT ![t] = scope'[t]]
      BY <3>1 DEF IInv, TypeOK
    <3> QED BY <3>3, <3>5, <3>6
  <2>2. CASE Innermost(t, {"named"}) /\ SameKind(t, f) /\ EnterNested(t, f)
    BY <2>2, EnterNestedClassical, EnterNestedQuantum
  <2>3. CASE LiftUnder(t, f)
    BY <2>3, LiftUnderKeeps
  <2> QED BY <2>1, <2>2, <2>3 DEF Enter
<1>3. Conds' = [Conds EXCEPT ![t] = Append(Conds[t], f)]
  BY <1>2, CondsChange
<1>4. Vals' = Vals
  BY <1>2 DEF Vals
<1> QED BY <1>1, <1>3, <1>4, Mapping

\* The end of a scope leaves a conditional; a temporary that goes back is not
\* seen.
LEMMA LeaveMaps ==
  ASSUME OwnContexts, IInv, NEW t \in Thread, Leave(t)
  PROVE  Branches!Leave(t) \/ UNCHANGED Branches!branchVars
<1>1. CASE EndLocal(t)
  <2>1. scope' = [scope EXCEPT ![t] = scope'[t]] /\ Names(scope'[t]) = Names(scope[t])
    BY <1>1, EndLocalKeeps
  <2>2. Conds' = Conds
    BY <2>1, CondsChange DEF Conds
  <2>3. Vals' = Vals
    BY <1>1 DEF EndLocal, Vals, Value
  <2> QED BY <2>2, <2>3, Mapping
<1>2. CASE LeaveWhen(t) \/ LeaveNested(t) \/ LeaveLift(t)
  <2>1. /\ scope' = [scope EXCEPT ![t] = scope'[t]] /\ scope'[t] = Popped(t)
        /\ scope[t] # <<>> /\ \A g \in Flag : Value(g)' = Value(g)
    BY <1>2, LeaveWhenKeeps, LeaveNestedKeeps, LeaveLiftKeeps
  <2> DEFINE s == scope[t]  n == Len(s)
  <2>2. s \in Seq(Scope) /\ n \in Nat \ {0}
    BY <2>1, LocalFacts, ThreadControl
  <2>3. /\ Popped(t) \in Seq(Scope) /\ Len(Popped(t)) = n - 1
        /\ \A k \in 1..(n - 1) : Popped(t)[k] = s[k]
    BY <2>1, <2>2, Shortened DEF Popped
  <2> HIDE DEF s
  <2>4. /\ Names(s) \in Seq({s[k].flag : k \in 1..n}) /\ Len(Names(s)) = n /\ Names(s) # <<>>
        /\ \A k \in 1..n : Names(s)[k] = s[k].flag
    BY <2>2 DEF Names
  <2>5. /\ SubSeq(Names(s), 1, n - 1) \in Seq({s[k].flag : k \in 1..n})
        /\ Len(SubSeq(Names(s), 1, n - 1)) = n - 1
        /\ \A k \in 1..(n - 1) : SubSeq(Names(s), 1, n - 1)[k] = Names(s)[k]
    BY <2>4, Shortened
  <2>6. Names(Popped(t)) = SubSeq(Names(s), 1, n - 1)
    <3>1. Names(Popped(t)) = [k \in 1..(n - 1) |-> s[k].flag]
      BY <2>3 DEF Names
    <3>2. SubSeq(Names(s), 1, n - 1) = [k \in 1..(n - 1) |-> s[k].flag]
      BY <2>2, <2>4, <2>5
    <3> QED BY <3>1, <3>2
  <2>7. Conds' = [Conds EXCEPT ![t] = Names(Popped(t))] /\ Conds[t] = Names(s)
    BY <2>1, CondsChange DEF s
  <2>8. Conds[t] # <<>> /\ Conds' = [Conds EXCEPT ![t] = SubSeq(Conds[t], 1, Len(Conds[t]) - 1)]
    BY <2>4, <2>6, <2>7
  <2>9. Vals' = Vals
    BY <2>1 DEF Vals
  <2> QED BY <2>8, <2>9, Mapping
<1> QED BY <1>1, <1>2 DEF Leave

\* What the program says when no scope of the thread changes.
LEMMA CondsKept ==
  ASSUME UNCHANGED guardVars
  PROVE  Conds' = Conds
BY DEF Conds, guardVars

\* A gate on f toggles its value in the branches that are taken.
LEMMA GateMaps ==
  ASSUME OwnContexts, IInv, NEW t \in Thread, NEW f \in Flag, NEW operands \in SUBSET Flag,
         GateOn(t, f, operands)
  PROVE  Branches!Toggle(f, operands)
<1> DEFINE c == ContextOf(t)  q == flag[f].qubit
           on == Controlled(t) /\ \A g \in operands : Value(g)
<1>1. /\ InBody(t) /\ ThreadOf[f] = t /\ f \notin Conditions(t) /\ HasQubit(flag[f])
      /\ (\A g \in operands : g # f) /\ flag' = flag /\ UNCHANGED guardVars
      /\ bit' = [bit EXCEPT ![c] = [bit[c] EXCEPT ![q] = bit[c][q] # on]]
  BY DEF GateOn, MayChange
<1>2. /\ q \in Qubit /\ \A g \in Flag : flag[g].qubit = q => g = f
  BY <1>1, FlagQubit
<1>3. /\ c \in Context /\ bit \in [Context -> [Qubit -> BOOLEAN]] /\ flag \in [Flag -> Qbool]
  BY ContextType DEF IInv, TypeOK
<1>4. on <=> (\A g \in Conditions(t) : Value(g)) /\ \A g \in operands : Value(g)
  BY <1>1, ControlOfBody
<1> HIDE DEF on
<1>5. bit'[c][q] = (bit[c][q] # on) /\ \A d \in Context, j \in Qubit : (d = c /\ j = q) \/ bit'[d][j] = bit[d][j]
  BY <1>1, <1>2, <1>3
<1>6. Value(f)' = (Value(f) # on)
  BY <1>1, <1>5 DEF Value
<1>7. ASSUME NEW g \in Flag, g # f
      PROVE  Value(g)' = Value(g)
  <2>1. ContextOf(ThreadOf[g]) \in Context
    BY ThreadOfAssumption, ContextType
  <2>2. HasQubit(flag[g]) => flag[g].qubit \in Qubit /\ flag[g].qubit # q
    BY <1>2, <1>7, FlagQubit
  <2> QED BY <1>1, <1>5, <2>1, <2>2 DEF Value
<1>8. Vals' = [Vals EXCEPT ![f] = Vals[f] # on]
  BY <1>6, <1>7 DEF Vals
<1>9. \A g \in Conditions(t) : g \in Flag
  BY ThreadControl, ScopeFacts DEF Conditions, Scope
<1>10. on = ((\A g \in Conditions(t) : Value(g)) /\ \A g \in operands : Value(g))
  BY <1>4 DEF on
<1>11. Conds' = Conds
  BY <1>1, CondsKept
<1> QED BY <1>1, <1>8, <1>9, <1>10, <1>11, MappedToggle

\* The program's statements assign a value outside of every scope, or toggle.
LEMMA StatementMaps ==
  ASSUME OwnContexts, IInv, NEW t \in Thread, NEW f \in Flag, Statement(t, f)
  PROVE  \/ \E v \in BOOLEAN : Branches!Assign(f, v)
         \/ \E operands \in SUBSET Flag : Branches!Toggle(f, operands)
<1> DEFINE c == ContextOf(t)
<1>1. /\ c \in Context /\ bit \in [Context -> [Qubit -> BOOLEAN]] /\ flag \in [Flag -> Qbool]
      /\ scope \in [Thread -> Seq(Scope)]
  BY ContextType DEF IInv, TypeOK
<1>2. CASE Prepare(t, f)
  <2>1. PICK i \in Qubit, v \in BOOLEAN :
          /\ Allocate(i) /\ flag' = [flag EXCEPT ![f] = Ancilla(i)]
          /\ bit' = [bit EXCEPT ![c][i] = v]
    BY <1>2 DEF Prepare
  <2>2. ThreadOf[f] = t /\ scope[t] = <<>> /\ UNCHANGED guardVars
    BY <1>2 DEF Prepare, MayChange
  <2>3. \A g \in Flag : flag[g].qubit # i
    <3>1. Unowned(Own(flag, scope), free_, high_water_, i)
      BY <2>1, AllocatedIsUnowned DEF IInv
    <3> QED BY <3>1, NotAFlag
  <2>4. /\ flag'[f] = Ancilla(i) /\ (\A g \in Flag \ {f} : flag'[g] = flag[g])
        /\ bit'[c][i] = v /\ \A d \in Context, j \in Qubit : (d = c /\ j = i) \/ bit'[d][j] = bit[d][j]
    BY <1>1, <2>1
  <2>5. Value(f)' = v
    BY <2>2, <2>4 DEF Value, Ancilla, HasQubit, Qubit, NoQubit
  <2>6. ASSUME NEW g \in Flag, g # f
        PROVE  Value(g)' = Value(g)
    <3>1. ContextOf(ThreadOf[g]) \in Context
      BY ThreadOfAssumption, ContextType
    <3>2. HasQubit(flag[g]) => flag[g].qubit \in Qubit /\ flag[g].qubit # i
      BY <2>3, FlagQubit
    <3> QED BY <2>4, <2>6, <3>1, <3>2 DEF Value
  <2>7. Vals' = [Vals EXCEPT ![f] = v]
    BY <2>5, <2>6 DEF Vals
  <2>8. Conds[t] = <<>> /\ Conds' = Conds
    BY <2>2, CondsKept DEF Conds, Names
  <2>9. Branches!Assign(f, v)
    BY <2>2, <2>7, <2>8, Mapping
  <2> QED BY <2>9
<1>3. CASE Flip(t, f)
  BY <1>3, StatementGateKeeps, GateMaps
<1>4. CASE ~flag[f].value /\ PromoteAndFlip(t, f)
  <2>1. PICK i \in Qubit : /\ flag' = [flag EXCEPT ![f].qubit = i, ![f].super = TRUE]
                           /\ bit' = [bit EXCEPT ![c][i] = Controlled(t)]
                           /\ Unowned(Own(flag, scope), free_, high_water_, i)
    BY <1>4, PromoteKeeps
  <2>2. ThreadOf[f] = t /\ InBody(t) /\ f \notin Conditions(t) /\ ~HasQubit(flag[f]) /\ UNCHANGED guardVars
    BY <1>4 DEF PromoteAndFlip, MayChange
  <2>3. \A g \in Flag : flag[g].qubit # i
    BY <2>1, NotAFlag
  <2>4. /\ flag'[f].qubit = i /\ (\A g \in Flag \ {f} : flag'[g] = flag[g])
        /\ bit'[c][i] = Controlled(t)
        /\ \A d \in Context, j \in Qubit : (d = c /\ j = i) \/ bit'[d][j] = bit[d][j]
    <3>1. flag[f] \in Qbool
      BY <1>1
    <3> QED BY <1>1, <2>1, <3>1 DEF Qbool
  <2>5. Value(f)' = Controlled(t)
    BY <2>2, <2>4 DEF Value, HasQubit, Qubit, NoQubit
  <2>6. Value(f) = FALSE
    BY <1>4, <2>2 DEF Value
  <2>7. Controlled(t) = ((\A g \in Conditions(t) : Value(g)) /\ \A g \in {} : Value(g))
    <3>1. Controlled(t) <=> \A g \in Conditions(t) : Value(g)
      BY <2>2, ControlOfBody
    <3>2. Controlled(t) \in BOOLEAN
      BY DEF Controlled
    <3> QED BY <3>1, <3>2
  <2>8. ASSUME NEW g \in Flag, g # f
        PROVE  Value(g)' = Value(g)
    <3>1. ContextOf(ThreadOf[g]) \in Context
      BY ThreadOfAssumption, ContextType
    <3>2. HasQubit(flag[g]) => flag[g].qubit \in Qubit /\ flag[g].qubit # i
      BY <2>3, FlagQubit
    <3> QED BY <2>4, <2>8, <3>1, <3>2 DEF Value
  <2>9. Value(f)' = (Value(f) # ((\A g \in Conditions(t) : Value(g)) /\ \A g \in {} : Value(g)))
    BY <2>5, <2>6, <2>7
  <2>10. Vals' = [Vals EXCEPT ![f] = Vals[f] # ((\A g \in Conditions(t) : Value(g))
                                                  /\ \A g \in {} : Value(g))]
    BY <2>8, <2>9 DEF Vals
  <2>11. \A g \in Conditions(t) : g \in Flag
    BY ThreadControl, ScopeFacts DEF Conditions, Scope
  <2>12. Conds' = Conds
    BY <2>2, CondsKept
  <2>13. Branches!Toggle(f, {})
    BY <2>2, <2>10, <2>11, <2>12, MappedToggle
  <2> QED BY <2>13
<1>5. ASSUME NEW g \in Flag, Copy(t, f, g)
      PROVE  \E v \in BOOLEAN : Branches!Assign(f, v)
  <2>1. /\ ThreadOf[f] = t /\ scope[t] = <<>> /\ UNCHANGED guardVars /\ bit' = bit
        /\ flag' = [flag EXCEPT ![f] = [flag[g] EXCEPT !.qubit = NoQubit]]
    BY <1>5 DEF Copy, MayChange
  <2>2. \A h \in Flag \ {f} : flag'[h] = flag[h]
    BY <1>1, <2>1
  <2>3. \A h \in Flag \ {f} : Value(h)' = Value(h)
    BY <2>1, <2>2 DEF Value
  <2>4. IInv'
    BY <1>5, CopyKeeps
  <2>5. Value(f)' \in BOOLEAN
    <3>1. flag'[f] = [flag[g] EXCEPT !.qubit = NoQubit] /\ flag[g] \in Qbool
      BY <1>1, <2>1
    <3>2. ~HasQubit(flag'[f])
      BY <3>1 DEF HasQubit, Qbool
    <3> QED BY <3>2 DEF Value
  <2>6. Vals' = [Vals EXCEPT ![f] = Value(f)']
    BY <2>3 DEF Vals
  <2>7. Conds[t] = <<>> /\ Conds' = Conds
    BY <2>1, CondsKept DEF Conds, Names
  <2>8. Branches!Assign(f, Value(f)')
    BY <2>1, <2>5, <2>6, <2>7, Mapping
  <2> QED BY <2>5, <2>8
<1>6. ASSUME NEW g \in Flag, XorInto(t, f, g)
      PROVE  \E operands \in SUBSET Flag : Branches!Toggle(f, operands)
  BY <1>6, StatementGateKeeps, GateMaps
<1>7. ASSUME NEW g \in Flag, NEW h \in Flag, AndInto(t, f, g, h)
      PROVE  \E operands \in SUBSET Flag : Branches!Toggle(f, operands)
  BY <1>7, StatementGateKeeps, GateMaps
<1>8. ASSUME NEW g \in Flag, NEW h \in Flag,
             current_control[t] = NoControl, FuseInto(t, f, g, h)
      PROVE  \E operands \in SUBSET Flag : Branches!Toggle(f, operands)
  BY <1>8, StatementGateKeeps, GateMaps
<1> QED BY <1>2, <1>3, <1>4, <1>5, <1>6, <1>7, <1>8 DEF Statement

\* In every basis state a program with its scopes lowered does what nested
\* classical conditionals would do.
THEOREM ImplementsBranching ==
  ASSUME OwnContexts
  PROVE  Spec => BranchingSpec
<1>1. Init => Branches!Init
  <2> SUFFICES ASSUME Init
               PROVE  Branches!Init
    OBVIOUS
  <2>1. \A f \in Flag : Value(f) \in BOOLEAN
    BY InitHolds, ValueType
  <2>2. \A t \in Thread : [k \in 1..Len(scope[t]) |-> scope[t][k].flag] = <<>>
    BY DEF Init
  <2> QED BY <2>1, <2>2 DEF Branches!Init
<1>2. IInv /\ [Next]_vars => [Branches!Next]_(Branches!branchVars)
  <2> SUFFICES ASSUME IInv, [Next]_vars
               PROVE  Branches!Next \/ UNCHANGED Branches!branchVars
    OBVIOUS
  <2>1. ASSUME NEW t \in Thread, Leave(t)
        PROVE  Branches!Next \/ UNCHANGED Branches!branchVars
    BY <2>1, LeaveMaps DEF Branches!Next
  <2>2. ASSUME NEW t \in Thread, NEW f \in Flag, Enter(t, f)
        PROVE  Branches!Next
    BY <2>2, EnterMaps DEF Branches!Next
  <2>3. ASSUME NEW t \in Thread, NEW f \in Flag, Statement(t, f)
        PROVE  Branches!Next
    BY <2>3, StatementMaps DEF Branches!Next
  <2>4. CASE UNCHANGED vars
    <3>1. Vals' = Vals /\ Conds' = Conds
      BY <2>4 DEF vars, guardVars, Vals, Conds, Value
    <3> QED BY <3>1, Mapping
  <2> QED BY <2>1, <2>2, <2>3, <2>4 DEF Next
<1> QED BY <1>1, <1>2, Invariance, PTL DEF Spec, BranchingSpec, Branches!Spec
==============================================================================
