------------------------------ MODULE Registers ------------------------------
(***************************************************************************)
(* The qint_t<Width> objects of a program (a qbool is the Width = 1 case), *)
(* which own the qubits they take from the pool: constructors, moves,      *)
(* assignments and the destructor (include/sturm/qtypes/qint_core.hpp,     *)
(* qbool.hpp), the lazy promotion of a bit, the compound operators that    *)
(* relabel a register, and library calls that keep ancillas in locals.     *)
(*                                                                         *)
(* Objects are confined to a thread, the pool is shared by all of them.  A *)
(* loop over a register's bits takes the pool's mutex once per bit, so it  *)
(* is one step per bit and other threads run in between.                   *)
(*                                                                         *)
(* value and super_mask are left out: no ownership decision reads them.    *)
(***************************************************************************)
EXTENDS QubitPool, FiniteSets

CONSTANTS
  Thread,
  Register,      \* storage for objects; dead until constructed
  ThreadOf,      \* the thread that uses a register
  Width,
  MaxHighWater,  \* bound: how many indices the pool may issue
  Idle           \* a thread that is not inside a library call

ASSUME ThreadOfAssumption == ThreadOf \in [Register -> Thread]
ASSUME WidthAssumption == Width \in Nat \ {0}
ASSUME BoundAssumption == MaxHighWater \in Nat
ASSUME HolderAssumption == Register \cap Thread = {}

Qubit == 0..(MaxHighWater - 1)
Bit == 0..(Width - 1)
Unallocated == -1
NoQubits == [i \in Bit |-> Unallocated]

Object == [live : BOOLEAN, qubits : [Bit -> Nat \cup {Unallocated}], owning : BOOLEAN]

Dead == [live |-> FALSE, qubits |-> NoQubits, owning |-> TRUE]
Fresh == [live |-> TRUE, qubits |-> NoQubits, owning |-> TRUE]
MovedFrom == [live |-> TRUE, qubits |-> NoQubits, owning |-> FALSE]

\* A library call in progress: bit is the loop counter, tmp the qubits it
\* keeps in locals (res_idx[W], an ancilla block, or what the loop over
\* `qubits` has still to release).
Operation == {"destroy", "assign", "move_assign", "promote", "relabel", "ancilla"}
Phase == {"acquire", "release", "relabel", "promote"}
Call == [op : Operation, phase : Phase, dst : Register, src : Register,
         bit : 0..Width, tmp : [Bit -> Nat \cup {Unallocated}]]

ASSUME IdleAssumption == Idle \notin Call

VARIABLES
  reg,    \* the objects
  call,   \* what each thread is doing
  stray   \* history: indices that were put in an object that does not own
          \* what it has, so that no destructor will give them back

vars == <<poolVars, reg, call, stray>>

Init ==
  /\ PoolInit
  /\ reg = [r \in Register |-> Dead]
  /\ call = [t \in Thread |-> Idle]
  /\ stray = {}

TypeOK ==
  /\ PoolTypeOK
  /\ reg \in [Register -> Object]
  /\ call \in [Thread -> Call \cup {Idle}]
  /\ stray \subseteq Nat

-----------------------------------------------------------------------------
(* Operations that leave the pool alone. *)

\* The program is at a point where it may start an operation on r.
Ready(r) == call[ThreadOf[r]] = Idle
Peers(r, s) == r # s /\ ThreadOf[r] = ThreadOf[s]

\* qint_t(), qint_t(int64_t), qbool(), qbool(bool): no qubit until one is needed.
\* The copy constructor ends up in the same state, whatever it copies.
Construct(r) ==
  /\ Ready(r) /\ ~reg[r].live
  /\ reg' = [reg EXCEPT ![r] = Fresh]
  /\ UNCHANGED <<poolVars, call, stray>>

\* Mutant: the source keeps its qubits and its ownership.
MoveConstructKeepsSource(r, s) ==
  /\ Ready(r) /\ Peers(r, s) /\ ~reg[r].live /\ reg[s].live
  /\ reg' = [reg EXCEPT ![r] = reg[s]]
  /\ UNCHANGED <<poolVars, call, stray>>

\* qint_t(qint_t&&): qubits and ownership change hands.
MoveConstruct(r, s) ==
  /\ Ready(r) /\ Peers(r, s) /\ ~reg[r].live /\ reg[s].live
  /\ reg' = [reg EXCEPT ![r] = reg[s], ![s] = MovedFrom]
  /\ UNCHANGED <<poolVars, call, stray>>

\* make_non_owning, operator[] const and the explicit conversion to qbool:
\* the same qubits, without the duty to release them.
MakeNonOwning(r, s) ==
  /\ Ready(r) /\ Peers(r, s) /\ ~reg[r].live /\ reg[s].live
  /\ reg' = [reg EXCEPT ![r] = [reg[s] EXCEPT !.owning = FALSE]]
  /\ UNCHANGED <<poolVars, call, stray>>

\* qint_t(const qbool&) copies the index of s and leaves owning_ at its default.
ConvertFromQbool(r, s) ==
  /\ Ready(r) /\ Peers(r, s) /\ ~reg[r].live /\ reg[s].live
  /\ reg' = [reg EXCEPT ![r] = [Fresh EXCEPT !.qubits[0] = reg[s].qubits[0]]]
  /\ UNCHANGED <<poolVars, call, stray>>

-----------------------------------------------------------------------------
(* Operations that take the pool's mutex once. *)

\* Bound: an operation starts only if the pool can still serve it and the
\* acquiring loops of the other threads within MaxHighWater indices.
Acquiring == {t \in Thread : call[t] # Idle /\ call[t].phase \in {"acquire", "promote"}}
Room(n) == Len(free_) + MaxHighWater - high_water_ >= n + Width * Cardinality(Acquiring)

\* What is astray once r has been given idx.
Astray(r, idx) ==
  IF reg[r].owning \/ idx = Unallocated THEN stray ELSE stray \cup {idx}

\* ensure_qubit() and BitProxy::ensure_quantum(): a bit without a qubit gets
\* one, also in an object that was moved from or in a view, whose destructor
\* does not give it back.
EnsureBit(r, i) ==
  /\ Ready(r) /\ reg[r].live /\ reg[r].qubits[i] = Unallocated /\ Room(1)
  /\ \E idx \in Qubit :
        /\ Allocate(idx)
        /\ reg' = [reg EXCEPT ![r].qubits[i] = idx]
        /\ stray' = Astray(r, idx)
  /\ UNCHANGED call

-----------------------------------------------------------------------------
(* Operations that loop over the bits. *)

Frame(op, phase, r, s, tmp) ==
  [op |-> op, phase |-> phase, dst |-> r, src |-> s, bit |-> 0, tmp |-> tmp]

\* What the release loop of r will hand back: everything, if r owns it.
ToRelease(r) == IF reg[r].owning THEN reg[r].qubits ELSE NoQubits

\* ~qint_t, operator=(const&), operator=(&&), operator=(int64_t) all start by
\* releasing what the object has.  The result of a copy assignment or of an
\* integer assignment does not depend on the source ("assign"); assigning an
\* object to itself is a no-op.
StartRelease(op, r, s) ==
  /\ Ready(r) /\ reg[r].live
  /\ IF op = "move_assign" THEN Peers(r, s) /\ reg[s].live ELSE s = r
  /\ call' = [call EXCEPT ![ThreadOf[r]] = Frame(op, "release", r, s, ToRelease(r))]
  /\ UNCHANGED <<poolVars, reg, stray>>

\* phi()/theta() += on a register with no qubit at all promotes every bit,
\* whether or not it owns what it has.
StartPromote(r) ==
  /\ Ready(r) /\ reg[r].live /\ reg[r].qubits = NoQubits /\ Room(Width)
  /\ call' = [call EXCEPT ![ThreadOf[r]] = Frame("promote", "promote", r, r, NoQubits)]
  /\ UNCHANGED <<poolVars, reg, stray>>

\* &= and |= build the result in new qubits, then give r those instead.
StartRelabel(r) ==
  /\ Ready(r) /\ reg[r].live /\ Room(Width)
  /\ call' = [call EXCEPT ![ThreadOf[r]] = Frame("relabel", "acquire", r, r, NoQubits)]
  /\ UNCHANGED <<poolVars, reg, stray>>

\* A lifted gate or library routine that borrows ancillas and hands them back.
StartAncilla(r) ==
  /\ Ready(r) /\ reg[r].live /\ Room(Width)
  /\ call' = [call EXCEPT ![ThreadOf[r]] = Frame("ancilla", "acquire", r, r, NoQubits)]
  /\ UNCHANGED <<poolVars, reg, stray>>

InPhase(t, phase) == call[t] # Idle /\ call[t].phase = phase

AcquireStep(t) ==
  /\ InPhase(t, "acquire") /\ call[t].bit < Width
  /\ \E idx \in Qubit :
        /\ Allocate(idx)
        /\ call' = [call EXCEPT ![t].tmp[call[t].bit] = idx, ![t].bit = @ + 1]
  /\ UNCHANGED <<reg, stray>>

\* All qubits acquired: hand them back, or relabel the register with them.
AcquireDone(t) ==
  /\ InPhase(t, "acquire") /\ call[t].bit = Width
  /\ call' = [call EXCEPT ![t].bit = 0,
                          ![t].phase = IF call[t].op = "relabel" THEN "relabel" ELSE "release"]
  /\ UNCHANGED <<poolVars, reg, stray>>

\* Mutant: the test for an allocated bit is missing.
ReleaseAlways(idx) == Release(idx)

\* if (idx >= 0) QubitPool::instance().release(idx)
ReleaseIfAllocated(idx) ==
  IF idx = Unallocated THEN UNCHANGED poolVars ELSE Release(idx)

ReleaseStep(t) ==
  /\ InPhase(t, "release") /\ call[t].bit < Width
  /\ ReleaseIfAllocated(call[t].tmp[call[t].bit])
  /\ call' = [call EXCEPT ![t].bit = @ + 1]
  /\ UNCHANGED <<reg, stray>>

\* What the objects are once the release loop of c is over.
AfterRelease(c) ==
  CASE c.op = "destroy"     -> [reg EXCEPT ![c.dst] = Dead]
    [] c.op = "assign"      -> [reg EXCEPT ![c.dst] = Fresh]
    [] c.op = "move_assign" -> [reg EXCEPT ![c.dst] = reg[c.src], ![c.src] = MovedFrom]
    [] OTHER                -> reg

ReleaseDone(t) ==
  /\ InPhase(t, "release") /\ call[t].bit = Width
  /\ reg' = AfterRelease(call[t])
  /\ call' = [call EXCEPT ![t] = Idle]
  /\ UNCHANGED <<poolVars, stray>>

\* Mutant: the old qubit is dropped, never released.
RelabelStepLeaks(t) ==
  /\ InPhase(t, "relabel") /\ call[t].bit < Width
  /\ reg' = [reg EXCEPT ![call[t].dst].qubits[call[t].bit] = call[t].tmp[call[t].bit]]
  /\ stray' = Astray(call[t].dst, call[t].tmp[call[t].bit])
  /\ call' = [call EXCEPT ![t].bit = @ + 1]
  /\ UNCHANGED poolVars

\* The old qubit goes back to the pool, whether or not r owns it.
RelabelStep(t) ==
  /\ InPhase(t, "relabel") /\ call[t].bit < Width
  /\ ReleaseIfAllocated(reg[call[t].dst].qubits[call[t].bit])
  /\ reg' = [reg EXCEPT ![call[t].dst].qubits[call[t].bit] = call[t].tmp[call[t].bit]]
  /\ stray' = Astray(call[t].dst, call[t].tmp[call[t].bit])
  /\ call' = [call EXCEPT ![t].bit = @ + 1]

PromoteStep(t) ==
  /\ InPhase(t, "promote") /\ call[t].bit < Width
  /\ \E idx \in Qubit :
        /\ Allocate(idx)
        /\ reg' = [reg EXCEPT ![call[t].dst].qubits[call[t].bit] = idx]
        /\ stray' = Astray(call[t].dst, idx)
  /\ call' = [call EXCEPT ![t].bit = @ + 1]

\* A relabelling or promoting loop ends with nothing left to do.
LoopDone(t) ==
  /\ InPhase(t, "relabel") \/ InPhase(t, "promote")
  /\ call[t].bit = Width
  /\ call' = [call EXCEPT ![t] = Idle]
  /\ UNCHANGED <<poolVars, reg, stray>>

\* Tests start from an empty pool once no object and no call has a qubit left.
ResetForTestingStep ==
  /\ \A t \in Thread : call[t] = Idle
  /\ \A r \in Register : ~reg[r].live
  /\ ResetForTesting
  /\ stray' = {}
  /\ UNCHANGED <<reg, call>>

-----------------------------------------------------------------------------
(* The next-state relation.  A program that applies &= and |= only to       *)
(* objects that own the qubits they have is the one the rules are for.      *)

\* r has a qubit that is not its own: &= and |= would release it.
Borrows(r) == ~reg[r].owning /\ reg[r].qubits # NoQubits

ObjectStep(r) ==
  \/ Construct(r)
  \/ \E s \in Register : MoveConstruct(r, s) \/ MakeNonOwning(r, s)
  \/ \E op \in {"destroy", "assign"} : StartRelease(op, r, r)
  \/ \E s \in Register \ {r} : StartRelease("move_assign", r, s)
  \/ \E i \in Bit : EnsureBit(r, i)
  \/ StartPromote(r)
  \/ ~Borrows(r) /\ StartRelabel(r)
  \/ StartAncilla(r)

CallStep(t) ==
  \/ AcquireStep(t)
  \/ AcquireDone(t)
  \/ ReleaseStep(t)
  \/ ReleaseDone(t)
  \/ RelabelStep(t)
  \/ PromoteStep(t)
  \/ LoopDone(t)

Next ==
  \/ \E r \in Register : ObjectStep(r)
  \/ \E t \in Thread : CallStep(t)
  \/ ResetForTestingStep

Spec == Init /\ [][Next]_vars

\* The same program, which also converts a qbool to a qint_t.
SpecConverting ==
  Init /\ [][Next \/ \E r, s \in Register : ConvertFromQbool(r, s)]_vars

\* The same program, which also applies &= and |= to views.
SpecRelabellingViews ==
  Init /\ [][Next \/ \E r \in Register : StartRelabel(r)]_vars

-----------------------------------------------------------------------------
(* Who holds what. *)

\* The release loop of r is running: what r had is now its call's to hand back.
BeingReleased(r) ==
  LET c == call[ThreadOf[r]]
  IN  c # Idle /\ c.phase = "release" /\ c.op # "ancilla" /\ c.dst = r

Owns(r) == reg[r].live /\ reg[r].owning /\ ~BeingReleased(r)

\* The positions of tmp that hold a qubit: those before the counter while
\* acquiring, those the counter has not reached while releasing or relabelling.
Pending(c) == IF c.phase = "acquire" THEN 0..(c.bit - 1) ELSE c.bit..(Width - 1)

\* Slot(h, i): the qubit holder h has at position i, if any.
Holder == Register \cup Thread
Slot(h, i) ==
  IF h \in Register
    THEN IF Owns(h) THEN reg[h].qubits[i] ELSE Unallocated
    ELSE IF call[h] # Idle /\ i \in Pending(call[h]) THEN call[h].tmp[i] ELSE Unallocated

Held == [h \in Holder |-> {Slot(h, i) : i \in Bit} \ {Unallocated}]
HeldBySomeone == LET held == Held IN UNION {held[h] : h \in Holder}

-----------------------------------------------------------------------------
(* Properties. *)

\* No index has two holders, nor a holder while the free list offers it, and
\* the list offers no index twice: two allocations of any two threads never
\* return the same qubit while both are in use.  Nor is an index handed out
\* again that went astray: an object still uses it.
Exclusive ==
  /\ LET held == Held IN \A g, h \in Holder : g # h => held[g] \cap held[h] = {}
  /\ FreeSet \cap (HeldBySomeone \cup stray) = {}
  /\ stray \cap HeldBySomeone = {}
  /\ \A i, j \in 1..Len(free_) : free_[i] = free_[j] => i = j

\* An index is lost in one way only, by being put in an object that does not
\* own what it has: any other that was ever issued is free, or some object or
\* call in progress will give it back.
NoLeak == 0..(high_water_ - 1) = FreeSet \cup HeldBySomeone \cup stray

\* The qubits of an object that does not own them are managed elsewhere
\* (qint_core.hpp:69), so that none is lost at all.
ManagedElsewhere == stray = {}

\* in_use() counts the qubits that have a holder, and those that went astray.
InUseIsHeld == in_use_ = Cardinality(HeldBySomeone \cup stray)

\* An index is put on the free list only by the thread that holds it, in its
\* locals or in the object its call works on, and nobody has it from then on:
\* no release by another, none of a free index, and none by a holder who keeps
\* the index and will release it again.
ReleasedByHolder ==
  [][Len(free_') > Len(free_) =>
       LET idx == free_'[Len(free_')]
       IN  /\ \E t \in Thread : /\ call[t] # Idle /\ call'[t] # call[t]
                                /\ idx \in Held[t] \cup Held[call[t].dst]
           /\ idx \notin HeldBySomeone' \cup stray'
           /\ idx \notin FreeSet]_vars

\* The objects and the pool implement the ledger.
Ledger == INSTANCE QubitLedger WITH held <- Held, lost <- stray, Qubit <- Qubit
LedgerSpec == Ledger!Spec
==============================================================================
