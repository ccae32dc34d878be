---------------------------- MODULE GateDispatch ----------------------------
(***************************************************************************)
(* How a gate on bits becomes a gate on qubits (dispatch_gate.cpp,         *)
(* reduction_table.cpp) and what a context does with a gate on qubits      *)
(* (execute_gate.cpp and its three executors).                             *)
(*                                                                         *)
(* A bit of a register is a record of its classical value and its qubit,   *)
(* Unpromoted as long as it has none.  An operation is a record of the     *)
(* gate's name, its parameter z and its operands.                          *)
(***************************************************************************)
EXTENDS Amplitudes, TLC

CONSTANT Qubits   \* the qubits of the state vector, 0 and on

ASSUME QubitsAssumption == IsFiniteSet(Qubits) /\ Qubits \subseteq Nat

Unpromoted == -1
IsClassical(b) == b.qubit = Unpromoted

-----------------------------------------------------------------------------
(* Layer A: the result is the bits and the gates for layer B, in order. *)

Dispatched(bits, gates) == [bits |-> bits, gates |-> gates]

Gate(kind, z, q) == [kind |-> kind, z |-> z, q |-> q]

\* Mutant: the value of the target is counted up.
FlippedUp(kind, bits, ops) ==
  IF kind = "SWAP"
  THEN [bits EXCEPT ![ops[1]].value = bits[ops[2]].value, ![ops[2]].value = bits[ops[1]].value]
  ELSE LET target == Last(ops)
       IN  IF \A c \in Range(Front(ops)) : bits[c].value = 1
           THEN [bits EXCEPT ![target].value = @ + 1]
           ELSE bits

\* What a flip does to classical operands.
Flipped(kind, bits, ops) ==
  IF kind = "SWAP"
  THEN [bits EXCEPT ![ops[1]].value = bits[ops[2]].value, ![ops[2]].value = bits[ops[1]].value]
  ELSE LET target == Last(ops)
       IN  IF \A c \in Range(Front(ops)) : bits[c].value = 1
           THEN [bits EXCEPT ![target].value = 1 - @]
           ELSE bits

DispatchClassical(kind, bits, ops) ==
  Dispatched(IF GateInfo[kind].effect = "flip" THEN Flipped(kind, bits, ops) ELSE bits, <<>>)

\* A bit that is promoted takes the first qubit that none of the bits has.
Promote(bits, x) ==
  [bits EXCEPT ![x].qubit = Min(Qubits \ {bits[b].qubit : b \in DOMAIN bits})]

PromoteOperand(d, x) ==
  IF ~IsClassical(d.bits[x]) THEN d
  ELSE LET promoted == Promote(d.bits, x)
       IN  Dispatched(promoted,
                      IF d.bits[x].value = 1
                      THEN Append(d.gates, Gate("X", One, <<promoted[x].qubit>>))
                      ELSE d.gates)

OnQubits(kind, z, bits, ops) == Gate(kind, z, [i \in DOMAIN ops |-> bits[ops[i]].qubit])

DispatchBranch(kind, z, bits, ops) ==
  LET after[i \in 0..Len(ops)] ==
        IF i = 0 THEN Dispatched(bits, <<>>) ELSE PromoteOperand(after[i - 1], ops[i])
      d == after[Len(ops)]
  IN  Dispatched(d.bits, Append(d.gates, OnQubits(kind, z, d.bits, ops)))

\* The table: the gate that is left of a gate some of whose operands, given by
\* their places, are classical ones, and the places of its operands.
ReductionTable ==
  LET single == [CX |-> "X", CY |-> "Y", CZ |-> "Z", CRX |-> "RX", CRY |-> "RY", CRZ |-> "RZ"]
  IN  {[gate |-> g, pattern |-> {1}, reduced |-> single[g], remaining |-> <<2>>] : g \in DOMAIN single}
      \cup {[gate |-> "CCX", pattern |-> {1}, reduced |-> "CX", remaining |-> <<2, 3>>],
            [gate |-> "CCX", pattern |-> {2}, reduced |-> "CX", remaining |-> <<1, 3>>],
            [gate |-> "CCX", pattern |-> {1, 2}, reduced |-> "X", remaining |-> <<3>>]}

Pattern(bits, ops) == {i \in DOMAIN ops : IsClassical(bits[ops[i]])}

\* Mutant: the gate fires whatever the classical controls are.
DispatchMixedAlways(kind, z, bits, ops) ==
  LET pattern == Pattern(bits, ops)
      entry == CHOOSE e \in ReductionTable : e.gate = kind /\ e.pattern = pattern
  IN  IF pattern = {} THEN Dispatched(bits, <<OnQubits(kind, z, bits, ops)>>)
      ELSE Dispatched(bits, <<OnQubits(entry.reduced, z, bits,
                                       [i \in DOMAIN entry.remaining |-> ops[entry.remaining[i]]])>>)

DispatchMixed(kind, z, bits, ops) ==
  LET pattern == Pattern(bits, ops)
      entry == CHOOSE e \in ReductionTable : e.gate = kind /\ e.pattern = pattern
  IN  IF \E i \in pattern : bits[ops[i]].value = 0 THEN Dispatched(bits, <<>>)
      ELSE IF pattern = {} THEN Dispatched(bits, <<OnQubits(kind, z, bits, ops)>>)
      ELSE Dispatched(bits, <<OnQubits(entry.reduced, z, bits,
                                       [i \in DOMAIN entry.remaining |-> ops[entry.remaining[i]]])>>)

\* The entry points a caller may take, by what they ask of the operands: of the
\* mixed one, that only controls are classical.
Dispatches(kind, z, bits, ops) ==
  LET pattern == Pattern(bits, ops)
      branch == GateInfo[kind].effect = "branch"
  IN  (IF pattern = DOMAIN ops /\ ~branch THEN {DispatchClassical(kind, bits, ops)} ELSE {})
      \cup (IF branch THEN {DispatchBranch(kind, z, bits, ops)} ELSE {})
      \cup (IF pattern \subseteq 1..GateInfo[kind].controls
            THEN {DispatchMixed(kind, z, bits, ops)} ELSE {})

-----------------------------------------------------------------------------
(* Layer B. *)

\* Orkan has no controlled rotations: each is taken apart.
ExecSimulateCrot(kind, z, ctrl, tgt, psi) ==
  LET quarter == <<1, 1>>
      cx(v) == Meaning("CX", One, <<ctrl, tgt>>, v)
      rotate(base, half, v) == Controlled(base, half, One, {}, tgt, v)
      sandwich(base, v) == rotate(base, z, cx(rotate(base, Conjugate(z), cx(v))))
  IN  CASE kind = "CRX" -> rotate("RZ", Conjugate(quarter), sandwich("RY", rotate("RZ", quarter, psi)))
        [] kind = "CRY" -> sandwich("RY", psi)
        [] kind = "CRZ" -> sandwich("RZ", psi)

\* The other gates are Orkan's own.
ExecSimulate(g, psi) ==
  IF g.kind \in {"CRX", "CRY", "CRZ"}
  THEN ExecSimulateCrot(g.kind, g.z, g.q[1], g.q[2], psi)
  ELSE Meaning(g.kind, g.z, g.q, psi)

NoBridge == <<>>

FreshContext(mode) == [mode |-> mode, gate_count |-> 0, ir |-> <<>>, state |-> NoBridge, classical |-> <<>>]

\* What a context does with a gate, the gate count apart.
Execute(context, g) ==
  CASE context.mode = "COUNT_ONLY" -> context
    [] context.mode = "APPEND" -> [context EXCEPT !.ir = Append(@, g)]
    [] context.mode = "SIMULATE" ->
         IF context.state = NoBridge THEN context ELSE [context EXCEPT !.state = ExecSimulate(g, @)]

AttachBridge(context) == [context EXCEPT !.state = Basis(Qubits, {})]

\* What a measurement may find, and the context after it.
Measurements(context, q) ==
  IF context.mode = "SIMULATE"
  THEN {[outcome |-> o,
         context |-> [context EXCEPT !.state = Collapse(q, o, @), !.classical = (q :> o) @@ @]]
          : o \in Possible(q, context.state)}
  ELSE {[outcome |-> IF q \in DOMAIN context.classical THEN context.classical[q] ELSE 0,
         context |-> context]}
=============================================================================
