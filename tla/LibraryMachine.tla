--------------------------- MODULE LibraryMachine ---------------------------
(***************************************************************************)
(* A thread that calls the library's routines on registers a, b and ab, a  *)
(* flag and a control, one after another, some in the body of WHEN(ctrl).  *)
(* It executes the statements of module LibraryCircuits; what a statement  *)
(* does depends on which bits have a qubit, on the active control and on   *)
(* the type of the bits (BitProxy or qbool).                               *)
(*                                                                         *)
(* Every gate permutes basis states, so the circuit is followed in one     *)
(* basis state at a time: bit[q] is qubit q of the thread's context.  A    *)
(* step takes the pool's mutex at most once.                               *)
(***************************************************************************)
EXTENDS Arithmetic, ModularCircuits, QramCircuits, LossyCircuits,
        QubitPool

CONSTANTS
  BitType,        \* what the routines are instantiated with
  Repeated,       \* bound: the routines that a program of several calls may call
  MaxCalls,       \* bound: how many calls the program makes
  MaxHighWater    \* bound: how many indices the pool may issue

ASSUME WidthAssumption == Width \in Nat \ {0}
ASSUME BitTypeAssumption == BitType \in {"BitProxy", "qbool"} /\ OnLiterals \cup Repeated \subseteq Routines
ASSUME MachineBounds == MaxCalls \in Nat /\ MaxHighWater \in Nat

Qubit == 0..(MaxHighWater - 1)
Unallocated == -1

VARIABLES
  call,      \* the call in progress or last made
  calls,     \* how many were made
  start,     \* the numbers in the registers when it was made
  pc,        \* the statement it executes next, 0 after the last
  steps,     \* what is left of the statement before that
  at,        \* the qubits of the bits that are declared
  controls,  \* the controls of the open scopes, the active one last
  bit        \* the basis state

vars == <<poolVars, call, calls, start, pc, steps, at, controls, bit>>

Assignment == {"+=", "-=", "*=", "/=", "%=", "^=", "&=", "|="} \cup DOMAIN LossyOperator

NoCall == [routine |-> "none", literal |-> FALSE, under |-> FALSE]

\* The modular routines: m is the modulus, the flag widens b, ab takes a result
\* or a witness.
ModularBody(routine) ==
  LET n == Width
      a == Bits("a", n)
      b == Bits("b", n)
      wide == Widened(b, Local("flag"), n)
      m == Bits("m", n)
      ab == Bits("ab", 2 * n)
  IN  CASE routine = "add_mod"             -> AddMod(a, b, m, n, ab)
        [] routine = "add_mod_adj"         -> AddModAdj(a, b, m, n, ab)
        [] routine = "add_mod_inplace"     -> AddModInplace(a, wide, m, n)
        [] routine = "add_mod_inplace_adj" -> AddModInplaceAdj(a, wide, m, n)
        [] routine \in {"double_mod", "double_mod onto"} -> DoubleMod(wide, m, ab[0], n)
        [] routine = "double_mod_adj"      -> DoubleModAdj(wide, m, ab[0], n)
        [] routine = "mul_mod"             -> MulMod(a, b, m, n, ab)
        [] routine = "mul_mod_adj"         -> MulModAdj(a, b, m, n, ab)
        [] routine = "mul_mod_inplace"     -> MulModInplace(a, b, m, n, ab)
        [] routine = "mul_mod_inplace_adj" -> MulModInplaceAdj(a, b, m, n, ab)
        [] routine \in {"square_mod", "square_mod onto"} -> SquareMod(b, m, n, ab)
        [] routine = "square_mod_adj"      -> SquareModAdj(b, m, n, ab)
        [] routine = "pow_mod"             -> PowMod(a, b, m, n, ab)
        [] routine = "pow_mod_adj"         -> PowModAdj(a, b, m, n, ab)
        [] routine = "add_mod("            -> AssignAddMod(ab, a, b, m, n)
        [] routine = "mul_mod("            -> AssignMulMod(ab, a, b, m, n)
        [] routine = "pow_mod("            -> AssignPowMod(ab, a, b, m, n)

\* What the body of a routine is, on the registers.  The constant that an
\* operator is applied to is converted to a register k without qubits.
Body(routine, literal) ==
  LET n == Width
      a == Bits("a", n)
      b == Bits("b", n)
      y == Bits(IF literal THEN "k" ELSE "b", n)
      ab == Bits("ab", 2 * n)
      flag == Local("flag")
  IN  CASE routine \in Modular -> ModularBody(routine)
        [] routine \in DOMAIN LossyOperator ->
             LossyScope(LossyOperator[routine], a, y, XorAll(ab, a, n), n, literal)
        [] routine = "qram_read" ->
             QramRead(<<a, b, Bits("k", n)>>, IF literal THEN Bits("k", n) ELSE Bits("m", n), ab, n)
        [] routine = "add"     -> Add(a, b, flag, n)
        [] routine = "add_adj" -> AddAdj(a, b, flag, n)
        [] routine = "sub"     -> Sub(a, b, flag, n)
        [] routine = "eq"      -> Eq(a, b, n, flag)
        [] routine = "ne"      -> Ne(a, b, n, flag)
        [] routine = "lt"      -> Lt(a, b, n, flag)
        [] routine = "le"      -> Le(a, b, n, flag)
        [] routine = "gt"      -> Gt(a, b, n, flag)
        [] routine = "ge"      -> Ge(a, b, n, flag)
        [] routine = "mul"     -> Mul(a, n, b, n, ab)
        [] routine = "mul_adj" -> MulAdj(a, n, b, n, ab)
        [] routine = "div"     -> Div(a, n, b, ab, Window(ab, n, n))
        [] routine = "div_adj" -> DivAdj(a, n, b, ab, Window(ab, n, n))
        [] routine = "mod"     -> Mod(a, n, b, ab)
        [] routine = "or"      -> Or(a[0], b[0], flag)
        [] routine = "or_adj"  -> OrAdj(a[0], b[0], flag)
        [] routine = "nand"    -> Nand(a[0], b[0], flag)
        [] routine = "nor"     -> Nor(a[0], b[0], flag)
        [] routine = "xnor"    -> Xnor(a[0], b[0], flag)
        [] routine = "c_n_AND" -> CnAnd([i \in 0..(2 * n - 1) |-> IF i < n THEN a[i] ELSE b[i - n]], 2 * n, flag)
        [] routine = "swap"    -> Up(n, LAMBDA i : Swap(a[i], b[i]))
        [] routine = "+="      -> PlusAssign(a, y, n, literal)
        [] routine = "-="      -> MinusAssign(a, y, n, literal)
        [] routine = "*="      -> TimesAssign(a, y, n, literal)
        [] routine = "/="      -> DivideAssign(a, y, n, literal)
        [] routine = "%="      -> RemainderAssign(a, y, n, literal)
        [] routine = "^="      -> XorAssign(a, y, n, literal)
        [] routine = "&="      -> AndAssign(a, y, n, literal)
        [] routine = "|="      -> OrAssign(a, y, n, literal)

Program ==
  FoldSet(LAMBDA p, bodies : (p :> Body(p[1], p[2])) @@ bodies, <<>>,
          (Routines \X {FALSE}) \cup (OnLiterals \X {TRUE}))

\* The statements of the call in progress.
Statements == Program[<<call.routine, call.literal>>]

\* No call is in progress.
Idle == pc = 0 /\ steps = <<>>

-----------------------------------------------------------------------------
(* The registers. *)

\* The bits of the registers, in the order their qubits were allocated in.
Layout == LET all(r, n) == [k \in 1..n |-> <<r, k - 1>>]
          IN  all("a", Width) \o all("b", Width) \o all("ab", 2 * Width)
             \o all("flag", 1) \o all("ctrl", 1)
             \o When(UsesM, all("m", Width))
ConstantBit == {<<"k", i>> : i \in 0..(Width - 1)}
RegisterBit == ToSet(Layout) \cup ConstantBit

IsQuantum(x) == at[x] # Unallocated

\* bit_value(): of the bits without a qubit only those of a constant are ever 1.
BitValue(x) == x[1] = "k" /\ BitOf(start.b, x[2]) = 1

\* The number in register r.
Number(r) ==
  MapThenSumSet(LAMBDA x : 2 ^ x[2] * Bit(IsQuantum(x) /\ bit[at[x]]),
                {x \in RegisterBit : x[1] = r})
Numbers == [r \in Register |-> Number(r)]

Init ==
  /\ free_ = <<>> /\ high_water_ = Len(Layout) /\ in_use_ = Len(Layout)
  /\ start \in Start
  /\ at = [x \in RegisterBit |-> IF x \in ToSet(Layout)
                                   THEN (CHOOSE k \in 1..Len(Layout) : Layout[k] = x) - 1
                                   ELSE Unallocated]
  /\ bit = [q \in Qubit |-> /\ q < Len(Layout)
                            /\ LET x == Layout[q + 1] IN BitOf(start[x[1]], x[2]) = 1]
  /\ call = NoCall /\ calls = 0 /\ pc = 0 /\ steps = <<>> /\ controls = <<>>

-----------------------------------------------------------------------------
(* The steps of a statement. *)

\* gates is what a "gates" step does to the basis state.
Step(do, x, gates) == [do |-> do, bit |-> x, gates |-> gates]
Take(x) == Step("take", x, <<>>)
Give(x) == Step("give", x, <<>>)
Push(x) == Step("push", x, <<>>)
Pop == Step("pop", <<>>, <<>>)
Gates(gates) == Step("gates", <<>>, gates)

\* A gate flips its target if its controls are on.
Gate(on, t) == [controls |-> on, target |-> t]

Active == controls[Len(controls)]
ActiveSet == IF controls = <<>> THEN {} ELSE {Active}

\* emit_X_lifted, emit_CX_lifted, emit_CCX_lifted
EmitX(t) == Gates(<<Gate(ActiveSet, t)>>)
EmitCX(c, t) == Gates(<<Gate({c} \cup ActiveSet, t)>>)
EmitCCX(c0, c1, t) ==
  LET fold == Local("fold")
      folding == Gate({c0, c1}, fold)
  IN  IF controls = <<>> THEN <<Gates(<<Gate({c0, c1}, t)>>)>>
      ELSE <<Take(fold), Gates(<<folding, Gate({Active, fold}, t), folding>>), Give(fold)>>

\* ensure_quantum()
EnsureQuantum(t) ==
  IF IsQuantum(t) THEN <<>> ELSE <<Take(t)>> \o (IF BitValue(t) THEN <<EmitX(t)>> ELSE <<>>)

\* BitProxy: a bit without a qubit is folded where the result allows it.
ProxyFlip(t) ==
  IF IsQuantum(t) \/ controls # <<>> THEN EnsureQuantum(t) \o <<EmitX(t)>> ELSE <<>>

ProxyXor(t, s) ==
  IF IsQuantum(s) THEN EnsureQuantum(t) \o <<EmitCX(s, t)>>
  ELSE When(BitValue(s), ProxyFlip(t))

ProxyXorAnd(t, a, b) ==
  CASE IsQuantum(a) /\ IsQuantum(b)  -> EnsureQuantum(t) \o EmitCCX(a, b, t)
    [] IsQuantum(a) /\ ~IsQuantum(b) -> When(BitValue(b), ProxyXor(t, a))
    [] ~IsQuantum(a)                 -> When(BitValue(a), ProxyXor(t, b))

\* t has a qubit wherever the library does this.
ProxyXorOr(t, a, b) == ProxyXor(t, a) \o ProxyXor(t, b) \o ProxyXorAnd(t, a, b)

\* materialize_and(a, b): gates that take no control.
ProxyAnd(x, a, b) ==
  <<Take(x)>> \o (CASE IsQuantum(a) /\ IsQuantum(b)  -> <<Gates(<<Gate({a, b}, x)>>)>>
                    [] IsQuantum(a) /\ ~IsQuantum(b) -> When(BitValue(b), <<Gates(<<Gate({a}, x)>>)>>)
                    [] ~IsQuantum(a) /\ IsQuantum(b) -> When(BitValue(a), <<Gates(<<Gate({b}, x)>>)>>)
                    [] OTHER -> When(BitValue(a) /\ BitValue(b), <<EmitX(x)>>))

\* qbool: operator& and operator| build their result in an ancilla, with gates
\* that take no control, and its destructor gives the ancilla back.
EagerAnd(x, a, b) == <<Take(x), Gates(<<Gate({a, b}, x)>>)>>
EagerOr(x, a, b) == <<Take(x), Gates(<<Gate({a}, x), Gate({b}, x), Gate({a, b}, x)>>)>>
XorTemporary(t, x) == <<EmitCX(x, t), Give(x)>>

\* qbool::operator^= asserts that both have a qubit; a failed assertion is the
\* end of the program.
XorOnQbools(t, s) ==
  IF IsQuantum(t) /\ IsQuantum(s) THEN <<EmitCX(s, t)>> ELSE <<Step("abort", <<>>, <<>>)>>

OnProxies(s) ==
  LET x == s.bits
  IN  CASE s.op = "t ^= s"         -> ProxyXor(x[1], x[2])
        [] s.op = "t ^= (a & b)"   -> ProxyXorAnd(x[1], x[2], x[3])
        [] s.op = "t ^= (a | b)"   -> ProxyXorOr(x[1], x[2], x[3])
        [] s.op = "qbool t = a & b" -> ProxyAnd(x[1], x[2], x[3])
        [] s.op = "t.flip()"       -> ProxyFlip(x[1])

OnQbools(s) ==
  LET x == s.bits
      tmp == Local("tmp")
  IN  CASE s.op = "t ^= s"         -> <<EmitCX(x[2], x[1])>>
        [] s.op = "t ^= (a & b)"   -> EagerAnd(tmp, x[2], x[3]) \o XorTemporary(x[1], tmp)
        [] s.op = "t ^= (a | b)"   -> EagerOr(tmp, x[2], x[3]) \o XorTemporary(x[1], tmp)
        [] s.op = "qbool t = a & b" -> EagerAnd(x[1], x[2], x[3])
        [] s.op = "t.flip()"       -> <<EmitX(x[1])>>

\* lift_under: an active control is folded with the flag into a temporary.
Lift(f) ==
  LET tmp == <<"lift", Len(controls)>>
  IN  EnsureQuantum(f) \o (IF controls = <<>> THEN <<Push(f)>>
                           ELSE <<Take(tmp), Gates(<<Gate({Active, f}, tmp)>>), Push(tmp)>>)

Unlift(f) ==
  LET outer == controls[Len(controls) - 1]
  IN  IF Len(controls) = 1 THEN <<Pop>>
      ELSE <<Pop, Gates(<<Gate({outer, f}, Active)>>), Give(Active)>>

\* swap(): without a control the registers exchange their qubits.
SwapBits(x, y) ==
  IF controls = <<>> THEN <<Step("exchange", <<x, y>>, <<>>)>>
  ELSE ProxyXor(x, y) \o ProxyXor(y, x) \o ProxyXor(x, y)

\* What the next statement does, given the state it is executed in.
Expansion(s) ==
  LET x == s.bits[1]
  IN  CASE s.op = "swap(x, y)"      -> SwapBits(x, s.bits[2])
        [] s.op = "forget x"        -> <<Step("forget", x, <<>>)>>
        [] s.op = "WHEN(f"          -> <<Push(x)>>
        [] s.op = "WHEN)"           -> <<Pop>>
        [] s.op = "qbool t ^= s"    -> XorOnQbools(x, s.bits[2])
        [] s.op = "primitive_XOR(s, t)" -> When(IsQuantum(x), <<Gates(<<Gate({s.bits[2]}, x)>>)>>)
        [] s.op = "lift_under(f"    -> Lift(x)
        [] s.op = "lift_under)"     -> Unlift(x)
        [] s.op = "qbool x"         -> <<Step("declare", x, <<>>)>>
        [] s.op = "x = allocate()"  -> <<Take(x)>>
        [] s.op = "if (x >= 0) release(x)" -> <<Give(x)>>
        [] s.op = "x = move(y)"     -> <<Step("relabel", s.bits, <<>>)>>
        [] OTHER -> IF BitType = "BitProxy" THEN OnProxies(s) ELSE OnQbools(s)

Pending(statements) == IF steps = <<>> THEN Expansion(statements[pc]) ELSE steps

-----------------------------------------------------------------------------
(* Actions. *)

\* The first of the pending steps is a `do`, and it is done.
Advance(pending, do) ==
  /\ IF pending = <<>> THEN do = "nothing" ELSE Head(pending).do = do
  /\ steps' = IF pending = <<>> THEN <<>> ELSE Tail(pending)
  /\ UNCHANGED <<call, calls, start>>

\* A statement that folds to nothing.
Skip(pending) ==
  /\ Advance(pending, "nothing")
  /\ UNCHANGED <<poolVars, at, controls, bit>>

\* The table with a bit that has q, and without a bit.
With(x, q) == [y \in DOMAIN at \cup {x} |-> IF y = x THEN q ELSE at[y]]
Without(x) == [y \in DOMAIN at \ {x} |-> at[y]]

TakeQubit(pending) ==
  /\ Advance(pending, "take")
  /\ LET x == Head(pending).bit
     IN  /\ x \in DOMAIN at => ~IsQuantum(x)
         /\ \E i \in Qubit : Allocate(i) /\ at' = With(x, i)
  /\ UNCHANGED <<controls, bit>>

\* A local is gone after it, the bit of a register may get another qubit.
GiveQubit(pending) ==
  /\ Advance(pending, "give")
  /\ LET x == Head(pending).bit
     IN  /\ x \in DOMAIN at
         /\ IF IsQuantum(x) THEN Release(at[x]) ELSE UNCHANGED poolVars
         /\ at' = IF x \in RegisterBit THEN [at EXCEPT ![x] = Unallocated] ELSE Without(x)
  /\ UNCHANGED <<controls, bit>>

DeclareQbool(pending) ==
  /\ Advance(pending, "declare") /\ Head(pending).bit \notin DOMAIN at
  /\ at' = With(Head(pending).bit, Unallocated)
  /\ UNCHANGED <<poolVars, controls, bit>>

RelabelBit(pending) ==
  /\ Advance(pending, "relabel")
  /\ LET x == Head(pending).bit[1]
         y == Head(pending).bit[2]
     IN  {x, y} \subseteq DOMAIN at /\ at' = [Without(y) EXCEPT ![x] = at[y]]
  /\ UNCHANGED <<poolVars, controls, bit>>

ExchangeBits(pending) ==
  /\ Advance(pending, "exchange")
  /\ LET x == Head(pending).bit[1]
         y == Head(pending).bit[2]
     IN  {x, y} \subseteq DOMAIN at /\ at' = [at EXCEPT ![x] = at[y], ![y] = at[x]]
  /\ UNCHANGED <<poolVars, controls, bit>>

\* The copy of a constant goes without releasing what it was given.
ForgetBit(pending) ==
  /\ Advance(pending, "forget")
  /\ at' = [at EXCEPT ![Head(pending).bit] = Unallocated]
  /\ UNCHANGED <<poolVars, controls, bit>>

ApplyGate(b, g) ==
  [b EXCEPT ![at[g.target]] = @ # (\A c \in g.controls : b[at[c]])]

\* A gate whose target is one of its controls means nothing, so no step is one.
ApplyGates(pending) ==
  /\ Advance(pending, "gates")
  /\ LET gates == Head(pending).gates
     IN  /\ \A k \in 1..Len(gates) : \A c \in gates[k].controls : at[c] # at[gates[k].target]
         /\ bit' = FoldLeft(ApplyGate, bit, gates)
  /\ UNCHANGED <<poolVars, at, controls>>

PushControl(pending) ==
  /\ Advance(pending, "push")
  /\ controls' = Append(controls, Head(pending).bit)
  /\ UNCHANGED <<poolVars, at, bit>>

PopControl(pending) ==
  /\ Advance(pending, "pop")
  /\ controls' = SubSeq(controls, 1, Len(controls) - 1)
  /\ UNCHANGED <<poolVars, at, bit>>

\* The call in progress goes on by one step.
Execute ==
  /\ ~Idle
  /\ \E statements \in {Statements} :
       /\ pc' = CASE steps # <<>>          -> pc
                  [] pc < Len(statements)  -> pc + 1
                  [] OTHER                 -> 0
       /\ \E pending \in {Pending(statements)} :
            \/ Skip(pending) \/ TakeQubit(pending) \/ GiveQubit(pending)
            \/ DeclareQbool(pending) \/ RelabelBit(pending)
            \/ ExchangeBits(pending) \/ ForgetBit(pending)
            \/ ApplyGates(pending) \/ PushControl(pending) \/ PopControl(pending)

\* The next call, in the body of WHEN(ctrl) or outside of it.
StartCall(c) ==
  /\ Idle /\ calls < MaxCalls
  /\ calls > 0 => {call.routine, c.routine} \subseteq Repeated
  /\ MayCall(c, Numbers)
  /\ call' = c /\ calls' = calls + 1 /\ start' = Numbers
  /\ pc' = 1 /\ steps' = <<>>
  /\ controls' = IF c.under THEN <<Local("ctrl")>> ELSE <<>>
  /\ UNCHANGED <<poolVars, at, bit>>

\* The program ends between two calls.
Exit == Idle /\ UNCHANGED vars

Next ==
  \/ Execute
  \/ \E c \in CallOf : StartCall(c)
  \/ Exit

Spec == Init /\ [][Next]_vars

-----------------------------------------------------------------------------
(* Properties. *)

\* Between calls the registers hold what the arithmetic says, whatever the
\* routine allocated, lifted, folded and uncomputed to get there.
ResultIsRight ==
  Idle /\ call # NoCall => Numbers = After(call, start)

\* A qubit the pool would hand out is |0>, at every moment: a routine that asks
\* for an ancilla gets one that starts |0>.  A compound assignment outside of a scope
\* is exempt: it gives back the qubits of the value it loses.  In a scope that
\* undoes it, it keeps them until then and is held to the rule.
FreeIsZero ==
  call.routine \notin Assignment \ DOMAIN LossyOperator =>
    \A q \in Qubit : q \in FreeSet \/ q >= high_water_ => ~bit[q]

\* Two bits that are alive never share a qubit, nor is theirs on the free list.
Distinct ==
  LET held == {x \in DOMAIN at : IsQuantum(x)}
      qubits == {at[x] : x \in held}
  IN  /\ Cardinality(qubits) = Cardinality(held)
      /\ qubits \cap FreeSet = {}

\* Between calls nothing but the registers has a qubit and nothing is lost.
Balanced ==
  Idle => /\ DOMAIN at = RegisterBit /\ \A x \in ConstantBit : ~IsQuantum(x)
          /\ in_use_ = Cardinality({x \in RegisterBit : IsQuantum(x)})
          /\ Len(free_) + in_use_ = high_water_

\* A caller, who sees the registers when a call has returned, sees a calculator
\* that does what the routine called is for.
Calc == INSTANCE Calculator WITH num <- IF Idle THEN Numbers ELSE start,
                                 pending <- IF Idle THEN {} ELSE {call}
CalculatorSpec == Calc!Spec
==============================================================================
