----------------------------- MODULE WhenScopes -----------------------------
(***************************************************************************)
(* WHEN(flag) { body }: the control stack of a backend context, the guard  *)
(* that a scope installs, the two ways nested conditions are folded into   *)
(* one control qubit (the transpiler's AND temporary and the library's     *)
(* lift_under), and gates emitted in a body.                               *)
(*                                                                         *)
(* Every gate here permutes basis states, so the circuit is followed in    *)
(* one basis state at a time: bit[c][q] is qubit q of context c.  A thread *)
(* shares with the others only the pool, which each step touches once, and *)
(* the process-wide default context if it installed none of its own.       *)
(***************************************************************************)
EXTENDS QubitPool, FiniteSets

CONSTANTS
  Thread,
  Flag,            \* the qbools a program tests and changes
  ThreadOf,        \* the thread that uses a flag
  Context,
  ProcessDefault,  \* the context of the threads that installed none
  NoContext,
  Installed,       \* the context a thread installed, or NoContext
  MaxDepth,        \* bound: how deep scopes nest
  MaxHighWater     \* bound: how many indices the pool may issue

ASSUME ThreadOfAssumption == ThreadOf \in [Flag -> Thread]
ASSUME ContextAssumption ==
  /\ ProcessDefault \in Context
  /\ NoContext \notin Context
  /\ Installed \in [Thread -> Context \cup {NoContext}]
ASSUME BoundAssumption == MaxDepth \in Nat /\ MaxHighWater \in Nat

\* Mutant: the pointer of the thread is not looked at.
ContextOfDefault(t) == ProcessDefault

\* sturm_get_thread_context().
ContextOf(t) == IF Installed[t] = NoContext THEN ProcessDefault ELSE Installed[t]

Qubit == 0..(MaxHighWater - 1)
NoQubit == -1
NoControl == 0

Qbool == [qubit : Qubit \cup {NoQubit}, owning : BOOLEAN, super : BOOLEAN, value : BOOLEAN]

HasQubit(q) == q.qubit # NoQubit

Classical(v) == [qubit |-> NoQubit, owning |-> TRUE, super |-> FALSE, value |-> v]
Ancilla(i) == [qubit |-> i, owning |-> TRUE, super |-> TRUE, value |-> FALSE]
View(q) == [q EXCEPT !.owning = FALSE]

\* A scope is a WhenGuard, what it guards, and the control temporaries that
\* were declared in its body (locals).  A pointer to the guarded qbool is the
\* position of its scope; for a "named" scope that qbool is the flag itself.
Scope == [kind : {"named", "nested", "lift"}, flag : Flag, expr : Qbool,
          run_ : BOOLEAN, modified_tls_ : BOOLEAN,
          prev_control_ : NoControl..MaxDepth, prev_control_qubit_ : Qubit \cup {NoQubit},
          locals : Seq(Qubit), closing : BOOLEAN]

VARIABLES
  flag,                   \* the qbools
  scope,                  \* scope[t]: the open scopes of t, innermost last
  current_control,        \* TLS: the scope whose qbool is the active control
  current_control_qubit,  \* TLS: its qubit, cached
  control_stack,          \* control_stack[c], bottom first
  bit,                    \* the basis state
  aborted                 \* an assertion of the program failed

guardVars == <<scope, current_control, current_control_qubit, control_stack, aborted>>
vars == <<poolVars, flag, guardVars, bit>>

Init ==
  /\ PoolInit
  /\ flag \in [Flag -> {Classical(v) : v \in BOOLEAN}]
  /\ scope = [t \in Thread |-> <<>>]
  /\ current_control = [t \in Thread |-> NoControl]
  /\ current_control_qubit = [t \in Thread |-> NoQubit]
  /\ control_stack = [c \in Context |-> <<>>]
  /\ bit = [c \in Context |-> [q \in Qubit |-> FALSE]]
  /\ aborted = FALSE

TypeOK ==
  /\ PoolTypeOK
  /\ flag \in [Flag -> Qbool]
  /\ scope \in [Thread -> Seq(Scope)]
  /\ current_control \in [Thread -> NoControl..MaxDepth]
  /\ current_control_qubit \in [Thread -> Qubit \cup {NoQubit}]
  /\ control_stack \in [Context -> Seq(Qubit)]
  /\ bit \in [Context -> [Qubit -> BOOLEAN]]
  /\ aborted \in BOOLEAN

Top(t) == scope[t][Len(scope[t])]

\* The qbool guarded by the k-th scope of t.
Expr(t, k) == IF scope[t][k].kind = "named" THEN flag[scope[t][k].flag] ELSE scope[t][k].expr

\* t is in a body that runs, and has not started to leave it.
InBody(t) == ~aborted /\ (scope[t] # <<>> => Top(t).run_ /\ ~Top(t).closing)

\* The flags the open scopes test.
Conditions(t) == {scope[t][k].flag : k \in 1..Len(scope[t])}

\* What the program sees as the boolean of f.
Value(f) == IF HasQubit(flag[f]) THEN bit[ContextOf(ThreadOf[f])][flag[f].qubit]
            ELSE ~flag[f].super /\ flag[f].value

-----------------------------------------------------------------------------
(* Gates, on the basis state b of one context. *)

Toggle(b, condition, target) == [b EXCEPT ![target] = @ # condition]
CX(b, c, target) == Toggle(b, b[c], target)
CCX(b, c0, c1, target) == Toggle(b, b[c0] /\ b[c1], target)

Controlled(t) ==
  LET c == ContextOf(t)
  IN  control_stack[c] # <<>> => bit[c][control_stack[c][1]]

\* Mutant: the gate takes no control.
EmitXBare(t, target) == Toggle(bit[ContextOf(t)], TRUE, target)

\* emit_X_lifted, emit_CX_lifted: the gate takes the control on the stack.
EmitX(t, target) == Toggle(bit[ContextOf(t)], Controlled(t), target)
EmitCX(t, c, target) ==
  Toggle(bit[ContextOf(t)], Controlled(t) /\ bit[ContextOf(t)][c], target)

\* The index the next allocate() returns.
NextIndex == IF free_ = <<>> THEN high_water_ ELSE free_[Len(free_)]

\* emit_CCX_lifted: with a control on the stack, c0 /\ c1 is folded into an
\* ancilla that is given back at once.
EmitCCX(t, c0, c1, target) ==
  LET b == bit[ContextOf(t)]
      s == control_stack[ContextOf(t)]
      folded == CCX(b, c0, c1, NextIndex)
      applied == CCX(folded, s[1], NextIndex, target)
  IN  IF s = <<>> THEN CCX(b, c0, c1, target) ELSE CCX(applied, c0, c1, NextIndex)

\* allocate() followed by release() of the same index.
Borrow ==
  IF free_ = <<>>
    THEN free_' = <<high_water_>> /\ high_water_' = high_water_ + 1 /\ UNCHANGED in_use_
    ELSE UNCHANGED poolVars

\* operator&(a, b), which returns AndResult(a, b, i): an ancilla i that holds
\* the conjunction, or, when an operand has no qubit, a classical value or a
\* view of the other operand (then i is 0 and stands for nothing).
BoolAnd(t, a, b, i) ==
  IF HasQubit(a) /\ HasQubit(b)
    THEN /\ Allocate(i)
         /\ bit' = [bit EXCEPT ![ContextOf(t)] = CCX(@, a.qubit, b.qubit, i)]
    ELSE i = 0 /\ UNCHANGED <<poolVars, bit>>

AndResult(a, b, i) ==
  CASE HasQubit(a) /\ HasQubit(b)   -> Ancilla(i)
    [] ~HasQubit(a) /\ ~HasQubit(b) -> Classical(a.value /\ b.value)
    [] HasQubit(a) /\ ~HasQubit(b)  -> IF b.value THEN View(a) ELSE Classical(FALSE)
    [] ~HasQubit(a) /\ HasQubit(b)  -> IF a.value THEN View(b) ELSE Classical(FALSE)

\* Mutant: nothing is uncomputed.
UncomputeAndNothing(t, r, a, b) == UNCHANGED bit

\* uncompute_and(r, a, b), where r is what operator&(a, b) returned.  If r is a
\* view, the gate's control is its target and the qubit is anything afterwards.
UncomputeAnd(t, r, a, b) ==
  IF HasQubit(a) /\ HasQubit(b)
    THEN bit' = [bit EXCEPT ![ContextOf(t)] = CCX(@, a.qubit, b.qubit, r.qubit)]
    ELSE IF HasQubit(r)
    THEN \E v \in BOOLEAN : bit' = [bit EXCEPT ![ContextOf(t)][r.qubit] = v]
    ELSE UNCHANGED bit

\* assert(r_q): a and b left r without a qubit, though one of them has one.
UncomputeAsserts(r, a, b) == ~HasQubit(r) /\ (HasQubit(a) \/ HasQubit(b))

-----------------------------------------------------------------------------
(* The guard. *)

PopControl(s) == SubSeq(s, 1, Len(s) - 1)

\* An outer control whose qubit is known is on the stack.
Swaps(t) == current_control[t] # NoControl /\ HasQubit(Expr(t, current_control[t]))

\* Mutant: the new control is pushed on top of the outer one.
StackToPushOnKept(t) == control_stack[ContextOf(t)]

\* The constructor pops the outer control before it pushes the new one.
StackToPushOn(t) ==
  IF Swaps(t) THEN PopControl(control_stack[ContextOf(t)]) ELSE control_stack[ContextOf(t)]

PushAsserts(t) ==
  (Swaps(t) /\ control_stack[ContextOf(t)] = <<>>) \/ StackToPushOn(t) # <<>>

\* WhenGuard(expr): a superposed expr takes the place of the control on the
\* stack and becomes the active control; the scope s is put on `scopes`.
WhenGuard(t, scopes, s, expr) ==
  LET opened == [s EXCEPT !.run_ = expr.super \/ expr.value, !.modified_tls_ = expr.super,
                          !.prev_control_ = IF expr.super THEN current_control[t] ELSE NoControl,
                          !.prev_control_qubit_ = IF expr.super THEN current_control_qubit[t]
                                                  ELSE NoQubit]
  IN  /\ scope' = [scope EXCEPT ![t] = Append(scopes, opened)]
      /\ IF expr.super
           THEN /\ aborted' = PushAsserts(t)
                /\ control_stack' =
                     [control_stack EXCEPT ![ContextOf(t)] = Append(StackToPushOn(t), expr.qubit)]
                /\ current_control' = [current_control EXCEPT ![t] = Len(scope[t]) + 1]
                /\ current_control_qubit' = [current_control_qubit EXCEPT ![t] = expr.qubit]
           ELSE UNCHANGED <<aborted, control_stack, current_control, current_control_qubit>>

\* Mutant: the outer control is not put back.
UnwoundForgetting(t) == PopControl(control_stack[ContextOf(t)])

\* What the guard of the innermost scope of t leaves on the stack.
Unwound(t) ==
  LET prev == Top(t).prev_control_
      stack == PopControl(control_stack[ContextOf(t)])
  IN  IF prev # NoControl /\ HasQubit(Expr(t, prev))
        THEN Append(stack, Expr(t, prev).qubit)
        ELSE stack

UnwindAsserts(t) == Top(t).modified_tls_ /\ Len(control_stack[ContextOf(t)]) # 1

\* ~WhenGuard: the previous control comes back.
EndGuard(t) ==
  /\ scope' = [scope EXCEPT ![t] = SubSeq(@, 1, Len(@) - 1)]
  /\ IF Top(t).modified_tls_
       THEN /\ control_stack' = [control_stack EXCEPT ![ContextOf(t)] = Unwound(t)]
            /\ current_control' = [current_control EXCEPT ![t] = Top(t).prev_control_]
            /\ current_control_qubit' =
                 [current_control_qubit EXCEPT ![t] = Top(t).prev_control_qubit_]
       ELSE UNCHANGED <<control_stack, current_control, current_control_qubit>>

-----------------------------------------------------------------------------
(* Scopes. *)

\* A scope on f, before its guard has run.
Declare(kind, f, e) ==
  [kind |-> kind, flag |-> f, expr |-> e, run_ |-> FALSE, modified_tls_ |-> FALSE,
   prev_control_ |-> NoControl, prev_control_qubit_ |-> NoQubit, locals |-> <<>>,
   closing |-> FALSE]

\* Bound on the depth.  A scope does not test again what an open one tests.
MayEnter(t, f) ==
  /\ InBody(t) /\ ThreadOf[f] = t
  /\ Len(scope[t]) < MaxDepth
  /\ f \notin Conditions(t)

\* Mutant: the guard does not ask for the qubit.
EnterWhenWithoutQubit(t, f) ==
  /\ MayEnter(t, f)
  /\ WhenGuard(t, scope[t], Declare("named", f, Classical(FALSE)), flag[f])
  /\ UNCHANGED <<poolVars, flag, bit>>

\* WHEN(f).  A flag that is superposed but has no qubit gets one.
EnterWhen(t, f) ==
  /\ MayEnter(t, f)
  /\ IF flag[f].super /\ ~HasQubit(flag[f])
       THEN \E i \in Qubit : Allocate(i) /\ flag' = [flag EXCEPT ![f].qubit = i]
       ELSE UNCHANGED <<poolVars, flag>>
  /\ WhenGuard(t, scope[t], Declare("named", f, Classical(FALSE)), flag'[f])
  /\ UNCHANGED bit

\* WHEN(f) in the body of a WHEN(g), as the transpiler lowers it:
\*   qbool ctrl = g & f; WHEN(ctrl) { ... } uncompute_and(ctrl, g, f);
\* ctrl is declared in the body of the outer scope.
EnterNested(t, f) ==
  /\ MayEnter(t, f) /\ scope[t] # <<>>
  /\ LET outer == flag[Top(t).flag]
     IN  \E i \in Qubit :
           /\ BoolAnd(t, outer, flag[f], i)
           /\ LET ctrl == AndResult(outer, flag[f], i)
                  declared == [scope[t] EXCEPT ![Len(scope[t])].locals = Append(@, i)]
              IN  WhenGuard(t, IF ctrl = Ancilla(i) THEN declared ELSE scope[t],
                            Declare("nested", f, ctrl), ctrl)
  /\ UNCHANGED flag

\* Mutant: an active control is not folded into the new one.
LiftUnderFlagOnly(t, f) ==
  /\ MayEnter(t, f) /\ HasQubit(flag[f])
  /\ LET flag_q == [View(flag[f]) EXCEPT !.super = TRUE]
     IN  WhenGuard(t, scope[t], Declare("lift", f, flag_q), flag_q)
  /\ UNCHANGED <<poolVars, bit, flag>>

\* lift_under(f, body): under an active control, tmp = control & f is guarded,
\* else f itself.  Its callers pass a flag that has a qubit.
LiftUnder(t, f) ==
  /\ MayEnter(t, f) /\ HasQubit(flag[f])
  /\ LET flag_q == [View(flag[f]) EXCEPT !.super = TRUE]
     IN  IF current_control[t] = NoControl
           THEN /\ WhenGuard(t, scope[t], Declare("lift", f, flag_q), flag_q)
                /\ UNCHANGED <<poolVars, bit>>
           ELSE LET outer == Expr(t, current_control[t])
                IN  \E i \in Qubit :
                      /\ BoolAnd(t, outer, flag_q, i)
                      /\ LET tmp == AndResult(outer, flag_q, i)
                         IN  WhenGuard(t, scope[t], Declare("lift", f, tmp), tmp)
  /\ UNCHANGED flag

\* The body is over: what it declared goes, last declared first.
EndLocal(t) ==
  /\ ~aborted /\ scope[t] # <<>> /\ Top(t).locals # <<>>
  /\ LET k == Len(scope[t])
         locals == Top(t).locals
     IN  /\ Release(locals[Len(locals)])
         /\ scope' = [scope EXCEPT ![t][k].closing = TRUE,
                                   ![t][k].locals = SubSeq(locals, 1, Len(locals) - 1)]
  /\ UNCHANGED <<flag, current_control, current_control_qubit, control_stack, aborted, bit>>

MayLeave(t, kind) ==
  ~aborted /\ scope[t] # <<>> /\ Top(t).locals = <<>> /\ Top(t).kind = kind

LeaveWhen(t) ==
  /\ MayLeave(t, "named")
  /\ EndGuard(t)
  /\ aborted' = UnwindAsserts(t)
  /\ UNCHANGED <<poolVars, flag, bit>>

LeaveNested(t) ==
  /\ MayLeave(t, "nested")
  /\ EndGuard(t)
  /\ LET ctrl == Top(t).expr
         outer == flag[scope[t][Len(scope[t]) - 1].flag]
         inner == flag[Top(t).flag]
     IN  /\ UncomputeAnd(t, ctrl, outer, inner)
         /\ aborted' = (UnwindAsserts(t) \/ UncomputeAsserts(ctrl, outer, inner))
  /\ UNCHANGED <<poolVars, flag>>

\* tmp is uncomputed, then destroyed.
LeaveLift(t) ==
  /\ MayLeave(t, "lift")
  /\ EndGuard(t)
  /\ IF Top(t).prev_control_ = NoControl
       THEN UNCHANGED <<poolVars, bit>>
       ELSE /\ UncomputeAnd(t, Top(t).expr, Expr(t, Top(t).prev_control_), flag[Top(t).flag])
            /\ Release(Top(t).expr.qubit)
  /\ aborted' = UnwindAsserts(t)
  /\ UNCHANGED flag

-----------------------------------------------------------------------------
(* The program's statements on a flag f that no open scope tests: the       *)
(* transpiler rejects a body that changes what its WHEN tests.              *)

MayChange(t, f) ==
  /\ InBody(t) /\ ThreadOf[f] = t
  /\ f \notin Conditions(t)

\* f = qbool(p): a fresh qubit, prepared.  Its rotation leaves f in either
\* basis state.
Prepare(t, f) ==
  /\ MayChange(t, f) /\ scope[t] = <<>> /\ ~HasQubit(flag[f])
  /\ \E i \in Qubit, v \in BOOLEAN :
        /\ Allocate(i)
        /\ flag' = [flag EXCEPT ![f] = Ancilla(i)]
        /\ bit' = [bit EXCEPT ![ContextOf(t)][i] = v]
  /\ UNCHANGED guardVars

\* f = g copies the value and the mark of superposition, not the qubit.
Copy(t, f, g) ==
  /\ MayChange(t, f) /\ scope[t] = <<>> /\ ~HasQubit(flag[f]) /\ ThreadOf[g] = t
  /\ flag' = [flag EXCEPT ![f] = [flag[g] EXCEPT !.qubit = NoQubit]]
  /\ UNCHANGED <<poolVars, guardVars, bit>>

\* f.flip()
Flip(t, f) ==
  /\ MayChange(t, f) /\ HasQubit(flag[f])
  /\ bit' = [bit EXCEPT ![ContextOf(t)] = EmitX(t, flag[f].qubit)]
  /\ UNCHANGED <<poolVars, flag, guardVars>>

\* f ^= g
XorInto(t, f, g) ==
  /\ MayChange(t, f) /\ f # g /\ ThreadOf[g] = t
  /\ HasQubit(flag[f]) /\ HasQubit(flag[g])
  /\ bit' = [bit EXCEPT ![ContextOf(t)] = EmitCX(t, flag[g].qubit, flag[f].qubit)]
  /\ UNCHANGED <<poolVars, flag, guardVars>>

\* f[0] ^= (g[0] & h[0]), which folds the operands under a control.
AndInto(t, f, g, h) ==
  /\ MayChange(t, f) /\ Cardinality({f, g, h}) = 3 /\ ThreadOf[g] = t /\ ThreadOf[h] = t
  /\ HasQubit(flag[f]) /\ HasQubit(flag[g]) /\ HasQubit(flag[h])
  /\ IF control_stack[ContextOf(t)] = <<>> THEN UNCHANGED poolVars
     ELSE NextIndex \in Qubit /\ Borrow
  /\ bit' = [bit EXCEPT ![ContextOf(t)] =
                EmitCCX(t, flag[g].qubit, flag[h].qubit, flag[f].qubit)]
  /\ UNCHANGED <<flag, guardVars>>

\* ccnot_inplace(f, g, h), by which the transpiler replaces
\* `qbool s = g & h; f ^= s;`: one gate, without the control on the stack.
FuseInto(t, f, g, h) ==
  /\ MayChange(t, f) /\ Cardinality({f, g, h}) = 3 /\ ThreadOf[g] = t /\ ThreadOf[h] = t
  /\ HasQubit(flag[f]) /\ HasQubit(flag[g]) /\ HasQubit(flag[h])
  /\ bit' = [bit EXCEPT ![ContextOf(t)] =
                CCX(@, flag[g].qubit, flag[h].qubit, flag[f].qubit)]
  /\ UNCHANGED <<poolVars, flag, guardVars>>

\* BitProxy::ensure_quantum() on f, then BitProxy::flip(): the qubit of a
\* classical f is set to its value by gates that take the control on the stack.
PromoteAndFlip(t, f) ==
  /\ MayChange(t, f) /\ ~HasQubit(flag[f]) /\ current_control[t] # NoControl
  /\ \E i \in Qubit :
        /\ Allocate(i)
        /\ flag' = [flag EXCEPT ![f].qubit = i, ![f].super = TRUE]
        /\ bit' = [bit EXCEPT ![ContextOf(t)] =
                      LET set == IF flag[f].value THEN EmitX(t, i) ELSE @
                      IN  Toggle(set, Controlled(t), i)]
  /\ UNCHANGED guardVars

-----------------------------------------------------------------------------
(* The next-state relation. *)

\* A WHEN in a WHEN of the same function is lowered by the transpiler; one in
\* a library routine that the body calls goes through lift_under.
Innermost(t, kinds) == scope[t] # <<>> /\ Top(t).kind \in kinds

\* Both conditions have a qubit, or neither has.
SameKind(t, f) == HasQubit(flag[Top(t).flag]) = HasQubit(flag[f])

Enter(t, f) ==
  \/ scope[t] = <<>> /\ EnterWhen(t, f)
  \/ Innermost(t, {"named"}) /\ SameKind(t, f) /\ EnterNested(t, f)
  \/ LiftUnder(t, f)

Leave(t) == EndLocal(t) \/ LeaveWhen(t) \/ LeaveNested(t) \/ LeaveLift(t)

Statement(t, f) ==
  \/ Prepare(t, f)
  \/ Flip(t, f)
  \/ ~flag[f].value /\ PromoteAndFlip(t, f)
  \/ \E g \in Flag : Copy(t, f, g) \/ XorInto(t, f, g)
  \/ \E g, h \in Flag : AndInto(t, f, g, h)
  \/ \E g, h \in Flag : current_control[t] = NoControl /\ FuseInto(t, f, g, h)

Next ==
  \/ \E t \in Thread : Leave(t)
  \/ \E t \in Thread, f \in Flag : Enter(t, f) \/ Statement(t, f)

Spec == Init /\ [][Next]_vars

\* The same programs, which nest a third WHEN in the body of a second.
SpecCascade ==
  Init /\ [][Next \/ \E t \in Thread, f \in Flag :
                       Innermost(t, {"nested"}) /\ SameKind(t, f) /\ EnterNested(t, f)]_vars

\* The same programs, which nest a WHEN on a qbool without a qubit in one on a
\* qbool with a qubit, or the reverse.
SpecMixed ==
  Init /\ [][Next \/ \E t \in Thread, f \in Flag :
                       Innermost(t, {"named"}) /\ EnterNested(t, f)]_vars

\* The same programs, in whose bodies two statements are fused too.
SpecFusing ==
  Init /\ [][Next \/ \E t \in Thread, f, g, h \in Flag : FuseInto(t, f, g, h)]_vars

\* The same programs, which flip a bit whose classical value is true in a
\* body.  A thread that is in a scope gets to leave it.
SpecPromotingTrue ==
  /\ Init
  /\ [][Next \/ \E t \in Thread, f \in Flag : PromoteAndFlip(t, f)]_vars
  /\ \A t \in Thread : WF_vars(Leave(t))

-----------------------------------------------------------------------------
(* Properties. *)

\* The control stack of a thread's context and the cached qubit agree with the
\* thread's active control: one control while it has one, none otherwise.
OneControl ==
  \A t \in Thread : ~aborted =>
    IF current_control[t] = NoControl
      THEN control_stack[ContextOf(t)] = <<>> /\ current_control_qubit[t] = NoQubit
      ELSE LET q == Expr(t, current_control[t]).qubit
           IN  control_stack[ContextOf(t)] = <<q>> /\ current_control_qubit[t] = q

\* No assertion of ControlStack or of uncompute_and fails: a control is never
\* pushed on another one, nor popped from an empty stack, and what is
\* uncomputed has a qubit.
NoAssertFails == ~aborted

\* The one control a body's gates take is on exactly in the basis states that
\* satisfy the condition of every open scope, however deep they nest.
ControlMeansEveryScope ==
  \A t \in Thread : InBody(t) => (Controlled(t) <=> \A f \in Conditions(t) : Value(f))

\* The control temporaries of a thread, by the scope that releases them.
LocalsOf(t) == {l \in (1..MaxDepth) \X (1..high_water_) :
                  l[1] <= Len(scope[t]) /\ l[2] <= Len(scope[t][l[1]].locals)}
LiftsOf(t) == {k \in 1..Len(scope[t]) : scope[t][k].kind = "lift" /\ scope[t][k].expr.owning}

\* A qubit the pool would hand out is |0>: every temporary was uncomputed
\* before its destructor, which emits no gate, released it.
FreeIsZero ==
  \A c \in Context, i \in Qubit : i \in FreeSet \/ i >= high_water_ => ~bit[c][i]

\* Every index in use belongs to one flag or one temporary, and to no other.
TemporariesAreCounted ==
  in_use_ = Cardinality({flag[f].qubit : f \in Flag} \ {NoQubit})
            + Cardinality(UNION {{<<t, l>> : l \in LocalsOf(t)} : t \in Thread})
            + Cardinality(UNION {{<<t, k>> : k \in LiftsOf(t)} : t \in Thread})

\* In every basis state a program with its scopes lowered does what nested
\* classical conditionals would do.
Branches == INSTANCE Branching
  WITH val <- [f \in Flag |-> Value(f)],
       scopes <- [t \in Thread |-> [k \in 1..Len(scope[t]) |-> scope[t][k].flag]]
BranchingSpec == Branches!Spec
==============================================================================
