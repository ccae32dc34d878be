# A verification of STURM_CPP in TLA+

STURM_CPP lets a C++ program compute with quantum registers. The types `qint_t<W>`
and `qbool` overload the operators of C++; an operator emits gates, takes ancilla
qubits from a pool and gives them back; `WHEN(flag) { ... }` runs a body under a
quantum control. A source-to-source transpiler rewrites what the library cannot do at
run time: it undoes temporaries at the end of their scope, lowers nested WHENs, fuses
and reorders gates, writes adjoints, and wraps entry points. This directory holds TLA+
modules for the parts of that machinery that are hard to get right, the TLC
configurations that check them, and proofs that TLAPS checks.

Paths below are relative to the repository; `include/sturm` is shortened to `inc`, and
`transpiler/src` to `tr`.

## The system and what is hard in it

| Part | State | Operations | What makes it correct |
|---|---|---|---|
| `QubitPool` (`inc/core/qubit_pool.hpp`) | free list, high water mark, count | `allocate`, `release`, `reset_for_testing`, under one mutex | an index is never in use twice, none is lost, the count is exact |
| `qint_t`, `qbool` (`inc/qtypes`) | qubit indices, `owning_`, classical value and mask | constructors, moves, assignments, destructor, views, lazy promotion | each index has one owner, who releases it once |
| Control stack and `WHEN` (`inc/control`, `inc/core/control_stack.hpp`) | thread-local pointer to the active control, a stack in the thread's context | guard constructor and destructor, `lift_under` | at most one control, and it means the conjunction of all open conditions |
| Backend contexts (`src/sturm/core/context.cpp`, `init.cpp`) | installed context per thread, process default, mode, gate count | create, install, destroy, initialise | a gate goes to the context of the function it is in; none is used after it is destroyed |
| Gate dispatch and execution (`src/sturm/dispatch`, `execute_gate.cpp`, `inc/backend`) | recorded gates, simulated state | dispatch on classical, mixed and quantum bits; count, append, simulate; measure | dispatch changes the state as the gate does |
| Lifted gates, BitProxy, operators of `qbool`, uncompute API | none of their own | `^=`, `&`, `\|`, `flip`, `uncompute_*`, `ccnot_inplace` | a gate in a body acts exactly where the condition holds; temporaries are uncomputed |
| Library routines (`inc/detail/lib`) | ancillas in locals | add, subtract, compare, multiply, divide, logic, modular arithmetic, QRAM, with adjoints | the result is the arithmetic, each ancilla goes back as it came |
| Compound operators, lossy out-of-place forms (`inc/qtypes`, `inc/detail/qtypes`) | the left operand's qubits, a stash of upper halves | `+= -= *= /= %= &= \|= ^=`, forward and adjoint | the same, and replaced qubits are released, once |
| Transpiler, matchers (`tr/matcher_*.cpp`) | a record (`QUnit`) of operations by scope, replacements, insertions | one callback per kind of statement, called as the syntax tree is walked | each statement is recorded once, in its scope, with what undoes it |
| Transpiler, passes and emitters (`tr/uncompute_pass.cpp`, `tr/*_emitter.cpp`, `tr/transpile_consumer.cpp`) | edits to the source text | passes over the record in a fixed order | the text compiles and does what the source means |
| Transpiler, loop reversal, widths (`tr/loop_reversal.cpp`, `tr/width_inference.cpp`) | none | a reversed `for` header; the width of a declaration | the same values in the opposite order; operands of one width |

The parts interact in four ways. All threads share the pool. A thread's objects, guards
and routines share the context's control stack, which every gate reads. Routines
call each other and are run again, or backwards, to uncompute; what they promise each
other is that a fresh ancilla is |0>, and that is nobody's code: `release` resets
nothing, so one routine that gives back a dirty qubit breaks another one, later.
And the transpiler's passes share the record and the source text: each relies on
what another recorded, suppressed or moved. The hazards in `PROJECT.json` are of these
kinds: interleavings at the pool, objects in odd states met by later calls, the order
of guards, temporaries and uncomputation, sequences of legal calls that leave the pool
dirty, wrappers that meet exceptions and other wrappers, and rewrites that meet
other rewrites.

## Modules

| Module | Models |
|---|---|
| `QubitPool` | the pool: one action per method, `free_` as a sequence whose end is the top |
| `Registers` | objects of `qint_t<Width>` (a `qbool` is width 1), what each thread is in the middle of, and every operation that takes or gives qubits; extends `QubitPool` |
| `QubitLedger` | what `Registers` promises: who holds which qubit, which went astray, and that a qubit is taken only if nobody holds it |
| `RegistersProofs` | theorems about `Registers` |
| `QubitPoolProofs` | lemmas about the pool: how a caller that keeps its qubits in a table of places accounts for them, and how many there are |
| `WhenScopes` | `WHEN`, nested `WHEN` as the transpiler lowers it, `lift_under`, and statements in bodies; extends `QubitPool` |
| `Branching` | what `WhenScopes` promises: nested classical conditionals on booleans |
| `WhenScopesProofs` | theorems about `WhenScopes`, from `QubitPoolProofs` |
| `LibraryCircuits` | the library's routines and compound operators as sequences of statements |
| `ModularCircuits`, `QramCircuits`, `LossyCircuits` | modular routines and powers; the bucket brigade read; the scope the transpiler makes of a lossy operator. They extend `LibraryCircuits` |
| `LibraryMachine` | executes them: qubits, gates, controls, classical folding of bits without a qubit |
| `LibraryMachineProofs` | theorems about who has which qubit in `LibraryMachine`, from `QubitPoolProofs` |
| `Arithmetic`, `Calculator` | what each routine promises of numbers; what `LibraryMachine` promises: a call that returns has done the arithmetic and nothing else |
| `Amplitudes` | state vectors and gates, exactly, over the Gaussian integers up to a common factor |
| `GateDispatch` | dispatch of a gate on bits, the reduction table, and what each mode does with a gate on qubits; extends `Amplitudes` |
| `EntryPoints` | which functions the transpiler wraps, the wrappers, contexts, threads that run entry points, exceptions, failing creation; extends `GateDispatch` |
| `GateDispatchProofs` | theorems about `Amplitudes` and `GateDispatch`: gates, their decomposition, dispatch |
| `EntryPointsProofs` | theorems about the threads and contexts of `EntryPoints` |
| `ExactnessProofs` | theorems about the states of the bits in `EntryPoints`, from the two before |
| `SourcePrograms` | the functions the transpiler reads, as sequences of tokens, with scopes and names |
| `Matchers` | the matchers on the syntax tree, the passes on their record and the emitter, each as an operator from record to record; extends `SourcePrograms` |
| `Execution` | what a function does to one basis state, as the program means it and as its text runs |
| `Transpiler` | a function is written, matched statement by statement, emitted and executed; composes `Matchers` and `Execution` |
| `LoopReversal` | the reversed loop header in C++ integers that wrap, and the two loops |
| `LoopReversalProofs` | theorems about `LoopReversal` |
| `RegisterRewrites` | modular operators, QRAM subscripts, nested lossy operators and widths: matchers, suppressions and emitters in the order of `transpile_consumer.cpp` |
| `MC...` | instances for TLC |

How state corresponds to code.

- In `Registers`, `reg[r]` is an object (`qubits`, `owning_`), `call[t]` is the loop a
  thread is in: its counter and the indices it keeps in locals. A loop over bits is
  one step per bit because the pool's mutex is taken per bit. `value` and
  `super_mask` are left out: no decision about ownership reads them. `stray` is the set
  of indices that were put into an object that does not own; no code has it.
- In `WhenScopes`, `scope[t]` is the stack of guards with their fields `run_`,
  `modified_tls_`, `prev_control_`; `current_control` and `current_control_qubit` are
  the thread-local variables; `control_stack[c]` is the one in context c.
- In `LibraryMachine`, a routine is unrolled into statements, a statement expands
  into steps when it is executed, because what it does depends on which bits have a
  qubit and on the control; `at` maps bits to qubits. `bit` is the basis state: every
  gate there (X, CX, CCX) permutes basis states, so a circuit is right if it is
  right on each of them. It steps where another thread could see a difference: an
  allocation or release is a step, gates between two of them are one.
- In `EntryPoints`, `installed[t]` is `s_thread_ctx`, `context` the heap of contexts,
  `stack[t]` the wrapped and other functions a thread is in, `todo[t]` the layer-B
  gates that a dispatched gate still has to send, one step each. `ideal[t]` is the
  state the thread's own gates make of its bits; no code has it.
- In `Transpiler`, `ts` is the source text, `unit` is `QUnit`, `output` the text after
  the edits; a step of `Visit...` is one callback of Clang's `MatchFinder`, with all
  matchers registered for that kind of statement in their order. Registers have one
  bit there: what the passes decide does not depend on widths.
- In `RegisterRewrites`, `hits` are the hit lists of the consumer, `edits` its
  replacements and insertions, and a step is one drain of a hit list.
- In `LoopReversal`, `loop` is the header as written, `back` the one that
  `reverse_for_header` writes, `ahead` and `behind` the values the variable takes.

## What TLC checks

| Run | Bounds | Properties |
|---|---|---|
| `qbool` | 2 threads, 3 objects of width 1, 3 indices | `TypeOK`, `Exclusive`, `NoLeak`, `InUseIsHeld`, refinement `LedgerSpec` |
| `qint` | 1 thread, 2 objects of width 2, 4 indices | action property `ReleasedByHolder` |
| `nesting` | 1 thread, 4 flags, depth 3, 6 indices | `TypeOK`, `OneControl`, `NoAssertFails`, `ControlMeansEveryScope`, `FreeIsZero`, `TemporariesAreCounted`, refinement `BranchingSpec` |
| `threads` | 2 threads with 2 flags each, one in the default context, depth 2, 5 indices | `OneControl`, `NoAssertFails` |
| `library` | 18 routines on 2-bit registers, any 2 calls, each in a WHEN or not, and 13 compound operators, 9 of them also on a constant, 1 call; 32 indices | `FreeIsZero`, `Distinct`, `Balanced`, refinement `CalculatorSpec` |
| `modular` | 14 modular routines, QRAM and their adjoints on 2-bit registers, 1 call, 44 indices | `FreeIsZero`, `Balanced`, refinement `CalculatorSpec` |
| `contexts` | 2 threads, 3 bits, at most 3 contexts alive, 2 gates of every kind but T with 1 call, or 1 gate with 2 calls | `TypeOK`, `GatesGoHome`, `InstalledIsAlive`, `NothingLeaks`, `CountIsExact`, `WrappedOnce`, `DispatchIsExact` |
| `blocks` | functions of up to 5 tokens from 12 menus, 3 parameters, all values | `Compiles`, `CallsSeeTheSource`, `ClosedClean`, `ParametersRestored`, `WhenOperandsKept`, `AdjointUndoesTheProgram` |
| `loops` | integers of 4 bits, 19 bounds, 11 increments, all comparisons | `TakesValuesBack`, liveness `ComesBack` |
| `rewrites` | functions of up to 4 tokens from 4 menus, 2-bit registers, 4 arrays | `Compiles`, `CallsSeeTheSource`, `ReadsAreUndone` |
| `convert` `divide3` | the least that shows the fault | one property each, violated |

What they show.

- `qbool` and `qint`: whatever order constructors, moves, views, assignments, promotions,
  destructors and library calls come in, and however the loops of two threads
  interleave, an index has one holder, the pool offers none that is held and counts
  them right. None is lost but by promoting an object that does not own, as the code does with
  one that was moved from.
  An index goes back to the pool only from the thread that holds it, when no other
  does, and it holds it no longer.
- `nesting` and `threads`: scopes of any kind, opened and closed in any nesting with
  statements in between, put one control on the stack, which is on exactly where all
  conditions hold; the temporaries that hold it are uncomputed and released; what the
  program does to its flags is what nested `if`s would do. `x ^= a & b` on bits of registers
  keeps the control (`AndInto`); the gate that the transpiler writes for a fused pair of
  statements does not (`FuseInto`), so `Spec` has it outside of
  bodies only, and `SpecFusing` in bodies too, where it fails.
- `library` and `modular`: a routine that is handed what it asks for does its arithmetic
  on all operands, under a control and without, and gives back every ancilla |0>;
  its adjoint takes that back. The operators do so too: they promote bits of a
  constant, release the left operand's qubits and take over those of the result. A
  lossy operator in a scope (`{*=}`, `{/=}`, `{%=}`, `{&=}`, `{|=}`) is undone at its end.
- `contexts`: whatever the source marks as an entry point and however often it goes
  through the transpiler, it is wrapped once; gates, modes and measurements go to the
  context of their function; the count of a context is exact though nothing locks
  it; a gate does to the amplitudes of its bits what it means, however many of them
  are classical, in APPEND mode (by replaying what was recorded) and in SIMULATE mode.
- `blocks`: outside of the known divergences, a transpiled function compiles, shows every
  call the values the source means, leaves no variable dirty when its block closes,
  leaves every parameter of a function to which that applies as it was, and its
  adjoint takes it back, on all values of its parameters.
- `loops`: the reversed loop takes the same values the other way around, also with
  strides that do not divide the range, for signed and unsigned variables; both end.
- `rewrites`: the passes that rewrite whole statements do not rewrite the same
  characters, whichever of them matched; widths agree, and table reads are undone.

Bounds. They are small because the interesting cases are. Two threads and two
positions per loop give every relative order of an allocation and a release. Depth 3
is the first at which a guard restores a control that is itself inside another; four
flags leave one to act on there. Two calls in a row are the least that shows a dirty
qubit (the first leaves it, the second takes it) or runs an adjoint after its
forward routine. Width 2 has a middle carry and two rounds of division; all values
of the registers are initial states. Modular routines run once: their second call
is the adjoint, which starts from what the forward routine would have left. Five
tokens hold a temporary, what it is made from, a scope and two readers; a menu has
the statements that one family of matchers reacts to, since the matchers of
different families meet in scopes, names and positions, which every menu has. Four
tokens hold two reads that depend on each other, or a sum, its reduction and a
reader between them. Four bits are the least in which a stride of 5 and both edges
of the two integer types are far enough apart. Contexts: one thread tries all gates,
two threads few gates and nested calls (`Plans`).

The bounds by name: `MaxHighWater` (indices the pool may issue), `MaxDepth` (scopes),
`MaxCalls` (calls), `Width`, `MaxTokens` (length of a function), `Heap` (contexts alive
at once), `Plans` (what a program of `EntryPoints` may contain), `Menus` (statements a
function is written from), `Values` and `Strides` (the integers of a header). Nothing
but the guards reads them.

Symmetry. The objects of one thread are interchangeable in `qbool`, flags in `nesting`,
the flags of a thread in `threads`; only safety is checked there, so it is sound.

Fairness. `LoopReversal` assumes `WF_vars(Next)`: a sequential loop that can take its next
step takes it, since nothing else runs in the function and the C++ program does not
stop by itself. `ComesBack` is checked under it. Nothing else is a liveness property,
because no other part waits for anything: a mutex is held for one step, a loop over
bits has a fixed number of rounds, a scope is left when the program leaves it.
(`SpecPromotingTrue` has fairness for leaving scopes.)

Deadlock is checked except in `contexts`, `blocks`, `loops` and `rewrites`, whose
programs end: main returns, or the text is written and executed.

Preconditions. Where the library asks something of its caller (a carry that starts |0>, a
divisor that is not 0, operands below the modulus, for an adjoint a state the
forward routine produces), `Accepts` in `Arithmetic` says so and calls are made only
then. The left operand of an operator is always quantum, a constant is as large as the
number in the other register. `FreeIsZero` exempts compound assignments outside of a
scope, which give back the qubits of the value they lose; that is why only one of
them is called. Those in a scope that undoes them are not exempt.

### Where the code does not do what it says

Two runs exhibit a step at which the code contradicts a comment of the repository;
`PROJECT.json` quotes each line.

- `convert`: a qint_t made from a qbool shares its qubit and both release it.
- `divide3`: division is wrong from width 3 on: the ANDs in the overflow test are released
  dirty. Compiling the library against a simulator of permutation gates shows the
  same, 0/4 gives quotient 2.

The rest was met while modelling and is kept out of the passing runs, in one of two
ways. In the library's modules the step that fails is left out by the specification
(`Spec` against `SpecCascade`, ...) or by constants. In the transpiler's modules and in
`EntryPoints` the models have it, and the properties excuse the programs in which it
happens, each kind under a name in `Excused`; the operator of that name says
precisely which programs. Taking a name out of a configuration shows the divergence.

Library, by the change of a configuration that shows it:

| What | Change | Violated |
|---|---|---|
| an object that does not own (moved from, or a view without a qubit) is promoted like any other, and nobody releases the qubit it gets: `ensure_qubit` (`qbool.hpp:147`; `qint_core.hpp:252`, `:319`) asks for the index, not for `owning_`. `qint_core.hpp:69` says such qubits are "managed elsewhere" | `ManagedElsewhere` as an invariant in `MCRegisters_qbool.cfg` | `ManagedElsewhere` |
| `&=` on a view releases qubits it does not own (`qint_bitwise_v3.hpp:87`) | `SpecRelabellingViews` in `MCRegisters_convert.cfg` | `Exclusive` |
| threads without a context of their own share a control stack (`context.cpp:63`) | `Installed <- BothDefault` in `MCWhenScopes_threads.cfg` | `OneControl` |
| the third of three nested WHENs loses the outermost condition (`matcher_when_nested.cpp:282`; `docs/01_principles.md:68` says conditions stack) | `SpecCascade` in `MCWhenScopes_nesting.cfg` | `ControlMeansEveryScope` |
| `ccnot_inplace`, which the transpiler writes for two statements it fuses (`matcher_ccnot_fuse.cpp:305`), emits one CCX without the control (`uncompute_api.cpp:285`), so that a body acts where its condition is off (`docs/01_principles.md:14` says it runs under it) | `SpecFusing` there | `BranchingSpec` |
| `uncompute_and` fails its assertion if one of two nested conditions is classical (`uncompute_api.cpp:198`) | `SpecMixed` there | `NoAssertFails` |
| a classical 1 that is promoted in a body is wrong where the control is off (`bit_proxy.hpp:107`) | `SpecPromotingTrue` there | `BranchingSpec` |
| `x += y; x -= y` does not give x back, for want of a clean carry (`qint_arith_v3.hpp:68`) | `Routines` and `Repeated` = `{"+=", "-="}`, `Width = 1`, `MaxCalls = 2` in `MCLibraryMachine_divide3.cfg` | `ResultIsRight` |
| `x -= constant` adds, because flipping a classical bit does nothing (`adder_dsl.hpp:183`) | `Routines` and `OnLiterals` = `{"-="}`, `Width = 1` there | `ResultIsRight` |
| `lib_mod_dsl` does not zero its quotient (`mod_dsl.hpp:51`), `lib_le_dsl`, `lib_ge_dsl` do not undo `lib_lt_dsl` (`compare_dsl.hpp:144`) | `Routines = {"mod"}` or `{"le"}`, `Width = 1` in `MCLibraryMachine_modular.cfg` | `FreeIsZero` |
| routines instantiated with `qbool` release dirty temporaries (`qint_compare_v3.hpp:100`) | `BitType = "qbool"`, `Routines = {"lt"}`, `Width = 2` in `MCLibraryMachine_divide3.cfg` | `ResultIsRight` |

| `lib_double_mod_dsl` may add its witness to a bit that is not 0, its comment says (`double_mod_dsl.hpp:39`), but it reads that bit as a control (`:216`) and then does not double | `Routines = {"double_mod onto"}`, `Width = 2` there | `ResultIsRight` |
| `lib_square_mod_dsl` may add its witness to what is there (`square_mod_dsl.hpp:34`), and then its scratch register goes back dirty | `Routines = {"square_mod onto"}` in `MCLibraryMachine_modular.cfg` | `FreeIsZero` |
| a constant operand of a lossy operator in a scope is copied into an object that does not own, and the qubits the copy is given are never released (`lossy_oop.hpp:191`, `divide_oop.hpp:40`); of `/=` and `%=` the temporaries stay dirty too | `"{*=}"`, or `"{/=}"`, `"{%=}"`, added to `OnLiterals` in `MCLibraryMachine_library.cfg` | `Balanced`, `FreeIsZero` |

Contexts (`MCEntryPoints_contexts.cfg`):

- `nested`: a wrapped function that a wrapped function calls clears the thread's context
  when it returns (`main_lifecycle_emitter.cpp:151`), and the caller's gates go to the
  process default.
- `throw`: an exception skips the lines that clear and destroy the context.
- `memory`: `sturm_backend_create` may return NULL, and the gates go to the process default.

Not excused because no run has them: a count in the process default that two threads
increment at once; SIMULATE in a wrapped main before `init` has connected the
simulator; a classical target of `dispatch_gate_mixed`, which drops the gate;
`measure` in the modes without a state, which gives the stored value.

Transpiler (`MCTranspiler_blocks.cfg`):

- `hoist`: what undoes a hoisted temporary moves behind the loop, its declaration does
  not, so the name is unknown there.
- `fresh`: two matchers number their fresh names apart and may use the same one
  (`fresh_names.hpp:30` says they do not).
- `fuse`: the gate that replaces a fused pair does not get the control of its WHEN, and
  the guard for loops does not see its target.
- `reorder`: a statement that was moved counts as fused, and what it does is no longer
  undone (`matcher_peephole_reorder.cpp` promises not to alter semantics).
- `nesting`: only a WHEN on a name, directly in one on a name that is in no other, gets
  the conjunction of the conditions.
- `not`: `operator~` flips a fresh qubit, whatever its operand.
- `xor`: `operator^` ignores the control and what undoes it takes place under it.
- `and`: a temporary `t = a & b` that is not fused is never undone
  (`docs/algorithm_authors_guide.md:258` says it is).
- `block`: a plain block undoes at its end what it changed outside of it.
- `lossy`: lossy assignments are undone after the others of their block, and with the
  block even if they change a variable of an outer one.
- `braces`: the brace that closes a body without braces lands before its semicolon, and
  what a WHEN without braces needs before it takes its place as the loop's body.
- `call`: a routine called in a WHEN may change the condition.
- `outer`: what a routine did to a variable of an outer block is undone at the end of that
  block in the order of the scopes, not in the order in which it was done.
- `final`: what a routine did to a parameter stays, and what was made from the parameter
  before is undone with what it holds now.
- `return`: what undoes a block is inserted before its last brace, behind its `return`.
- `adjoint`: the adjoint has only the operations of the function's own scope, none of its
  blocks and loops, no locals, and does what the closing scope undid once more.

Loop headers (`MCLoopReversal_loops.cfg`; only tests call `reverse_for_header`):

- `empty`: a loop that is empty by less than a stride gets a trip.
- `signs`: `i >= 0u` is always true, and an `int` variable meets unsigned bounds.
- `overflow`: the text computes values outside of `int`, or the last step leaves it.

Registers (`MCRegisterRewrites_rewrites.cfg`):

- `declarators`: a rewritten declaration drops its other declarators.
- `nested`: products in a `%=` or `*=`, and subscripts in an index, do not compile.
- `argument`: no matcher and no diagnostic sees a subscript in an argument or in `^=`.
- `helper`: `c = a[i]` calls `__QRAM_target_uncompute`, which nobody defines.
- `widths`: every `qint` of a function gets the default width, so that an array of another
  width does not compile, and the mismatch is not reported because width inference
  runs without diagnostics (`matcher_qram_subscript.cpp:197`).
- `pointer`: a pointer whose length is not the next parameter gets a placeholder.
- `scope`, `order`, `changes`: reads are undone where the function ends, the first
  first, on what the index holds then.
- `wraps`: `(a + b) % n` wraps at the register's width in the library and `add_mod` does not.

The text of an undone read is `invert<&::sturm::QRAM_read>()`, whose overload is
ambiguous; the model gives it the meaning it should have.

## What is proved

### Registers

`RegistersProofs` proves about `Registers`, for every set of threads and objects,
every width and every bound on the pool: types (`TypeCorrect`), that no index has two
holders or a holder while it is free (`ExclusiveOwnership`), that promoting an object that
does not own is the only way to lose one (`NothingLeaks`), that the count is exact
(`CountIsExact`), that only the thread that holds an index puts it on the free list, while
no other holds it, and does not keep it (`OnlyHoldersRelease`), and that the objects
implement the ledger (`ImplementsLedger`).

`Exclusive` is not inductive: it speaks of who holds what, while a loop's steps depend on
where its counter is. The invariant `IInv` adds what a call in progress guarantees
(`CallOK`: which positions of its locals hold qubits, that an object whose qubits it
replaces owns them or has none where the loop still has to go), and says exclusiveness
as a bijection (`Exact`): every issued index is in exactly one slot, of the free list, of
an object or of a call, or astray. A step takes an index from one slot and puts it in
another or astray, so its effect on `Exact` is a lemma about moving, adding or removing
one slot, used once per action. Counting follows from the
same bijection: `in_use_ + Len(free_) = high_water_`. The assumptions are those in
`Registers`: a register belongs to one thread, the width is positive, holders are not
confused.

No step asks whether an object owns what it has unless the code does: promotion of moved-from
objects and of views is among the steps of the theorem. `SpecConverting` (run `convert`) and
`SpecRelabellingViews` are outside: they have the actions that break it.

### Scopes

`WhenScopesProofs` proves about `WhenScopes`, for every number of threads, flags and
qubits and every depth of nesting: types (`TypeCorrect`), one control per context that
the thread-local cache agrees with (`AlwaysOneControl`), that no assertion fails
(`AssertionsHold`), that the control of a body is, in every basis state, the conjunction
of the conditions around it (`ControlIsConjunction`), that free qubits are zero
(`FreeQubitsAreZero`), that `in_use()` is the number of flags and temporaries with a qubit
(`CountedTemporaries`), and the refinement of `Branching` (`ImplementsBranching`).

One assumption is not in the model: `OwnContexts`, that no two threads have the same
context, which both runs satisfy. It is necessary. The control stack belongs to the
context, the current control to the thread (`thread_local`), so of two threads that have
installed no context each pushes on the process default's stack and takes the other's
control off it; the configuration `BothDefault`, under "Where the code differs", shows it.

`SpecFusing` is outside, and so are `SpecCascade`, `SpecMixed` and
`SpecPromotingTrue`; `Spec` has `ccnot_inplace` outside of bodies, as the bare gate it is.

None of these is inductive by itself. What a guard's destructor does depends on fields
its constructor wrote, on what is on the stack by then, and on whether statements in
between left the operands alone. `IInv` has four parts.

- A scope is sound by what is below it alone (`NamedOK`, `NestedOK`, `LiftOK`): its
  `prev_control_` is the control of the scope below, it has pushed if its expression has a
  qubit, its operands are what they were. Opening and closing change the list of scopes
  at its end only, so the others stay sound (`Pushed`, `Popped`).
- The thread's cache and its context's stack are what the innermost scope makes them
  (`ControlOK`).
- The table of who has which qubit is exact with the pool (`Exact`, over flags, temporaries
  of outer bodies and those of lifts).
- In every basis state, the qubit of a control holds the conjunction of the conditions up
  to it, and every qubit nobody has is zero (`Guarding`, `ZeroElsewhere`). The two need each
  other: a fresh temporary computes a conjunction only if it was zero, and it is zero
  when it goes back only if its operands have not changed since.

For the refinement, a step that opens a scope maps to opening a conditional, a gate to
the toggle of those flags that are on in the basis state at hand, and the steps on
temporaries to stutters.

### Entry points

`EntryPointsProofs` proves about `EntryPoints`, for every number of threads, contexts and
calls: that a function is wrapped once (`OneWrapper`), that no thread has a destroyed
context installed (`InstalledContextsLive`), that the count of a wrapper's context is exact
(`OwnCountsAreExact`), that contexts do not leak (`NoContextLeaks`) and that gates go to the
context of their wrapper (`GatesStayHome`).

The invariant gives each thread its own contexts, those its wrappers made and the one
it has installed, and says that they exist and no other thread has them (`Apart`). So
nobody destroys a context that another thread uses, and the count a thread has read
before it writes it back is still the count (`Counting`): the increment takes two steps
and no lock, and that is why it loses nothing. In a thread, the wrapper that is about to
destroy its context has installed none (`ThreadOK`), even when it called another wrapper.

The first three hold whatever is excused. The fourth needs that exceptions are excused and
the fifth that nested wrappers and failed allocations are too, which the theorems assume
of `Excused`; the invariant's last two parts (`Wanted`, `AtHome`) hold until one of these
happens. In the states they speak of none has, as in the run. The model's assumption about
its plans (`PlansAssumption`) says what type a plan has, and that a gate it may dispatch
has an angle, the operands its kind asks for, and none of them twice.

### Gates and what they do to the bits

`GateDispatchProofs` and `ExactnessProofs` prove that the bits of a thread are, between its
gates, in the state that the gates its functions wrote make of them
(`DispatchStaysExact`), for every number of threads, bits, qubits and contexts, every gate
but T, every angle the ring has, and every interleaving of dispatch, execution,
measurement and calls; and that types are kept (`TypesStay`). The run tries three bits.

The argument has three layers.

- Gates (`SimulationIsExact`). Two vectors that differ by a factor cannot be told apart,
  and every gate keeps that: it is linear and turns no state into 0. The controlled
  rotations that `exec_simulate` takes apart into CX and rotations are shown to be what
  they stand for amplitude by amplitude, up to the factor that the gate carries because no
  amplitude is divided.
- One dispatch (`EveryDispatchIsExact`). Classical bits and the qubits of the others
  together stand for a state of the bits (`Together`), provided that the qubits no bit
  has are 0 (`Within`). Flipping a classical bit, promoting one to a fresh qubit, and
  each row of the reduction table make of that state what the gate as written means
  (`Faithful`). Promotion goes operand by operand, and at each there is a qubit to be had
  because there are at least as many as bits.
- Threads (`ExactInvariance`). A dispatch only leaves gates to be executed, into a
  context that other threads may be using. So `Matches` says of bits, qubits and the gates
  still to come that they match the state the program means, and is kept when one of
  these is executed or a qubit is measured. `Tracked` says it of what a thread knows
  of its qubits (`Knows`): if all its gates went to one context in one mode, the qubits
  are as that context recorded or simulates them; if they went nowhere, they are 0. That
  the thread's only context holds nothing from anyone else is where `EntryPointsProofs`
  comes in: contexts of different threads are apart (`Only`, `LocalStep`), and a new
  context that has been sent no gate has recorded none (`ContextIs`).

`DispatchIsExact` is far from inductive: it speaks of the moments between gates only, and
of threads whose gates went to one context. `Tracked` therefore covers the moments in
between, and threads whose gates went astray, of whom it only says that they did. TLC
checked the invariant on the `contexts` run's instance before it was proved.

`DispatchStaysExact` assumes of `Excused` what `GatesStayHome` does: when wrappers nest or
exceptions leave one, gates go to several contexts and no one circuit has them.
`TypesStay` assumes nothing. Assumptions on the constants: qubits are finitely many
naturals (`QubitsAssumption`; a promoted bit gets the least that no bit of the thread has),
and there are as many as a thread has bits (`BitsAssumption`): in the code the pool grows.

The replay of a circuit (`Replay`) is a recursive function on the numbers up to its
length. What is needed of it (`TraceExists`, `ReplayAppend`) is proved by the least
counterexample (`LeastNatural`, from the library's `WFMin`), since induction itself takes an
operator as a parameter, which no installed prover can instantiate. Dispatch promotes
two operands at most, so that recursion is unrolled.

### Routines of the library

`LibraryMachineProofs` proves about `LibraryMachine`, for registers of every width, any set
of routines and any number of calls, that two bits that are alive never share a qubit and
none of theirs is on the free list (`BitsHaveTheirOwnQubits`); that a qubit is lost, in the
middle of a routine or between two, only by overwriting the index of a bit that has one
(`OnlyOverwritingLoses`); and that `in_use()` is the number of bits alive that have a qubit,
plus that of the qubits lost (`CountCoversTheBits`).

Which steps a routine takes is computed by folds, about which nothing can be proved here.
The invariant does not need it: it is kept by every kind of step (a bit takes a qubit, gives
it back, is declared, moves its qubit, exchanges it or forgets it) in whatever order
they come. It differs from the one for scopes and registers in that a qubit may be lost
(`Apart` instead of `Exact`), since the copy of a constant forgets the qubits it was given
without releasing them. `Lost` are the indices that neither a bit nor the free list has;
allocation, release, declaration and exchange leave that set as it is, and the count
follows the bits. That routines release them all is `Balanced`, which depends on the
order of the steps and is only model-checked. A step names bits that are declared, as C++
scopes do; that the routines never get stuck on this is TLC's check for deadlock. Of the
assumptions on constants only `WidthAssumption` is used, for the layout at the start.

### Reversed loops

`LoopReversalProofs` proves about `LoopReversal` that the header `reverse_for_header` writes
takes the values of the loop back (`ReversesTheLoop`), for integers of every width and all
bounds and strides: products and quotients as C++ computes them, with the
conversions between `int` and `unsigned`. The run tries four bits.

The values of the forward loop are the terms of an arithmetic progression (`Progress`). The
header computes the number of strides to the bound by a division that
truncates; `LastUpward` and `LastDownward` show that this finds the last term, for each
of the comparisons, because the division leaves less than a stride. From there the reversed
loop is always as many strides from the initial value as there are values left to take
(`BackOK`), so it stops where it should and not before. A loop without a value must not
make a trip either (`NoTrip`).

The theorems assume that "empty" and "signs" are excused, the two in which the
code is wrong (see above); a loop that leaves `int` violates nothing here, it never
gets to its end, which is why liveness excuses it and these do not. Two assumptions
about the constants say that literals fit their types (`ValuesAssumption`,
`StridesAssumption`).

### Only model-checked

- Liveness (`ComesBack`), which is out of the prover's reach.
- What routines compute, and with it `FreeIsZero`, `Balanced` and `CalculatorSpec` of
  `LibraryMachine`: routines are unrolled by folds over sequences, with operators as
  parameters, and that the unrolled circuit adds or multiplies needs an induction over
  the width for each of them, with an invariant for every statement of every routine. The
  least counterexample would do for one induction; the operators it cannot instantiate.
- Everything about `Transpiler` and `RegisterRewrites`: texts are matched and executed by
  recursive operators (`Matchers`, `Execution`, `SourcePrograms`).

## Plan

1. Done: the pool, registers, scopes, the library with modular arithmetic, QRAM and lossy
   operators, dispatch and contexts, the transpiler's passes; proofs about registers,
   scopes, entry points, gates and their dispatch, the qubits of the library's routines
   and reversed loops.
2. Next, proofs: `FreeIsZero` of `LibraryMachine` for the routines that take no temporary
   by a fold (`or`, `nand`, `nor`, `xnor`, `swap`), from the fact that a gate whose operands
   have not changed undoes itself.
3. Then: the rest of the quadrants of `uncompute_or`; several functions in one
   translation unit, with adjoints that call each other (`synthesis_registry.cpp`);
   registers some of whose bits are classical.

## Not modelled

- The T gate and rotations by other angles than multiples of a quarter turn: their
  amplitudes are not Gaussian integers.
- Circuit drawing and event sinks: no influence on the program.
- Declarations for the type checker whose bodies never run (`qint`, its shifts) and the
  arithmetic of the classical build.
- The adjoint registry `invert`, a compile-time table; the routines in it are modelled.
- Clang, the command line, the plugin, files and the wording of diagnostics.
- `pow_mod` in the transpiler, which a build option turns on; `lib_pow_dsl`, which reads
  the simulator's state and is called by tests only.
- The Orkan simulator beyond the gates `exec_simulate` calls (third party).
