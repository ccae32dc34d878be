----------------------------- MODULE EntryPoints -----------------------------
(***************************************************************************)
(* Threads, the contexts their gates go to, and the functions that create  *)
(* and destroy contexts.  The transpiler wraps the body of main and of     *)
(* every function that is marked as an entry point:                        *)
(*                                                                         *)
(*     ctx = sturm_backend_create(mode); sturm_set_thread_context(ctx);    *)
(*     <the body>                                                          *)
(*     sturm_set_thread_context(nullptr); sturm_backend_destroy(ctx);      *)
(*                                                                         *)
(* A thread without a context uses the process default, which all of them  *)
(* share.  The program is built, perhaps through the transpiler twice;     *)
(* then its threads call functions that dispatch gates, measure, set the   *)
(* mode, call each other and throw.                                        *)
(***************************************************************************)
EXTENDS GateDispatch

CONSTANTS
  Threads,    \* the threads
  Main,       \* the thread that runs main
  Heap,       \* bound: the contexts that may be created
  Bits,       \* the bits a thread's gates are on
  Plans,      \* bound: what a program may do, see PlanOK
  Excused     \* the ways a gate may go astray that the properties leave out

ASSUME MainAssumption == Main \in Threads
ASSUME BitsAssumption == IsFiniteSet(Bits) /\ Bits # {} /\ Cardinality(Bits) <= Cardinality(Qubits)

Default == "process default"
NoContext == "none"
Functions == {"main", "work", "help"}
Modes == {"COUNT_ONLY", "APPEND", "SIMULATE"}

\* In a plan: how often the transpiler sees the source, what may be true of main
\* and of the two other functions, the modes, the bits that may be 1 at the
\* start, how many gates a thread dispatches and which, how many calls it makes, and whether functions call and throw.
PlanOK(p) ==
  /\ p.passes \in Nat /\ p.gates \in [Threads -> Nat] /\ p.calls \in [Threads -> Nat]
  /\ p.menu \subseteq [kind : Kinds, z : Int \X Int, ops : Seq(Bits)]
  /\ \A op \in p.menu : op.z # Zero /\ Len(op.ops) = Arity(op.kind) /\ IsInjective(op.ops)
  /\ p.values \subseteq SUBSET Bits /\ p.modes \subseteq Modes /\ p.throws \in BOOLEAN /\ p.helps \in BOOLEAN

ASSUME PlansAssumption == \A p \in Plans : PlanOK(p)

VARIABLES
  plan,      \* what the program may do
  source,    \* what is written of each function
  passes,    \* how often it went through the transpiler
  wrappers,  \* the wrappers each function has got
  context,   \* the contexts there are
  installed, \* s_thread_ctx
  stack,     \* the functions a thread is in
  bits,      \* the bits a thread's gates are on
  todo,      \* the layer B gates a thread has yet to execute
  counter,   \* what it read of the gate count it is incrementing
  ideal,     \* history: the state its gates, as written, make of the bits
  spent,     \* history: the gates and calls it has made
  went,      \* history: where its gates went since its outermost call
  sent,      \* history: how many went to each context
  mishaps    \* history: the ways gates went astray so far

vars == <<plan, source, passes, wrappers, context, installed, stack, bits, todo,
          counter, ideal, spent, went, sent, mishaps>>
programVars == <<plan, source, passes, wrappers>>
ghosts == <<ideal, spent, went, sent, mishaps>>

-----------------------------------------------------------------------------
(* The transpiler. *)

SupportedMain(fn) == fn.returns = "integer" /\ fn.parameters

Shape(fn) ==
  CASE fn.returns = "void" /\ ~fn.method -> "EntryPointVoid"
    [] fn.returns = "integer" /\ ~fn.method -> "EntryPointReturn"
    [] OTHER -> "none"

HasContextProbe(fn) == wrappers[fn] # <<>>

\* The two matchers, that of main first; a function gets one hit.
MainHits(f) ==
  LET fn == source[f]
  IN  IF f = "main" /\ SupportedMain(fn) /\ source.umbrella /\ ~source.optout /\ ~fn.gtest
         /\ ~HasContextProbe(f)
      THEN <<"Main">> ELSE <<>>

\* Mutant: the hits of both matchers are kept.
EntryHitsOfBoth(f) ==
  LET fn == source[f]
  IN  IF fn.annotated /\ Shape(fn) # "none" /\ source.umbrella /\ ~source.optout
         /\ ~HasContextProbe(f)
      THEN <<Shape(fn)>> ELSE <<>>

EntryHits(f) ==
  LET fn == source[f]
  IN  IF fn.annotated /\ Shape(fn) # "none" /\ source.umbrella /\ ~source.optout
         /\ ~HasContextProbe(f) /\ MainHits(f) = <<>>
      THEN <<Shape(fn)>> ELSE <<>>

\* What is written matters to the transpiler only.
Compiled == [umbrella |-> FALSE]

Transpile ==
  /\ passes < plan.passes
  /\ \A t \in Threads : stack[t] = <<>> /\ spent[t].calls = 0
  /\ passes' = passes + 1
  /\ wrappers' = [f \in Functions |-> wrappers[f] \o MainHits(f) \o EntryHits(f)]
  /\ source' = IF passes' = plan.passes THEN Compiled ELSE source
  /\ UNCHANGED <<plan, context, installed, stack, bits, todo, counter, ghosts>>

-----------------------------------------------------------------------------
(* Contexts. *)

\* sturm_get_thread_context.
Current(t) == IF installed[t] = NoContext THEN Default ELSE installed[t]

Alive == DOMAIN context

Top(t) == Last(stack[t])

\* Where the gates of the function on top belong: to the context that the
\* innermost wrapper around it made.
Home(t) ==
  LET wrapped == {i \in DOMAIN stack[t] : stack[t][i].wrapped}
  IN  IF wrapped = {} THEN NoContext ELSE stack[t][Max(wrapped)].own

Frame(f, wrapped) == [f |-> f, wrapped |-> wrapped, own |-> NoContext,
                      at |-> IF wrapped THEN "enter" ELSE "body"]

\* Which address a new context gets makes no difference, but it may be that of
\* one that was destroyed.
FreshHandle == IF Heap \subseteq Alive THEN NoContext ELSE CHOOSE c \in Heap : c \notin Alive

\* The context of the wrapper may fail to be allocated: then it is null.
Create(t) ==
  /\ stack[t] # <<>> /\ Top(t).at = "enter"
  /\ \/ \E mode \in plan.modes : \E c \in {FreshHandle} :
          /\ c # NoContext
          /\ context' = [d \in Alive \cup {c} |-> IF d = c THEN FreshContext(mode) ELSE context[d]]
          /\ stack' = [stack EXCEPT ![t][Len(stack[t])] = [@ EXCEPT !.own = c, !.at = "install"]]
          /\ sent' = [sent EXCEPT ![c] = 0]
          /\ UNCHANGED mishaps
     \/ /\ stack' = [stack EXCEPT ![t][Len(stack[t])].at = "install"]
        /\ mishaps' = mishaps \cup {"memory"}
        /\ UNCHANGED <<context, sent>>
  /\ UNCHANGED <<programVars, installed, bits, todo, counter, ideal, spent, went>>

\* Mutant: the pointer is not the thread's own.
InstallForAll(t) ==
  /\ stack[t] # <<>> /\ Top(t).at = "install"
  /\ installed' = [u \in Threads |-> Top(t).own]
  /\ stack' = [stack EXCEPT ![t][Len(stack[t])].at = "body"]
  /\ UNCHANGED <<programVars, context, bits, todo, counter, ghosts>>

Install(t) ==
  /\ stack[t] # <<>> /\ Top(t).at = "install"
  /\ installed' = [installed EXCEPT ![t] = Top(t).own]
  /\ stack' = [stack EXCEPT ![t][Len(stack[t])].at = "body"]
  /\ UNCHANGED <<programVars, context, bits, todo, counter, ghosts>>

\* What the use of a context that was destroyed does is not defined; property
\* InstalledIsAlive says that there is none.
Usable(t) == Current(t) \in Alive

InBody(t) == stack[t] # <<>> /\ Top(t).at = "body" /\ todo[t] = <<>>

\* Mutant: every function clears it.
ReturnClears(t) ==
  /\ InBody(t)
  /\ installed' = [installed EXCEPT ![t] = NoContext]
  /\ stack' = IF Top(t).wrapped THEN [stack EXCEPT ![t][Len(stack[t])].at = "leave"]
              ELSE [stack EXCEPT ![t] = Front(@)]
  /\ UNCHANGED <<programVars, context, bits, todo, counter, ghosts>>

\* Mutant: the thread keeps the context of a wrapper that is done.
ReturnInstalled(t) ==
  /\ InBody(t)
  /\ stack' = IF Top(t).wrapped THEN [stack EXCEPT ![t][Len(stack[t])].at = "leave"]
              ELSE [stack EXCEPT ![t] = Front(@)]
  /\ UNCHANGED <<programVars, installed, context, bits, todo, counter, ghosts>>

\* The body is over: the wrapper clears the thread's context ...
Return(t) ==
  /\ InBody(t)
  /\ IF Top(t).wrapped
     THEN /\ installed' = [installed EXCEPT ![t] = NoContext]
          /\ stack' = [stack EXCEPT ![t][Len(stack[t])].at = "leave"]
     ELSE /\ stack' = [stack EXCEPT ![t] = Front(@)]
          /\ UNCHANGED installed
  /\ UNCHANGED <<programVars, context, bits, todo, counter, ghosts>>

\* Mutant: the context stays.
DestroyNothing(t) ==
  /\ stack[t] # <<>> /\ Top(t).at = "leave"
  /\ stack' = [stack EXCEPT ![t] = Front(@)]
  /\ UNCHANGED <<programVars, context, installed, bits, todo, counter, ghosts>>

\* ... and destroys it.  A null context is none to destroy.
Destroy(t) ==
  /\ stack[t] # <<>> /\ Top(t).at = "leave"
  /\ context' = [c \in Alive \ {Top(t).own} |-> context[c]]
  /\ stack' = [stack EXCEPT ![t] = Front(@)]
  /\ went' = [went EXCEPT ![t] = {IF w[1] = Top(t).own THEN <<NoContext, w[2]>> ELSE w : w \in @}]
  /\ UNCHANGED <<programVars, installed, bits, todo, counter, ideal, spent, sent, mishaps>>

\* An exception leaves the body, and with it the wrapper, at once; the caller
\* catches it.
Throw(t) ==
  /\ plan.throws /\ InBody(t)
  /\ stack' = [stack EXCEPT ![t] = Front(@)]
  /\ mishaps' = IF Top(t).wrapped THEN mishaps \cup {"throw"} ELSE mishaps
  /\ UNCHANGED <<programVars, context, installed, bits, todo, counter, ideal, spent, went, sent>>

-----------------------------------------------------------------------------
(* Calls. *)

Root(t) == IF t = Main THEN "main" ELSE "work"

\* A thread calls its function on bits that are all classical; main runs once.
CallRoot(t) ==
  /\ passes = plan.passes /\ stack[t] = <<>> /\ spent[t].calls < plan.calls[t]
  /\ t = Main => spent[t].calls = 0
  /\ \E ones \in plan.values :
       /\ bits' = [bits EXCEPT ![t] = [b \in Bits |-> [value |-> IF b \in ones THEN 1 ELSE 0,
                                                       qubit |-> Unpromoted]]]
       /\ ideal' = [ideal EXCEPT ![t] = Basis(Bits, ones)]
  /\ stack' = [stack EXCEPT ![t] = <<Frame(Root(t), wrappers[Root(t)] # <<>>)>>]
  /\ spent' = [spent EXCEPT ![t].calls = @ + 1, ![t].gates = 0]
  /\ went' = [went EXCEPT ![t] = {}]
  /\ UNCHANGED <<programVars, context, installed, todo, counter, sent, mishaps>>

\* It calls a function from there, on the same bits.
CallHelp(t) ==
  /\ plan.helps /\ InBody(t) /\ Len(stack[t]) = 1 /\ spent[t].calls < plan.calls[t]
  /\ LET wrapped == wrappers["help"] # <<>>
     IN  /\ stack' = [stack EXCEPT ![t] = Append(@, Frame("help", wrapped))]
         /\ mishaps' = IF wrapped /\ Top(t).wrapped THEN mishaps \cup {"nested"} ELSE mishaps
  /\ spent' = [spent EXCEPT ![t].calls = @ + 1]
  /\ UNCHANGED <<programVars, context, installed, bits, todo, counter, ideal, went, sent>>

-----------------------------------------------------------------------------
(* Gates, measurements, modes. *)

Dispatch(t) ==
  /\ InBody(t) /\ spent[t].gates < plan.gates[t]
  /\ \E op \in plan.menu : \E d \in Dispatches(op.kind, op.z, bits[t], op.ops) :
       /\ bits' = [bits EXCEPT ![t] = d.bits]
       /\ todo' = [todo EXCEPT ![t] = d.gates]
       /\ ideal' = [ideal EXCEPT ![t] = Meaning(op.kind, op.z, op.ops, @)]
  /\ spent' = [spent EXCEPT ![t].gates = @ + 1]
  /\ UNCHANGED <<programVars, context, installed, stack, counter, went, sent, mishaps>>

NotCounting == -1

\* gate_count++ is a load and a store that no lock holds together ...
LoadCount(t) ==
  /\ todo[t] # <<>> /\ counter[t] = NotCounting /\ Usable(t)
  /\ counter' = [counter EXCEPT ![t] = context[Current(t)].gate_count]
  /\ UNCHANGED <<programVars, context, installed, stack, bits, todo, ghosts>>

\* ... and the executor of the context's mode follows.
ExecuteGate(t) ==
  /\ todo[t] # <<>> /\ counter[t] # NotCounting /\ Usable(t)
  /\ LET c == Current(t)
     IN  /\ context' = [context EXCEPT ![c] = [Execute(@, Head(todo[t])) EXCEPT !.gate_count = counter[t] + 1]]
         /\ sent' = [sent EXCEPT ![c] = @ + 1]
         /\ went' = [went EXCEPT ![t] = @ \cup {<<c, context[c].mode>>}]
  /\ counter' = [counter EXCEPT ![t] = NotCounting]
  /\ todo' = [todo EXCEPT ![t] = Tail(@)]
  /\ UNCHANGED <<programVars, installed, stack, bits, ideal, spent, mishaps>>

\* sturm_measure of a bit that has a qubit.  Without a state vector, SIMULATE
\* fails an assertion.
Measure(t) ==
  /\ InBody(t) /\ spent[t].gates < plan.gates[t] /\ Usable(t)
  /\ \E b \in Bits : \E m \in {Current(t)} :
       /\ ~IsClassical(bits[t][b])
       /\ context[m].mode = "SIMULATE" => context[m].state # NoBridge
       /\ \E found \in Measurements(context[m], bits[t][b].qubit) :
            /\ context' = [context EXCEPT ![m] = found.context]
            /\ ideal' = IF context[m].mode = "SIMULATE"
                        THEN [ideal EXCEPT ![t] = Collapse(b, found.outcome, @)] ELSE ideal
  /\ spent' = [spent EXCEPT ![t].gates = @ + 1]
  /\ UNCHANGED <<programVars, installed, stack, bits, todo, counter, went, sent, mishaps>>

\* The mode that the arguments choose: the first --mode= wins, and there may be
\* none.
ChosenMode(args) ==
  LET modes == {i \in DOMAIN args : args[i] # "another argument"}
  IN  IF modes = {} THEN "COUNT_ONLY" ELSE args[Min(modes)]

\* A value that is no mode aborts the program.
InitFromArgs(t) ==
  /\ InBody(t) /\ Usable(t) /\ t = Main /\ Len(stack[t]) = 1 /\ spent[t].gates = 0
  /\ \E args \in plan.args :
       /\ ChosenMode(args) \in Modes
       /\ context' = [context EXCEPT ![Current(t)].mode = ChosenMode(args)]
  /\ UNCHANGED <<programVars, installed, stack, bits, todo, counter, ghosts>>

\* The program gives a context of its own a state vector.
Attach(t) ==
  /\ plan.bridges /\ InBody(t) /\ Usable(t) /\ installed[t] # NoContext
  /\ sent[Current(t)] = 0 /\ context[Current(t)].state = NoBridge
  /\ context' = [context EXCEPT ![Current(t)] = AttachBridge(@)]
  /\ UNCHANGED <<programVars, installed, stack, bits, todo, counter, ghosts>>

-----------------------------------------------------------------------------
(* The program. *)

Written == [umbrella : BOOLEAN, optout : BOOLEAN, main : plan.mains, work : plan.others, help : plan.others]

Init ==
  /\ plan \in Plans
  /\ source \in Written
  /\ passes = 0
  /\ wrappers = [f \in Functions |-> <<>>]
  /\ context = [c \in {Default} |-> FreshContext("COUNT_ONLY")]
  /\ installed = [t \in Threads |-> NoContext]
  /\ stack = [t \in Threads |-> <<>>]
  /\ bits = [t \in Threads |-> [b \in Bits |-> [value |-> 0, qubit |-> Unpromoted]]]
  /\ todo = [t \in Threads |-> <<>>]
  /\ counter = [t \in Threads |-> NotCounting]
  /\ ideal = [t \in Threads |-> Basis(Bits, {})]
  /\ spent = [t \in Threads |-> [gates |-> 0, calls |-> 0]]
  /\ went = [t \in Threads |-> {}]
  /\ sent = [c \in Heap \cup {Default} |-> 0]
  /\ mishaps = {}

Run(t) ==
  \/ Create(t) \/ Install(t) \/ Return(t) \/ Destroy(t) \/ Throw(t)
  \/ CallRoot(t) \/ CallHelp(t)
  \/ Dispatch(t) \/ LoadCount(t) \/ ExecuteGate(t) \/ Measure(t)
  \/ InitFromArgs(t) \/ Attach(t)

Next == Transpile \/ \E t \in Threads : Run(t)

Spec == Init /\ [][Next]_vars

-----------------------------------------------------------------------------
(* Properties. *)

\* Types: what is installed, called or counted is of the kind it should be.
TypeOK ==
  /\ PlanOK(plan) /\ passes \in 0..plan.passes
  /\ Default \in Alive /\ Alive \subseteq Heap \cup {Default}
  /\ installed \in [Threads -> Heap \cup {NoContext}]
  /\ \A c \in Alive : context[c].mode \in Modes /\ context[c].gate_count \in Nat
  /\ \A t \in Threads :
       /\ Len(stack[t]) <= 2 /\ counter[t] \in Nat \cup {NotCounting}
       /\ \A b \in Bits : bits[t][b].value \in 0..1 /\ bits[t][b].qubit \in Qubits \cup {Unpromoted}

\* Something happened that the run leaves out.
Excuse == mishaps \cap Excused # {}

\* The gates, measurements and modes of a body go to the context that its own
\* wrapper made, whatever else the thread called before.
GatesGoHome ==
  Excuse \/ \A t \in Threads :
    stack[t] # <<>> /\ Top(t).at = "body" =>
      /\ installed[t] = Home(t)
      /\ Top(t).wrapped => Home(t) # NoContext

\* No thread has a context installed that was destroyed.
InstalledIsAlive == \A t \in Threads : installed[t] \in Alive \cup {NoContext}

\* When no function runs, every context that was created is destroyed.
NothingLeaks == Excuse \/ ((\A t \in Threads : stack[t] = <<>>) => Alive = {Default})

\* A context that a wrapper made counts every gate that went to it, though no
\* lock protects the count: no other thread's gates get there.
CountIsExact ==
  \A c \in Alive \ {Default} : context[c].gate_count = sent[c]

\* However often the source goes through the transpiler, and whatever marks a
\* function, it is wrapped once at most.
WrappedOnce == \A f \in Functions : Len(wrappers[f]) <= 1

\* The state of a thread's bits, given that of the qubits.
Joint(t, psi) ==
  LET classical == {b \in Bits : IsClassical(bits[t][b])}
      ones == {b \in classical : bits[t][b].value = 1}
  IN  [s \in SUBSET Bits |->
        IF s \cap classical = ones THEN psi[{bits[t][b].qubit : b \in s \ classical}] ELSE Zero]

\* What the gates of a recorded circuit make of qubits that are all 0.
Replay(ir) ==
  LET after[i \in 0..Len(ir)] ==
        IF i = 0 THEN Basis(Qubits, {}) ELSE Meaning(ir[i].kind, ir[i].z, ir[i].q, after[i - 1])
  IN  after[Len(ir)]

\* The classical bits, and the qubits as the circuit recorded in APPEND mode or
\* the simulator has them, are together in the state that the gates the program
\* wrote make of its bits: whatever was flipped, promoted, reduced or taken
\* apart on the way, and whatever measurements found in between.
DispatchIsExact ==
  Excuse \/ \A t \in Threads :
    stack[t] # <<>> /\ todo[t] = <<>> =>
      /\ went[t] = {} => SameRay(Joint(t, Basis(Qubits, {})), ideal[t])
      /\ \A c \in Alive \ {Default} :
           /\ went[t] = {<<c, "APPEND">>} => SameRay(Joint(t, Replay(context[c].ir)), ideal[t])
           /\ went[t] = {<<c, "SIMULATE">>} /\ context[c].state # NoBridge =>
                SameRay(Joint(t, context[c].state), ideal[t])
==============================================================================
