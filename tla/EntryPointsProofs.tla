------------------------- MODULE EntryPointsProofs -------------------------
(***************************************************************************)
(* What EntryPoints promises, for every number of threads, functions that  *)
(* they call, and contexts.                                                *)
(*                                                                         *)
(* The argument gives every thread the contexts that are its own: those    *)
(* that the wrappers it is in have made, and the one it has installed.     *)
(* No two threads share one, so no thread destroys, replaces or counts in  *)
(* a context of another; and within a thread, the wrapper that is about to *)
(* destroy its context has cleared it before.                              *)
(***************************************************************************)
EXTENDS EntryPoints, TLAPS, SequenceTheorems, FiniteSetTheorems

\* The functions that a thread may be in, and how far through each it is.
Frames ==
  [f : Functions, wrapped : BOOLEAN, own : Heap \cup {NoContext}, at : {"enter", "install", "body", "leave"}]

\* The i-th function that a thread with the stack s is in: only a wrapper makes
\* a context, and a function that called another is in its body.
FrameOK(s, i) ==
  /\ ~s[i].wrapped => s[i].own = NoContext /\ s[i].at = "body"
  /\ s[i].at = "enter" => s[i].own = NoContext
  /\ i < Len(s) => s[i].at = "body"

\* No two of its wrappers made the same context.
StackOK(s) ==
  /\ s \in Seq(Frames) /\ Len(s) <= 2
  /\ \A i \in 1..Len(s) : FrameOK(s, i)
  /\ \A i, j \in 1..Len(s) : s[i].own = s[j].own /\ s[i].own # NoContext => i = j

\* The contexts of a thread with the stack s that has c installed.
MineOf(s, c) == ({s[i].own : i \in 1..Len(s)} \cup {c}) \ {NoContext}
\* The contexts of thread t.
Mine(t) == MineOf(stack[t], installed[t])

\* Contexts of a thread exist, and no other thread has them.
Apart ==
  /\ \A t \in Threads : Mine(t) \subseteq Alive \ {Default}
  /\ \A t, u \in Threads : t # u => Mine(t) \cap Mine(u) = {}

\* A thread in its wrapper: what will be destroyed is not installed, and gates
\* are dispatched in a body only.
ThreadOK(s, c, gates) ==
  /\ StackOK(s)
  /\ s # <<>> /\ s[Len(s)].at = "leave" => c = NoContext
  /\ gates # <<>> => s # <<>> /\ s[Len(s)].at = "body"

\* What a thread read of the count of its own context is still what it is.
Counting(t) ==
  counter[t] # NotCounting =>
    /\ todo[t] # <<>>
    /\ installed[t] # NoContext => counter[t] = context[installed[t]].gate_count

\* A context that gates may go to.
ContextOK(k) == {"mode", "gate_count"} \subseteq DOMAIN k /\ k.mode \in Modes /\ k.gate_count \in Nat

\* The contexts there are, and what is known of their counts.
Counts ==
  /\ Default \in Alive /\ Alive \subseteq Heap \cup {Default} /\ NoContext \notin Alive
  /\ \A c \in Alive : ContextOK(context[c])
  /\ CountIsExact
  /\ \A t \in Threads : Counting(t) /\ counter[t] \in Nat \cup {NotCounting}

\* When nothing went astray: of the functions that a thread with the stack s is
\* in, one at most is wrapped; it has a context, and that one is installed, c,
\* while a body runs.
AtHome(s, c) ==
  /\ \A i, j \in 1..Len(s) : s[i].wrapped /\ s[j].wrapped => i = j
  /\ \A i \in 1..Len(s) : s[i].wrapped /\ s[i].at # "enter" => s[i].own # NoContext
  /\ \A i \in 1..Len(s) : s[i].wrapped /\ s[Len(s)].at = "body" => c = s[i].own
  /\ c # NoContext => s # <<>> /\ s[Len(s)].at = "body" /\ \E i \in 1..Len(s) : s[i].wrapped

\* Every context is that of a wrapper that has still to destroy it.
Wanted == \A c \in Alive \ {Default} : \E t \in Threads : \E i \in 1..Len(stack[t]) : stack[t][i].own = c

\* Each thread has a stack, a context or none, gates to dispatch and a count.
Domains ==
  /\ DOMAIN installed = Threads /\ DOMAIN stack = Threads /\ DOMAIN todo = Threads /\ DOMAIN counter = Threads
  /\ DOMAIN sent = Heap \cup {Default}

\* Each thread has its own contexts, which count its own gates.
OwnersOK ==
  /\ Domains
  /\ \A t \in Threads : ThreadOK(stack[t], installed[t], todo[t])
  /\ Apart
  /\ Counts
  /\ "throw" \in Excused => Excuse \/ Wanted
  /\ {"nested", "throw", "memory"} \subseteq Excused => Excuse \/ \A t \in Threads : AtHome(stack[t], installed[t])

\* The inductive invariant.
IInv ==
  /\ PlanOK(plan)
  /\ wrappers \in [Functions -> Seq({"Main", "EntryPointVoid", "EntryPointReturn"})] /\ WrappedOnce
  /\ OwnersOK

-----------------------------------------------------------------------------
(* Stacks. *)

\* The frames of a stack.
LEMMA FramesOf ==
  ASSUME NEW s, StackOK(s)
  PROVE  /\ Len(s) \in Nat /\ (s # <<>> => Len(s) \in Nat \ {0})
         /\ \A i \in 1..Len(s) : s[i] \in Frames
         /\ s # <<>> => s[Len(s)] \in Frames
<1>1. s \in Seq(Frames)
  BY DEF StackOK
<1> QED BY <1>1, EmptySeq

\* A stack without its last frame.
LEMMA Popped ==
  ASSUME NEW s, StackOK(s), s # <<>>, NEW r, r = Front(s)
  PROVE  /\ StackOK(r) /\ Len(r) = Len(s) - 1
         /\ \A i \in 1..Len(r) : r[i] = s[i] /\ r[i].at = "body"
<1> DEFINE n == Len(s)
<1>1. s \in Seq(Frames) /\ n \in Nat \ {0} /\ \A i \in 1..n : s[i] \in Frames
  BY FramesOf DEF StackOK
<1>2. 1 \in Int /\ n - 1 \in Int /\ \A k \in 1..(n - 1) : s[k] \in Frames
  BY <1>1
<1> HIDE DEF n
<1>3. /\ SubSeq(s, 1, n - 1) \in Seq(Frames)
      /\ Len(SubSeq(s, 1, n - 1)) = IF 1 <= n - 1 THEN n - 1 - 1 + 1 ELSE 0
      /\ \A k \in 1..(n - 1 - 1 + 1) : SubSeq(s, 1, n - 1)[k] = s[1 + k - 1]
  BY <1>2, SubSeqProperties
<1>4. n - 1 - 1 + 1 = n - 1 /\ (1 > n - 1 => n - 1 = 0) /\ \A k \in 1..(n - 1) : 1 + k - 1 = k
  BY <1>1
<1>5. r = SubSeq(s, 1, n - 1)
  BY DEF Front, n
<1>6. r \in Seq(Frames) /\ Len(r) = n - 1 /\ \A k \in 1..(n - 1) : r[k] = s[k]
  BY <1>3, <1>4, <1>5
<1>7. \A k \in 1..(n - 1) : k \in 1..n /\ k < n
  BY <1>1
<1> QED BY <1>1, <1>7, <1>6 DEF StackOK, FrameOK, n

\* A stack whose last frame changes.
Retop(s, f) == [s EXCEPT ![Len(s)] = f]
\* It is a stack of the same length, which only differs there.
LEMMA Retopped ==
  ASSUME NEW s, StackOK(s), s # <<>>, NEW f \in Frames
  PROVE  /\ Retop(s, f) \in Seq(Frames) /\ Len(Retop(s, f)) = Len(s) /\ Retop(s, f) # <<>>
         /\ Retop(s, f)[Len(s)] = f
         /\ \A i \in 1..Len(s) : i # Len(s) => Retop(s, f)[i] = s[i]
<1> DEFINE r == [s EXCEPT ![Len(s)] = f]
<1>1. s \in Seq(Frames) /\ Len(s) \in Nat \ {0}
  BY FramesOf DEF StackOK
<1>2. Len(s) \in 1..Len(s)
  BY <1>1
<1>3. /\ r \in Seq(Frames) /\ Len(r) = Len(s)
      /\ \A i \in 1..Len(s) : r[i] = IF i = Len(s) THEN f ELSE s[i]
  BY <1>1, <1>2, ExceptSeq
<1> HIDE DEF r
<1>4. r \in Seq(Frames) /\ Len(r) = Len(s) /\ r # <<>> /\ r[Len(s)] = f /\ \A i \in 1..Len(s) : i # Len(s) => r[i] = s[i]
  BY <1>1, <1>2, <1>3, EmptySeq
<1>5. Retop(s, f) = r
  BY DEF Retop, r
<1> QED BY <1>4, <1>5

-----------------------------------------------------------------------------
(* Steps into and out of functions. *)

\* A step of t leaves it the stack s and c installed.
Moves(t, s, c) ==
  /\ DOMAIN stack' = Threads /\ DOMAIN installed' = Threads
  /\ stack'[t] = s /\ installed'[t] = c
  /\ \A u \in Threads : u # t => stack'[u] = stack[u] /\ installed'[u] = installed[u]

\* The contexts that both states have are the same, and count the same.
Kept ==
  /\ \A d \in Alive \cap Alive' : context'[d] = context[d] /\ sent'[d] = sent[d]
  /\ \A d \in Alive' \ Alive :
       ContextOK(context'[d]) /\ context'[d].gate_count = 0 /\ sent'[d] = 0
  /\ Default \in Alive' /\ Alive' \subseteq Heap \cup {Default} /\ NoContext \notin Alive'
  /\ DOMAIN sent' = Heap \cup {Default}

\* A thread whose contexts are new or were its own shares none.
LEMMA MovesApart ==
  ASSUME OwnersOK, NEW t \in Threads, NEW s, NEW c, Moves(t, s, c),
         MineOf(s, c) \subseteq Alive' \ {Default},
         MineOf(s, c) \cap Alive \subseteq Mine(t),
         Alive \ Mine(t) \subseteq Alive'
  PROVE  Apart'
<1>1. /\ \A u \in Threads : Mine(u) \subseteq Alive \ {Default}
      /\ \A u, v \in Threads : u # v => Mine(u) \cap Mine(v) = {}
  BY DEF OwnersOK, Apart
<1>2. Mine(t)' = MineOf(s, c) /\ \A u \in Threads : u # t => Mine(u)' = Mine(u)
  BY DEF OwnersOK, Domains, Moves, Mine
<1>3. \A u \in Threads : u # t => Mine(u)' \subseteq Alive' \ {Default}
  BY <1>1, <1>2
<1>4. \A u \in Threads : u # t => Mine(u)' \cap Mine(t)' = {}
  BY <1>1, <1>2
<1>5. \A u, v \in Threads : u # t /\ v # t /\ u # v => Mine(u)' \cap Mine(v)' = {}
  BY <1>1, <1>2
<1>6. /\ \A u \in Threads : Mine(u)' \subseteq (Alive \ {Default})'
      /\ \A u, v \in Threads : u # v => Mine(u)' \cap Mine(v)' = {}
  BY <1>2, <1>3, <1>4, <1>5 DEF Default
<1> QED BY <1>6 DEF Apart

\* What is left to show of a step into or out of a function.
LEMMA MovesKeep ==
  ASSUME OwnersOK, NEW t \in Threads, NEW s, NEW c, Moves(t, s, c), ThreadOK(s, c, <<>>),
         todo[t] = <<>>, UNCHANGED <<todo, counter>>, Kept,
         MineOf(s, c) \subseteq Alive' \ {Default},
         MineOf(s, c) \cap Alive \subseteq Mine(t),
         Alive \ Mine(t) \subseteq Alive'
  PROVE  /\ Domains' /\ Apart' /\ Counts'
         /\ \A u \in Threads : ThreadOK(stack'[u], installed'[u], todo'[u])
<1>1. Domains'
  BY DEF OwnersOK, Domains, Moves, Kept
<1>2. Apart'
  BY MovesApart
<1>3. \A u \in Threads : ThreadOK(stack'[u], installed'[u], todo'[u])
  BY DEF OwnersOK, Domains, Moves
<1>4. \A d \in Alive' : ContextOK(context'[d]) /\ (d # Default => context'[d].gate_count = sent'[d])
  BY DEF OwnersOK, Counts, Kept, CountIsExact
<1>5. CountIsExact'
  BY <1>4 DEF CountIsExact
<1>6. ASSUME NEW u \in Threads
      PROVE  Counting(u)'
  <2>1. Counting(u)
    BY DEF OwnersOK, Counts
  <2>2. CASE u = t
    <3>1. counter[t] = NotCounting
      BY <2>1, <2>2 DEF Counting
    <3> QED BY <2>2, <3>1 DEF Counting
  <2>3. CASE u # t
    <3>1. installed'[u] = installed[u]
      BY <2>3 DEF OwnersOK, Domains, Moves
    <3>2. installed[u] # NoContext => installed[u] \in Mine(u) /\ installed[u] \notin Mine(t)
      BY <2>3 DEF OwnersOK, Apart, Mine, MineOf
    <3>3. installed[u] # NoContext => installed[u] \in Alive \cap Alive'
      BY <3>2 DEF OwnersOK, Apart
    <3>4. installed[u] # NoContext => context'[installed[u]] = context[installed[u]]
      BY <3>3 DEF Kept
    <3> QED BY <2>1, <3>1, <3>4 DEF Counting
  <2> QED BY <2>2, <2>3
<1>7. \A u \in Threads : counter'[u] \in Nat \cup {NotCounting}
  BY DEF OwnersOK, Counts
<1>8. \A d \in Alive' : ContextOK(context'[d])
  BY <1>4
<1>9. Counts'
  BY <1>5, <1>6, <1>7, <1>8 DEF Counts, Kept, ContextOK, NotCounting, Default, NoContext
<1> QED BY <1>1, <1>2, <1>3, <1>9

\* Nothing goes astray in the step of t, and the other threads are where they
\* were.
LEMMA MovesHome ==
  ASSUME OwnersOK, NEW t \in Threads, NEW s, NEW c, Moves(t, s, c), mishaps \subseteq mishaps',
         {"nested", "throw", "memory"} \subseteq Excused,
         AtHome(stack[t], installed[t]) /\ ~Excuse' => AtHome(s, c)
  PROVE  Excuse' \/ \A u \in Threads : AtHome(stack'[u], installed'[u])
<1> SUFFICES ASSUME ~Excuse', NEW u \in Threads
             PROVE  AtHome(stack'[u], installed'[u])
  OBVIOUS
<1>1. ~Excuse
  BY DEF Excuse
<1>2. AtHome(stack[u], installed[u]) /\ AtHome(stack[t], installed[t])
  BY <1>1 DEF OwnersOK
<1>3. CASE u = t
  <2>1. stack'[t] = s /\ installed'[t] = c
    BY DEF OwnersOK, Domains, Moves
  <2> QED BY <1>2, <1>3, <2>1
<1>4. CASE u # t
  <2>1. stack'[u] = stack[u] /\ installed'[u] = installed[u]
    BY <1>4 DEF OwnersOK, Domains, Moves
  <2> QED BY <1>2, <2>1
<1> QED BY <1>3, <1>4

\* A context that is new or was wanted is wanted by a thread.
LEMMA MovesWanted ==
  ASSUME OwnersOK, NEW t \in Threads, NEW s, NEW c, Moves(t, s, c), mishaps \subseteq mishaps',
         "throw" \in Excused,
         ~Excuse' => \A d \in Alive' \ {Default} :
            \/ \E i \in 1..Len(s) : s[i].own = d
            \/ d \in Alive /\ ~\E i \in 1..Len(stack[t]) : stack[t][i].own = d
  PROVE  Excuse' \/ Wanted'
<1> SUFFICES ASSUME ~Excuse', NEW d \in Alive' \ {Default}
             PROVE  \E u \in Threads : \E i \in 1..Len(stack'[u]) : stack'[u][i].own = d
  BY DEF Wanted, Default
<1>1. ~Excuse
  BY DEF Excuse
<1>2. Wanted
  BY <1>1 DEF OwnersOK
<1>3. stack'[t] = s /\ \A u \in Threads : u # t => stack'[u] = stack[u]
  BY DEF OwnersOK, Domains, Moves
<1>4. CASE \E i \in 1..Len(s) : s[i].own = d
  BY <1>3, <1>4
<1>5. CASE d \in Alive /\ ~\E i \in 1..Len(stack[t]) : stack[t][i].own = d
  <2>1. PICK u \in Threads : \E i \in 1..Len(stack[u]) : stack[u][i].own = d
    BY <1>2, <1>5 DEF Wanted
  <2>2. u # t
    BY <1>5, <2>1
  <2> QED BY <1>3, <2>1, <2>2
<1> QED BY <1>4, <1>5

-----------------------------------------------------------------------------
(* The wrapper. *)

\* The function that a thread is in.
LEMMA TopOf ==
  ASSUME OwnersOK, NEW t \in Threads, stack[t] # <<>>
  PROVE  /\ StackOK(stack[t]) /\ ThreadOK(stack[t], installed[t], todo[t])
         /\ Len(stack[t]) \in Nat \ {0}
         /\ Top(t) = stack[t][Len(stack[t])] /\ Top(t) \in Frames
         /\ Top(t).at # "body" => Top(t).wrapped /\ todo[t] = <<>>
         /\ Top(t).own # NoContext => Top(t).own \in Mine(t)
<1>1. ThreadOK(stack[t], installed[t], todo[t]) /\ StackOK(stack[t])
  BY DEF OwnersOK, ThreadOK
<1>2. Len(stack[t]) \in Nat \ {0} /\ Top(t) = stack[t][Len(stack[t])] /\ Top(t) \in Frames
  BY <1>1, FramesOf DEF Top, Last
<1>3. Len(stack[t]) \in 1..Len(stack[t])
  BY <1>2
<1> QED BY <1>1, <1>2, <1>3 DEF ThreadOK, StackOK, FrameOK, Mine, MineOf, Frames

\* What a step that changes no context keeps.
LEMMA KeptSame ==
  ASSUME OwnersOK, UNCHANGED <<context, sent>>
  PROVE  Kept /\ Alive' = Alive
  BY DEF OwnersOK, Domains, Counts, Kept, Alive

\* The wrapper goes on: its frame is at another place.
At(t, a) == Retop(stack[t], [Top(t) EXCEPT !.at = a])

\* A wrapper that goes on to another step of its own keeps its context.
LEMMA WrapperGoesOn ==
  ASSUME OwnersOK, NEW t \in Threads, stack[t] # <<>>, Top(t).wrapped,
         NEW a \in {"install", "body", "leave"}
  PROVE  /\ StackOK(At(t, a)) /\ Len(At(t, a)) = Len(stack[t]) /\ At(t, a) # <<>>
         /\ At(t, a)[Len(stack[t])].at = a
         /\ \A i \in 1..Len(stack[t]) :
              At(t, a)[i].own = stack[t][i].own /\ At(t, a)[i].wrapped = stack[t][i].wrapped
         /\ \A i \in 1..Len(stack[t]) : i # Len(stack[t]) => At(t, a)[i] = stack[t][i]
<1> DEFINE s == stack[t]  n == Len(s)  f == [Top(t) EXCEPT !.at = a]  r == Retop(s, f)
<1>1. StackOK(s) /\ s # <<>> /\ n \in Nat \ {0} /\ Top(t) = s[n] /\ Top(t) \in Frames
  BY TopOf
<1>2. f \in Frames /\ f.own = s[n].own /\ f.wrapped = s[n].wrapped /\ f.at = a /\ f.wrapped /\ f.at # "enter"
  BY <1>1 DEF Frames
<1> HIDE DEF f, s
<1>4. r \in Seq(Frames) /\ Len(r) = n /\ r # <<>> /\ r[n] = f /\ \A i \in 1..n : i # n => r[i] = s[i]
  BY <1>1, <1>2, Retopped
<1>3. At(t, a) = r
  BY DEF At, s, f
<1> HIDE DEF r
<1>5. \A i \in 1..n : r[i].own = s[i].own /\ r[i].wrapped = s[i].wrapped
  BY <1>2, <1>4
<1>6. \A i \in 1..n : FrameOK(r, i)
  BY <1>1, <1>2, <1>4 DEF StackOK, FrameOK
<1>7. StackOK(r)
  BY <1>1, <1>4, <1>5, <1>6 DEF StackOK
<1> QED BY <1>2, <1>3, <1>4, <1>5, <1>7 DEF s

\* sturm_set_thread_context(ctx)
LEMMA InstallKeeps ==
  ASSUME OwnersOK, NEW t \in Threads, Install(t)
  PROVE  OwnersOK'
<1> DEFINE s == stack[t]  n == Len(s)  c == Top(t).own  r == At(t, "body")
<1>1. /\ s # <<>> /\ Top(t).at = "install" /\ n \in Nat \ {0} /\ Top(t) = s[n] /\ Top(t) \in Frames
      /\ todo[t] = <<>> /\ Top(t).wrapped /\ (c # NoContext => c \in Mine(t)) /\ StackOK(s)
  BY TopOf DEF Install
<1>2. Moves(t, r, c)
  BY <1>1 DEF Install, Moves, At, Retop, OwnersOK, Domains
<1>3. Kept /\ Alive' = Alive
  BY KeptSame DEF Install, ghosts
<1>4. /\ StackOK(r) /\ Len(r) = n /\ r # <<>> /\ r[n].at = "body"
      /\ \A i \in 1..n : r[i].own = s[i].own /\ r[i].wrapped = s[i].wrapped
      /\ \A i \in 1..n : i # n => r[i] = s[i]
  BY <1>1, WrapperGoesOn
<1>5. n \in 1..n
  BY <1>1
<1>6. MineOf(r, c) \subseteq Mine(t) /\ Mine(t) \subseteq Alive \ {Default}
  BY <1>1, <1>4 DEF MineOf, Mine, OwnersOK, Apart
<1>7. ThreadOK(r, c, <<>>)
  BY <1>4 DEF ThreadOK
<1> HIDE DEF r, c, n
<1>8. /\ Domains' /\ Apart' /\ Counts'
      /\ \A u \in Threads : ThreadOK(stack'[u], installed'[u], todo'[u])
  <2>1. UNCHANGED <<todo, counter>>
    BY DEF Install
  <2>2. /\ MineOf(r, c) \subseteq Alive' \ {Default}
        /\ MineOf(r, c) \cap Alive \subseteq Mine(t)
        /\ Alive \ Mine(t) \subseteq Alive'
    BY <1>3, <1>6
  <2> QED BY <1>1, <1>2, <1>3, <1>7, <2>1, <2>2, MovesKeep
<1>9. mishaps' = mishaps
  BY DEF Install, ghosts
<1>10. ASSUME "throw" \in Excused
       PROVE  Excuse' \/ Wanted'
  <2>1. \A d \in Alive' \ {Default} : \/ \E i \in 1..Len(r) : r[i].own = d
                                      \/ d \in Alive /\ ~\E i \in 1..Len(stack[t]) : stack[t][i].own = d
    BY <1>3, <1>4 DEF n
  <2> QED BY <1>2, <1>9, <1>10, <2>1, MovesWanted
<1>11. ASSUME {"nested", "throw", "memory"} \subseteq Excused
       PROVE  Excuse' \/ \A u \in Threads : AtHome(stack'[u], installed'[u])
  <2>1. AtHome(stack[t], installed[t]) => AtHome(r, c)
    BY <1>1, <1>4, <1>5 DEF AtHome, n, c
  <2> QED BY <1>2, <1>9, <1>11, <2>1, MovesHome
<1> QED BY <1>8, <1>10, <1>11 DEF OwnersOK

\* sturm_backend_create(mode), when there is memory.
LEMMA CreateKeeps ==
  ASSUME OwnersOK, NEW t \in Threads, stack[t] # <<>>, Top(t).at = "enter",
         NEW mode \in Modes, NEW c \in Heap, c \notin Alive, c # NoContext,
         context' = [d \in Alive \cup {c} |-> IF d = c THEN FreshContext(mode) ELSE context[d]],
         stack' = [stack EXCEPT ![t] = Retop(stack[t], [Top(t) EXCEPT !.own = c, !.at = "install"])],
         sent' = [sent EXCEPT ![c] = 0],
         UNCHANGED <<installed, todo, counter, mishaps>>
  PROVE  OwnersOK'
<1> DEFINE s == stack[t]  n == Len(s)  f == [Top(t) EXCEPT !.own = c, !.at = "install"]
           r == Retop(s, f)
<1>1. /\ s # <<>> /\ n \in Nat \ {0} /\ Top(t) = s[n] /\ Top(t) \in Frames
      /\ todo[t] = <<>> /\ Top(t).wrapped /\ StackOK(s) /\ n \in 1..n
  BY TopOf
<1>2. c \notin Alive
  OBVIOUS
<1>3. f \in Frames /\ f.own = c /\ f.at = "install" /\ f.wrapped
  BY <1>1 DEF Frames
<1> HIDE DEF f
<1>4. /\ r \in Seq(Frames) /\ Len(r) = n /\ r # <<>> /\ r[n] = f
      /\ \A i \in 1..n : i # n => r[i] = s[i]
  BY <1>1, <1>3, Retopped
<1>5. Moves(t, r, installed[t])
  BY <1>1 DEF f, Moves, OwnersOK, Domains
<1>6. Mine(t) \subseteq Alive \ {Default} /\ Default \in Alive /\ Alive \subseteq Heap \cup {Default}
      /\ NoContext \notin Alive
  BY DEF OwnersOK, Apart, Counts
<1>7. Alive' = Alive \cup {c}
  BY DEF Alive
<1>8. Kept
  BY <1>2, <1>6, <1>7 DEF Kept, ContextOK, FreshContext, OwnersOK, Domains
<1>9. s[n].own = NoContext /\ \A i \in 1..n : s[i].own # NoContext => s[i].own \in Mine(t)
  BY <1>1 DEF StackOK, FrameOK, Mine, MineOf
<1> HIDE DEF r
<1>10. StackOK(r)
  <2>1. \A i \in 1..n : FrameOK(r, i)
    BY <1>1, <1>3, <1>4 DEF StackOK, FrameOK
  <2>2. \A i, j \in 1..n : r[i].own = r[j].own /\ r[i].own # NoContext => i = j
    BY <1>1, <1>2, <1>3, <1>4, <1>6, <1>9 DEF StackOK
  <2> QED BY <1>1, <1>4, <2>1, <2>2 DEF StackOK
<1>11. ThreadOK(r, installed[t], <<>>)
  BY <1>3, <1>4, <1>10 DEF ThreadOK
<1>12. MineOf(r, installed[t]) \subseteq Mine(t) \cup {c}
  BY <1>3, <1>4 DEF MineOf, Mine
<1>13. /\ Domains' /\ Apart' /\ Counts'
       /\ \A u \in Threads : ThreadOK(stack'[u], installed'[u], todo'[u])
  <2>1. /\ MineOf(r, installed[t]) \subseteq Alive' \ {Default}
        /\ MineOf(r, installed[t]) \cap Alive \subseteq Mine(t)
        /\ Alive \ Mine(t) \subseteq Alive'
    BY <1>2, <1>6, <1>7, <1>12
  <2> QED BY <1>1, <1>5, <1>8, <1>11, <2>1, MovesKeep
<1>14. ASSUME "throw" \in Excused
       PROVE  Excuse' \/ Wanted'
  <2>1. \A d \in Alive' \ {Default} : \/ \E i \in 1..Len(r) : r[i].own = d
                                      \/ d \in Alive /\ ~\E i \in 1..Len(stack[t]) : stack[t][i].own = d
    BY <1>1, <1>3, <1>4, <1>6, <1>7, <1>9
  <2> QED BY <1>5, <1>14, <2>1, MovesWanted
<1>15. ASSUME {"nested", "throw", "memory"} \subseteq Excused
       PROVE  Excuse' \/ \A u \in Threads : AtHome(stack'[u], installed'[u])
  <2>1. AtHome(stack[t], installed[t]) => AtHome(r, installed[t])
    BY <1>1, <1>3, <1>4 DEF AtHome
  <2> QED BY <1>5, <1>15, <2>1, MovesHome
<1> QED BY <1>13, <1>14, <1>15 DEF OwnersOK

\* sturm_backend_create(mode), when there is none: the wrapper has no context.
LEMMA CreateFailsKeeps ==
  ASSUME OwnersOK, NEW t \in Threads, stack[t] # <<>>, Top(t).at = "enter",
         stack' = [stack EXCEPT ![t] = At(t, "install")],
         mishaps' = mishaps \cup {"memory"},
         UNCHANGED <<context, sent, installed, todo, counter>>
  PROVE  OwnersOK'
<1> DEFINE s == stack[t]  n == Len(s)  r == At(t, "install")
<1>1. /\ s # <<>> /\ n \in Nat \ {0} /\ todo[t] = <<>> /\ Top(t).wrapped
  BY TopOf
<1>2. Moves(t, r, installed[t])
  BY DEF Moves, OwnersOK, Domains
<1>3. Kept /\ Alive' = Alive
  BY KeptSame
<1>4. /\ StackOK(r) /\ Len(r) = n /\ r # <<>> /\ r[n].at = "install"
      /\ \A i \in 1..n : r[i].own = s[i].own
  BY <1>1, WrapperGoesOn
<1>5. MineOf(r, installed[t]) \subseteq Mine(t) /\ Mine(t) \subseteq Alive \ {Default}
  BY <1>4 DEF MineOf, Mine, OwnersOK, Apart
<1>6. ThreadOK(r, installed[t], <<>>)
  BY <1>4 DEF ThreadOK
<1> HIDE DEF r
<1>7. /\ Domains' /\ Apart' /\ Counts'
      /\ \A u \in Threads : ThreadOK(stack'[u], installed'[u], todo'[u])
  <2>1. /\ MineOf(r, installed[t]) \subseteq Alive' \ {Default}
        /\ MineOf(r, installed[t]) \cap Alive \subseteq Mine(t)
        /\ Alive \ Mine(t) \subseteq Alive'
    BY <1>3, <1>5
  <2> QED BY <1>1, <1>2, <1>3, <1>6, <2>1, MovesKeep
<1>8. ASSUME "throw" \in Excused
      PROVE  Excuse' \/ Wanted'
  <2>1. \A d \in Alive' \ {Default} : \/ \E i \in 1..Len(r) : r[i].own = d
                                      \/ d \in Alive /\ ~\E i \in 1..Len(stack[t]) : stack[t][i].own = d
    BY <1>3, <1>4
  <2> QED BY <1>2, <1>8, <2>1, MovesWanted
<1>9. ASSUME {"nested", "throw", "memory"} \subseteq Excused
      PROVE  Excuse'
  BY <1>9 DEF Excuse
<1> QED BY <1>7, <1>8, <1>9 DEF OwnersOK

\* Create(t) is one or the other.
LEMMA CreateIsKept ==
  ASSUME OwnersOK, PlanOK(plan), NEW t \in Threads, Create(t)
  PROVE  OwnersOK'
<1>1. stack[t] # <<>> /\ Top(t).at = "enter"
  BY DEF Create
<1>2. Top(t) = stack[t][Len(stack[t])] /\ Len(stack[t]) \in 1..Len(stack[t])
  BY <1>1, TopOf
<1>3. UNCHANGED <<installed, todo, counter>>
  BY DEF Create
<1>4. CASE \E mode \in plan.modes : \E c \in {FreshHandle} :
             /\ c # NoContext
             /\ context' = [d \in Alive \cup {c} |-> IF d = c THEN FreshContext(mode) ELSE context[d]]
             /\ stack' = [stack EXCEPT ![t][Len(stack[t])] = [@ EXCEPT !.own = c, !.at = "install"]]
             /\ sent' = [sent EXCEPT ![c] = 0]
             /\ UNCHANGED mishaps
  <2>1. PICK mode \in plan.modes, c \in {FreshHandle} :
             /\ c # NoContext
             /\ context' = [d \in Alive \cup {c} |-> IF d = c THEN FreshContext(mode) ELSE context[d]]
             /\ stack' = [stack EXCEPT ![t][Len(stack[t])] = [@ EXCEPT !.own = c, !.at = "install"]]
             /\ sent' = [sent EXCEPT ![c] = 0]
             /\ UNCHANGED mishaps
    BY <1>4
  <2>2. mode \in Modes
    BY <2>1 DEF PlanOK
  <2>3. c \in Heap /\ c \notin Alive
    BY <2>1 DEF FreshHandle
  <2>4. stack' = [stack EXCEPT ![t] = Retop(stack[t], [Top(t) EXCEPT !.own = c, !.at = "install"])]
    BY <1>2, <2>1 DEF Retop
  <2>5. /\ c # NoContext
        /\ context' = [d \in Alive \cup {c} |-> IF d = c THEN FreshContext(mode) ELSE context[d]]
        /\ sent' = [sent EXCEPT ![c] = 0]
        /\ UNCHANGED <<installed, todo, counter, mishaps>>
    BY <1>3, <2>1
  <2> QED BY <1>1, <2>2, <2>3, <2>4, <2>5, CreateKeeps
<1>5. CASE /\ stack' = [stack EXCEPT ![t][Len(stack[t])].at = "install"]
           /\ mishaps' = mishaps \cup {"memory"}
           /\ UNCHANGED <<context, sent>>
  <2>1. stack' = [stack EXCEPT ![t] = At(t, "install")]
    BY <1>2, <1>5 DEF At, Retop
  <2> QED BY <1>1, <1>3, <1>5, <2>1, CreateFailsKeeps
<1> QED BY <1>4, <1>5 DEF Create

\* A function is left: what is left is the caller's.
LEMMA Pops ==
  ASSUME OwnersOK, NEW t \in Threads, stack[t] # <<>>, todo[t] = <<>>,
         stack' = [stack EXCEPT ![t] = Front(@)], installed' = installed
  PROVE  /\ Moves(t, Front(stack[t]), installed[t])
         /\ Len(stack[t]) \in Nat \ {0} /\ Len(Front(stack[t])) = Len(stack[t]) - 1
         /\ \A i \in 1..Len(Front(stack[t])) :
              /\ Front(stack[t])[i] = stack[t][i] /\ Front(stack[t])[i].at = "body"
              /\ i \in 1..Len(stack[t]) /\ i # Len(stack[t])
         /\ \A i \in 1..Len(stack[t]) : i # Len(stack[t]) => i \in 1..Len(Front(stack[t]))
         /\ ThreadOK(Front(stack[t]), installed[t], <<>>)
         /\ MineOf(Front(stack[t]), installed[t]) \subseteq Mine(t)
         /\ Top(t).own # NoContext =>
              \A i \in 1..Len(Front(stack[t])) : Front(stack[t])[i].own # Top(t).own
<1> DEFINE s == stack[t]  n == Len(s)  r == Front(s)
<1>1. s # <<>> /\ StackOK(s) /\ n \in Nat \ {0} /\ Top(t) = s[n] /\ n \in 1..n
  BY TopOf
<1>2. Moves(t, r, installed[t])
  BY DEF Moves, OwnersOK, Domains
<1> HIDE DEF r, s
<1>3. StackOK(r) /\ Len(r) = n - 1 /\ \A i \in 1..Len(r) : r[i] = s[i] /\ r[i].at = "body"
  BY <1>1, Popped DEF r
<1>4. \A i \in 1..Len(r) : i \in 1..n /\ i # n
  BY <1>1, <1>3
<1>5. \A i \in 1..n : i # n => i \in 1..Len(r)
  BY <1>1, <1>3
<1>6. ThreadOK(r, installed[t], <<>>)
  <2>1. r # <<>> => Len(r) \in 1..Len(r)
    BY <1>3, FramesOf
  <2> QED BY <1>3, <2>1 DEF ThreadOK
<1>7. MineOf(r, installed[t]) \subseteq Mine(t)
  BY <1>3, <1>4 DEF MineOf, Mine, s
<1>8. s[n].own # NoContext => \A i \in 1..Len(r) : r[i].own # s[n].own
  BY <1>1, <1>3, <1>4 DEF StackOK
<1> QED BY <1>1, <1>2, <1>3, <1>4, <1>5, <1>6, <1>7, <1>8 DEF r, s

\* A function without a wrapper is left, by a return or an exception.
LEMMA LeaveKeeps ==
  ASSUME OwnersOK, NEW t \in Threads, stack[t] # <<>>, todo[t] = <<>>,
         stack' = [stack EXCEPT ![t] = Front(@)], ~Top(t).wrapped,
         UNCHANGED <<context, sent, installed, todo, counter, mishaps>>
  PROVE  OwnersOK'
<1> DEFINE s == stack[t]  n == Len(s)  r == Front(s)
<1>1. s # <<>> /\ StackOK(s) /\ Top(t) = s[n] /\ n \in 1..n
  BY TopOf
<1>2. s[n].own = NoContext /\ ~s[n].wrapped /\ s[n].at = "body"
  BY <1>1 DEF StackOK, FrameOK
<1>3. Kept /\ Alive' = Alive
  BY KeptSame
<1>4. /\ Moves(t, r, installed[t]) /\ Len(r) = n - 1 /\ n \in Nat \ {0}
      /\ \A i \in 1..Len(r) : r[i] = s[i] /\ r[i].at = "body" /\ i \in 1..n /\ i # n
      /\ \A i \in 1..n : i # n => i \in 1..Len(r)
      /\ ThreadOK(r, installed[t], <<>>)
      /\ MineOf(r, installed[t]) \subseteq Mine(t)
  BY Pops
<1>5. Mine(t) \subseteq Alive \ {Default} /\ NoContext \notin Alive
  BY DEF OwnersOK, Apart, Counts
<1> HIDE DEF r, s
<1>6. /\ Domains' /\ Apart' /\ Counts'
      /\ \A u \in Threads : ThreadOK(stack'[u], installed'[u], todo'[u])
  <2>1. /\ MineOf(r, installed[t]) \subseteq Alive' \ {Default}
        /\ MineOf(r, installed[t]) \cap Alive \subseteq Mine(t)
        /\ Alive \ Mine(t) \subseteq Alive'
    BY <1>3, <1>4, <1>5
  <2> QED BY <1>3, <1>4, <2>1, MovesKeep
<1>7. ASSUME "throw" \in Excused
      PROVE  Excuse' \/ Wanted'
  <2>1. \A d \in Alive' \ {Default} : \/ \E i \in 1..Len(r) : r[i].own = d
                                      \/ d \in Alive /\ ~\E i \in 1..Len(stack[t]) : stack[t][i].own = d
    BY <1>2, <1>3, <1>4, <1>5 DEF s
  <2> QED BY <1>4, <1>7, <2>1, MovesWanted
<1>8. ASSUME {"nested", "throw", "memory"} \subseteq Excused
      PROVE  Excuse' \/ \A u \in Threads : AtHome(stack'[u], installed'[u])
  <2>1. ASSUME AtHome(s, installed[t])
        PROVE  AtHome(r, installed[t])
    <3>1. /\ \A i, j \in 1..Len(r) : r[i].wrapped /\ r[j].wrapped => i = j
          /\ \A i \in 1..Len(r) : r[i].wrapped /\ r[i].at # "enter" => r[i].own # NoContext
          /\ \A i \in 1..Len(r) : r[i].wrapped => installed[t] = r[i].own
      BY <1>2, <1>4, <2>1 DEF AtHome
    <3>2. ASSUME installed[t] # NoContext
          PROVE  r # <<>> /\ r[Len(r)].at = "body" /\ \E i \in 1..Len(r) : r[i].wrapped
      <4>1. PICK i \in 1..n : s[i].wrapped
        BY <2>1, <3>2 DEF AtHome
      <4>2. i # n /\ i \in 1..Len(r) /\ r[i].wrapped
        BY <1>2, <1>4, <4>1
      <4>3. Len(r) \in 1..Len(r)
        BY <1>4, <4>2
      <4> QED BY <1>4, <4>2, <4>3, EmptySeq
    <3> QED BY <3>1, <3>2 DEF AtHome
  <2> QED BY <1>4, <1>8, <2>1, MovesHome DEF s
<1> QED BY <1>6, <1>7, <1>8 DEF OwnersOK

\* The end of a body, or an exception that leaves it.
LEMMA ReturnKeeps ==
  ASSUME OwnersOK, NEW t \in Threads, Return(t)
  PROVE  OwnersOK'
<1> DEFINE s == stack[t]  n == Len(s)  r == At(t, "leave")
<1>1. /\ s # <<>> /\ Top(t).at = "body" /\ n \in Nat \ {0} /\ Top(t) = s[n] /\ Top(t) \in Frames
      /\ todo[t] = <<>> /\ StackOK(s) /\ n \in 1..n
  BY TopOf DEF Return, InBody
<1>2. UNCHANGED <<context, sent, todo, counter, mishaps>>
  BY DEF Return, ghosts
<1>3. CASE ~Top(t).wrapped
  <2>1. stack' = [stack EXCEPT ![t] = Front(@)] /\ installed' = installed
    BY <1>3 DEF Return
  <2> QED BY <1>1, <1>2, <1>3, <2>1, LeaveKeeps
<1>4. CASE Top(t).wrapped
  <2>1. Moves(t, r, NoContext)
    BY <1>1, <1>4 DEF Return, Moves, At, Retop, OwnersOK, Domains
  <2>2. Kept /\ Alive' = Alive
    BY <1>2, KeptSame
  <2>3. /\ StackOK(r) /\ Len(r) = n /\ r # <<>> /\ r[n].at = "leave"
        /\ \A i \in 1..n : r[i].own = s[i].own /\ r[i].wrapped = s[i].wrapped
        /\ \A i \in 1..n : i # n => r[i] = s[i]
    BY <1>1, <1>4, WrapperGoesOn
  <2>4. MineOf(r, NoContext) \subseteq Mine(t) /\ Mine(t) \subseteq Alive \ {Default}
    BY <2>3 DEF MineOf, Mine, OwnersOK, Apart
  <2>5. ThreadOK(r, NoContext, <<>>)
    BY <2>3 DEF ThreadOK
  <2> HIDE DEF r
  <2>6. /\ Domains' /\ Apart' /\ Counts'
        /\ \A u \in Threads : ThreadOK(stack'[u], installed'[u], todo'[u])
    <3>1. /\ MineOf(r, NoContext) \subseteq Alive' \ {Default}
          /\ MineOf(r, NoContext) \cap Alive \subseteq Mine(t)
          /\ Alive \ Mine(t) \subseteq Alive'
      BY <2>2, <2>4
    <3> QED BY <1>1, <1>2, <2>1, <2>2, <2>5, <3>1, MovesKeep
  <2>7. ASSUME "throw" \in Excused
        PROVE  Excuse' \/ Wanted'
    <3>1. \A d \in Alive' \ {Default} : \/ \E i \in 1..Len(r) : r[i].own = d
                                        \/ d \in Alive /\ ~\E i \in 1..Len(stack[t]) : stack[t][i].own = d
      BY <2>2, <2>3
    <3> QED BY <1>2, <2>1, <2>7, <3>1, MovesWanted
  <2>8. ASSUME {"nested", "throw", "memory"} \subseteq Excused
        PROVE  Excuse' \/ \A u \in Threads : AtHome(stack'[u], installed'[u])
    <3>1. AtHome(stack[t], installed[t]) => AtHome(r, NoContext)
      BY <1>1, <2>3 DEF AtHome
    <3> QED BY <1>2, <2>1, <2>8, <3>1, MovesHome
  <2> QED BY <2>6, <2>7, <2>8 DEF OwnersOK
<1> QED BY <1>3, <1>4

\* sturm_backend_destroy(ctx)
LEMMA DestroyKeeps ==
  ASSUME OwnersOK, NEW t \in Threads, Destroy(t)
  PROVE  OwnersOK'
<1> DEFINE s == stack[t]  n == Len(s)  r == Front(s)  c == Top(t).own
<1>1. /\ s # <<>> /\ Top(t).at = "leave" /\ Top(t) = s[n] /\ todo[t] = <<>> /\ n \in 1..n
      /\ (c # NoContext => c \in Mine(t)) /\ StackOK(s) /\ Top(t).wrapped
  BY TopOf DEF Destroy
<1>2. /\ stack' = [stack EXCEPT ![t] = Front(@)]
      /\ context' = [d \in Alive \ {c} |-> context[d]]
      /\ UNCHANGED <<sent, installed, todo, counter, mishaps>>
  BY DEF Destroy
<1>3. installed[t] = NoContext
  BY <1>1, TopOf DEF ThreadOK
<1>4. /\ Moves(t, r, installed[t]) /\ Len(r) = n - 1 /\ n \in Nat \ {0}
      /\ \A i \in 1..Len(r) : r[i] = s[i] /\ r[i].at = "body" /\ i \in 1..n /\ i # n
      /\ \A i \in 1..n : i # n => i \in 1..Len(r)
      /\ ThreadOK(r, installed[t], <<>>)
      /\ MineOf(r, installed[t]) \subseteq Mine(t)
      /\ c # NoContext => \A i \in 1..Len(r) : r[i].own # c
  BY <1>1, <1>2, Pops
<1>5. Mine(t) \subseteq Alive \ {Default} /\ NoContext \notin Alive /\ Default \in Alive
      /\ Alive \subseteq Heap \cup {Default} /\ DOMAIN sent = Heap \cup {Default}
  BY DEF OwnersOK, Apart, Counts, Domains
<1> HIDE DEF r, s, c
<1>6. Alive' = Alive \ {c}
  BY <1>2 DEF Alive
<1>7. c # Default
  BY <1>1, <1>5 DEF NoContext, Default
<1>8. Kept
  BY <1>2, <1>5, <1>6, <1>7 DEF Kept
<1>9. c \notin MineOf(r, installed[t])
  BY <1>3, <1>4 DEF MineOf
<1>10. /\ Domains' /\ Apart' /\ Counts'
       /\ \A u \in Threads : ThreadOK(stack'[u], installed'[u], todo'[u])
  <2>1. /\ MineOf(r, installed[t]) \subseteq Alive' \ {Default}
        /\ MineOf(r, installed[t]) \cap Alive \subseteq Mine(t)
        /\ Alive \ Mine(t) \subseteq Alive'
    BY <1>1, <1>4, <1>5, <1>6, <1>9
  <2> QED BY <1>1, <1>2, <1>4, <1>8, <2>1, MovesKeep
<1>11. ASSUME "throw" \in Excused
       PROVE  Excuse' \/ Wanted'
  <2>1. \A d \in Alive' \ {Default} : \/ \E i \in 1..Len(r) : r[i].own = d
                                      \/ d \in Alive /\ ~\E i \in 1..Len(stack[t]) : stack[t][i].own = d
    BY <1>1, <1>4, <1>6 DEF s, c
  <2> QED BY <1>2, <1>4, <1>11, <2>1, MovesWanted
<1>12. ASSUME {"nested", "throw", "memory"} \subseteq Excused
       PROVE  Excuse' \/ \A u \in Threads : AtHome(stack'[u], installed'[u])
  <2>1. AtHome(s, installed[t]) => AtHome(r, installed[t])
    <3>1. ASSUME AtHome(s, installed[t]), NEW i \in 1..Len(r)
          PROVE  ~r[i].wrapped
      BY <1>1, <1>4, <3>1 DEF AtHome
    <3> QED BY <1>3, <3>1 DEF AtHome
  <2> QED BY <1>2, <1>4, <1>12, <2>1, MovesHome DEF s
<1> QED BY <1>10, <1>11, <1>12 DEF OwnersOK

\* An exception leaves a function at once.
LEMMA ThrowKeeps ==
  ASSUME OwnersOK, NEW t \in Threads, Throw(t)
  PROVE  OwnersOK'
<1> DEFINE s == stack[t]  n == Len(s)  r == Front(s)
<1>1. s # <<>> /\ Top(t) = s[n] /\ todo[t] = <<>> /\ n \in 1..n
  BY TopOf DEF Throw, InBody
<1>2. /\ stack' = [stack EXCEPT ![t] = Front(@)]
      /\ UNCHANGED <<context, sent, installed, todo, counter>>
  BY DEF Throw
<1>3. CASE ~Top(t).wrapped
  <2>1. mishaps' = mishaps
    BY <1>3 DEF Throw
  <2> QED BY <1>1, <1>2, <1>3, <2>1, LeaveKeeps
<1>4. CASE Top(t).wrapped
  <2>1. Kept /\ Alive' = Alive
    BY <1>2, KeptSame
  <2>2. /\ Moves(t, r, installed[t])
        /\ ThreadOK(r, installed[t], <<>>)
        /\ MineOf(r, installed[t]) \subseteq Mine(t)
    BY <1>1, <1>2, Pops
  <2>3. Mine(t) \subseteq Alive \ {Default}
    BY DEF OwnersOK, Apart
  <2> HIDE DEF r, s
  <2>4. /\ Domains' /\ Apart' /\ Counts'
        /\ \A u \in Threads : ThreadOK(stack'[u], installed'[u], todo'[u])
    <3>1. /\ MineOf(r, installed[t]) \subseteq Alive' \ {Default}
          /\ MineOf(r, installed[t]) \cap Alive \subseteq Mine(t)
          /\ Alive \ Mine(t) \subseteq Alive'
      BY <2>1, <2>2, <2>3
    <3> QED BY <1>1, <1>2, <2>1, <2>2, <3>1, MovesKeep
  <2>5. "throw" \in mishaps'
    BY <1>4 DEF Throw
  <2>6. "throw" \in Excused => Excuse'
    BY <2>5 DEF Excuse
  <2> QED BY <2>4, <2>6 DEF OwnersOK
<1> QED BY <1>3, <1>4

-----------------------------------------------------------------------------
(* Calls. *)

\* A function that is called has no context yet.
LEMMA FrameIs ==
  ASSUME NEW f \in Functions, NEW wrapped \in BOOLEAN
  PROVE  /\ Frame(f, wrapped) \in Frames /\ Frame(f, wrapped).own = NoContext
         /\ Frame(f, wrapped).wrapped = wrapped
         /\ Frame(f, wrapped).at = IF wrapped THEN "enter" ELSE "body"
  BY DEF Frame, Frames

\* A thread calls its function.
LEMMA CallRootKeeps ==
  ASSUME OwnersOK, NEW t \in Threads, CallRoot(t)
  PROVE  OwnersOK'
<1> DEFINE wrapped == wrappers[Root(t)] # <<>>  f == Frame(Root(t), wrapped)  r == <<f>>
<1>1. stack[t] = <<>> /\ stack' = [stack EXCEPT ![t] = r] /\ UNCHANGED <<context, installed, todo, counter, sent, mishaps>>
  BY DEF CallRoot
<1>2. ThreadOK(stack[t], installed[t], todo[t]) /\ todo[t] = <<>>
  BY <1>1 DEF OwnersOK, ThreadOK
<1>3. Root(t) \in Functions /\ wrapped \in BOOLEAN
  BY DEF Root, Functions
<1>4. f \in Frames /\ f.own = NoContext /\ f.wrapped = wrapped /\ f.at = IF wrapped THEN "enter" ELSE "body"
  BY <1>3, FrameIs
<1> HIDE DEF f, wrapped
<1>5. r \in Seq(Frames) /\ Len(r) = 1 /\ r[1] = f /\ r # <<>>
  BY <1>4
<1>6. Moves(t, r, installed[t])
  BY <1>1 DEF Moves, OwnersOK, Domains
<1>7. Kept /\ Alive' = Alive
  BY <1>1, KeptSame
<1> HIDE DEF r
<1>8. StackOK(r) /\ ThreadOK(r, installed[t], <<>>)
  BY <1>3, <1>4, <1>5 DEF StackOK, FrameOK, ThreadOK
<1>9. MineOf(r, installed[t]) \subseteq Mine(t) /\ Mine(t) \subseteq Alive \ {Default}
  BY <1>4, <1>5 DEF MineOf, Mine, OwnersOK, Apart
<1>10. /\ Domains' /\ Apart' /\ Counts'
       /\ \A u \in Threads : ThreadOK(stack'[u], installed'[u], todo'[u])
  <2>1. /\ MineOf(r, installed[t]) \subseteq Alive' \ {Default}
        /\ MineOf(r, installed[t]) \cap Alive \subseteq Mine(t)
        /\ Alive \ Mine(t) \subseteq Alive'
    BY <1>7, <1>9
  <2> QED BY <1>1, <1>2, <1>6, <1>7, <1>8, <2>1, MovesKeep
<1>11. Len(stack[t]) = 0
  BY <1>1
<1>12. ASSUME "throw" \in Excused
       PROVE  Excuse' \/ Wanted'
  <2>1. \A d \in Alive' \ {Default} : \/ \E i \in 1..Len(r) : r[i].own = d
                                      \/ d \in Alive /\ ~\E i \in 1..Len(stack[t]) : stack[t][i].own = d
    BY <1>7, <1>11
  <2> QED BY <1>1, <1>6, <1>12, <2>1, MovesWanted
<1>13. ASSUME {"nested", "throw", "memory"} \subseteq Excused
       PROVE  Excuse' \/ \A u \in Threads : AtHome(stack'[u], installed'[u])
  <2>1. AtHome(stack[t], installed[t]) => AtHome(r, installed[t])
    BY <1>1, <1>3, <1>4, <1>5 DEF AtHome
  <2> QED BY <1>1, <1>6, <1>13, <2>1, MovesHome
<1> QED BY <1>10, <1>12, <1>13 DEF OwnersOK

\* It calls a function from there.
LEMMA CallHelpKeeps ==
  ASSUME OwnersOK, NEW t \in Threads, CallHelp(t)
  PROVE  OwnersOK'
<1> DEFINE s == stack[t]  wrapped == wrappers["help"] # <<>>  f == Frame("help", wrapped)  r == Append(s, f)
<1>1. /\ s # <<>> /\ Len(s) = 1 /\ Top(t) = s[1] /\ Top(t).at = "body" /\ todo[t] = <<>> /\ StackOK(s)
  BY TopOf DEF CallHelp, InBody
<1>2. stack' = [stack EXCEPT ![t] = r] /\ UNCHANGED <<context, installed, todo, counter, sent>>
  BY DEF CallHelp
<1>3. /\ mishaps \subseteq mishaps'
      /\ wrapped /\ Top(t).wrapped => "nested" \in mishaps'
  BY DEF CallHelp
<1>4. "help" \in Functions /\ wrapped \in BOOLEAN
  BY DEF Functions
<1>5. f \in Frames /\ f.own = NoContext /\ f.wrapped = wrapped /\ f.at = IF wrapped THEN "enter" ELSE "body"
  BY <1>4, FrameIs
<1> HIDE DEF f, wrapped
<1>6. r \in Seq(Frames) /\ Len(r) = 2 /\ r[1] = s[1] /\ r[2] = f /\ r # <<>>
  <2>1. s \in Seq(Frames)
    BY <1>1 DEF StackOK
  <2> HIDE DEF s
  <2>2. /\ r \in Seq(Frames) /\ Len(r) = Len(s) + 1
        /\ \A i \in 1..(Len(s) + 1) : r[i] = IF i = Len(s) + 1 THEN f ELSE s[i]
    BY <1>5, <2>1
  <2> HIDE DEF r
  <2>3. 1 \in 1..(Len(s) + 1) /\ 2 \in 1..(Len(s) + 1)
    BY <1>1 DEF s
  <2>4. Len(r) = 2 /\ r[1] = s[1] /\ r[2] = f
    BY <1>1, <2>2, <2>3
  <2>5. r # <<>>
    <3>1. Len(<<>>) = 0
      OBVIOUS
    <3> QED BY <2>4, <3>1
  <2> QED BY <2>2, <2>4, <2>5
<1>7. Moves(t, r, installed[t])
  BY <1>2 DEF Moves, OwnersOK, Domains
<1>8. Kept /\ Alive' = Alive
  BY <1>2, KeptSame
<1> HIDE DEF r
<1>9. StackOK(r) /\ ThreadOK(r, installed[t], <<>>)
  <2>1. FrameOK(s, 1)
    BY <1>1 DEF StackOK
  <2>2. \A i \in 1..Len(r) : i = 1 \/ i = 2
    BY <1>6
  <2>3. FrameOK(r, 1) /\ FrameOK(r, 2)
    BY <1>1, <1>4, <1>5, <1>6, <2>1 DEF FrameOK
  <2>4. StackOK(r)
    BY <1>5, <1>6, <2>2, <2>3 DEF StackOK
  <2> QED BY <1>4, <1>5, <1>6, <2>4 DEF ThreadOK
<1>10. MineOf(r, installed[t]) \subseteq Mine(t) /\ Mine(t) \subseteq Alive \ {Default}
  <2>1. \A i \in 1..Len(r) : r[i].own = s[1].own \/ r[i].own = NoContext
    BY <1>5, <1>6
  <2> QED BY <1>1, <2>1 DEF MineOf, Mine, OwnersOK, Apart, s
<1>11. /\ Domains' /\ Apart' /\ Counts'
       /\ \A u \in Threads : ThreadOK(stack'[u], installed'[u], todo'[u])
  <2>1. /\ MineOf(r, installed[t]) \subseteq Alive' \ {Default}
        /\ MineOf(r, installed[t]) \cap Alive \subseteq Mine(t)
        /\ Alive \ Mine(t) \subseteq Alive'
    BY <1>8, <1>10
  <2> QED BY <1>1, <1>2, <1>7, <1>8, <1>9, <2>1, MovesKeep
<1>12. ASSUME "throw" \in Excused
       PROVE  Excuse' \/ Wanted'
  <2>1. \A d \in Alive' \ {Default} : \/ \E i \in 1..Len(r) : r[i].own = d
                                      \/ d \in Alive /\ ~\E i \in 1..Len(stack[t]) : stack[t][i].own = d
    BY <1>1, <1>6, <1>8 DEF s
  <2> QED BY <1>3, <1>7, <1>12, <2>1, MovesWanted
<1>13. ASSUME {"nested", "throw", "memory"} \subseteq Excused
       PROVE  Excuse' \/ \A u \in Threads : AtHome(stack'[u], installed'[u])
  <2>1. ~Excuse' => ~(wrapped /\ s[1].wrapped)
    BY <1>1, <1>3, <1>13 DEF Excuse
  <2>2. \A i \in 1..Len(r) : i = 1 \/ i = 2
    BY <1>6
  <2>3. AtHome(s, installed[t]) /\ ~Excuse' => AtHome(r, installed[t])
    BY <1>1, <1>4, <1>5, <1>6, <2>1, <2>2 DEF AtHome
  <2> QED BY <1>3, <1>7, <1>13, <2>3, MovesHome DEF s
<1> QED BY <1>11, <1>12, <1>13 DEF OwnersOK

-----------------------------------------------------------------------------
(* Gates, measurements, modes. *)

\* What is left to show of a step of t within a body.
LEMMA BodyKeeps ==
  ASSUME OwnersOK, NEW t \in Threads, UNCHANGED <<installed, stack, mishaps>>,
         ThreadOK(stack[t], installed[t], todo'[t]),
         \A u \in Threads : u # t => todo'[u] = todo[u],
         DOMAIN todo' = Threads, DOMAIN counter' = Threads, DOMAIN sent' = DOMAIN sent,
         Alive' = Alive, Counts'
  PROVE  OwnersOK'
<1>1. Domains'
  BY DEF OwnersOK, Domains
<1>2. \A u \in Threads : ThreadOK(stack'[u], installed'[u], todo'[u])
  BY DEF OwnersOK
<1>3. Apart'
  BY DEF OwnersOK, Apart, Mine
<1>4. (Excuse' <=> Excuse) /\ (Wanted' <=> Wanted)
  BY DEF Excuse, Wanted
<1>5. "throw" \in Excused => Excuse' \/ Wanted'
  BY <1>4 DEF OwnersOK
<1>6. {"nested", "throw", "memory"} \subseteq Excused => Excuse' \/ \A u \in Threads : AtHome(stack'[u], installed'[u])
  BY <1>4 DEF OwnersOK
<1> QED BY <1>1, <1>2, <1>3, <1>5, <1>6 DEF OwnersOK

\* A thread that executes no gates counts none.
LEMMA IdleCounts ==
  ASSUME OwnersOK, NEW t \in Threads, InBody(t)
  PROVE  /\ counter[t] = NotCounting /\ todo[t] = <<>>
         /\ \A gates : ThreadOK(stack[t], installed[t], gates)
<1>1. todo[t] = <<>> /\ stack[t] # <<>> /\ Top(t).at = "body"
  BY DEF InBody
<1>2. counter[t] = NotCounting
  BY <1>1 DEF OwnersOK, Counts, Counting
<1> QED BY <1>1, <1>2, TopOf DEF ThreadOK

\* A gate of the program: the gates it becomes have still to be executed.
LEMMA DispatchKeeps ==
  ASSUME OwnersOK, NEW t \in Threads, Dispatch(t)
  PROVE  OwnersOK'
<1>1. InBody(t) /\ UNCHANGED <<context, installed, stack, counter, sent, mishaps>>
  BY DEF Dispatch
<1>2. counter[t] = NotCounting /\ \A gates : ThreadOK(stack[t], installed[t], gates)
  BY <1>1, IdleCounts
<1>3. PICK gates : todo' = [todo EXCEPT ![t] = gates]
  BY DEF Dispatch
<1>4. DOMAIN todo' = Threads /\ todo'[t] = gates /\ \A u \in Threads : u # t => todo'[u] = todo[u]
  BY <1>3 DEF OwnersOK, Domains
<1>5. Alive' = Alive
  BY <1>1 DEF Alive
<1>6. Counts'
  <2>1. \A u \in Threads : Counting(u)'
    BY <1>1, <1>2, <1>4 DEF OwnersOK, Counts, Counting
  <2> QED BY <1>1, <1>5, <2>1 DEF OwnersOK, Counts, CountIsExact
<1>7. DOMAIN counter' = Threads /\ DOMAIN sent' = DOMAIN sent
  BY <1>1 DEF OwnersOK, Domains
<1> QED BY <1>1, <1>2, <1>4, <1>5, <1>6, <1>7, BodyKeeps

\* gate_count is read.
LEMMA LoadCountKeeps ==
  ASSUME OwnersOK, NEW t \in Threads, LoadCount(t)
  PROVE  OwnersOK'
<1>1. /\ todo[t] # <<>> /\ Current(t) \in Alive
      /\ counter' = [counter EXCEPT ![t] = context[Current(t)].gate_count]
      /\ UNCHANGED <<context, installed, stack, todo, sent, mishaps>>
  BY DEF LoadCount, ghosts, Usable
<1>2. /\ DOMAIN counter' = Threads /\ counter'[t] = context[Current(t)].gate_count
      /\ \A u \in Threads : u # t => counter'[u] = counter[u]
  BY <1>1 DEF OwnersOK, Domains
<1>3. counter'[t] \in Nat
  BY <1>1, <1>2 DEF OwnersOK, Counts, ContextOK
<1>4. Alive' = Alive
  BY <1>1 DEF Alive
<1>5. Counts'
  <2>1. \A u \in Threads : Counting(u)'
    BY <1>1, <1>2 DEF OwnersOK, Counts, Counting, Current
  <2>2. \A u \in Threads : counter'[u] \in Nat \cup {NotCounting}
    BY <1>2, <1>3 DEF OwnersOK, Counts
  <2> QED BY <1>1, <1>4, <2>1, <2>2 DEF OwnersOK, Counts, CountIsExact
<1>6. /\ ThreadOK(stack[t], installed[t], todo'[t]) /\ DOMAIN todo' = Threads /\ DOMAIN sent' = DOMAIN sent
      /\ \A u \in Threads : u # t => todo'[u] = todo[u]
  BY <1>1 DEF OwnersOK, Domains
<1> QED BY <1>1, <1>2, <1>4, <1>5, <1>6, BodyKeeps

\* What a gate makes of a context is a context of the same mode.
LEMMA ExecuteIs ==
  ASSUME NEW k, ContextOK(k), NEW g, NEW n \in Nat
  PROVE  /\ ContextOK([Execute(k, g) EXCEPT !.gate_count = n])
         /\ [Execute(k, g) EXCEPT !.gate_count = n].gate_count = n
<1>1. DOMAIN Execute(k, g) = DOMAIN k /\ Execute(k, g).mode = k.mode
  BY DEF ContextOK, Modes, Execute
<1> QED BY <1>1 DEF ContextOK

\* No thread but t has the context that t has installed.
LEMMA OwnContext ==
  ASSUME OwnersOK, NEW t \in Threads, NEW u \in Threads, u # t, installed[u] # NoContext
  PROVE  installed[u] # Current(t) /\ installed[u] \in Alive \ {Default}
<1>1. installed[u] \in Mine(u) /\ (installed[t] # NoContext => installed[t] \in Mine(t))
  BY DEF Mine, MineOf
<1>2. Mine(u) \cap Mine(t) = {} /\ Mine(u) \subseteq Alive \ {Default}
  BY DEF OwnersOK, Apart
<1> QED BY <1>1, <1>2 DEF Current

\* A gate is executed and counted.
LEMMA ExecuteGateKeeps ==
  ASSUME OwnersOK, NEW t \in Threads, ExecuteGate(t)
  PROVE  OwnersOK'
<1> DEFINE c == Current(t)  k == [Execute(context[c], Head(todo[t])) EXCEPT !.gate_count = counter[t] + 1]
<1>1. /\ todo[t] # <<>> /\ counter[t] # NotCounting /\ c \in Alive
      /\ context' = [context EXCEPT ![c] = k]
      /\ sent' = [sent EXCEPT ![c] = @ + 1]
      /\ counter' = [counter EXCEPT ![t] = NotCounting]
      /\ todo' = [todo EXCEPT ![t] = Tail(@)]
      /\ UNCHANGED <<installed, stack, mishaps>>
  BY DEF ExecuteGate, Usable
<1>2. counter[t] \in Nat /\ ContextOK(context[c]) /\ c \in DOMAIN context /\ c \in DOMAIN sent
  BY <1>1 DEF OwnersOK, Counts, Alive, Domains
<1>3. ContextOK(k) /\ k.gate_count = counter[t] + 1
  BY <1>2, ExecuteIs
<1> HIDE DEF k
<1>4. /\ DOMAIN context' = DOMAIN context /\ context'[c] = k
      /\ \A d \in DOMAIN context : d # c => context'[d] = context[d]
      /\ DOMAIN sent' = DOMAIN sent /\ sent'[c] = sent[c] + 1
      /\ \A d \in DOMAIN sent : d # c => sent'[d] = sent[d]
  BY <1>1, <1>2
<1>5. /\ DOMAIN counter' = Threads /\ counter'[t] = NotCounting
      /\ \A u \in Threads : u # t => counter'[u] = counter[u] /\ todo'[u] = todo[u]
      /\ DOMAIN todo' = Threads
  BY <1>1 DEF OwnersOK, Domains
<1>6. Alive' = Alive
  BY <1>4 DEF Alive
<1>7. c # Default => installed[t] = c /\ c # NoContext
  BY DEF Current
<1>8. c # Default => counter[t] = context[c].gate_count /\ context[c].gate_count = sent[c]
  BY <1>1, <1>7 DEF OwnersOK, Counts, Counting, CountIsExact
<1>9. c # Default => k.gate_count = sent'[c]
  BY <1>3, <1>4, <1>8
<1>10. \A d \in Alive : d \in DOMAIN context /\ d \in DOMAIN sent
  BY DEF Alive, OwnersOK, Counts, Domains
<1>11. \A d \in Alive : ContextOK(context'[d]) /\ (d # Default => context'[d].gate_count = sent'[d])
  <2>1. \A d \in Alive : ContextOK(context[d]) /\ (d # Default => context[d].gate_count = sent[d])
    BY DEF OwnersOK, Counts, CountIsExact
  <2> QED BY <1>3, <1>4, <1>9, <1>10, <2>1
<1>12. ASSUME NEW u \in Threads
       PROVE  Counting(u)' /\ counter'[u] \in Nat \cup {NotCounting}
  <2>1. CASE u = t
    BY <1>5, <2>1 DEF Counting
  <2>2. CASE u # t
    <3>1. Counting(u) /\ counter[u] \in Nat \cup {NotCounting}
      BY DEF OwnersOK, Counts
    <3>2. installed[u] # NoContext => context'[installed[u]] = context[installed[u]]
      BY <1>4, <1>10, <2>2, OwnContext
    <3> QED BY <1>1, <1>5, <2>2, <3>1, <3>2 DEF Counting
  <2> QED BY <2>1, <2>2
<1>13. CountIsExact'
  BY <1>6, <1>11 DEF CountIsExact, Default
<1>14. Counts'
  <2>1. Default \in Alive /\ Alive \subseteq Heap \cup {Default} /\ NoContext \notin Alive
    BY DEF OwnersOK, Counts
  <2>2. \A d \in Alive' : ContextOK(context'[d])
    BY <1>6, <1>11
  <2> QED BY <1>6, <1>12, <1>13, <2>1, <2>2 DEF Counts, ContextOK, NotCounting, Default, NoContext
<1>15. ThreadOK(stack[t], installed[t], todo'[t])
  <2>1. ThreadOK(stack[t], installed[t], todo[t])
    BY DEF OwnersOK
  <2> QED BY <1>1, <2>1 DEF ThreadOK
<1> QED BY <1>1, <1>4, <1>5, <1>6, <1>14, <1>15, BodyKeeps

\* A step of t in its body changes what a context holds, but not its count.
LEMMA ContextsChange ==
  ASSUME OwnersOK, NEW t \in Threads, InBody(t), UNCHANGED <<installed, stack, todo, counter, sent, mishaps>>,
         Alive' = Alive, \A d \in Alive : ContextOK(context'[d]) /\ context'[d].gate_count = context[d].gate_count
  PROVE  OwnersOK'
<1>1. ThreadOK(stack[t], installed[t], todo'[t]) /\ DOMAIN todo' = Threads /\ DOMAIN counter' = Threads
  BY DEF OwnersOK, Domains
<1>2. ASSUME NEW u \in Threads
      PROVE  Counting(u)' /\ counter'[u] \in Nat \cup {NotCounting}
  <2>1. Counting(u) /\ counter[u] \in Nat \cup {NotCounting}
    BY DEF OwnersOK, Counts
  <2>2. installed[u] # NoContext => installed[u] \in Alive
    BY DEF OwnersOK, Apart, Mine, MineOf
  <2> QED BY <2>1, <2>2 DEF Counting
<1>3. \A d \in Alive' \ {Default} : context'[d].gate_count = sent'[d]
  BY DEF OwnersOK, Counts, CountIsExact
<1>4. Counts'
  <2>1. Default \in Alive /\ Alive \subseteq Heap \cup {Default} /\ NoContext \notin Alive
    BY DEF OwnersOK, Counts
  <2>2. CountIsExact'
    BY <1>3 DEF CountIsExact, Default
  <2>3. \A d \in Alive' : ContextOK(context'[d])
    OBVIOUS
  <2> QED BY <1>2, <2>1, <2>2, <2>3 DEF Counts, ContextOK, NotCounting, Default, NoContext
<1> QED BY <1>1, <1>4, BodyKeeps

\* One context changes, to one of the same count.
LEMMA OneContextChanges ==
  ASSUME OwnersOK, NEW c \in Alive, NEW k, context' = [context EXCEPT ![c] = k],
         ContextOK(k), k.gate_count = context[c].gate_count
  PROVE  Alive' = Alive /\ \A d \in Alive : ContextOK(context'[d]) /\ context'[d].gate_count = context[d].gate_count
  BY DEF OwnersOK, Counts, Alive

\* What a measurement leaves of a context counts as much.
LEMMA MeasuredIs ==
  ASSUME NEW k, ContextOK(k), NEW q, NEW found \in Measurements(k, q)
  PROVE  ContextOK(found.context) /\ found.context.gate_count = k.gate_count
<1>1. CASE k.mode = "SIMULATE"
  <2>1. PICK o \in Possible(q, k.state) :
          found = [outcome |-> o,
                   context |-> [k EXCEPT !.state = Collapse(q, o, @), !.classical = (q :> o) @@ @]]
    BY <1>1 DEF Measurements
  <2>2. found.context = [k EXCEPT !.state = Collapse(q, o, @), !.classical = (q :> o) @@ @]
    BY <2>1
  <2> QED BY <2>2 DEF ContextOK
<1>2. CASE k.mode # "SIMULATE"
  <2>1. found.context = k
    BY <1>2 DEF Measurements
  <2> QED BY <2>1
<1> QED BY <1>1, <1>2

\* sturm_measure
LEMMA MeasureKeeps ==
  ASSUME OwnersOK, NEW t \in Threads, Measure(t)
  PROVE  OwnersOK'
<1>1. InBody(t) /\ Current(t) \in Alive /\ UNCHANGED <<installed, stack, todo, counter, sent, mishaps>>
  BY DEF Measure, Usable
<1>2. PICK b \in Bits : \E found \in Measurements(context[Current(t)], bits[t][b].qubit) :
        context' = [context EXCEPT ![Current(t)] = found.context]
  BY DEF Measure
<1>3. PICK found \in Measurements(context[Current(t)], bits[t][b].qubit) :
        context' = [context EXCEPT ![Current(t)] = found.context]
  BY <1>2
<1>4. ContextOK(context[Current(t)])
  BY <1>1 DEF OwnersOK, Counts
<1>5. ContextOK(found.context) /\ found.context.gate_count = context[Current(t)].gate_count
  BY <1>4, MeasuredIs
<1>6. Alive' = Alive /\ \A d \in Alive : ContextOK(context'[d]) /\ context'[d].gate_count = context[d].gate_count
  BY <1>1, <1>3, <1>5, OneContextChanges
<1> QED BY <1>1, <1>6, ContextsChange

\* sturm_init_from_args
LEMMA InitFromArgsKeeps ==
  ASSUME OwnersOK, NEW t \in Threads, InitFromArgs(t)
  PROVE  OwnersOK'
<1>1. InBody(t) /\ Current(t) \in Alive /\ UNCHANGED <<installed, stack, todo, counter, sent, mishaps>>
  BY DEF InitFromArgs, Usable, ghosts
<1>2. PICK mode \in Modes : context' = [context EXCEPT ![Current(t)].mode = mode]
  BY DEF InitFromArgs
<1>3. ContextOK(context[Current(t)])
  BY <1>1 DEF OwnersOK, Counts
<1> DEFINE k == [context[Current(t)] EXCEPT !.mode = mode]
<1>4. ContextOK(k) /\ k.gate_count = context[Current(t)].gate_count
  BY <1>3 DEF ContextOK
<1>5. context' = [context EXCEPT ![Current(t)] = k]
  BY <1>2
<1> HIDE DEF k
<1>6. Alive' = Alive /\ \A d \in Alive : ContextOK(context'[d]) /\ context'[d].gate_count = context[d].gate_count
  BY <1>1, <1>4, <1>5, OneContextChanges
<1> QED BY <1>1, <1>6, ContextsChange

\* The program attaches a state vector.
LEMMA AttachKeeps ==
  ASSUME OwnersOK, NEW t \in Threads, Attach(t)
  PROVE  OwnersOK'
<1>1. InBody(t) /\ Current(t) \in Alive /\ UNCHANGED <<installed, stack, todo, counter, sent, mishaps>>
  BY DEF Attach, Usable, ghosts
<1>2. ContextOK(context[Current(t)])
  BY <1>1 DEF OwnersOK, Counts
<1> DEFINE k == AttachBridge(context[Current(t)])
<1>3. ContextOK(k) /\ k.gate_count = context[Current(t)].gate_count
  BY <1>2 DEF ContextOK, AttachBridge
<1>4. context' = [context EXCEPT ![Current(t)] = k]
  BY DEF Attach
<1> HIDE DEF k
<1>5. Alive' = Alive /\ \A d \in Alive : ContextOK(context'[d]) /\ context'[d].gate_count = context[d].gate_count
  BY <1>1, <1>3, <1>4, OneContextChanges
<1> QED BY <1>1, <1>5, ContextsChange

-----------------------------------------------------------------------------
(* The transpiler. *)

\* The shapes of wrapper that the transpiler writes.
Wrapper == {"Main", "EntryPointVoid", "EntryPointReturn"}

\* The matchers hit a function that is not wrapped yet, and only one of them.
LEMMA HitsOnce ==
  ASSUME NEW f \in Functions
  PROVE  /\ MainHits(f) \in Seq(Wrapper) /\ EntryHits(f) \in Seq(Wrapper)
         /\ Len(MainHits(f)) + Len(EntryHits(f)) <= 1
         /\ wrappers[f] # <<>> => MainHits(f) = <<>> /\ EntryHits(f) = <<>>
<1>1. MainHits(f) = <<>> \/ (MainHits(f) = <<"Main">> /\ wrappers[f] = <<>>)
  BY DEF MainHits, HasContextProbe
<1>2. \/ EntryHits(f) = <<>>
      \/ \E h \in Wrapper : EntryHits(f) = <<h>> /\ wrappers[f] = <<>> /\ MainHits(f) = <<>>
  BY DEF EntryHits, HasContextProbe, Shape, Wrapper
<1>3. Len(<<>>) = 0 /\ <<>> \in Seq(Wrapper) /\ \A h \in Wrapper : Len(<<h>>) = 1 /\ <<h>> \in Seq(Wrapper)
  OBVIOUS
<1>4. "Main" \in Wrapper
  BY DEF Wrapper
<1>5. CASE EntryHits(f) = <<>>
  <2>1. CASE MainHits(f) = <<>>
    BY <1>3, <1>5, <2>1
  <2>2. CASE MainHits(f) = <<"Main">> /\ wrappers[f] = <<>>
    <3>1. Len(<<"Main">>) = 1 /\ <<"Main">> \in Seq(Wrapper)
      BY <1>3, <1>4
    <3> QED BY <1>3, <1>5, <2>2, <3>1
  <2> QED BY <1>1, <2>1, <2>2
<1>6. CASE \E h \in Wrapper : EntryHits(f) = <<h>> /\ wrappers[f] = <<>> /\ MainHits(f) = <<>>
  <2>1. PICK h \in Wrapper : EntryHits(f) = <<h>> /\ wrappers[f] = <<>> /\ MainHits(f) = <<>>
    BY <1>6
  <2>2. Len(<<h>>) = 1 /\ <<h>> \in Seq(Wrapper)
    BY <1>3
  <2> QED BY <1>3, <2>1, <2>2
<1> QED BY <1>2, <1>5, <1>6

\* However often the source is transpiled, a function has one wrapper at most.
LEMMA TranspileKeeps ==
  ASSUME IInv, Transpile
  PROVE  wrappers' \in [Functions -> Seq(Wrapper)] /\ WrappedOnce'
<1>1. wrappers' = [f \in Functions |-> wrappers[f] \o MainHits(f) \o EntryHits(f)]
  BY DEF Transpile
<1>2. ASSUME NEW f \in Functions
      PROVE  wrappers'[f] \in Seq(Wrapper) /\ Len(wrappers'[f]) <= 1
  <2> DEFINE w == wrappers[f]  m == MainHits(f)  e == EntryHits(f)
  <2>1. w \in Seq(Wrapper) /\ Len(w) <= 1
    BY DEF IInv, WrappedOnce, Wrapper
  <2>2. m \in Seq(Wrapper) /\ e \in Seq(Wrapper) /\ Len(m) + Len(e) <= 1 /\ (w # <<>> => m = <<>> /\ e = <<>>)
    BY HitsOnce
  <2>3. wrappers'[f] = w \o m \o e
    BY <1>1
  <2> HIDE DEF w, m, e
  <2>4. w \o m \o e \in Seq(Wrapper) /\ Len(w \o m \o e) = Len(w) + Len(m) + Len(e)
    BY <2>1, <2>2, ConcatProperties
  <2>5. (w = <<>> => Len(w) = 0) /\ (m = <<>> => Len(m) = 0) /\ (e = <<>> => Len(e) = 0)
    OBVIOUS
  <2>6. Len(w) \in Nat /\ Len(m) \in Nat /\ Len(e) \in Nat
    BY <2>1, <2>2
  <2>7. Len(w) + Len(m) + Len(e) <= 1
    BY <2>1, <2>2, <2>5, <2>6
  <2> QED BY <2>3, <2>4, <2>7
<1> QED BY <1>1, <1>2 DEF WrappedOnce

-----------------------------------------------------------------------------
(* Every reachable state. *)

\* The invariant holds at the start.
LEMMA InitHolds == Init => IInv
<1> SUFFICES ASSUME Init
             PROVE  IInv
  OBVIOUS
<1>1. PlanOK(plan)
  BY PlansAssumption DEF Init
<1>2. /\ wrappers \in [Functions -> Seq({"Main", "EntryPointVoid", "EntryPointReturn"})]
      /\ WrappedOnce
  BY DEF Init, WrappedOnce
<1>3. /\ context = [c \in {Default} |-> FreshContext("COUNT_ONLY")]
      /\ installed = [t \in Threads |-> NoContext] /\ stack = [t \in Threads |-> <<>>]
      /\ todo = [t \in Threads |-> <<>>] /\ counter = [t \in Threads |-> NotCounting]
      /\ sent = [c \in Heap \cup {Default} |-> 0]
  BY DEF Init
<1>4. Alive = {Default} /\ Domains
  BY <1>3 DEF Alive, Domains
<1>5. \A t \in Threads : stack[t] = <<>> /\ installed[t] = NoContext /\ todo[t] = <<>> /\ counter[t] = NotCounting
  BY <1>3
<1>6. <<>> \in Seq(Frames) /\ Len(<<>>) = 0 /\ 1..0 = {}
  OBVIOUS
<1>7. ThreadOK(<<>>, NoContext, <<>>) /\ MineOf(<<>>, NoContext) = {} /\ AtHome(<<>>, NoContext)
  BY <1>6 DEF ThreadOK, StackOK, MineOf, AtHome
<1>8. \A t \in Threads : ThreadOK(stack[t], installed[t], todo[t]) /\ AtHome(stack[t], installed[t]) /\ Mine(t) = {}
  BY <1>5, <1>7 DEF Mine
<1>9. Apart
  BY <1>8 DEF Apart
<1>10. Counts
  <2>1. ContextOK(FreshContext("COUNT_ONLY"))
    BY DEF ContextOK, FreshContext, Modes
  <2>2. \A c \in Alive : ContextOK(context[c])
    BY <1>3, <1>4, <2>1
  <2> QED BY <1>4, <1>5, <2>2 DEF Counts, CountIsExact, Counting, Default, NoContext
<1>11. Wanted
  BY <1>4 DEF Wanted
<1> QED BY <1>1, <1>2, <1>4, <1>8, <1>9, <1>10, <1>11 DEF IInv, OwnersOK

\* Every step keeps the invariant.
LEMMA StepHolds ==
  ASSUME IInv, [Next]_vars
  PROVE  IInv'
<1>1. OwnersOK /\ PlanOK(plan)
  BY DEF IInv
<1>2. ASSUME NEW t \in Threads, Run(t)
      PROVE  OwnersOK' /\ UNCHANGED <<plan, wrappers>>
  <2>1. UNCHANGED <<plan, wrappers>>
    BY <1>2 DEF Run, Create, Install, Return, Destroy, Throw, CallRoot, CallHelp, Dispatch, LoadCount,
                ExecuteGate, Measure, InitFromArgs, Attach, programVars
  <2>2. CASE Create(t) \/ Install(t) \/ Return(t) \/ Destroy(t) \/ Throw(t)
    BY <1>1, <2>1, <2>2, CreateIsKept, InstallKeeps, ReturnKeeps, DestroyKeeps, ThrowKeeps
  <2>3. CASE CallRoot(t) \/ CallHelp(t)
    BY <1>1, <2>1, <2>3, CallRootKeeps, CallHelpKeeps
  <2>4. CASE Dispatch(t) \/ LoadCount(t) \/ ExecuteGate(t)
    BY <1>1, <2>1, <2>4, DispatchKeeps, LoadCountKeeps, ExecuteGateKeeps
  <2>5. CASE Measure(t) \/ InitFromArgs(t) \/ Attach(t)
    BY <1>1, <2>1, <2>5, MeasureKeeps, InitFromArgsKeeps, AttachKeeps
  <2> QED BY <1>2, <2>1, <2>2, <2>3, <2>4, <2>5 DEF Run
<1>3. ASSUME UNCHANGED <<context, installed, stack, todo, counter, sent, mishaps>>
      PROVE  OwnersOK'
  <2>1. /\ Domains' /\ Apart'
        /\ \A t \in Threads : ThreadOK(stack'[t], installed'[t], todo'[t])
    BY <1>1, <1>3 DEF OwnersOK, Domains, Apart, Mine, Alive
  <2>2. Counts'
    BY <1>1, <1>3 DEF OwnersOK, Counts, CountIsExact, Counting, Alive
  <2>3. (Excuse' <=> Excuse) /\ (Wanted' <=> Wanted)
    BY <1>3 DEF Excuse, Wanted, Alive
  <2>4. "throw" \in Excused => Excuse' \/ Wanted'
    BY <1>1, <2>3 DEF OwnersOK
  <2>5. {"nested", "throw", "memory"} \subseteq Excused => Excuse' \/ \A t \in Threads : AtHome(stack'[t], installed'[t])
    BY <1>1, <1>3, <2>3 DEF OwnersOK
  <2> QED BY <2>1, <2>2, <2>4, <2>5 DEF OwnersOK
<1>4. CASE Transpile
  <2>1. UNCHANGED <<plan, context, installed, stack, todo, counter, sent, mishaps>>
    BY <1>4 DEF Transpile, ghosts
  <2>2. wrappers' \in [Functions -> Seq({"Main", "EntryPointVoid", "EntryPointReturn"})] /\ WrappedOnce'
    BY <1>4, TranspileKeeps DEF Wrapper
  <2> QED BY <1>1, <1>3, <2>1, <2>2 DEF IInv
<1>5. CASE UNCHANGED vars
  <2>1. UNCHANGED <<plan, wrappers, context, installed, stack, todo, counter, sent, mishaps>>
    BY <1>5 DEF vars
  <2> QED BY <1>1, <1>3, <2>1 DEF IInv, WrappedOnce
<1>6. CASE \E t \in Threads : Run(t)
  BY <1>1, <1>2, <1>6 DEF IInv, WrappedOnce
<1> QED BY <1>4, <1>5, <1>6 DEF Next

\* In every reachable state, each thread has its own contexts and knows the
\* counts it is incrementing: the results below are read from this.
THEOREM Invariance == Spec => []IInv
<1>1. Init => IInv
  BY InitHolds
<1>2. IInv /\ [Next]_vars => IInv'
  BY StepHolds
<1> QED BY <1>1, <1>2, PTL DEF Spec

\* A function is wrapped once at most, whatever marks it and however often the
\* source is transpiled.
THEOREM OneWrapper == Spec => []WrappedOnce
<1>1. IInv => WrappedOnce
  BY DEF IInv
<1> QED BY <1>1, Invariance, PTL

\* No thread has a context installed that was destroyed, even when exceptions
\* leave wrappers and contexts cannot be allocated.
THEOREM InstalledContextsLive == Spec => []InstalledIsAlive
<1>1. IInv => InstalledIsAlive
  <2> SUFFICES ASSUME IInv, NEW t \in Threads
               PROVE  installed[t] \in Alive \cup {NoContext}
    BY DEF InstalledIsAlive
  <2>1. installed[t] # NoContext => installed[t] \in Mine(t)
    BY DEF Mine, MineOf
  <2> QED BY <2>1 DEF IInv, OwnersOK, Apart
<1> QED BY <1>1, Invariance, PTL

\* The count of a context that a wrapper made is the number of gates that went
\* there, though a thread reads it and writes it in two steps without a lock.
THEOREM OwnCountsAreExact == Spec => []CountIsExact
<1>1. IInv => CountIsExact
  BY DEF IInv, OwnersOK, Counts
<1> QED BY <1>1, Invariance, PTL

\* Unless an exception left a wrapper, every context is destroyed by the time no
\* function runs.
THEOREM NoContextLeaks ==
  ASSUME "throw" \in Excused
  PROVE  Spec => []NothingLeaks
<1>1. IInv => NothingLeaks
  <2> SUFFICES ASSUME IInv, ~Excuse, \A t \in Threads : stack[t] = <<>>
               PROVE  Alive = {Default}
    BY DEF NothingLeaks
  <2>1. Wanted /\ Default \in Alive
    BY DEF IInv, OwnersOK, Counts
  <2>2. Len(<<>>) = 0 /\ 1..0 = {}
    OBVIOUS
  <2>3. \A c \in Alive : c = Default
    BY <2>1, <2>2 DEF Wanted
  <2> QED BY <2>1, <2>3
<1> QED BY <1>1, Invariance, PTL

\* Unless an exception left a wrapper, a wrapped function called another, or a
\* context could not be allocated, the gates of a body go to the context of the
\* innermost wrapper around it.
THEOREM GatesStayHome ==
  ASSUME {"nested", "throw", "memory"} \subseteq Excused
  PROVE  Spec => []GatesGoHome
<1>1. IInv => GatesGoHome
  <2> SUFFICES ASSUME IInv, ~Excuse, NEW t \in Threads, stack[t] # <<>>, Top(t).at = "body"
               PROVE  installed[t] = Home(t) /\ (Top(t).wrapped => Home(t) # NoContext)
    BY DEF GatesGoHome
  <2> DEFINE s == stack[t]  n == Len(s)  wrapped == {i \in DOMAIN s : s[i].wrapped}
  <2>1. OwnersOK
    BY DEF IInv
  <2>2. StackOK(s) /\ n \in 1..n /\ Top(t) = s[n] /\ s[n].at = "body"
    BY <2>1, TopOf
  <2>3. AtHome(s, installed[t])
    BY <2>1 DEF OwnersOK
  <2>4. DOMAIN s = 1..n
    BY <2>2 DEF StackOK
  <2>5. CASE wrapped = {}
    <3>1. Home(t) = NoContext
      BY <2>5 DEF Home
    <3>2. \A i \in 1..n : ~s[i].wrapped
      BY <2>4, <2>5
    <3> QED BY <2>2, <2>3, <3>1, <3>2 DEF AtHome
  <2>6. CASE wrapped # {}
    <3>1. PICK i \in 1..n : s[i].wrapped
      BY <2>4, <2>6
    <3>2. wrapped = {i}
      BY <2>3, <2>4, <3>1 DEF AtHome
    <3>3. i \in Int
      BY <3>1
    <3>4. Home(t) = s[i].own
      BY <3>2, <3>3 DEF Home, Max
    <3>5. s[i].at # "enter"
      BY <2>2, <3>1 DEF StackOK, FrameOK
    <3> QED BY <2>2, <2>3, <3>1, <3>4, <3>5 DEF AtHome
  <2> QED BY <2>5, <2>6
<1> QED BY <1>1, Invariance, PTL
=============================================================================
