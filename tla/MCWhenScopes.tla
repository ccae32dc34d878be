---------------------------- MODULE MCWhenScopes ----------------------------
(* Small instances of WhenScopes for TLC. *)
EXTENDS WhenScopes, TLC

CONSTANTS t1, t2, f1, f2, f3, f4, c1, c2

\* Flags on one thread, with a context of its own; they are interchangeable.
Three == (f1 :> t1) @@ (f2 :> t1) @@ (f3 :> t1)
Four == Three @@ (f4 :> t1)
One == t1 :> c1
FlagSymmetry == Permutations(Flag)

\* Two flags on each of two threads.
TwoAndTwo == (f1 :> t1) @@ (f2 :> t1) @@ (f3 :> t2) @@ (f4 :> t2)
PairSymmetry == Permutations({f1, f2}) \cup Permutations({f3, f4})

\* One thread installed a context, the other has the default one.
OwnAndDefault == (t1 :> c1) @@ (t2 :> NoContext)

\* Neither thread installed a context.
BothDefault == (t1 :> NoContext) @@ (t2 :> NoContext)
=============================================================================
