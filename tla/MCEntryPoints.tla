---------------------------- MODULE MCEntryPoints ----------------------------
(* Small instances of EntryPoints for TLC. *)
EXTENDS EntryPoints

TwoThreads == {"first", "second"}
ThreeBits == 0..2

Angles == {<<2, 1>>, <<1, 1>>}

\* Every gate, on the bits in some order.
Tuples == [n \in 1..3 |-> CASE n = 1 -> {<<0>>, <<1>>} [] n = 2 -> {<<0, 1>>, <<1, 0>>, <<1, 2>>} [] n = 3 -> {<<0, 1, 2>>}]
AllGates ==
  UNION {[kind : {k}, z : IF k \in Rotations THEN Angles ELSE {One}, ops : Tuples[Arity(k)]] : k \in Kinds}

FewGates == [kind : {"H"}, z : {One}, ops : {<<0>>}]

Plain == [annotated |-> FALSE, returns |-> "integer", parameters |-> TRUE, method |-> FALSE, gtest |-> FALSE]
Marked == [Plain EXCEPT !.annotated = TRUE]

\* One thread, all gates.
Gates ==
  [passes |-> 1, mains |-> {Plain}, others |-> {Plain}, modes |-> {"APPEND", "SIMULATE"},
   gates |-> ("first" :> 2) @@ ("second" :> 0), calls |-> ("first" :> 1) @@ ("second" :> 0),
   menu |-> AllGates, values |-> SUBSET ThreeBits, args |-> {}, bridges |-> TRUE, helps |-> FALSE, throws |-> FALSE]

\* Two threads, calls, exceptions, few gates.
Calls ==
  [passes |-> 1, mains |-> {Plain, [Plain EXCEPT !.parameters = FALSE]}, others |-> {Plain, Marked},
   modes |-> {"APPEND"},
   gates |-> ("first" :> 1) @@ ("second" :> 1), calls |-> ("first" :> 2) @@ ("second" :> 2),
   menu |-> FewGates, values |-> {{}}, args |-> {<<"another argument", "SIMULATE", "COUNT_ONLY">>, <<>>, <<"bad">>},
   bridges |-> FALSE, helps |-> TRUE, throws |-> TRUE]

\* The transpiler's view: every way to write and mark the functions.
Sources ==
  [Gates EXCEPT !.passes = 2, !.values = {{}}, !.menu = {}, !.modes = {"COUNT_ONLY"},
     !.mains = [annotated : BOOLEAN, returns : {"integer"}, parameters : BOOLEAN, method : {FALSE}, gtest : BOOLEAN],
     !.others = [annotated : BOOLEAN, returns : {"void", "integer", "auto"}, parameters : {TRUE}, method : BOOLEAN, gtest : {FALSE}]]

AllPlans == {Gates, Calls, Sources}
===============================================================================
