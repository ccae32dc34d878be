---------------------------- MODULE QramCircuits ----------------------------
(***************************************************************************)
(* The bucket-brigade read of a table (detail/lib/qram_read_bb_dsl.hpp and *)
(* the files it includes): result ^= table[address], where the table is a  *)
(* sequence of registers of n bits, quantum or classical.                  *)
(*                                                                         *)
(* The routers form a binary tree, numbered level by level from the root,  *)
(* 0.  The bits of the address switch one path through it; the words are   *)
(* moved up along that path to the bus and back down again.                *)
(***************************************************************************)
EXTENDS LibraryCircuits

\* ct_log2, level_of, next_pow2, bit_reverse
Log2(k) == CHOOSE d \in 0..k : 2 ^ d >= k /\ \A e \in 0..(d - 1) : 2 ^ e < k
LevelOf(router) == CHOOSE d \in 0..router : 2 ^ d - 1 <= router /\ router < 2 ^ (d + 1) - 1
Reversed[bits \in Nat, x \in Nat] ==
  IF bits = 0 THEN 0 ELSE 2 ^ (bits - 1) * (x % 2) + Reversed[bits - 1, x \div 2]

IsLeft(router) == <<"is_left", router>>
IsRight(router) == <<"is_right", router>>
Left(router) == 2 * router + 1
Right(router) == 2 * router + 2
Parent(router) == (router - 1) \div 2

\* The flag of the parent that leads to this router.
Enables(router) == IF router % 2 = 1 THEN IsLeft(Parent(router)) ELSE IsRight(Parent(router))

\* setup_node_body and teardown_node_body
SetupNode(router, address) ==
  LET bit == address[LevelOf(router)]
  IN  <<New(IsLeft(router)), New(IsRight(router)),
        XorQbool(IsRight(router), bit), XorQbool(IsLeft(router), bit), FlipBit(IsLeft(router))>>

TeardownNode(router, address) ==
  LET bit == address[LevelOf(router)]
  IN  <<FlipBit(IsLeft(router)), XorQbool(IsLeft(router), bit), XorQbool(IsRight(router), bit)>>

UnderParent(router, body) == IF router = 0 THEN body ELSE Guarded(Enables(router), body)

\* setup_walk: a router before those below it; teardown_walk: after them, the
\* right one first.
SetupWalk(address, words) ==
  LET walk[router \in 0..(words - 2)] ==
        UnderParent(router, SetupNode(router, address))
          \o When(Left(router) < words - 1, walk[Left(router)] \o walk[Right(router)])
  IN  walk[0]

TeardownWalk(address, words) ==
  LET walk[router \in 0..(words - 2)] ==
        When(Left(router) < words - 1, walk[Right(router)] \o walk[Left(router)])
          \o UnderParent(router, TeardownNode(router, address))
  IN  walk[0]

\* emit_csswap_one_bit: t and a change places where ctrl is on, of which only
\* the half that leaves a bit in t shows while t is |0>.
CsSwap(t, a, ctrl) == <<PrimitiveXor(a, t)>> \o Guarded(ctrl, <<Xor(t, a)>>) \o <<PrimitiveXor(a, t)>>

\* Mutant: the last bit of a word stays where it is.
ArmShort(t, a, ctrl, n) == Up(n - 1, LAMBDA j : CsSwap(t[j], a[j], ctrl))

\* emit_csswap_w_arm_qint, emit_csswap_w_arm_arr
Arm(t, a, ctrl, n) == Up(n, LAMBDA j : CsSwap(t[j], a[j], ctrl))

\* Where the word that comes up to a router goes, and where it comes from.
Out(router, bus, n) ==
  IF router = 0 THEN bus ELSE [j \in 0..(n - 1) |-> <<"transit", (router - 1) * n + j>>]

Incoming(side, router, table, n) ==
  LET words == Len(table)
      leaf == 2 * (router - (words \div 2 - 1)) + (IF side = "left" THEN 0 ELSE 1)
  IN  IF Left(router) < words - 1
      THEN Out(IF side = "left" THEN Left(router) ELSE Right(router), <<>>, n)
      ELSE table[Reversed[Log2(words), leaf] + 1]

\* forward_walk: the arms of the routers from the leaves to the root.
ForwardWalk(table, bus, n) ==
  LET words == Len(table)
      walk[router \in 0..(words - 2)] ==
        When(Left(router) < words - 1, walk[Left(router)] \o walk[Right(router)])
          \o Arm(Out(router, bus, n), Incoming("left", router, table, n), IsLeft(router), n)
          \o Arm(Out(router, bus, n), Incoming("right", router, table, n), IsRight(router), n)
  IN  walk[0]

\* reverse_walk
ReverseWalk(table, bus, n) ==
  LET words == Len(table)
      walk[router \in 0..(words - 2)] ==
        Arm(Out(router, bus, n), Incoming("right", router, table, n), IsRight(router), n)
          \o Arm(Out(router, bus, n), Incoming("left", router, table, n), IsLeft(router), n)
          \o When(Left(router) < words - 1, walk[Left(router)] \o walk[Right(router)])
  IN  walk[0]

\* emit_b_xor_bus: without a control, for the bus is |0> where the read is not made.
XorBus(bus, result, n) == Up(n, LAMBDA j : <<PrimitiveXor(result[j], bus[j])>>)

\* The words of the table, then zeros up to a power of two.
Padded(table, n) ==
  LET words == 2 ^ Log2(Len(table))
      phantom(k) == [j \in 0..(n - 1) |-> <<"phantom", (k - Len(table) - 1) * n + j>>]
  IN  [k \in 1..words |-> IF k <= Len(table) THEN table[k] ELSE phantom(k)]

\* lib_qram_read_bb_dsl, and its adjoint, which is the same.
QramRead(table, address, result, n) ==
  LET words == 2 ^ Log2(Len(table))
      bus == Bits("bus", n)
      transits == Bits("transit", (words - 2) * n)
      phantoms == Bits("phantom", (words - Len(table)) * n)
      padded == Padded(table, n)
  IN  NewAll(transits, (words - 2) * n) \o NewAll(bus, n)
        \o NewAll(phantoms, (words - Len(table)) * n)
        \o SetupWalk(address, words)
        \o ForwardWalk(padded, bus, n) \o XorBus(bus, result, n) \o ReverseWalk(padded, bus, n)
        \o TeardownWalk(address, words)
        \o Down(words - 1, LAMBDA k : <<Drop(IsRight(k)), Drop(IsLeft(k))>>)
        \o DropDown(phantoms, (words - Len(table)) * n)
        \o DropDown(bus, n) \o DropDown(transits, (words - 2) * n)
==============================================================================
