-------------------------- MODULE LibraryCircuits --------------------------
(***************************************************************************)
(* The routines of the library (include/sturm/detail/lib/...) and the      *)
(* compound operators of qint_t that call them, as the sequences of        *)
(* statements they execute.  A loop is unrolled, a call is replaced by the *)
(* routine's statements; module LibraryMachine says what a statement does. *)
(*                                                                         *)
(* A bit is named <<array, index>>; an argument that is a pointer to bits  *)
(* is a function from 0..n-1 to names, so that an offset into an array is  *)
(* another such function.                                                  *)
(***************************************************************************)
EXTENDS Integers, SequencesExt

\* The bits of an array, and those of `bits` from position i on.
Bits(array, n) == [i \in 0..(n - 1) |-> <<array, i>>]
Window(bits, i, n) == [j \in 0..(n - 1) |-> bits[i + j]]
Local(name) == <<name, 0>>

\* for (i = 0; i < n; ++i) and for (i = n; i-- > 0;)
Up(n, Body(_)) == FlattenSeq([i \in 1..n |-> Body(i - 1)])
Down(n, Body(_)) == FlattenSeq([i \in 1..n |-> Body(n - i)])
When(condition, statements) == IF condition THEN statements ELSE <<>>

\* The statements.  The first bit is the one that changes.
Xor(t, s) == [op |-> "t ^= s", bits |-> <<t, s>>]
XorAnd(t, a, b) == [op |-> "t ^= (a & b)", bits |-> <<t, a, b>>]
XorOr(t, a, b) == [op |-> "t ^= (a | b)", bits |-> <<t, a, b>>]
And(t, a, b) == [op |-> "qbool t = a & b", bits |-> <<t, a, b>>]
FlipBit(t) == [op |-> "t.flip()", bits |-> <<t>>]
Declare(x) == [op |-> "qbool x", bits |-> <<x>>]
New(x) == [op |-> "x = allocate()", bits |-> <<x>>]
Drop(x) == [op |-> "if (x >= 0) release(x)", bits |-> <<x>>]
Relabel(x, y) == [op |-> "x = move(y)", bits |-> <<x, y>>]

\* operator^= of qbool, and a CX that takes no control, which is only there if t
\* has a qubit.
XorQbool(t, s) == [op |-> "qbool t ^= s", bits |-> <<t, s>>]
PrimitiveXor(t, s) == [op |-> "primitive_XOR(s, t)", bits |-> <<t, s>>]

\* WHEN(f) { body }
Guarded(f, body) ==
  <<[op |-> "WHEN(f", bits |-> <<f>>]>> \o body \o <<[op |-> "WHEN)", bits |-> <<f>>]>>

\* lift_under(f, body)
BeginLift(f) == [op |-> "lift_under(f", bits |-> <<f>>]
EndLift(f) == [op |-> "lift_under)", bits |-> <<f>>]
Lifted(f, body) == <<BeginLift(f)>> \o body \o <<EndLift(f)>>

NewAll(bits, n) == Up(n, LAMBDA i : <<New(bits[i])>>)

\* Mutant: the loop misses the last bit.
DropDownFew(bits, n) == Down(n - 1, LAMBDA i : <<Drop(bits[i])>>)

DropDown(bits, n) == Down(n, LAMBDA i : <<Drop(bits[i])>>)
FlipAll(bits, n) == Up(n, LAMBDA i : <<FlipBit(bits[i])>>)
XorAll(to, from, n) == Up(n, LAMBDA i : <<Xor(to[i], from[i])>>)

-----------------------------------------------------------------------------
(* adder_dsl.hpp and the gate-reversed forms of div_dsl_adj.hpp. *)

Maj(a, b, c) == <<Xor(b, c), Xor(a, c), XorAnd(c, a, b)>>
Uma(a, b, c) == <<XorAnd(c, a, b), Xor(a, c), Xor(b, a)>>
MajAdj(a, b, c) == <<XorAnd(c, a, b), Xor(a, c), Xor(b, c)>>
UmaAdj(a, b, c) == <<Xor(b, a), Xor(a, c), XorAnd(c, a, b)>>

\* The bit the carry into position i is in.
CarryInto(carry, a, i) == IF i = 0 THEN carry ELSE a[i - 1]

\* Two sweeps along a and b; in between, what reads the carry out of a[n - 1].
Ripple(First(_, _, _), Then(_, _, _), carry, a, b, n, between) ==
  Up(n, LAMBDA i : First(CarryInto(carry, a, i), b[i], a[i]))
    \o between
    \o Down(n, LAMBDA i : Then(CarryInto(carry, a, i), b[i], a[i]))

\* lib_add_dsl: b += a, with a carry that starts |0>.
Add(a, b, carry_out, n) ==
  LET c == Local("carry_anc")
  IN  <<New(c)>> \o Ripple(Maj, Uma, c, a, b, n, <<Xor(carry_out, a[n - 1])>>) \o <<Drop(c)>>

\* lib_add_adj: the gates of lib_add_dsl in reverse.
AddAdj(a, b, carry_out, n) ==
  LET c == Local("carry_anc")
  IN  <<New(c)>> \o Ripple(UmaAdj, MajAdj, c, a, b, n, <<Xor(carry_out, a[n - 1])>>)
        \o <<Drop(c)>>

\* lib_sub_dsl: b -= a as b + ~a + 1; the borrow is the inverted carry.
Sub(a, b, borrow_out, n) ==
  LET c == Local("carry_anc")
  IN  <<New(c), FlipBit(c)>> \o FlipAll(a, n)
        \o Ripple(Maj, Uma, c, a, b, n, <<Xor(borrow_out, a[n - 1]), FlipBit(borrow_out)>>)
        \o FlipAll(a, n) \o <<FlipBit(c), Drop(c)>>

-----------------------------------------------------------------------------
(* logic_dsl.hpp, c_and_dsl.hpp and swap_dsl.hpp. *)

Or(a, b, c) == <<XorOr(c, a, b)>>
Nand(a, b, c) == <<XorAnd(c, a, b), FlipBit(c)>>

Nor(a, b, c) == <<FlipBit(a), FlipBit(b), XorAnd(c, a, b), FlipBit(b), FlipBit(a)>>
Xnor(a, b, c) == <<Xor(c, a), Xor(c, b), FlipBit(c)>>
OrAdj(a, b, c) == <<XorAnd(c, a, b), Xor(c, b), Xor(c, a)>>
Swap(a, b) == <<Xor(a, b), Xor(b, a), Xor(a, b)>>

\* lib_c_n_AND_dsl: tgt ^= the conjunction of n controls, for n >= 3 by a
\* ladder of n - 2 ancillas that is climbed and descended again.
CnAnd(controls, n, tgt) ==
  LET anc == Bits("anc", n - 2)
      Rung(i) == IF i = 0 THEN <<XorAnd(anc[0], controls[0], controls[1])>>
                 ELSE <<XorAnd(anc[i], controls[i + 1], anc[i - 1])>>
  IN  CASE n = 0 -> <<FlipBit(tgt)>>
        [] n = 1 -> <<Xor(tgt, controls[0])>>
        [] n = 2 -> <<XorAnd(tgt, controls[0], controls[1])>>
        [] OTHER -> NewAll(anc, n - 2) \o Up(n - 2, Rung)
                      \o <<XorAnd(tgt, controls[n - 1], anc[n - 3])>>
                      \o Down(n - 2, Rung) \o Up(n - 2, LAMBDA i : <<Drop(anc[i])>>)

-----------------------------------------------------------------------------
(* compare_dsl.hpp *)

\* lib_eq_dsl
Eq(a, b, n, result) ==
  LET xnor == Bits("xnor", n)
      compare == Up(n, LAMBDA i : Xnor(a[i], b[i], xnor[i]))
  IN  NewAll(xnor, n) \o compare \o CnAnd(xnor, n, result) \o compare \o DropDown(xnor, n)

\* lib_lt_dsl: the borrow of a copy of a minus b.  The borrow and the carry
\* of the addition that restores the copy are zeroed with the result.
Lt(a, b, n, result) ==
  LET a_copy == Bits("a_copy", n)
      borrow == Local("borrow")
      scratch == Local("carry_scratch")
  IN  NewAll(a_copy, n) \o XorAll(a_copy, a, n) \o <<New(borrow), New(scratch)>>
        \o Sub(b, a_copy, borrow, n)
        \o <<Xor(result, borrow), Xor(borrow, result)>>
        \o Add(b, a_copy, scratch, n)
        \o <<Xor(scratch, result)>>
        \o XorAll(a_copy, a, n)
        \o <<Drop(scratch), Drop(borrow)>> \o DropDown(a_copy, n)

\* lib_le_dsl, lib_gt_dsl, lib_ge_dsl, lib_ne_dsl
Le(a, b, n, result) ==
  LET lt == Local("lt_r")
      eq == Local("eq_r")
  IN  <<New(lt), New(eq)>> \o Lt(a, b, n, lt) \o Eq(a, b, n, eq) \o Or(lt, eq, result)
        \o Lt(a, b, n, lt) \o Eq(a, b, n, eq) \o <<Drop(eq), Drop(lt)>>

Gt(a, b, n, result) == Lt(b, a, n, result)

Ge(a, b, n, result) ==
  LET lt == Local("lt_r")
  IN  <<New(lt)>> \o Lt(a, b, n, lt) \o <<FlipBit(lt), Xor(result, lt), FlipBit(lt)>>
        \o Lt(a, b, n, lt) \o <<Drop(lt)>>

Ne(a, b, n, result) ==
  LET eq == Local("eq_r")
  IN  <<New(eq)>> \o Eq(a, b, n, eq) \o <<FlipBit(eq), Xor(result, eq), FlipBit(eq)>>
        \o Eq(a, b, n, eq) \o <<Drop(eq)>>

-----------------------------------------------------------------------------
(* mul_dsl.hpp *)

\* lib_mul_dsl: one controlled addition per bit of b.
Mul(a, a_width, b, b_width, result) ==
  Up(b_width, LAMBDA i :
       Lifted(b[i], Add(a, Window(result, i, a_width), result[i + a_width], a_width)))

\* Mutant: the additions are taken back in the order they were made.
MulAdjInOrder(a, a_width, b, b_width, result) ==
  Up(b_width, LAMBDA i :
       Lifted(b[i], AddAdj(a, Window(result, i, a_width), result[i + a_width], a_width)))

\* __lib_mul_dsl_adj
MulAdj(a, a_width, b, b_width, result) ==
  Down(b_width, LAMBDA i :
         Lifted(b[i], AddAdj(a, Window(result, i, a_width), result[i + a_width], a_width)))

-----------------------------------------------------------------------------
(* div_dsl.hpp and mod_dsl.hpp *)

\* compute_overflow_or_dsl: overflow ^= the disjunction of b[lo..n-1].
OverflowOr(overflow, b, lo, n) ==
  LET tmp == Local("tmp")
      Join(j) == <<And(tmp, overflow, b[j]), Xor(overflow, b[j]), Xor(overflow, tmp), Drop(tmp)>>
  IN  When(lo < n, <<Xor(overflow, b[lo])>> \o Up(n - lo - 1, LAMBDA j : Join(lo + 1 + j)))

\* The locals of div_kernel.
DivLocals(n) ==
  [scratch |-> Bits("scratch", n), sgn |-> Bits("sgn", n - 1),
   overflow |-> Local("overflow"), carry |-> Local("div_carry")]

WithDivLocals(n, body) ==
  LET l == DivLocals(n)
  IN  NewAll(l.scratch, n) \o NewAll(l.sgn, n - 1) \o <<New(l.overflow), New(l.carry)>>
        \o body
        \o <<Drop(l.carry), Drop(l.overflow)>> \o DropDown(l.sgn, n - 1) \o DropDown(l.scratch, n)

\* The body that runs when the divisor, shifted to bit i, does not overflow.
Unless(overflow, body) == <<FlipBit(overflow)>> \o Lifted(overflow, body) \o <<FlipBit(overflow)>>

\* negate_cond: ~scratch + 1 in the first round, later if the last partial
\* remainder was not negative.
NegateCond(l, i, n) ==
  LET negate == FlipAll(l.scratch, n) \o <<FlipBit(l.carry)>>
  IN  IF i = n - 1 THEN negate
      ELSE <<FlipBit(l.sgn[i])>> \o Lifted(l.sgn[i], negate) \o <<FlipBit(l.sgn[i])>>

\* The divisor at bit i, or its negation, in scratch while `body` runs.
Shifted(l, i, divisor, n, body) ==
  LET copy == Up(n - i, LAMBDA j : <<Xor(l.scratch[i + j], divisor[j])>>)
  IN  copy \o NegateCond(l, i, n) \o body \o NegateCond(l, i, n) \o copy

\* sgn[i - 1] ^= the sign of the round, the inverse of the quotient bit.
NextSign(l, i, q) ==
  When(i > 0, <<FlipBit(q[i]), Xor(l.sgn[i - 1], q[i]), FlipBit(q[i])>>)

CopySign(l, i, n) ==
  When(i < n - 1 /\ i > 0, Lifted(l.overflow, <<Xor(l.sgn[i - 1], l.sgn[i])>>))

\* Mutant: the sign of the last round stays.
UncomputeSignNever(l, i, divisor, q, n) == <<>>

\* uncompute_sgn_i and its reverse.
UncomputeSign(l, i, divisor, q, n) ==
  LET test == OverflowOr(l.overflow, divisor, n - i - 1, n)
  IN  When(i < n - 1, test \o <<Xor(l.sgn[i], q[i + 1])>>
                        \o Unless(l.overflow, <<FlipBit(l.sgn[i])>>) \o test)

UncomputeSignAdj(l, i, divisor, q, n) ==
  LET test == OverflowOr(l.overflow, divisor, n - i - 1, n)
  IN  When(i < n - 1, test \o Unless(l.overflow, <<FlipBit(l.sgn[i])>>)
                        \o <<Xor(l.sgn[i], q[i + 1])>> \o test)

\* One round of the kernel, for quotient bit i, and its reverse.
Round(l, i, divisor, q, r, n) ==
  LET test == OverflowOr(l.overflow, divisor, n - i, n)
      subtract == Ripple(Maj, Uma, l.carry, l.scratch, r, n, <<Xor(q[i], l.scratch[n - 1])>>)
  IN  test
        \o Unless(l.overflow, Shifted(l, i, divisor, n, subtract) \o NextSign(l, i, q))
        \o CopySign(l, i, n) \o UncomputeSign(l, i, divisor, q, n) \o test

RoundAdj(l, i, divisor, q, r, n) ==
  LET test == OverflowOr(l.overflow, divisor, n - i, n)
      add == Ripple(UmaAdj, MajAdj, l.carry, l.scratch, r, n, <<Xor(q[i], l.scratch[n - 1])>>)
  IN  test \o UncomputeSignAdj(l, i, divisor, q, n) \o CopySign(l, i, n)
        \o Unless(l.overflow, NextSign(l, i, q) \o Shifted(l, i, divisor, n, add))
        \o test

\* run_final and run_final_adj: a negative remainder gets the divisor back.
Final(l, divisor, q, r, n) ==
  <<FlipBit(q[0])>> \o Lifted(q[0], Add(divisor, r, l.carry, n))
    \o <<FlipBit(q[0]), Xor(l.carry, q[0]), FlipBit(l.carry)>>

FinalAdj(l, divisor, q, r, n) ==
  <<FlipBit(l.carry), Xor(l.carry, q[0]), FlipBit(q[0])>>
    \o Lifted(q[0], AddAdj(divisor, r, l.carry, n)) \o <<FlipBit(q[0])>>

\* lib_div_dsl: non-restoring division, q = dividend / divisor, r the rest.
Div(dividend, n, divisor, q, r) ==
  LET l == DivLocals(n)
  IN  WithDivLocals(n, XorAll(r, dividend, n)
                         \o Down(n, LAMBDA i : Round(l, i, divisor, q, r, n))
                         \o Final(l, divisor, q, r, n))

\* __lib_div_dsl_adj
DivAdj(dividend, n, divisor, q, r) ==
  LET l == DivLocals(n)
  IN  WithDivLocals(n, FinalAdj(l, divisor, q, r, n)
                         \o Up(n, LAMBDA i : RoundAdj(l, i, divisor, q, r, n))
                         \o XorAll(r, dividend, n))

\* lib_mod_dsl: a second division is meant to zero the quotient.
Mod(dividend, n, divisor, r) ==
  LET q == Bits("quotient", n)
      temp_rem == Bits("temp_rem", n)
  IN  NewAll(q, n) \o Div(dividend, n, divisor, q, r)
        \o NewAll(temp_rem, n) \o Div(dividend, n, divisor, q, temp_rem)
        \o XorAll(temp_rem, r, n)
        \o DropDown(temp_rem, n) \o DropDown(q, n)

-----------------------------------------------------------------------------
(* The compound operators of qint_arith_v3.hpp and qint_bitwise_v3.hpp on   *)
(* two registers of width n.  The bits of a classical y that an operation   *)
(* gave a qubit are released when it is over; is_literal says y is one.     *)

ReleaseTemps(y, n, is_literal) == When(is_literal, Up(n, LAMBDA i : <<Drop(y[i])>>))

\* Mutant: the old qubits of x are forgotten.
ReplaceLeaks(x, res, n) == Up(n, LAMBDA i : <<Relabel(x[i], res[i])>>)

\* The qubits of x go back to the pool and x takes those of the result.
Replace(x, res, n) ==
  Up(n, LAMBDA i : <<Drop(x[i])>>) \o Up(n, LAMBDA i : <<Relabel(x[i], res[i])>>)

PlusAssign(x, y, n, is_literal) ==
  LET carry == Local("carry_q")
  IN  <<Declare(carry)>> \o Add(y, x, carry, n) \o <<Drop(carry)>>
        \o ReleaseTemps(y, n, is_literal)

MinusAssign(x, y, n, is_literal) ==
  LET borrow == Local("borrow_q")
  IN  <<Declare(borrow)>> \o Sub(y, x, borrow, n) \o <<Drop(borrow)>>
        \o ReleaseTemps(y, n, is_literal)

TimesAssign(x, y, n, is_literal) ==
  LET res == Bits("product", 2 * n)
  IN  NewAll(res, 2 * n) \o Mul(x, n, y, n, res)
        \o ReleaseTemps(y, n, is_literal)
        \o Up(n, LAMBDA i : <<Drop(res[n + i])>>) \o Replace(x, res, n)

DivideAssign(x, y, n, is_literal) ==
  LET q == Bits("quotient", n)
      r == Bits("remainder", n)
  IN  Up(n, LAMBDA i : <<New(q[i]), New(r[i])>>) \o Div(x, n, y, q, r)
        \o ReleaseTemps(y, n, is_literal)
        \o Up(n, LAMBDA i : <<Drop(r[i])>>) \o Replace(x, q, n)

RemainderAssign(x, y, n, is_literal) ==
  LET r == Bits("remainder", n)
  IN  NewAll(r, n) \o Mod(x, n, y, r)
        \o ReleaseTemps(y, n, is_literal) \o Replace(x, r, n)

XorAssign(x, y, n, is_literal) == XorAll(x, y, n) \o ReleaseTemps(y, n, is_literal)

\* &= and |=: per bit, the old qubit is released and the new one taken.
BitwiseAssign(x, y, res, combine, n, is_literal) ==
  NewAll(res, n) \o combine
    \o ReleaseTemps(y, n, is_literal)
    \o Up(n, LAMBDA i : <<Drop(x[i]), Relabel(x[i], res[i])>>)

AndAssign(x, y, n, is_literal) ==
  LET res == Bits("res", n)
  IN  BitwiseAssign(x, y, res, Up(n, LAMBDA i : <<XorAnd(res[i], x[i], y[i])>>), n, is_literal)

OrAssign(x, y, n, is_literal) ==
  LET res == Bits("res", n)
  IN  BitwiseAssign(x, y, res, Up(n, LAMBDA i : <<XorOr(res[i], x[i], y[i])>>), n, is_literal)
==============================================================================
