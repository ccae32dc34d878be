-------------------------- MODULE ModularCircuits --------------------------
(***************************************************************************)
(* The modular routines of the library (include/sturm/detail/lib, *_mod_*  *)
(* and swap), as statement sequences.                                      *)
(*                                                                         *)
(* An operand of a modular routine is widened by a bit that starts and     *)
(* ends |0>, so that the sum of two residues fits.  A routine that forgets *)
(* its operand leaves a witness with the caller, who gives it back to the  *)
(* routine's adjoint.                                                      *)
(***************************************************************************)
EXTENDS LibraryCircuits

\* bits with one more bit on top, and row k of an array of rows.
Widened(bits, top, n) == [i \in 0..n |-> IF i < n THEN bits[i] ELSE top]
Row(array, k, n) == [i \in 0..(n - 1) |-> <<array, k * n + i>>]

\* The locals of the routines that subtract the modulus and add it back.
Pad == Local("n_pad")
Less == Local("lt_flag")
Carry == Local("carry")
NewLocals(locals) == Up(Len(locals), LAMBDA i : <<New(locals[i + 1])>>)
DropLocals(locals) == Down(Len(locals), LAMBDA i : <<Drop(locals[i + 1])>>)

\* sum, of n + 1 bits, minus the modulus, which is added back where it did not
\* go into the sum; less says where.
Reduce(modulus, sum, less, n) ==
  LET n_ext == Widened(modulus, Pad, n)
  IN  AddAdj(n_ext, sum, less, n + 1) \o Lifted(less, Add(n_ext, sum, Carry, n + 1))

Unreduce(modulus, sum, less, n) ==
  LET n_ext == Widened(modulus, Pad, n)
  IN  Lifted(less, AddAdj(n_ext, sum, Carry, n + 1)) \o Add(n_ext, sum, less, n + 1)

\* The sum of a and b, reduced, while `body` runs.
WithModularSum(a, b, modulus, s, n, body) ==
  Reduce(modulus, s, Less, n) \o <<Xor(Carry, Less)>> \o body
    \o <<Xor(Carry, Less)>> \o Unreduce(modulus, s, Less, n)

\* lib_add_mod_dsl: r ^= (a + b) mod modulus.
AddMod(a, b, modulus, n, r) ==
  LET s == Bits("s", n + 1)
      locals == <<Pad, Less, Carry>>
  IN  NewAll(s, n + 1) \o XorAll(s, a, n) \o Add(b, s, s[n], n) \o NewLocals(locals)
        \o WithModularSum(a, b, modulus, s, n, XorAll(r, s, n))
        \o AddAdj(b, s, s[n], n) \o XorAll(s, a, n)
        \o DropLocals(locals) \o DropDown(s, n + 1)

\* __lib_add_mod_dsl_adj allocates first.
AddModAdj(a, b, modulus, n, r) ==
  LET s == Bits("s", n + 1)
      locals == <<Pad, Less, Carry>>
  IN  NewAll(s, n + 1) \o NewLocals(locals) \o XorAll(s, a, n) \o Add(b, s, s[n], n)
        \o WithModularSum(a, b, modulus, s, n, XorAll(r, s, n))
        \o AddAdj(b, s, s[n], n) \o XorAll(s, a, n)
        \o DropLocals(locals) \o DropDown(s, n + 1)

\* Mutant: the comparison is not complemented.
ClearLessUnflipped(a, dest, n) ==
  AddAdj(a, dest, dest[n], n) \o <<Xor(Less, dest[n])>> \o Add(a, dest, dest[n], n)

\* Less is zeroed by comparing the reduced sum with a.
ClearLess(a, dest, n) ==
  AddAdj(a, dest, dest[n], n) \o <<Xor(Less, dest[n]), FlipBit(Less)>> \o Add(a, dest, dest[n], n)

\* lib_add_mod_inplace_dsl: dest = (dest + a) mod modulus; dest[n] is |0>.
AddModInplace(a, dest, modulus, n) ==
  LET locals == <<Pad, Less, Carry>>
  IN  Add(a, dest, dest[n], n) \o NewLocals(locals)
        \o Reduce(modulus, dest, Less, n) \o <<Xor(Carry, Less)>>
        \o ClearLess(a, dest, n) \o DropLocals(locals)

\* __lib_add_mod_inplace_dsl_adj
AddModInplaceAdj(a, dest, modulus, n) ==
  LET locals == <<Pad, Less, Carry>>
      setLess == AddAdj(a, dest, dest[n], n) \o <<FlipBit(Less), Xor(Less, dest[n])>>
                   \o Add(a, dest, dest[n], n)
  IN  NewLocals(locals) \o setLess
        \o <<Xor(Carry, Less)>> \o Unreduce(modulus, dest, Less, n)
        \o AddAdj(a, dest, dest[n], n) \o DropLocals(locals)

\* x rotated left by one bit: twice x while its top bit is |0>.
Rotated(x, n) == [i \in 0..n |-> IF i = 0 THEN x[n] ELSE x[i - 1]]

\* lib_double_mod_dsl: x = 2 x mod modulus, witness ^= (2 x < modulus).
DoubleMod(x, modulus, witness, n) ==
  LET locals == <<Pad, Carry>>
  IN  NewLocals(locals) \o Reduce(modulus, Rotated(x, n), witness, n)
        \o <<Xor(Carry, witness)>>
        \o Up(n, LAMBDA i : Swap(x[i], x[n])) \o DropLocals(locals)

\* __lib_double_mod_dsl_adj
DoubleModAdj(x, modulus, witness, n) ==
  LET locals == <<Pad, Carry>>
  IN  NewLocals(locals) \o Down(n, LAMBDA i : Swap(x[i], x[n]))
        \o <<Xor(Carry, witness)>>
        \o Unreduce(modulus, Rotated(x, n), witness, n) \o DropLocals(locals)

-----------------------------------------------------------------------------
(* mul_mod_dsl_oneshot.hpp, mul_mod_inplace_dsl.hpp, square_mod_dsl.hpp, pow_mod_dsl.hpp *)

\* acc = a b mod modulus: additions of a, 2 a, 4 a, ... (in shifted) under the
\* bits of b; and the way back.
Accumulate(shifted, acc, lt, b, modulus, n) ==
  Up(n, LAMBDA i : Lifted(b[i], AddModInplace(shifted, acc, modulus, n))
                     \o When(i + 1 < n, DoubleMod(shifted, modulus, lt[i], n)))

Unaccumulate(shifted, acc, lt, b, modulus, n) ==
  Down(n, LAMBDA i : When(i + 1 < n, DoubleModAdj(shifted, modulus, lt[i], n))
                       \o Lifted(b[i], AddModInplaceAdj(shifted, acc, modulus, n)))

\* lib_mul_mod_dsl_oneshot: r ^= a b mod modulus.
MulModOneshot(a, b, modulus, n, r) ==
  LET shifted == Bits("shifted", n + 1)
      acc == Bits("acc", n + 1)
      lt == Bits("lt_flags", n - 1)
  IN  NewAll(shifted, n + 1) \o XorAll(shifted, a, n) \o NewAll(acc, n + 1) \o NewAll(lt, n - 1)
        \o Accumulate(shifted, acc, lt, b, modulus, n) \o XorAll(r, acc, n)
        \o Unaccumulate(shifted, acc, lt, b, modulus, n)
        \o DropDown(lt, n - 1) \o XorAll(shifted, a, n)
        \o DropDown(acc, n + 1) \o DropDown(shifted, n + 1)

\* __lib_mul_mod_dsl_oneshot_adj
MulModOneshotAdj(a, b, modulus, n, r) ==
  LET shifted == Bits("shifted", n + 1)
      acc == Bits("acc", n + 1)
      lt == Bits("lt_flags", n - 1)
  IN  NewAll(shifted, n + 1) \o NewAll(acc, n + 1) \o XorAll(shifted, a, n) \o NewAll(lt, n - 1)
        \o Accumulate(shifted, acc, lt, b, modulus, n) \o XorAll(r, acc, n)
        \o Unaccumulate(shifted, acc, lt, b, modulus, n)
        \o XorAll(shifted, a, n) \o DropDown(lt, n - 1)
        \o DropDown(acc, n + 1) \o DropDown(shifted, n + 1)

\* lib_mul_mod_dsl
MulMod(a, b, modulus, n, r) == MulModOneshot(a, b, modulus, n, r)
MulModAdj(a, b, modulus, n, r) == MulModOneshotAdj(a, b, modulus, n, r)

SwapAll(x, y, n) == Up(n, LAMBDA i : Swap(x[i], y[i]))
SwapAllDown(x, y, n) == Down(n, LAMBDA i : Swap(x[i], y[i]))

\* dest = x dest mod modulus, where x may be dest; the witness keeps the old dest.
TimesInPlace(x, dest, modulus, n, witness) ==
  LET r == Bits("r", n)
  IN  XorAll(witness, dest, n) \o NewAll(r, n)
        \o MulModOneshot(x, dest, modulus, n, r)
        \o SwapAll(dest, r, n) \o XorAll(r, witness, n) \o DropDown(r, n)

TimesInPlaceAdj(x, dest, modulus, n, witness) ==
  LET r == Bits("r", n)
  IN  NewAll(r, n) \o XorAll(r, witness, n) \o SwapAllDown(dest, r, n)
        \o MulModOneshotAdj(x, dest, modulus, n, r)
        \o DropDown(r, n) \o XorAll(witness, dest, n)

\* lib_mul_mod_inplace_dsl, lib_square_mod_dsl and their adjoints.
MulModInplace(a, dest, modulus, n, witness) == TimesInPlace(a, dest, modulus, n, witness)
MulModInplaceAdj(a, dest, modulus, n, witness) == TimesInPlaceAdj(a, dest, modulus, n, witness)
SquareMod(x, modulus, n, witness) == TimesInPlace(x, x, modulus, n, witness)
SquareModAdj(x, modulus, n, witness) == TimesInPlaceAdj(x, x, modulus, n, witness)

\* lib_pow_mod_dsl: r ^= base ^ exp mod modulus, by squaring and multiplying.
PowMod(base, exp, modulus, n, r) ==
  LET acc == Bits("power", n)
      sq == Bits("sq", n)
      mulWitness(i) == Row("mul_w", i, n)
      sqWitness(i) == Row("sq_w", i, n)
      multiply(i) == NewAll(mulWitness(i), n)
                       \o Lifted(exp[i], MulModInplace(sq, acc, modulus, n, mulWitness(i)))
      square(i) == NewAll(sqWitness(i), n) \o SquareMod(sq, modulus, n, sqWitness(i))
      unsquare(i) == SquareModAdj(sq, modulus, n, sqWitness(i)) \o DropDown(sqWitness(i), n)
      unmultiply(i) == Lifted(exp[i], MulModInplaceAdj(sq, acc, modulus, n, mulWitness(i)))
                         \o DropDown(mulWitness(i), n)
  IN  NewAll(acc, n) \o <<FlipBit(acc[0])>> \o NewAll(sq, n) \o XorAll(sq, base, n)
        \o Up(n, LAMBDA i : multiply(i) \o When(i + 1 < n, square(i)))
        \o XorAll(r, acc, n)
        \o Down(n, LAMBDA i : When(i + 1 < n, unsquare(i)) \o unmultiply(i))
        \o XorAll(sq, base, n) \o <<FlipBit(acc[0])>>
        \o DropDown(sq, n) \o DropDown(acc, n)

\* __lib_pow_mod_dsl_adj is lib_pow_mod_dsl again.
PowModAdj(base, exp, modulus, n, r) == PowMod(base, exp, modulus, n, r)

-----------------------------------------------------------------------------
(* qint_modular.hpp: x = add_mod(a, b, modulus), mul_mod, pow_mod. *)

\* The result has qubits of its own, which x takes.
Assigned(x, n, body) ==
  LET res == Bits("modular", n)
  IN  NewAll(res, n) \o body \o Replace(x, res, n)

AssignAddMod(x, a, b, modulus, n) ==
  Assigned(x, n, AddMod(a, b, modulus, n, Bits("modular", n)))
AssignMulMod(x, a, b, modulus, n) ==
  Assigned(x, n, MulMod(a, b, modulus, n, Bits("modular", n)))
AssignPowMod(x, a, b, modulus, n) ==
  Assigned(x, n, PowMod(a, b, modulus, n, Bits("modular", n)))
==============================================================================
