----------------------------- MODULE Arithmetic -----------------------------
(***************************************************************************)
(* What the library's routines and the operators of qint_t promise, in     *)
(* each basis state: unsigned arithmetic on Width-bit registers.  n is the *)
(* numbers in the registers.                                               *)
(***************************************************************************)
EXTENDS Integers, FiniteSetsExt

CONSTANTS
  Width,
  Routines,    \* the routines a program calls
  OnLiterals   \* the operators that it applies to constants as well

Modulus == 2 ^ Width

\* a and b are operands, m is a modulus, ab is where a product or a quotient and
\* a remainder go, flag is a carry, a borrow or the result of a comparison, and
\* ctrl is what an enclosing WHEN tests.
Register == {"a", "b", "m", "ab", "flag", "ctrl"}

BitOf(k, i) == (k \div 2 ^ i) % 2
Bit(p) == IF p THEN 1 ELSE 0

\* Op on every pair of bits of x and y.
Bitwise(Op(_, _), x, y) ==
  MapThenSumSet(LAMBDA i : 2 ^ i * Op(BitOf(x, i), BitOf(y, i)), 0..(Width - 1))
Conjunction(i, j) == i * j
Disjunction(i, j) == Bit(i + j > 0)
Difference(i, j) == (i + j) % 2

\* The quotient in the lower half of ab, the remainder in the upper one.
Divided(n) == (n.a \div n.b) + Modulus * (n.a % n.b)

\* The routines that compute modulo m.  A routine that replaces b keeps what
\* tells its operands apart in ab: the old b, or whether 2 b < m.
Modular ==
  {"add_mod", "add_mod_adj", "mul_mod", "mul_mod_adj", "pow_mod", "pow_mod_adj",
   "add_mod_inplace", "add_mod_inplace_adj", "double_mod", "double_mod_adj",
   "mul_mod_inplace", "mul_mod_inplace_adj", "square_mod", "square_mod_adj",
   "double_mod onto", "square_mod onto",
   "add_mod(", "mul_mod(", "pow_mod("}

\* What an out-of-place modular routine computes.  A power with exponent 0 is 1
\* even modulo 1.
Residue(routine, n) ==
  CASE routine \in {"add_mod", "add_mod_adj", "add_mod("} -> (n.a + n.b) % n.m
    [] routine \in {"mul_mod", "mul_mod_adj", "mul_mod("} -> (n.a * n.b) % n.m
    [] routine \in {"pow_mod", "pow_mod_adj", "pow_mod("} ->
         IF n.b = 0 THEN 1 ELSE (n.a ^ n.b) % n.m

\* What an in-place one makes of b.
NewB(routine, n) ==
  CASE routine = "add_mod_inplace" -> (n.b + n.a) % n.m
    [] routine \in {"double_mod", "double_mod onto"} -> (2 * n.b) % n.m
    [] routine = "mul_mod_inplace" -> (n.a * n.b) % n.m
    [] routine \in {"square_mod", "square_mod onto"} -> (n.b * n.b) % n.m
Witness(routine, n) ==
  CASE routine = "add_mod_inplace" -> 0
    [] routine \in {"double_mod", "double_mod onto"} -> Bit(2 * n.b < n.m)
    [] OTHER                       -> n.b

\* Calls that leave their witness in bits that are not zero, as a comment of
\* double_mod_dsl.hpp and one of square_mod_dsl.hpp say they may.
Onto == {"double_mod onto", "square_mod onto"}

\* The state that an in-place routine would have made n of, if there is one.
ForwardOf == [add_mod_inplace_adj |-> "add_mod_inplace", double_mod_adj |-> "double_mod",
              mul_mod_inplace_adj |-> "mul_mod_inplace", square_mod_adj |-> "square_mod"]
Origins(routine, n) ==
  {old \in [{"a", "b", "m", "ab"} -> 0..(Modulus - 1)] :
     LET forward == ForwardOf[routine]
     IN  /\ old.a = n.a /\ old.m = n.m /\ old.ab = 0 /\ old.b < n.m /\ n.a < n.m
         /\ n.b = NewB(forward, old) /\ n.ab = Witness(forward, old)}

AcceptsModular(routine, n) ==
  /\ n.m > 0 /\ n.flag = 0
  /\ CASE routine \in {"add_mod", "mul_mod", "add_mod(", "mul_mod("} ->
            n.ab = 0 /\ n.a < n.m /\ n.b < n.m
       [] routine \in {"pow_mod", "pow_mod("} -> n.ab = 0 /\ n.a < n.m
       [] routine \in {"add_mod_adj", "mul_mod_adj"} ->
            n.a < n.m /\ n.b < n.m /\ n.ab = Residue(routine, n)
       [] routine = "pow_mod_adj" -> n.a < n.m /\ n.ab = Residue(routine, n)
       [] routine \in DOMAIN ForwardOf -> Origins(routine, n) # {}
       [] OTHER -> (n.ab = 0 \/ routine \in Onto) /\ n.b < n.m /\ n.a < n.m

\* An in-place adjoint gets the old b back.
AfterModular(routine, n) ==
  CASE routine \in {"add_mod", "mul_mod", "pow_mod", "add_mod(", "mul_mod(", "pow_mod("} ->
         [n EXCEPT !.ab = Residue(routine, n)]
    [] routine \in {"add_mod_adj", "mul_mod_adj", "pow_mod_adj"} -> [n EXCEPT !.ab = 0]
    [] routine \in DOMAIN ForwardOf ->
         LET old == CHOOSE o \in Origins(routine, n) : TRUE IN [n EXCEPT !.b = old.b, !.ab = 0]
    [] OTHER -> [n EXCEPT !.b = NewB(routine, n),
                          !.ab = Bitwise(Difference, n.ab, Witness(routine, n))
                                   + Modulus * (n.ab \div Modulus)]

\* What a routine asks of its arguments.
Accepts(routine, n) ==
  CASE routine \in {"add", "sub", "lt", "gt"} -> n.flag = 0
    [] routine = "add_adj"       -> n.b + Modulus * n.flag \in n.a..(n.a + Modulus - 1)
    [] routine = "mul"           -> n.ab = 0
    [] routine = "mul_adj"       -> n.ab = n.a * n.b
    [] routine \in {"div", "mod"} -> n.ab = 0 /\ n.b # 0
    [] routine = "div_adj"       -> n.b # 0 /\ n.ab = Divided(n)
    [] routine \in {"/=", "%="}  -> n.b # 0
    [] routine \in {"{/=}", "{%=}"} -> n.b # 0 /\ n.ab < Modulus
    [] routine \in {"{*=}", "{&=}", "{|=}"} -> n.ab < Modulus
    [] routine \in Modular       -> AcceptsModular(routine, n)
    [] routine = "qram_read"     -> n.ab < Modulus
    [] OTHER                     -> TRUE

\* When a routine flips the flag.
Flips(routine, n) ==
  LET a0 == BitOf(n.a, 0)
      b0 == BitOf(n.b, 0)
  IN  CASE routine = "eq"   -> n.a = n.b
        [] routine = "ne"   -> n.a # n.b
        [] routine = "lt"   -> n.a < n.b
        [] routine = "le"   -> n.a <= n.b
        [] routine = "gt"   -> n.a > n.b
        [] routine = "ge"   -> n.a >= n.b
        [] routine = "or"   -> a0 + b0 > 0
        [] routine = "or_adj" -> a0 + b0 > 0
        [] routine = "nand" -> a0 + b0 < 2
        [] routine = "nor"  -> a0 + b0 = 0
        [] routine = "xnor" -> a0 = b0
        [] routine = "c_n_AND" -> n.a = Modulus - 1 /\ n.b = Modulus - 1
        [] OTHER -> FALSE

\* The table that is read has the words a, b and the constant b; beyond are zeros.
WordAt(address, n) == CASE address = 0 -> n.a [] address \in {1, 2} -> n.b [] OTHER -> 0

\* A scope with a lossy operator on a, whose result is XORed into ab before the
\* scope ends and a is what it was.
LossyOperator == [sc \in {"{*=}", "{/=}", "{%=}", "{&=}", "{|=}"} |->
  CASE sc = "{*=}" -> "*=" [] sc = "{/=}" -> "/=" [] sc = "{%=}" -> "%="
    [] sc = "{&=}" -> "&=" [] sc = "{|=}" -> "|="]

Operators == {"+=", "-=", "*=", "/=", "%=", "&=", "|=", "^="}

\* What an operator makes of a.
NewA(operator, n) ==
  CASE operator = "+=" -> (n.a + n.b) % Modulus
    [] operator = "-=" -> (n.a - n.b) % Modulus
    [] operator = "*=" -> (n.a * n.b) % Modulus
    [] operator = "/=" -> n.a \div n.b
    [] operator = "%=" -> n.a % n.b
    [] operator = "&=" -> Bitwise(Conjunction, n.a, n.b)
    [] operator = "|=" -> Bitwise(Disjunction, n.a, n.b)
    [] operator = "^=" -> Bitwise(Difference, n.a, n.b)

\* What a routine leaves behind.
Result(routine, n) ==
  LET sum == n.b + n.a
      difference == n.b + Modulus * n.flag - n.a
  IN  CASE routine = "add"     -> [n EXCEPT !.b = sum % Modulus, !.flag = sum \div Modulus]
        [] routine = "add_adj" -> [n EXCEPT !.b = difference, !.flag = 0]
        [] routine = "sub"     -> [n EXCEPT !.b = (n.b - n.a) % Modulus, !.flag = Bit(n.b < n.a)]
        [] routine = "mul"     -> [n EXCEPT !.ab = n.a * n.b]
        [] routine = "div"     -> [n EXCEPT !.ab = Divided(n)]
        [] routine = "mod"     -> [n EXCEPT !.ab = n.a % n.b]
        [] routine \in {"mul_adj", "div_adj"} -> [n EXCEPT !.ab = 0]
        [] routine \in Modular -> AfterModular(routine, n)
        [] routine = "qram_read" -> [n EXCEPT !.ab = Bitwise(Difference, n.ab, WordAt(n.m, n))]
        [] routine = "swap"    -> [n EXCEPT !.a = n.b, !.b = n.a]
        [] routine \in Operators -> [n EXCEPT !.a = NewA(routine, n)]
        [] routine \in DOMAIN LossyOperator ->
             [n EXCEPT !.ab = Bitwise(Difference, n.ab, NewA(LossyOperator[routine], n))]
        [] OTHER               -> [n EXCEPT !.flag = (@ + Bit(Flips(routine, n))) % 2]

\* Operators that replace a register; under a control the transpiler
\* rewrites them.
Lossy == {"*=", "/=", "%=", "&=", "|=", "add_mod(", "mul_mod(", "pow_mod("}

\* c.literal: the operand is not b but a constant, as large as the number in b.
\* c.under: c is called in the body of WHEN(ctrl).
CallOf ==
  {c \in [routine : Routines, literal : BOOLEAN, under : BOOLEAN] :
     /\ c.literal => c.routine \in OnLiterals
     /\ c.under => c.routine \notin Lossy}
Taken(c, n) == c.under => n.ctrl = 1
MayCall(c, n) == Taken(c, n) => Accepts(c.routine, n)
After(c, n) == IF Taken(c, n) THEN Result(c.routine, n) ELSE n

UsesM == Routines \cap (Modular \cup {"qram_read"}) # {}

\* The results start at zero; where there is a modulus, ab starts as anything, so
\* that an adjoint may be called first.
Start == [a : 0..(Modulus - 1), b : 0..(Modulus - 1), flag : {0}, ctrl : 0..1,
          m : IF UsesM THEN 0..(Modulus - 1) ELSE {0},
          ab : IF UsesM THEN 0..(Modulus - 1) ELSE {0}]
==============================================================================
