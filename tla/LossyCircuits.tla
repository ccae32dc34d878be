--------------------------- MODULE LossyCircuits ---------------------------
(***************************************************************************)
(* The out-of-place forms of the lossy operators                           *)
(* (detail/qtypes/lossy_oop.hpp, divide_oop.hpp) and the scope that the    *)
(* transpiler makes of a lossy operator: `a *= b` becomes a temporary that *)
(* changes places with a until the scope ends.                             *)
(***************************************************************************)
EXTENDS LibraryCircuits

\* swap(x, y) of two registers.
Exchange(x, y, n) == Up(n, LAMBDA i : <<[op |-> "swap(x, y)", bits |-> <<x[i], y[i]>>]>>)

\* The qubits that a copy of a classical operand was given go with the copy.
Forget(y, n, is_literal) ==
  When(is_literal, Up(n, LAMBDA i : <<[op |-> "forget x", bits |-> <<y[i]>>]>>))

Tmp(n) == Bits("__sturm_tmp", n)
Aux(n) == Bits("__sturm_aux", n)
Upper(n) == Bits("upper_anc", n)
Product(n) == [i \in 0..(2 * n - 1) |-> IF i < n THEN Tmp(n)[i] ELSE Upper(n)[i - n]]

\* mul_oop stashes the upper half of the product for mul_oop_adj.
MulOop(a, b, n, is_literal) ==
  NewAll(Tmp(n), n) \o NewAll(Upper(n), n) \o Mul(a, n, b, n, Product(n)) \o Forget(b, n, is_literal)

MulOopAdj(a, b, n, is_literal) ==
  MulAdj(a, n, b, n, Product(n)) \o Up(n, LAMBDA i : <<Drop(Upper(n)[i])>>)
    \o Forget(b, n, is_literal)

AndBits(a, b, n) == Up(n, LAMBDA i : <<XorAnd(Tmp(n)[i], a[i], b[i])>>)
AndOop(a, b, n, is_literal) == NewAll(Tmp(n), n) \o AndBits(a, b, n) \o Forget(b, n, is_literal)
AndOopAdj(a, b, n, is_literal) == AndBits(a, b, n) \o Forget(b, n, is_literal)

OrOop(a, b, n, is_literal) ==
  NewAll(Tmp(n), n) \o Up(n, LAMBDA i : Or(a[i], b[i], Tmp(n)[i])) \o Forget(b, n, is_literal)
OrOopAdj(a, b, n, is_literal) ==
  Up(n, LAMBDA i : OrAdj(a[i], b[i], Tmp(n)[i])) \o Forget(b, n, is_literal)

\* divide_oop, for a quotient q and a remainder r.
DivideOop(a, b, q, r, n, is_literal) ==
  Up(n, LAMBDA i : <<New(q[i]), New(r[i])>>) \o Div(a, n, b, q, r) \o Forget(b, n, is_literal)
DivideOopAdj(a, b, q, r, n, is_literal) ==
  DivAdj(a, n, b, q, r) \o Forget(b, n, is_literal)

\* emit_lossy_forward_text and emit_lossy_cleanup_text: in between, `use` sees
\* the result in a.  The temporaries' destructors run last.
Scope(forward, a, swapped, use, adjoint, temporaries, n) ==
  forward \o Exchange(a, swapped, n) \o use \o Exchange(a, swapped, n) \o adjoint
    \o FlattenSeq([k \in 1..Len(temporaries) |-> Up(n, LAMBDA i : <<Drop(temporaries[k][i])>>)])

LossyScope(operator, a, b, use, n, lit) ==
  CASE operator = "*=" -> Scope(MulOop(a, b, n, lit), a, Tmp(n), use, MulOopAdj(a, b, n, lit), <<Tmp(n)>>, n)
    [] operator = "&=" -> Scope(AndOop(a, b, n, lit), a, Tmp(n), use, AndOopAdj(a, b, n, lit), <<Tmp(n)>>, n)
    [] operator = "|=" -> Scope(OrOop(a, b, n, lit), a, Tmp(n), use, OrOopAdj(a, b, n, lit), <<Tmp(n)>>, n)
    [] operator = "/=" -> Scope(DivideOop(a, b, Tmp(n), Aux(n), n, lit), a, Tmp(n), use,
                                DivideOopAdj(a, b, Tmp(n), Aux(n), n, lit), <<Aux(n), Tmp(n)>>, n)
    [] operator = "%=" -> Scope(DivideOop(a, b, Aux(n), Tmp(n), n, lit), a, Tmp(n), use,
                                DivideOopAdj(a, b, Aux(n), Tmp(n), n, lit), <<Tmp(n), Aux(n)>>, n)
==============================================================================
