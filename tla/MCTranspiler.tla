---------------------------- MODULE MCTranspiler ----------------------------
(* Functions of three qbools, or of two registers and a qbool, written     *)
(* from menus around one theme each.                                       *)
EXTENDS Transpiler

N(x) == Name(x)
AorB == Binary("|", N("a"), N("b"))
Temporaries ==
  {Decl("t", AorB), Decl("u", Binary("^", N("a"), N("x"))), Assign("x", "^=", N("t")),
   Assign("a", "^=", N("u")), Use("x"), Use("u"), Open("if", TRUE), When(N("t"))}
Fusion ==
  {Decl("t", Binary("&", N("a"), N("b"))), Assign("x", "^=", N("t")), Assign("x", "^=", N("a")),
   Assign("a", "^=", One), Use("x"), Open("while", TRUE), Open("block", TRUE), When(N("b"))}
Lifting ==
  {When(AorB), When(Not(N("a"))), When(N("a")), When(N("b")), When(Binary("&", AorB, N("x"))),
   Assign("x", "^=", N("b")), Assign("b", "^=", One), Use("x")}
Compounds ==
  {Decl("t", Binary("&", AorB, N("x"))), Decl("u", Binary("|", N("t"), Binary("&", N("a"), N("t")))),
   Use("t"), Assign("a", "^=", N("u")), Open("for", TRUE), Assign("a", "^=", N("t"))}
Braceless ==
  {Open("for", FALSE), Open("if", FALSE), Decl("t", AorB), Assign("x", "^=", N("a")),
   When(N("b")), Use("x"), Open("for", TRUE)}
Registers ==
  {Decl("t", Binary("<", N("a"), N("b"))), Assign("a", "*=", N("b")), Assign("b", "+=", N("a")),
   When(Binary("==", N("a"), N("b"))), Assign("x", "^=", N("t")), Use("a"), Open("if", TRUE)}
Routines ==
  {Decl("t", AorB), Decl("u", Binary("^", N("a"), N("b"))), Routine("t", "u"), Routine("x", "b"),
   Open("block", TRUE), Open("if", FALSE), Use("t"), When(N("b"))}
Branches ==
  {When(N("a")), Routine("a", "b"), Unregistered("x", "b"), IfMeasured("a"), Assign("x", "^=", N("b")),
   Assign("x", "^=", N("a"))}
Returns ==
  {Decl("t", AorB), Assign("x", "^=", N("t")), Assign("a", "^=", N("b")), Open("if", TRUE),
   Return(N("t")), Return(AorB)}
Reversibles ==
  {Assign("x", "^=", N("a")), Assign("a", "^=", One), Assign("b", "+=", N("a")),
   Open("for", TRUE), Decl("t", Binary("&", N("a"), N("b"))), Assign("x", "^=", N("t"))}
Irreversibles ==
  {Assign("b", "^=", N("x")), Routine("a", "x"), Unregistered("a", "b"), Open("while", TRUE),
   IfMeasured("b"), When(N("x")), Return(AorB)}
Reorderings ==
  {Decl("__stu_t9", Binary("&", AorB, N("b"))), Assign("a", "^=", N("b")), Assign("x", "^=", N("__stu_t9")),
   Assign("a", "^=", One), Use("x"), Decl("u", Binary("^", N("b"), N("a"))), Open("for", TRUE)}
AllMenus == {Temporaries, Fusion, Lifting, Compounds, Braceless, Registers, Reorderings,
             Routines, Branches, Returns, Reversibles, Irreversibles}
Reversible == {Reversibles, Irreversibles}
==============================================================================
