------------------------- MODULE MCRegisterRewrites -------------------------
(* Functions of registers x, y and n, or of qints i and j and four arrays. *)
EXTENDS RegisterRewrites

N(x) == Name(x)
Sum(l, r) == Binary("+", l, r)
Modular ==
  {Register("r", Sum(N("x"), N("y"))), Register("s", Binary("%", Sum(N("y"), N("x")), N("n"))),
   Register("q", Binary("%", Binary("*", N("x"), N("y")), N("n"))),
   Also("s", Binary("%", Binary("*", N("y"), N("x")), N("n"))), Also("q", Sum(N("y"), N("x"))),
   Assign("r", "%=", N("n")), Assign("q", "%=", N("n")), Assign("x", "*=", Binary("*", N("y"), N("n"))),
   Assign("y", "%=", Binary("%", N("x"), N("n"))), Pass(N("r")), Pass(N("s")), Pass(N("q")),
   Open("block", TRUE)}
Reads ==
  {Qint("c", Subscript("a", N("i"))), Qint("d", Subscript("b", N("c"))), Qint("e", Subscript("a", N("j"))),
   Assign("i", "^=", N("j")), Assign("c", "^=", N("j")), Pass(N("c")), Pass(N("d")), Open("block", TRUE)}
Sums ==
  {Qint("c", Sum(Subscript("a", N("i")), N("j"))), Qint("d", Sum(Subscript("b", N("i")), Subscript("a", N("c")))),
   Qint("e", N("c")), Qint("c", Subscript("a", N("i"))), Assign("i", "^=", N("j")), Pass(N("c")), Pass(N("d"))}
Misuses ==
  {Qint("c", Subscript("narrow", N("i"))), Qint("d", Sum(Subscript("narrow", N("c")), Subscript("a", N("i")))),
   Qint("e", Subscript("a", Subscript("b", N("i")))), Qint("f", Subscript("open", N("j"))),
   Qint("c", One), Assign("c", "=", Subscript("a", N("i"))), Assign("x", "=", Subscript("a", N("i"))),
   Assign("c", "^=", Subscript("a", N("i"))), Assign("c", "=", Sum(Subscript("a", N("i")), N("j"))),
   Store(Subscript("a", N("i")), "=", N("j")), Qint("g", Sum(Sum(Subscript("a", N("i")), N("j")), N("j"))),
   Pass(Subscript("a", N("i"))), Pass(N("c"))}
AllMenus == {Modular, Reads, Sums, Misuses}

AllParameters ==
  [p \in {"x", "y", "n"} |-> "register"] @@ [p \in {"i", "j"} |-> "qint"]
Words(f(_)) == [k \in 0..3 |-> f(k)]
AllArrays ==
  [a |-> [kind |-> "array", width |-> "wide", words |-> Words(LAMBDA k : (k + 2) % 4)],
   b |-> [kind |-> "std::array", width |-> "wide", words |-> Words(LAMBDA k : 3 - k)],
   narrow |-> [kind |-> "array", width |-> "narrow", words |-> Words(LAMBDA k : k % 2)],
   open |-> [kind |-> "pointer without length", width |-> "wide", words |-> Words(LAMBDA k : 1)]]
\* Operands of modular operators are below n.
AllEnvironments ==
  {env \in [{"x", "y", "n", "i", "j"} -> 0..3] :
     env.x < env.n /\ env.y < env.n /\ env.i = env.y /\ env.j = 3 - env.x}
==============================================================================
