-------------------------- MODULE RegisterRewrites --------------------------
(***************************************************************************)
(* What the transpiler makes of registers of more than one bit: sums and   *)
(* products that are reduced modulo n become calls of add_mod and mul_mod, *)
(* arrays that are indexed by a qint become reads of a QRAM, and each qint *)
(* gets a width.  A function is written, matched, and rewritten by one     *)
(* pass after the other; then the program and the text are both run.       *)
(***************************************************************************)
EXTENDS SourcePrograms

CONSTANTS
  Menus,         \* sets of tokens; a function is written from one of them
  Parameters,    \* the type of each parameter, a register or a qint
  Arrays,        \* their kind, the width of their elements, and their words
  Environments,  \* values of the parameters
  Width,         \* the bits of a register
  MaxTokens,
  Excused        \* the known divergences left out, by name

VARIABLES menu, reversible, ts, phase, hits, edits, outcomes
vars == <<menu, reversible, ts, phase, hits, edits, outcomes>>

\* qint_t<W> x = e;   qint x = e;   or the next declarator of a declaration.
Declarator(x, type, e, joined) ==
  [is |-> "decl", name |-> x, e |-> e, type |-> type, joined |-> joined]
Register(x, e) == Declarator(x, "register", e, FALSE)
Also(x, e) == Declarator(x, "register", e, TRUE)
Qint(x, e) == Declarator(x, "qint", e, FALSE)
\* a[i]   a[i] op e;   f(e);
Subscript(array, index) == Binary("[]", Name(array), index)
Store(subscript, op, e) == [is |-> "store", at |-> subscript, op |-> op, e |-> e]
Pass(e) == [is |-> "use", name |-> "", e |-> e]
\* In transpiled text only.
Fresh(x, type) == [is |-> "fresh", name |-> x, type |-> type]
Read(subscript, x) == [is |-> "read", name |-> x, e |-> subscript]
TargetUncompute(x) == [is |-> "helper", name |-> x]
Kernel(l, r, x) == [is |-> "kernel", name |-> x, e |-> Binary("oop", Name(l), Name(r))]

Declares(token, x) == token.is \in {"decl", "fresh"} /\ token.name = x
TypeIn(text, x) ==
  IF x \in DOMAIN Parameters THEN Parameters[x]
  ELSE text[CHOOSE p \in DOMAIN text : Declares(text[p], x)].type
KnownAt(text, x, p) ==
  \/ x \in DOMAIN Parameters \cup DOMAIN Arrays
  \/ \E q \in 1..(p - 1) : Declares(text[q], x) /\ BlockOf(text, q) \in Around(text, p) \cup {0}

Expressions(token) ==
  IF token.is \in {"close", "fresh", "helper"} THEN {}
  ELSE {token.e} \cup (IF token.is = "store" THEN {token.at} ELSE {})
Mentions(token) ==
  UNION {NamesIn(e) : e \in Expressions(token)}
    \cup (IF token.is \in {"assign", "read", "helper", "kernel"} THEN {token.name} ELSE {})

-----------------------------------------------------------------------------
(* Matchers. *)

InOrder(set) == SetToSortSeq(set, <)

\* A declaration is its first declarator and those that follow it.
IsJoined(p) == p \in DOMAIN ts /\ ts[p].is = "decl" /\ ts[p].joined
FirstDeclarator(p) == Max({q \in 1..p : ~IsJoined(q)})
LastDeclarator(p) == CHOOSE q \in p..Len(ts) : ~IsJoined(q + 1) /\ \A k \in (p + 1)..q : IsJoined(k)
OnRegisters(e) == \A x \in NamesIn(e) : x \notin DOMAIN Arrays /\ TypeIn(ts, x) = "register"
IsRegister(p) == ts[p].is = "decl" /\ ts[p].type = "register"
IsQint(p) == ts[p].is = "decl" /\ ts[p].type = "qint"
OnTwoNames(e, ops) == e.is \in ops /\ IsName(e.l) /\ IsName(e.r)

\* qint_t<W> r = (a + b) % n;
MatchesModular(p) ==
  /\ IsRegister(p)
  /\ ts[p].e.is = "%" /\ OnTwoNames(ts[p].e.l, {"+", "*"}) /\ IsName(ts[p].e.r)
  /\ OnRegisters(ts[p].e)

\* qint_t<W> r = a + b;  r %= n;  with nothing in between.
Reduces(p, q) ==
  /\ q \in DOMAIN ts
  /\ ts[q].is = "assign" /\ ts[q].op = "%=" /\ ts[q].name = ts[p].name
  /\ IsName(ts[q].e) /\ OnRegisters(ts[q].e)
\* Mutant: whatever stands in between.
NextSiblingSomewhere(p) ==
  Min({q \in (p + 1)..Len(ts) : Reduces(p, q)} \cup {Len(ts) + 1})
NextSibling(p) == LastDeclarator(p) + 1
MatchesCollapse(p) ==
  IsRegister(p) /\ OnTwoNames(ts[p].e, {"+"}) /\ OnRegisters(ts[p].e) /\ Reduces(p, NextSibling(p))

\* x %= n;   and   x *= y % n;
MatchesLossy(p) ==
  ts[p].is = "assign" /\ ts[p].op \in {"*=", "%="} /\ IsName(ts[p].e)
    /\ OnRegisters(ts[p].e) /\ TypeIn(ts, ts[p].name) = "register"
MatchesNested(p) ==
  ts[p].is = "assign" /\ ts[p].op \in {"*=", "%="} /\ OnTwoNames(ts[p].e, {"*", "%"}) /\ OnRegisters(ts[p].e)

\* The subscripts in an expression, those in an index after the one it is of.
RECURSIVE Subscripts(_)
Subscripts(e) ==
  IF ~IsBinary(e) THEN <<>>
  ELSE (IF e.is = "[]" THEN <<e>> ELSE <<>>) \o Subscripts(e.l) \o Subscripts(e.r)
HasSubscript(e) == Subscripts(e) # <<>>
IsNested(e) == \E s \in ToSet(Subscripts(e)) : HasSubscript(s.r)

\* qint c = a[i];   c = a[i];   qint c = a[i] + d;
MatchesRead(p) == IsQint(p) /\ ts[p].e.is = "[]"
MatchesAssign(p) ==
  ts[p].is = "assign" /\ ts[p].op = "=" /\ ts[p].e.is = "[]" /\ TypeIn(ts, ts[p].name) = "qint"
\* All subscripts but that which is the whole initializer.
Extracted(p) == IF ts[p].e.is = "[]" THEN Tail(Subscripts(ts[p].e)) ELSE Subscripts(ts[p].e)
MatchesExpression(p) == IsQint(p) /\ Extracted(p) # <<>>

\* What is reported as an error: other targets, writes, and subscripts under
\* an operator, but for the operator that is the initializer of a qint.
RECURSIVE OperatorsOnSubscripts(_)
OperatorsOnSubscripts(e) ==
  IF ~IsBinary(e) THEN {}
  ELSE (IF e.is # "[]" /\ "[]" \in {e.l.is, e.r.is} THEN {e} ELSE {})
         \cup OperatorsOnSubscripts(e.l) \cup OperatorsOnSubscripts(e.r)
IsOutOfScope(p) ==
  \/ ts[p].is = "assign" /\ ts[p].op = "=" /\ ts[p].e.is = "[]" /\ TypeIn(ts, ts[p].name) # "qint"
  \/ ts[p].is = "store"
  \/ \E e \in Expressions(ts[p]) : OperatorsOnSubscripts(e) \ (IF IsQint(p) THEN {e} ELSE {}) # {}

\* Rules 2 and 3: the one width of the elements, or else the default.
Default == "wide"
InferWidth(e) ==
  LET widths == {Arrays[s.l.name].width : s \in ToSet(Subscripts(e))}
  IN  IF Cardinality(widths) = 1 THEN CHOOSE w \in widths : TRUE ELSE Default

-----------------------------------------------------------------------------
(* Emitters.  An edit replaces the tokens first..last, or inserts.         *)

Replace(first, last, text) == [first |-> first, last |-> last, text |-> text]
Insert(at, text) == [at |-> at, text |-> text]

ModularForward(x, e, n) ==
  <<Register(x, Binary(IF e.is = "+" THEN "add_mod" ELSE "mul_mod", e, n))>>
\* From the start of the declaration; the next token must be a semicolon.
EmitModular(p) ==
  IF MatchesCollapse(p)
  THEN LET q == NextSibling(p)
       IN  <<Replace(FirstDeclarator(p), q, ModularForward(ts[p].name, ts[p].e, ts[q].e))>>
  ELSE IF IsJoined(p + 1) THEN <<>>
  ELSE <<Replace(FirstDeclarator(p), p, ModularForward(ts[p].name, ts[p].e.l, ts[p].e.r))>>

\* No width reaches the temporaries, and only a product has an inner kernel.
EmitNested(p) ==
  LET inner == ts[p].e
  IN  <<Replace(p, p,
        (IF inner.is = "*" THEN <<Fresh("tmp_in", "qint"), Kernel(inner.l.name, inner.r.name, "tmp_in")>>
         ELSE <<>>)
        \o <<Fresh("tmp_out", "qint"), Kernel(ts[p].name, "tmp_in", "tmp_out")>>)>>

EmitRead(p) == Replace(p, p, <<Fresh(ts[p].name, InferWidth(ts[p].e)), Read(ts[p].e, ts[p].name)>>)
EmitReadAdjoint(p) == Insert(CloseOf(ts, 0), <<Read(ts[p].e, ts[p].name)>>)
EmitAssign(p) == Replace(p, p, <<TargetUncompute(ts[p].name), Read(ts[p].e, ts[p].name)>>)

Ancilla(k) == <<"__qram_h4_0", "__qram_h4_1", "__qram_h4_2", "__qram_h4_3">>[k + 1]
Ancillas == {Ancilla(k) : k \in 0..3}
RECURSIVE WithAncillas(_, _)
WithAncillas(e, k) ==
  IF ~IsBinary(e) THEN e
  ELSE IF e.is = "[]" THEN Name(Ancilla(k))
  ELSE Binary(e.is, WithAncillas(e.l, k), WithAncillas(e.r, k + Len(Subscripts(e.l))))
\* k ancillas have been named before.
EmitExpression(p, k) ==
  LET width == InferWidth(ts[p].e)
  IN  <<Replace(p, p, <<[ts[p] EXCEPT !.type = width, !.e = WithAncillas(@, k)]>>)>>
EmitExtracts(p, k) ==
  [n \in DOMAIN Extracted(p) |->
     Insert(Before(p), <<Fresh(Ancilla(k + n - 1), InferWidth(ts[p].e)),
                         Read(Extracted(p)[n], Ancilla(k + n - 1))>>)]
\* Mutant: one per declaration.
EmitExtractAdjointsOfLast(p, k) ==
  LET n == Len(Extracted(p))
  IN  <<Insert(After(p), <<Read(Extracted(p)[n], Ancilla(k + n - 1))>>)>>
EmitExtractAdjoints(p, k) ==
  [n \in DOMAIN Extracted(p) |-> Insert(After(p), <<Read(Extracted(p)[n], Ancilla(k + n - 1))>>)]

-----------------------------------------------------------------------------
(* The text. *)

Insertions(at) ==
  FlattenSeq([k \in DOMAIN edits.inserted |->
                IF edits.inserted[k].at = at THEN edits.inserted[k].text ELSE <<>>])
Rendered(p) ==
  LET over == {k \in DOMAIN edits.replaced : p \in edits.replaced[k].first..edits.replaced[k].last}
  IN  IF over = {} THEN <<ts[p]>>
      ELSE LET edit == edits.replaced[Min(over)] IN IF p = edit.first THEN edit.text ELSE <<>>
Text ==
  FlattenSeq([p \in 1..(Len(ts) + 1) |->
                Insertions(Before(p)) \o (IF p \in DOMAIN ts THEN Rendered(p) \o Insertions(After(p)) ELSE <<>>)])

\* Two edits of the same characters leave neither.
Garbled ==
  \/ \E j, k \in DOMAIN edits.replaced :
       /\ j < k
       /\ edits.replaced[j].first <= edits.replaced[k].last
       /\ edits.replaced[k].first <= edits.replaced[j].last
  \/ \E p \in ToSet(hits.expressions) : IsNested(ts[p].e)

\* A parameter that is a qint gets the default width.
WidthIn(text, x) == LET type == TypeIn(text, x) IN IF type = "qint" /\ x \in DOMAIN Parameters THEN Default ELSE type
IllTyped(text, token) ==
  \/ token.is = "helper"                               \* declared nowhere
  \/ token.is # "read" /\ \E e \in Expressions(token) : HasSubscript(e)
  \/ token.is = "read" /\
       \/ ~IsName(token.e.r)
       \/ Arrays[token.e.l.name].kind = "pointer without length"
       \/ \E x \in {token.name, token.e.r.name} : WidthIn(text, x) # Arrays[token.e.l.name].width
  \/ token.is \in {"decl", "assign"} /\ \E x \in NamesIn(token.e) : WidthIn(text, x) # WidthIn(text, token.name)
  \/ token.is = "kernel" /\ \E x \in Mentions(token) : WidthIn(text, x) # "register"
IsText(text) ==
  \A p \in DOMAIN text :
    /\ \A x \in Mentions(text[p]) : KnownAt(text, x, p)
    /\ ~IllTyped(text, text[p])
    /\ text[p].is \in {"decl", "fresh"} => \A q \in 1..(p - 1) : ~Declares(text[q], text[p].name)

-----------------------------------------------------------------------------
(* Running the program, with operators modulo 2^W, or the text. *)

Size == 2 ^ Width
Xor(l, r) == MapThenSumSet(LAMBDA k : IF (l \div 2 ^ k) % 2 = (r \div 2 ^ k) % 2 THEN 0 ELSE 2 ^ k,
                           0..(Width - 1))
RECURSIVE Value(_, _)
Value(e, env) ==
  CASE e.is = "name"    -> env[e.name]
    [] e.is = "1"       -> 1
    [] e.is = "[]"      -> Arrays[e.l.name].words[Value(e.r, env)]
    [] e.is = "+"       -> (Value(e.l, env) + Value(e.r, env)) % Size
    [] e.is = "*"       -> (Value(e.l, env) * Value(e.r, env)) % Size
    [] e.is = "%"       -> Value(e.l, env) % Value(e.r, env)
    [] e.is = "add_mod" -> (Value(e.l.l, env) + Value(e.l.r, env)) % Value(e.r, env)
    [] e.is = "mul_mod" -> (Value(e.l.l, env) * Value(e.l.r, env)) % Value(e.r, env)

Bound(env, x, v) == [y \in DOMAIN env \cup {x} |-> IF y = x THEN v ELSE env[y]]
Assigned(op, l, r) ==
  CASE op = "="  -> r
    [] op = "^=" -> Xor(l, r)
    [] op = "*=" -> (l * r) % Size
    [] op = "%=" -> l % r
Step(run, token) ==
  CASE token.is = "decl"   -> [run EXCEPT !.env = Bound(@, token.name, Value(token.e, @))]
    [] token.is = "fresh"  -> [run EXCEPT !.env = Bound(@, token.name, 0)]
    [] token.is = "read"   -> [run EXCEPT !.env[token.name] = Xor(@, Value(token.e, run.env))]
    [] token.is = "assign" -> [run EXCEPT !.env[token.name] = Assigned(token.op, @, Value(token.e, run.env))]
    [] token.is = "use"    -> [run EXCEPT !.seen = Append(@, Value(token.e, run.env))]
    [] OTHER               -> run
Run(text, env) == FoldLeft(Step, [env |-> env, seen |-> <<>>], text)

-----------------------------------------------------------------------------
(* One action for each token written, for matching, and for each pass.     *)

NoHits == [modular |-> <<>>, lossy |-> <<>>, nested |-> <<>>,
           reads |-> <<>>, assigns |-> <<>>, expressions |-> <<>>]
NoEdits == [replaced |-> <<>>, inserted |-> <<>>, ancillas |-> 0]
Init ==
  /\ menu \in Menus
  /\ reversible \in BOOLEAN
  /\ ts = <<>>
  /\ phase = "writing"
  /\ hits = NoHits
  /\ edits = NoEdits
  /\ outcomes = {}

Opens == Cardinality({p \in DOMAIN ts : IsOpen(ts[p])})
Closes == Cardinality({p \in DOMAIN ts : ts[p].is = "close"})
MayFollow(token) ==
  /\ token.is = "close" => Opens > Closes
  /\ token.is = "decl" =>
       /\ \A p \in DOMAIN ts : ~Declares(ts[p], token.name)
       /\ token.joined => ts # <<>> /\ Last(ts).is = "decl" /\ Last(ts).type = token.type
  /\ \A x \in Mentions(token) : KnownAt(Append(ts, token), x, Len(ts) + 1)
Write(token) ==
  /\ phase = "writing"
  /\ Len(ts) < MaxTokens
  /\ MayFollow(token)
  /\ ts' = Append(ts, token)
  /\ UNCHANGED <<menu, reversible, phase, hits, edits, outcomes>>

Matching(Matches(_)) == InOrder({p \in DOMAIN ts : Matches(p)})
\* An error is reported while matching, and there is no text.
Match ==
  /\ phase = "writing"
  /\ ts # <<>> /\ Opens = Closes
  /\ hits' = [modular |-> Matching(LAMBDA p : MatchesModular(p) \/ MatchesCollapse(p)),
              lossy |-> Matching(MatchesLossy), nested |-> Matching(MatchesNested),
              reads |-> Matching(MatchesRead), assigns |-> Matching(MatchesAssign),
              expressions |-> Matching(MatchesExpression)]
  /\ phase' = IF \E p \in DOMAIN ts : IsOutOfScope(p) THEN "rejected" ELSE "matched"
  /\ UNCHANGED <<menu, reversible, ts, edits, outcomes>>

\* Mutant: nothing is kept from being rewritten twice.
AbsorbedNone == {}
\* The %= that a declaration has absorbed is not rewritten on its own.
Absorbed == {NextSibling(p) : p \in {q \in ToSet(hits.modular) : MatchesCollapse(q)}}
SuppressAbsorbed ==
  /\ phase = "matched"
  /\ hits' = [hits EXCEPT !.lossy = SelectSeq(@, LAMBDA p : p \notin Absorbed)]
  /\ phase' = "suppressed"
  /\ UNCHANGED <<menu, reversible, ts, edits, outcomes>>

Drain(from, to, set, Emit(_)) ==
  /\ phase = from
  /\ edits' = [edits EXCEPT !.replaced = @ \o FlattenSeq([k \in DOMAIN set |-> Emit(set[k])])]
  /\ phase' = to
  /\ UNCHANGED <<menu, reversible, ts, hits, outcomes>>
DrainNested == Drain("suppressed", "nested", hits.nested, EmitNested)
\* Its text and its undoing are in Matchers.
DrainLossy == Drain("nested", "lossy", hits.lossy, LAMBDA p : <<Replace(p, p, <<ts[p]>>)>>)
DrainModular == Drain("lossy", "modular", hits.modular, EmitModular)

\* In a reversible function reads are undone where it ends.
DrainReads ==
  /\ phase = "modular"
  /\ LET reads == hits.reads
     IN  edits' = [edits EXCEPT
           !.replaced = @ \o [k \in DOMAIN reads |-> EmitRead(reads[k])],
           !.inserted = @ \o (IF reversible THEN [k \in DOMAIN reads |-> EmitReadAdjoint(reads[k])]
                              ELSE <<>>)]
  /\ phase' = "read"
  /\ UNCHANGED <<menu, reversible, ts, hits, outcomes>>
DrainAssigns == Drain("read", "assigned", hits.assigns, LAMBDA p : <<EmitAssign(p)>>)

\* One ancilla for each extracted subscript; all are undone after the last.
AncillasBefore(n) ==
  FoldLeft(LAMBDA sum, p : sum + Len(Extracted(p)), 0, SubSeq(hits.expressions, 1, n - 1))
DrainExpressions ==
  /\ phase = "assigned"
  /\ LET here == hits.expressions
         all(Emit(_, _)) == FlattenSeq([n \in DOMAIN here |-> Emit(here[n], AncillasBefore(n))])
     IN  edits' = [replaced |-> edits.replaced \o all(EmitExpression),
                   inserted |-> edits.inserted \o all(EmitExtracts) \o all(EmitExtractAdjoints),
                   ancillas |-> AncillasBefore(Len(here) + 1)]
  /\ phase' = "extracted"
  /\ UNCHANGED <<menu, reversible, ts, hits, outcomes>>

\* Each qint that no read claims gets its width.
SubstituteAliases ==
  LET claimed == ToSet(hits.reads) \cup ToSet(hits.expressions)
      others == {p \in DOMAIN ts : IsQint(p) /\ p \notin claimed}
  IN  Drain("extracted", "emitted", InOrder(others),
            LAMBDA p : <<Replace(p, p, <<[ts[p] EXCEPT !.type = InferWidth(ts[p].e)]>>)>>)

ExecuteBoth ==
  /\ phase = "emitted"
  /\ LET text == Text IN
     IF Garbled \/ ~IsText(text)
     THEN phase' = "does not compile" /\ UNCHANGED outcomes
     ELSE /\ phase' = "executed"
          /\ outcomes' = {[env |-> env, program |-> Run(ts, env), text |-> Run(text, env)] :
                            env \in Environments}
  /\ UNCHANGED <<menu, reversible, ts, hits, edits>>

Next ==
  \/ \E token \in menu \cup {Close} : Write(token)
  \/ Match
  \/ SuppressAbsorbed
  \/ DrainNested
  \/ DrainLossy
  \/ DrainModular
  \/ DrainReads
  \/ DrainAssigns
  \/ DrainExpressions
  \/ SubstituteAliases
  \/ ExecuteBoth

Spec == Init /\ [][Next]_vars

-----------------------------------------------------------------------------
(* Where the text is known to differ from the program. *)

\* A rewritten declaration keeps no other declarators.
DropsDeclarators ==
  \E p \in ToSet(hits.modular) :
    (\E q \in DOMAIN ts : q # p /\ ts[q].is = "decl" /\ FirstDeclarator(q) = FirstDeclarator(p))
\* A subscript in an index, or a product in a product.
Nests == hits.nested # <<>> \/ \E p \in DOMAIN ts : \E e \in Expressions(ts[p]) : IsNested(e)
\* No matcher looks at arguments and compound assignments.
LeavesSubscript ==
  \E p \in DOMAIN ts : ts[p].is \in {"use", "assign"} /\ HasSubscript(ts[p].e) /\ p \notin ToSet(hits.assigns)
\* Nothing defines the helper that gives the target of c = a[i] back.
LacksHelper == hits.assigns # <<>>
\* All registers of a function that come from a qint have the default width,
\* unless their elements have another; the library does not convert.
MixesWidths ==
  \E p \in DOMAIN ts : \E e \in Expressions(ts[p]) : \E s \in ToSet(Subscripts(e)) :
    Arrays[s.l.name].width # Default
LacksLength ==
  \E p \in DOMAIN ts : \E e \in Expressions(ts[p]) : \E s \in ToSet(Subscripts(e)) :
    Arrays[s.l.name].kind = "pointer without length"
\* The undoing of a read stands where the function ends, not the block.
ReadsInBlock == reversible /\ \E p \in ToSet(hits.reads) : BlockOf(ts, p) # 0
\* Two reads are undone in the order in which they were made.
ReadsDepend ==
  \E p, q \in ToSet(hits.reads) : p < q /\ ts[q].e.r.is = "name" /\ ts[q].e.r.name = ts[p].name
\* The index or the target of a read changes after it.
ChangesAfterRead ==
  \E p \in ToSet(hits.reads) : \E q \in (p + 1)..Len(ts) :
    ts[q].is = "assign" /\ ts[q].name \in NamesIn(ts[p].e) \cup {ts[p].name}
\* The library's sum wraps modulo 2^W and add_mod's does not.
Wraps(env) ==
  \E p \in ToSet(hits.modular) :
    LET e == IF MatchesCollapse(p) THEN ts[p].e ELSE ts[p].e.l
        l == Value(e.l, env)
        r == Value(e.r, env)
    IN  Size <= (IF e.is = "+" THEN l + r ELSE l * r)

Excuse(name, holds) == name \in Excused /\ holds
Regular ==
  ~ \/ Excuse("declarators", DropsDeclarators)
    \/ Excuse("nested", Nests)
    \/ Excuse("argument", LeavesSubscript)
    \/ Excuse("helper", LacksHelper)
    \/ Excuse("widths", MixesWidths)
    \/ Excuse("pointer", LacksLength)
    \/ Excuse("scope", ReadsInBlock)

-----------------------------------------------------------------------------
(* Properties. *)

\* The passes do not tread on each other: no two rewrite the same characters,
\* every name is declared once and before its use, and widths agree.
Compiles == phase = "does not compile" => ~Regular

\* What a call is given is what the program means it to be given.
CallsSeeTheSource ==
  phase = "executed" => \A run \in outcomes :
    ~Excuse("wraps", Wraps(run.env)) => run.text.seen = run.program.seen

\* Ancillas are zero when their statement is over, and in a reversible
\* function so are the targets of all reads when it ends.
ReadsAreUndone ==
  phase = "executed" => \A run \in outcomes :
    /\ \A x \in DOMAIN run.text.env \cap Ancillas : run.text.env[x] = 0
    /\ reversible /\ ~Excuse("order", ReadsDepend) /\ ~Excuse("changes", ChangesAfterRead) =>
         \A p \in ToSet(hits.reads) : run.text.env[ts[p].name] = 0
==============================================================================
