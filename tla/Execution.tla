----------------------------- MODULE Execution ------------------------------
(***************************************************************************)
(* What a function does to one basis state: as the program means it, where *)
(* a change in the body of a WHEN takes place if all conditions around it  *)
(* hold, and as its transpiled text runs, where the operators of the       *)
(* library act under the innermost control, or under none.                 *)
(***************************************************************************)
EXTENDS SourcePrograms

\* env: the variables of each block that is open, the parameters first;
\* controls: the values of the WHEN conditions; seen: what calls saw, and
\* the caller; done: it has returned; dirty: a variable that is not zero lost
\* its qubit; strayed: a WHEN's operand changed; ill: does not compile.
Machine(parameters) ==
  [env |-> <<parameters>>, controls |-> <<>>, seen |-> <<>>,
   done |-> FALSE, dirty |-> FALSE, strayed |-> FALSE, ill |-> FALSE]

FrameOf(m, x) == Max({k \in DOMAIN m.env : x \in DOMAIN m.env[k]} \cup {0})
Knows(m, names) == \A x \in names \ {"1"} : FrameOf(m, x) # 0
ValueOf(m, x) == IF x = "1" THEN TRUE ELSE m.env[FrameOf(m, x)][x]
Set(m, x, v) == [m EXCEPT !.env[FrameOf(m, x)][x] = v]
Ill(m) == [m EXCEPT !.ill = TRUE]

\* The condition under which a gate takes place.
Active(text, m) ==
  IF m.controls = <<>> THEN TRUE
  ELSE IF text.transpiled THEN m.controls[Len(m.controls)]
  ELSE \A k \in DOMAIN m.controls : m.controls[k]

Apply(op, l, r) ==
  CASE op = "|"  -> l \/ r
    [] op = "&"  -> l /\ r
    [] op = "^"  -> l # r
    [] op = "==" -> l = r
    [] op = "!=" -> l # r
    [] op = "<"  -> ~l /\ r
    [] op = "<=" -> l => r
    [] op = ">"  -> l /\ ~r
    [] op = ">=" -> r => l
RECURSIVE Eval(_, _, _)
Eval(text, m, e) ==
  CASE IsName(e)   -> ValueOf(m, e.name)
    [] e.is = "1"  -> TRUE
    \* A fresh qubit is flipped, whatever the operand.
    [] e.is = "~"  -> IF text.transpiled THEN Active(text, m) ELSE ~Eval(text, m, e.l)
    [] IsBinary(e) ->
         LET v == Apply(e.is, Eval(text, m, e.l), Eval(text, m, e.r))
         IN  IF e.is \in Compares /\ text.transpiled THEN v /\ Active(text, m) ELSE v

Declare(m, x, v) ==
  LET top == Len(m.env)
  IN  IF x \in DOMAIN m.env[top] THEN Ill(m)
      ELSE [m EXCEPT !.env[top] = [y \in DOMAIN @ \cup {x} |-> IF y = x THEN v ELSE @[y]]]
Enter(m) == [m EXCEPT !.env = Append(@, [x \in {} |-> FALSE])]
Leave(m) ==
  LET locals == m.env[Len(m.env)]
  IN  [m EXCEPT !.env = Front(@), !.dirty = @ \/ \E x \in DOMAIN locals : locals[x]]

\* lhs op rhs on one bit.
Assigned(op, l, r) ==
  CASE op \in {"^=", "+=", "-="} -> l # r
    [] op \in {"*=", "&="}       -> l /\ r
    [] op = "|="                 -> l \/ r
Xor(m, x, v) == Set(m, x, ValueOf(m, x) # v)

\* The text that undoes an operation.
Undo(text, m, undo) ==
  LET arg(i) == ValueOf(m, undo.operands[i])
      x == undo.name
  IN  CASE undo.kind \in {"|", "&"} -> Xor(m, x, Apply(undo.kind, arg(1), arg(2)))
        [] undo.kind = "ccnot"      -> Xor(m, x, arg(1) /\ arg(2))
        [] undo.kind = "^"          -> Xor(m, x, (arg(1) # arg(2)) /\ Active(text, m))
        [] undo.kind = "~"          ->
             [Set(m, x, Active(text, m)) EXCEPT !.dirty = @ \/ ValueOf(m, x)]
        [] undo.kind \in Compares   ->
             Xor(m, x, Apply(undo.kind, arg(1), arg(2)) /\ Active(text, m))
        [] OTHER                    -> Xor(m, x, arg(1) /\ Active(text, m))

\* The returned variable is the caller's from here on.
ReturnTo(m, e, v) ==
  LET moved == IF IsName(e) /\ FrameOf(m, e.name) > 1 THEN Set(m, e.name, FALSE) ELSE m
  IN  [moved EXCEPT !.done = TRUE, !.seen = Append(@, <<TRUE, v>>)]

\* A statement that opens no body.
Simple(text, m, item) ==
  CASE item.is = "decl"   -> Declare(m, item.name, Eval(text, m, item.e))
    [] item.is = "fresh"  -> Declare(m, item.name, FALSE)
    [] item.is = "assign" ->
         IF Active(text, m)
         THEN Set(m, item.name, Assigned(item.op, ValueOf(m, item.name), Eval(text, m, item.e)))
         ELSE m
    [] item.is = "use"    ->
         [m EXCEPT !.seen = Append(@, <<Active(text, m), Active(text, m) /\ ValueOf(m, item.name)>>)]
    [] item.is = "routine" ->
         Xor(m, item.name, Active(text, m) /\ ValueOf(m, item.e.name))
    [] item.is = "return" -> ReturnTo(m, item.e, Eval(text, m, item.e))
    [] item.is = "call"   -> Undo(text, m, item)
    [] item.is = "oop"    ->
         Xor(m, item.name,
             /\ Active(text, m)
             /\ Assigned(item.op, ValueOf(m, item.operands[1]), ValueOf(m, item.operands[2])))
    [] item.is = "swap"   ->
         IF Active(text, m)
         THEN Set(Set(m, item.name, ValueOf(m, item.with)), item.with, ValueOf(m, item.name))
         ELSE m
    [] OTHER              -> m

NamesOfItem(item) ==
  CASE item.is = "decl"                  -> NamesIn(item.e)
    [] item.is \in {"open", "return"}    -> NamesIn(item.e)
    [] IsExpression(item)                -> {item.name} \cup NamesIn(item.e)
    [] item.is \in {"call", "oop"} -> {item.name} \cup ToSet(item.operands)
    [] item.is = "swap"                  -> {item.name, item.with}
    [] OTHER                             -> {}
\* In transpiled text a semicolon is an item of its own.
WellFormed(text, m, p) ==
  LET item == text.items[p]
  IN  /\ Knows(m, NamesOfItem(item))
      /\ text.transpiled /\ IsExpression(item) =>
           p < Len(text.items) /\ text.items[p + 1].is = ";"

Trips(text, item) ==
  CASE item.kind \in {"for", "while"} -> IF text.taken THEN 2 ELSE 0
    [] item.kind = "if"               -> IF text.taken THEN 1 ELSE 0
    [] OTHER                          -> 1

\* The statements from p to q, one after the other, and the trips of a body.
RECURSIVE Run(_, _, _, _), Repeat(_, _, _, _)
Run(text, m, p, q) ==
  IF m.ill \/ m.done \/ p > q THEN m
  ELSE IF ~WellFormed(text, m, p) THEN Ill(m)
  ELSE LET item == text.items[p]
           end == EndOf(text.items, p)
       IN  IF ~IsOpen(item) THEN Run(text, Simple(text, m, item), p + 1, q)
           ELSE IF ~IsWhen(item)
           THEN Run(text, Repeat(text, m, p, Trips(text, item)), end + 1, q)
           ELSE LET inside == [m EXCEPT !.controls = Append(@, Eval(text, m, item.e))]
                    after == Repeat(text, inside, p, 1)
                    strayed == ~after.ill /\ \E x \in NamesIn(item.e) :
                                 ValueOf(m, x) # ValueOf(after, x)
                IN  Run(text, [after EXCEPT !.controls = m.controls, !.strayed = @ \/ strayed],
                        end + 1, q)
Repeat(text, m, p, trips) ==
  IF m.ill \/ m.done \/ trips = 0 THEN m
  ELSE LET end == EndOf(text.items, p)
           after == Run(text, Enter(m), p + 1, IF text.items[p].braces THEN end - 1 ELSE end)
       IN  Repeat(text, IF after.ill THEN after ELSE Leave(after), p, trips - 1)

\* The whole function: the variables of its body are those of a block.
Execute(text, parameters) ==
  LET m == Run(text, Enter(Machine(parameters)), 1, Len(text.items))
  IN  IF m.ill THEN m ELSE Leave(m)
==============================================================================
