---------------------------- MODULE LoopReversal ----------------------------
(***************************************************************************)
(* The header that runs a loop backwards, for the adjoint of what the loop *)
(* does: a counting loop runs, its reversed loop runs after it, and each   *)
(* records the values of its variable.  The arithmetic is that of the C++  *)
(* types, signed and unsigned, in Width bits.                              *)
(***************************************************************************)
EXTENDS Integers, SequencesExt

CONSTANTS
  Width,    \* the bits of an int
  Values,   \* the values of the initial and the bounding expression
  Strides,  \* the increments
  Excused   \* the known divergences that the properties leave out

ASSUME WidthAssumption == Width \in Nat \ {0}

-----------------------------------------------------------------------------
(* Values of the C++ program: an integer with its type. *)

Value(n, unsigned) == [n |-> n, unsigned |-> unsigned]
Signed(n) == Value(n, FALSE)
Cycle == 2 ^ Width
FitsInt(n) == -(Cycle \div 2) <= n /\ n < Cycle \div 2
Wrapped(n, unsigned) == IF unsigned THEN n % Cycle ELSE n
\* What a variable of the type gets.
Stored(x, unsigned) ==
  Value(IF unsigned \/ FitsInt(x.n) THEN Wrapped(x.n, unsigned) ELSE x.n - Cycle, unsigned)
Truncated(m, n) == IF m >= 0 THEN m \div n ELSE -((-m) \div n)

Holds(x, cmp, y) ==
  LET unsigned == x.unsigned \/ y.unsigned
      m == Wrapped(x.n, unsigned)
      n == Wrapped(y.n, unsigned)
  IN  CASE cmp = "<"  -> m < n
        [] cmp = "<=" -> m <= n
        [] cmp = ">"  -> m > n
        [] cmp = ">=" -> m >= n
        [] cmp = "!=" -> m # n

\* What a program can write: an int or an unsigned int, and a literal to add.
ASSUME ValuesAssumption ==
  \A v \in Values : v \in [n : Int, unsigned : BOOLEAN] /\ IF v.unsigned THEN v.n \in 0..(Cycle - 1) ELSE FitsInt(v.n)
ASSUME StridesAssumption == \A inc \in Strides : inc.c \in Int

-----------------------------------------------------------------------------
(* The increments: ++i, i--, i += c, i = i - c, i = c + i, i = c - i. *)

Increment(form, c) == [form |-> form, c |-> c]
\* What the loop adds to i; what is not a stride stands for itself.
ParseInc(inc) ==
  CASE inc.form \in {"++i", "i++"}                     -> [ok |-> TRUE, stride |-> 1]
    [] inc.form \in {"--i", "i--"}                     -> [ok |-> TRUE, stride |-> -1]
    [] inc.form \in {"i += c", "i = i + c", "i = c + i"} -> [ok |-> TRUE, stride |-> inc.c]
    [] inc.form \in {"i -= c", "i = i - c"}            -> [ok |-> TRUE, stride |-> -inc.c]
    [] OTHER                                           -> [ok |-> FALSE, stride |-> 0]
ParseCond(cmp) == cmp \in {"<", "<=", ">", ">="}

\* for (int i = first; i cmp bound; i += step), where the text of first may
\* leave the range of int on the way.
BackHeader(first, cmp, bound, step, intermediate) ==
  [first |-> first, cmp |-> cmp, bound |-> bound, step |-> step,
   defined |-> first.unsigned \/ \A n \in intermediate : FitsInt(n)]

\* The last value that the forward loop takes is the initial one plus a
\* multiple of the stride; the text computes it in the types of lo and hi.
BuildUpwardReverseUpTo(lo, hi, s, inclusive) ==
  LET unsigned == lo.unsigned \/ hi.unsigned
      distance == Wrapped(hi.n - lo.n, unsigned)
      last == Wrapped(lo.n + Truncated(distance, s) * s, unsigned)
  IN  BackHeader(Value(last, unsigned), ">=", lo, -s, {distance, last})
BuildUpwardReverse(lo, hi, s, inclusive) ==
  LET unsigned == lo.unsigned \/ hi.unsigned
      end == IF inclusive THEN hi.n ELSE hi.n - 1
      distance == Wrapped(end - lo.n, unsigned)
      last == Wrapped(lo.n + Truncated(distance, s) * s, unsigned)
  IN  BackHeader(Value(last, unsigned), ">=", lo, -s, {end, distance, last})
BuildDownwardReverseUp(hi, lo, s, inclusive) ==
  LET unsigned == lo.unsigned \/ hi.unsigned
      distance == Wrapped(hi.n - lo.n, unsigned)
      span == Wrapped(IF inclusive THEN distance ELSE distance - 1, unsigned)
      last == Wrapped(hi.n - Truncated(span, s) * s, unsigned)
  IN  BackHeader(Value(last, unsigned), "<=", hi, -s, {distance, span, last})
BuildDownwardReverse(hi, lo, s, inclusive) ==
  LET unsigned == lo.unsigned \/ hi.unsigned
      distance == Wrapped(hi.n - lo.n, unsigned)
      span == Wrapped(IF inclusive THEN distance ELSE distance - 1, unsigned)
      last == Wrapped(hi.n - Truncated(span, s) * s, unsigned)
  IN  BackHeader(Value(last, unsigned), "<=", hi, s, {distance, span, last})

\* i > bound reverses downward and i < bound upward, whatever the stride.
ReverseForHeader(loop) ==
  LET s == ParseInc(loop.inc).stride
      magnitude == IF s < 0 THEN -s ELSE s
      inclusive == loop.cmp \in {"<=", ">="}
  IN  IF loop.cmp \in {"<", "<="}
      THEN BuildUpwardReverse(loop.first, loop.bound, magnitude, inclusive)
      ELSE BuildDownwardReverse(loop.first, loop.bound, magnitude, inclusive)
RejectReason(loop) ==
  IF ~ParseCond(loop.cmp) THEN "non_canonical_cond"
  ELSE IF ~ParseInc(loop.inc).ok THEN "non_canonical_inc"
  ELSE IF ParseInc(loop.inc).stride = 0 THEN "zero_stride"
  ELSE "none"

-----------------------------------------------------------------------------
VARIABLES
  loop,    \* the forward loop: first, unsigned, cmp, bound, inc
  back,    \* the header that reverses it
  stage,   \* what runs, or how it ended
  i,       \* the variable of the loop that runs
  ahead,   \* the values that the forward loop took
  behind   \* those that the reversed loop took
vars == <<loop, back, stage, i, ahead, behind>>

Init ==
  /\ \E first, bound \in Values, unsigned \in BOOLEAN, inc \in Strides,
        cmp \in {"<", "<=", ">", ">=", "!="} :
       loop = [first |-> first, unsigned |-> unsigned, cmp |-> cmp, bound |-> bound, inc |-> inc]
  /\ back = <<>>
  /\ stage = "start"
  /\ i = Signed(0)
  /\ ahead = <<>>
  /\ behind = <<>>

\* The transpiler reverses the header, or names the reason why not.
ReverseHeader ==
  /\ stage = "start"
  /\ IF RejectReason(loop) = "none"
     THEN /\ back' = ReverseForHeader(loop)
          /\ i' = Stored(loop.first, loop.unsigned)
          /\ stage' = "ahead"
     ELSE /\ stage' = RejectReason(loop)
          /\ UNCHANGED <<back, i>>
  /\ UNCHANGED <<loop, ahead, behind>>

\* One trip of the loop that runs: an int may not leave its range.
Trip(step) ==
  LET next == i.n + step
  IN  IF i.unsigned \/ FitsInt(next)
      THEN i' = [i EXCEPT !.n = Wrapped(next, i.unsigned)] /\ UNCHANGED stage
      ELSE stage' = "undefined" /\ UNCHANGED i
StepAhead ==
  /\ stage = "ahead"
  /\ Holds(i, loop.cmp, loop.bound)
  /\ Len(ahead) < Cycle
  /\ ahead' = Append(ahead, i.n)
  /\ Trip(ParseInc(loop.inc).stride)
  /\ UNCHANGED <<loop, back, behind>>
\* The forward loop ends, and the reversed one starts.
Turn ==
  /\ stage = "ahead"
  /\ ~Holds(i, loop.cmp, loop.bound)
  /\ stage' = IF back.defined THEN "back" ELSE "undefined"
  /\ i' = IF back.defined THEN Stored(back.first, FALSE) ELSE i
  /\ UNCHANGED <<loop, back, ahead, behind>>
StepBack ==
  /\ stage = "back"
  /\ Holds(i, back.cmp, back.bound)
  /\ Len(behind) < Cycle
  /\ behind' = Append(behind, i.n)
  /\ Trip(back.step)
  /\ UNCHANGED <<loop, back, ahead>>
Stop ==
  /\ stage = "back"
  /\ ~Holds(i, back.cmp, back.bound)
  /\ stage' = "done"
  /\ UNCHANGED <<loop, back, i, ahead, behind>>

Next == ReverseHeader \/ StepAhead \/ Turn \/ StepBack \/ Stop
\* A loop that may take a step takes it.
Spec == Init /\ [][Next]_vars /\ WF_vars(Next)

-----------------------------------------------------------------------------
(* Where the reversed loop is known to differ. *)

\* The forward loop takes no trip, but the division takes a distance of less
\* than a stride for zero.
EmptyByLessThanStride ==
  ~Holds(Stored(loop.first, loop.unsigned), loop.cmp, loop.bound)
    /\ back.first.n = loop.first.n
\* The reversed loop compares an int with an unsigned bound, such as i >= 0u,
\* or the distance of a loop that takes no trip wraps around, or values differ
\* between the types, or an unsigned variable wraps around.
FitsBoth(n) == 0 <= n /\ FitsInt(n)
MixesSigns ==
  \/ back.bound.unsigned
  \/ loop.bound.unsigned /\ ahead = <<>>
  \/ /\ loop.unsigned \/ loop.bound.unsigned
     /\ \E n \in {loop.first.n, loop.bound.n}
               \cup {ahead[k] + ParseInc(loop.inc).stride : k \in DOMAIN ahead} : ~FitsBoth(n)
\* The text computes what an int does not hold, or the last step leaves it.
LeavesInt == ~back.defined \/ ~FitsInt(loop.first.n + back.step)
Excuse(name, holds) == name \in Excused /\ holds
Regular ==
  ~ \/ Excuse("empty", EmptyByLessThanStride)
    \/ Excuse("signs", MixesSigns)
    \/ Excuse("overflow", LeavesInt)

-----------------------------------------------------------------------------
(* Properties. *)

\* The reversed loop takes the values of the forward loop, the last first.
TakesValuesBack == stage = "done" /\ Regular => behind = Reverse(ahead)

\* After a forward loop that ends, the reversed loop ends.
ComesBack == (stage = "back" /\ Regular) ~> stage = "done"
==============================================================================
