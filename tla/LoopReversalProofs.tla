------------------------- MODULE LoopReversalProofs -------------------------
(***************************************************************************)
(* What LoopReversal promises, for integers of every width, all bounds and *)
(* all increments.                                                         *)
(*                                                                         *)
(* The values of the forward loop are an arithmetic progression.  The      *)
(* division in the reversed header finds its last member, because no       *)
(* multiple of the stride lies between that and the bound; from there the  *)
(* reversed loop goes down the same progression to the initial value.      *)
(***************************************************************************)
EXTENDS LoopReversal, TLAPS, SequenceTheorems

-----------------------------------------------------------------------------
(* The loop as written. *)

\* A loop that the program can have.
LoopOK ==
  /\ loop.first \in Values /\ loop.bound \in Values
  /\ loop.unsigned \in BOOLEAN /\ loop.inc \in Strides
  /\ loop.cmp \in {"<", "<=", ">", ">=", "!="}

\* What it adds to its variable.
Stride == ParseInc(loop.inc).stride

\* The k-th value, when nothing wraps.
Term(k) == loop.first.n + (k - 1) * Stride

\* Whether it counts up, the last value it may take, and who is within.
Upward == loop.cmp \in {"<", "<="}
End == CASE loop.cmp = "<" -> loop.bound.n - 1 [] loop.cmp = ">" -> loop.bound.n + 1 [] OTHER -> loop.bound.n
Within(n) == IF Upward THEN n <= End ELSE n >= End

\* Whatever the loop computes is the same number in both types.
Plain ==
  /\ ~loop.first.unsigned
  /\ loop.unsigned \/ loop.bound.unsigned =>
       \A n \in {loop.first.n, loop.bound.n} \cup {ahead[k] + Stride : k \in DOMAIN ahead} : FitsBoth(n)

\* A value of the C++ program.
CppValue == [n : Int, unsigned : BOOLEAN]

\* The header has a reversed one.
Reversed ==
  /\ ParseCond(loop.cmp) /\ Stride # 0
  /\ back = ReverseForHeader(loop)

\* The values taken so far.
Progress ==
  /\ \A k \in 1..Len(ahead) : ahead[k] = Term(k) /\ Within(Term(k))

\* While the forward loop runs.
AheadOK ==
  /\ i \in CppValue /\ behind = <<>> /\ i.unsigned = loop.unsigned
  /\ Plain => Progress /\ i.n = Term(Len(ahead) + 1)

\* While the reversed loop runs: it is as many steps from the initial value as
\* values are left to take.
BackOK ==
  /\ i \in CppValue /\ ~i.unsigned /\ behind \in Seq(Int)
  /\ ahead = <<>> => behind = <<>> /\ ~Holds(i, back.cmp, back.bound)
  /\ ahead # <<>> =>
       /\ Progress
       /\ Stride > 0 <=> Upward
       /\ Len(behind) <= Len(ahead)
       /\ \A k \in 1..Len(behind) : behind[k] = ahead[Len(ahead) - k + 1]
       /\ i.n = Term(Len(ahead) - Len(behind))

\* The inductive invariant.
IInv ==
  /\ LoopOK
  /\ ahead \in Seq(Int)
  /\ stage = "start" => ahead = <<>> /\ behind = <<>>
  /\ stage = "ahead" => Reversed /\ AheadOK
  /\ stage = "back" => Reversed /\ back.defined /\ (Regular => BackOK)
  /\ TakesValuesBack

-----------------------------------------------------------------------------
(* Division. *)

\* The multiples of s below d: the last of them is found by dividing.
LEMMA QuotientIs ==
  ASSUME NEW s \in Nat \ {0}, NEW q \in Nat, NEW d \in Int, q * s <= d, d < q * s + s
  PROVE  Truncated(d, s) = q
<1>1. q * s \in Nat
  OBVIOUS
<1>2. d \in Nat /\ Truncated(d, s) = d \div s
  BY <1>1 DEF Truncated
<1> DEFINE p == d \div s
<1>3. p \in Nat /\ p * s <= d /\ d < p * s + s
  BY <1>2
<1> HIDE DEF p
<1>4. ~ p >= q + 1
  <2>1. p >= q + 1 => p * s >= q * s + s
    BY <1>3
  <2> QED BY <1>1, <1>3, <2>1
<1>5. ~ q >= p + 1
  <2>1. q >= p + 1 => q * s >= p * s + s
    BY <1>3
  <2> QED BY <1>1, <1>3, <2>1
<1> QED BY <1>2, <1>3, <1>4, <1>5 DEF p

\* A negative distance gives a quotient that is not positive.
LEMMA QuotientOfNegative ==
  ASSUME NEW s \in Nat \ {0}, NEW d \in Int, d < 0
  PROVE  Truncated(d, s) * s \in Int /\ Truncated(d, s) * s <= 0
<1> DEFINE p == (-d) \div s
<1>1. Truncated(d, s) = -p
  BY DEF Truncated
<1>2. p \in Nat
  OBVIOUS
<1> HIDE DEF p
<1>3. p * s \in Nat /\ (-p) * s = -(p * s)
  BY <1>2
<1> QED BY <1>1, <1>3

\* The number of values is an integer.
LEMMA CycleIsInt == Cycle \in Int /\ Cycle \div 2 \in Int
  BY WidthAssumption DEF Cycle

\* A number that fits both types is stored as it is.
LEMMA Unwrapped ==
  ASSUME NEW n \in Int, NEW unsigned \in BOOLEAN, unsigned => FitsBoth(n)
  PROVE  Wrapped(n, unsigned) = n
<1>1. unsigned => n \in 0..(Cycle - 1)
  BY CycleIsInt DEF FitsBoth, FitsInt
<1> QED BY <1>1, CycleIsInt DEF Wrapped

-----------------------------------------------------------------------------
(* The headers. *)

\* The last value that a loop up to hi may take, and one down to lo.
Highest(hi, inclusive) == IF inclusive THEN hi.n ELSE hi.n - 1
Lowest(lo, inclusive) == IF inclusive THEN lo.n ELSE lo.n + 1

\* The loop can make q strides and no more.
LastUp(lo, hi, s, inclusive, q) ==
  lo.n + q * s <= Highest(hi, inclusive) /\ Highest(hi, inclusive) < lo.n + q * s + s
LastDown(hi, lo, s, inclusive, q) ==
  hi.n - q * s >= Lowest(lo, inclusive) /\ Lowest(lo, inclusive) > hi.n - q * s - s

\* The last value a loop that counts up takes is the first of the reversed one.
LEMMA LastUpward ==
  ASSUME NEW lo \in CppValue, NEW hi \in CppValue, NEW s \in Nat \ {0}, NEW inclusive \in BOOLEAN,
         NEW q \in Nat,
         ~lo.unsigned, hi.unsigned => FitsBoth(lo.n) /\ FitsBoth(hi.n),
         LastUp(lo, hi, s, inclusive, q)
  PROVE  BuildUpwardReverse(lo, hi, s, inclusive).first = Value(lo.n + q * s, hi.unsigned)
<1> DEFINE unsigned == lo.unsigned \/ hi.unsigned
           end == Highest(hi, inclusive)
           distance == Wrapped(end - lo.n, unsigned)
<1>1. unsigned = hi.unsigned /\ unsigned \in BOOLEAN /\ lo.n \in Int /\ hi.n \in Int /\ end \in Int /\ q * s \in Nat
      /\ lo.n + q * s <= end /\ end < lo.n + q * s + s /\ end <= hi.n
  BY DEF CppValue, Highest, LastUp
<1> HIDE DEF unsigned
<1>2. hi.unsigned => FitsBoth(end - lo.n) /\ FitsBoth(lo.n + q * s)
  BY <1>1, CycleIsInt DEF FitsBoth, FitsInt
<1>3. distance = end - lo.n
  <2>1. end - lo.n \in Int /\ (unsigned => FitsBoth(end - lo.n))
    BY <1>1, <1>2
  <2> QED BY <1>1, <2>1, Unwrapped
<1>4. Truncated(distance, s) = q
  <2>1. end - lo.n \in Int /\ q * s <= end - lo.n /\ end - lo.n < q * s + s
    BY <1>1
  <2> QED BY <1>3, <2>1, QuotientIs
<1>5. Wrapped(lo.n + q * s, unsigned) = lo.n + q * s
  <2>1. lo.n + q * s \in Int /\ (unsigned => FitsBoth(lo.n + q * s))
    BY <1>1, <1>2
  <2> QED BY <1>1, <2>1, Unwrapped
<1>6. BuildUpwardReverse(lo, hi, s, inclusive).first = Value(Wrapped(lo.n + Truncated(distance, s) * s, unsigned), unsigned)
  BY DEF BuildUpwardReverse, BackHeader, unsigned, Highest
<1> HIDE DEF distance
<1> QED BY <1>1, <1>4, <1>5, <1>6

\* The same for one that counts down.
LEMMA LastDownward ==
  ASSUME NEW lo \in CppValue, NEW hi \in CppValue, NEW s \in Nat \ {0}, NEW inclusive \in BOOLEAN,
         NEW q \in Nat,
         ~hi.unsigned, lo.unsigned => FitsBoth(lo.n) /\ FitsBoth(hi.n),
         LastDown(hi, lo, s, inclusive, q)
  PROVE  BuildDownwardReverse(hi, lo, s, inclusive).first = Value(hi.n - q * s, lo.unsigned)
<1> DEFINE unsigned == lo.unsigned \/ hi.unsigned
           end == Lowest(lo, inclusive)
           distance == Wrapped(hi.n - lo.n, unsigned)
           span == Wrapped(IF inclusive THEN distance ELSE distance - 1, unsigned)
<1>1. unsigned = lo.unsigned /\ unsigned \in BOOLEAN /\ lo.n \in Int /\ hi.n \in Int /\ end \in Int /\ q * s \in Nat
      /\ hi.n - q * s >= end /\ end > hi.n - q * s - s /\ end >= lo.n
  BY DEF CppValue, Lowest, LastDown
<1> HIDE DEF unsigned
<1>2. lo.unsigned => FitsBoth(hi.n - lo.n) /\ FitsBoth(hi.n - end) /\ FitsBoth(hi.n - q * s)
  BY <1>1, CycleIsInt DEF FitsBoth, FitsInt
<1>3. distance = hi.n - lo.n
  <2>1. hi.n - lo.n \in Int /\ (unsigned => FitsBoth(hi.n - lo.n))
    BY <1>1, <1>2
  <2> QED BY <1>1, <2>1, Unwrapped
<1>4. (IF inclusive THEN distance ELSE distance - 1) = hi.n - end
  BY <1>1, <1>3 DEF Lowest
<1> HIDE DEF distance
<1>5. span = hi.n - end
  <2>1. hi.n - end \in Int /\ (unsigned => FitsBoth(hi.n - end))
    BY <1>1, <1>2
  <2> QED BY <1>1, <1>4, <2>1, Unwrapped
<1> HIDE DEF span
<1>6. Truncated(span, s) = q
  <2>1. hi.n - end \in Int /\ q * s <= hi.n - end /\ hi.n - end < q * s + s
    BY <1>1
  <2> QED BY <1>5, <2>1, QuotientIs
<1>7. Wrapped(hi.n - q * s, unsigned) = hi.n - q * s
  <2>1. hi.n - q * s \in Int /\ (unsigned => FitsBoth(hi.n - q * s))
    BY <1>1, <1>2
  <2> QED BY <1>1, <2>1, Unwrapped
<1>8. BuildDownwardReverse(hi, lo, s, inclusive).first = Value(Wrapped(hi.n - Truncated(span, s) * s, unsigned), unsigned)
  BY DEF BuildDownwardReverse, BackHeader, span, distance, unsigned
<1> QED BY <1>1, <1>6, <1>7, <1>8

\* A loop without a trip has one that starts no later.
LEMMA EmptyUpward ==
  ASSUME NEW lo \in CppValue, NEW hi \in CppValue, NEW s \in Nat \ {0}, NEW inclusive \in BOOLEAN,
         ~lo.unsigned, ~hi.unsigned, Highest(hi, inclusive) < lo.n
  PROVE  LET last == BuildUpwardReverse(lo, hi, s, inclusive).first
         IN  last.n \in Int /\ last.n <= lo.n /\ ~last.unsigned
<1> DEFINE d == Highest(hi, inclusive) - lo.n
<1>1. lo.n \in Int /\ d \in Int /\ d < 0
  BY DEF CppValue, Highest
<1>2. BuildUpwardReverse(lo, hi, s, inclusive).first = Value(lo.n + Truncated(d, s) * s, FALSE)
  BY DEF BuildUpwardReverse, BackHeader, Wrapped, Value, Highest
<1> HIDE DEF d
<1>3. Truncated(d, s) * s \in Int /\ Truncated(d, s) * s <= 0
  BY <1>1, QuotientOfNegative
<1> QED BY <1>1, <1>2, <1>3 DEF Value

\* The same for one that counts down.
LEMMA EmptyDownward ==
  ASSUME NEW lo \in CppValue, NEW hi \in CppValue, NEW s \in Nat \ {0}, NEW inclusive \in BOOLEAN,
         ~lo.unsigned, ~hi.unsigned, Lowest(lo, inclusive) > hi.n
  PROVE  LET last == BuildDownwardReverse(hi, lo, s, inclusive).first
         IN  last.n \in Int /\ last.n >= hi.n /\ ~last.unsigned
<1> DEFINE d == IF inclusive THEN hi.n - lo.n ELSE hi.n - lo.n - 1
<1>1. hi.n \in Int /\ d \in Int /\ d < 0
  BY DEF CppValue, Lowest
<1>2. BuildDownwardReverse(hi, lo, s, inclusive).first = Value(hi.n - Truncated(d, s) * s, FALSE)
  BY DEF BuildDownwardReverse, BackHeader, Wrapped, Value
<1> HIDE DEF d
<1>3. Truncated(d, s) * s \in Int /\ Truncated(d, s) * s <= 0
  BY <1>1, QuotientOfNegative
<1> QED BY <1>1, <1>2, <1>3 DEF Value

-----------------------------------------------------------------------------
(* The loop. *)

\* Its values and its stride are numbers.
LEMMA LoopTypes ==
  ASSUME LoopOK
  PROVE  /\ loop.first \in CppValue /\ loop.bound \in CppValue
         /\ loop.first.n \in Int /\ loop.bound.n \in Int /\ loop.unsigned \in BOOLEAN
         /\ loop.first.unsigned \in BOOLEAN /\ loop.bound.unsigned \in BOOLEAN
         /\ Stride \in Int /\ End \in Int
         /\ ~loop.first.unsigned => FitsInt(loop.first.n)
<1>1. loop.first \in CppValue /\ loop.bound \in CppValue /\ loop.inc.c \in Int
  BY ValuesAssumption, StridesAssumption DEF LoopOK, CppValue
<1>2. Stride \in Int
  <2> DEFINE f == loop.inc.form  c == loop.inc.c
  <2>1. c \in Int
    BY <1>1
  <2> HIDE DEF c
  <2>2. ParseInc(loop.inc) =
          CASE f \in {"++i", "i++"}                       -> [ok |-> TRUE, stride |-> 1]
            [] f \in {"--i", "i--"}                       -> [ok |-> TRUE, stride |-> -1]
            [] f \in {"i += c", "i = i + c", "i = c + i"} -> [ok |-> TRUE, stride |-> c]
            [] f \in {"i -= c", "i = i - c"}              -> [ok |-> TRUE, stride |-> -c]
            [] OTHER                                      -> [ok |-> FALSE, stride |-> 0]
    BY DEF ParseInc, c
  <2> HIDE DEF f
  <2>3. CASE f \in {"++i", "i++"}
    <3>1. ParseInc(loop.inc) = [ok |-> TRUE, stride |-> 1]
      BY <2>2, <2>3
    <3> QED BY <2>1, <3>1 DEF Stride
  <2>4. CASE f \in {"--i", "i--"}
    <3>1. ParseInc(loop.inc) = [ok |-> TRUE, stride |-> -1]
      BY <2>2, <2>4
    <3> QED BY <2>1, <3>1 DEF Stride
  <2>5. CASE f \in {"i += c", "i = i + c", "i = c + i"}
    <3>1. ParseInc(loop.inc) = [ok |-> TRUE, stride |-> c]
      BY <2>2, <2>5
    <3> QED BY <2>1, <3>1 DEF Stride
  <2>6. CASE f \in {"i -= c", "i = i - c"}
    <3>1. ParseInc(loop.inc) = [ok |-> TRUE, stride |-> -c]
      BY <2>2, <2>6
    <3> QED BY <2>1, <3>1 DEF Stride
  <2>7. CASE f \notin {"++i", "i++", "--i", "i--", "i += c", "i = i + c", "i = c + i", "i -= c", "i = i - c"}
    <3>1. ParseInc(loop.inc) = [ok |-> FALSE, stride |-> 0]
      BY <2>2, <2>7
    <3> QED BY <2>1, <3>1 DEF Stride
  <2> QED BY <2>3, <2>4, <2>5, <2>6, <2>7
<1>3. loop.first.n \in Int /\ loop.bound.n \in Int
  BY <1>1 DEF CppValue
<1>4. End \in Int
  BY <1>3 DEF End
<1>5. ~loop.first.unsigned => FitsInt(loop.first.n)
  BY ValuesAssumption DEF LoopOK
<1>6. loop.unsigned \in BOOLEAN /\ loop.first.unsigned \in BOOLEAN /\ loop.bound.unsigned \in BOOLEAN
  BY <1>1 DEF LoopOK, CppValue
<1> QED BY <1>1, <1>2, <1>3, <1>4, <1>5, <1>6

\* Its terms are a stride apart.
LEMMA TermStep ==
  ASSUME LoopOK, NEW k \in Int
  PROVE  Term(k) \in Int /\ Term(k + 1) = Term(k) + Stride /\ Term(k - 1) = Term(k) - Stride
<1>1. loop.first.n \in Int /\ Stride \in Int
  BY LoopTypes
<1>2. /\ (k - 1) * Stride \in Int
      /\ (k + 1 - 1) * Stride = (k - 1) * Stride + Stride
      /\ (k - 1 - 1) * Stride = (k - 1) * Stride - Stride
  BY <1>1
<1> QED BY <1>1, <1>2 DEF Term

\* The first term is the initial value, and those before it lie beyond it.
LEMMA TermOrder ==
  ASSUME LoopOK, NEW k \in Int
  PROVE  /\ Term(1) = loop.first.n
         /\ Stride > 0 => (Term(k) >= loop.first.n <=> k >= 1)
         /\ Stride < 0 => (Term(k) <= loop.first.n <=> k >= 1)
<1>1. loop.first.n \in Int /\ Stride \in Int /\ (k - 1) * Stride \in Int
  BY LoopTypes
<1>2. Stride > 0 => ((k - 1) * Stride >= 0 <=> k - 1 >= 0)
  BY <1>1
<1>3. Stride < 0 => ((k - 1) * Stride <= 0 <=> k - 1 >= 0)
  BY <1>1
<1>4. (1 - 1) * Stride = 0
  BY <1>1
<1> QED BY <1>1, <1>2, <1>3, <1>4 DEF Term

\* A comparison of C++ means what it says, of numbers that are the same in both
\* types.
LEMMA HoldsIsWithin ==
  ASSUME LoopOK, ParseCond(loop.cmp), NEW x \in CppValue,
         x.unsigned \/ loop.bound.unsigned => FitsBoth(x.n) /\ FitsBoth(loop.bound.n)
  PROVE  Holds(x, loop.cmp, loop.bound) <=> Within(x.n)
<1> DEFINE unsigned == x.unsigned \/ loop.bound.unsigned
<1>1. unsigned \in BOOLEAN /\ x.n \in Int /\ loop.bound.n \in Int
  BY LoopTypes DEF CppValue
<1>2. Holds(x, loop.cmp, loop.bound) <=>
        LET m == Wrapped(x.n, unsigned)
            n == Wrapped(loop.bound.n, unsigned)
        IN  CASE loop.cmp = "<"  -> m < n
              [] loop.cmp = "<=" -> m <= n
              [] loop.cmp = ">"  -> m > n
              [] loop.cmp = ">=" -> m >= n
              [] loop.cmp = "!=" -> m # n
  BY DEF Holds
<1>3. unsigned => FitsBoth(x.n) /\ FitsBoth(loop.bound.n)
  OBVIOUS
<1> HIDE DEF unsigned
<1>4. Wrapped(x.n, unsigned) = x.n /\ Wrapped(loop.bound.n, unsigned) = loop.bound.n
  BY <1>1, <1>3, Unwrapped
<1>5. loop.cmp \in {"<", "<=", ">", ">="}
  BY DEF ParseCond
<1>6. CASE loop.cmp = "<"
  BY <1>1, <1>2, <1>4, <1>6 DEF Within, Upward, End
<1>7. CASE loop.cmp = "<="
  BY <1>1, <1>2, <1>4, <1>7 DEF Within, Upward, End
<1>8. CASE loop.cmp = ">"
  BY <1>1, <1>2, <1>4, <1>8 DEF Within, Upward, End
<1>9. CASE loop.cmp = ">="
  BY <1>1, <1>2, <1>4, <1>9 DEF Within, Upward, End
<1> QED BY <1>5, <1>6, <1>7, <1>8, <1>9

\* The reversed header of a loop.
LEMMA HeaderIs ==
  ASSUME LoopOK, Reversed
  PROVE  \E s \in Nat \ {0} : \E inclusive \in BOOLEAN :
           /\ s = IF Stride < 0 THEN -Stride ELSE Stride
           /\ inclusive = (loop.cmp \in {"<=", ">="})
           /\ back.bound = loop.first
           /\ Upward => /\ back = BuildUpwardReverse(loop.first, loop.bound, s, inclusive)
                        /\ back.cmp = ">=" /\ back.step = -s
                        /\ End = Highest(loop.bound, inclusive)
           /\ ~Upward => /\ back = BuildDownwardReverse(loop.first, loop.bound, s, inclusive)
                         /\ back.cmp = "<=" /\ back.step = s
                         /\ End = Lowest(loop.bound, inclusive)
<1> DEFINE s == IF Stride < 0 THEN -Stride ELSE Stride
           inclusive == loop.cmp \in {"<=", ">="}
<1>1. s \in Nat \ {0} /\ inclusive \in BOOLEAN
  BY LoopTypes DEF Reversed
<1>2. back = IF Upward THEN BuildUpwardReverse(loop.first, loop.bound, s, inclusive)
             ELSE BuildDownwardReverse(loop.first, loop.bound, s, inclusive)
  BY DEF Reversed, ReverseForHeader, Stride, Upward
<1>3. loop.cmp \in {"<", "<=", ">", ">="}
  BY DEF Reversed, ParseCond
<1>4. End = IF Upward THEN Highest(loop.bound, inclusive) ELSE Lowest(loop.bound, inclusive)
  BY <1>3 DEF End, Upward, Highest, Lowest
<1> HIDE DEF s
<1>5. Upward => back.bound = loop.first /\ back.cmp = ">=" /\ back.step = -s
  BY <1>2 DEF BuildUpwardReverse, BackHeader
<1>6. ~Upward => back.bound = loop.first /\ back.cmp = "<=" /\ back.step = s
  BY <1>2 DEF BuildDownwardReverse, BackHeader
<1> HIDE DEF inclusive
<1> QED BY <1>1, <1>2, <1>4, <1>5, <1>6 DEF s, inclusive

\* There are values, so what wraps stays a number.
LEMMA StaysInt ==
  ASSUME LoopOK
  PROVE  \A n \in Int : \A unsigned \in BOOLEAN :
           Wrapped(n, unsigned) \in Int /\ Stored(Value(n, FALSE), unsigned) \in CppValue
<1>1. Cycle \in Int /\ Cycle \div 2 \in Int
  BY CycleIsInt
<1>2. Cycle > 0
  <2>1. CASE loop.first.unsigned
    BY <1>1, <2>1, LoopTypes, ValuesAssumption DEF LoopOK
  <2>2. CASE ~loop.first.unsigned
    BY <1>1, <2>2, LoopTypes DEF FitsInt
  <2> QED BY <2>1, <2>2
<1>3. \A n \in Int : \A unsigned \in BOOLEAN : Wrapped(n, unsigned) \in Int
  BY <1>1, <1>2 DEF Wrapped
<1> QED BY <1>1, <1>3 DEF Stored, Value, CppValue

\* All the values that the variable of a plain loop has fit both types.
LEMMA TermsFit ==
  ASSUME LoopOK, ahead \in Seq(Int), Plain, Progress, loop.unsigned \/ loop.bound.unsigned
  PROVE  \A k \in 1..(Len(ahead) + 1) : FitsBoth(Term(k))
<1> SUFFICES ASSUME NEW k \in 1..(Len(ahead) + 1)
             PROVE  FitsBoth(Term(k))
  OBVIOUS
<1>1. Len(ahead) \in Nat /\ DOMAIN ahead = 1..Len(ahead)
  OBVIOUS
<1>2. FitsBoth(loop.first.n) /\ \A j \in 1..Len(ahead) : FitsBoth(ahead[j] + Stride)
  BY <1>1 DEF Plain
<1>3. CASE k = 1
  BY <1>2, <1>3, TermOrder
<1>4. CASE k # 1
  <2>1. k - 1 \in 1..Len(ahead) /\ k - 1 \in Int /\ k - 1 + 1 = k
    BY <1>1, <1>4
  <2>2. ahead[k - 1] = Term(k - 1)
    BY <2>1 DEF Progress
  <2>3. Term(k - 1 + 1) = Term(k - 1) + Stride
    BY <2>1, TermStep
  <2> QED BY <1>2, <2>1, <2>2, <2>3
<1> QED BY <1>3, <1>4

\* The first value of the variable, in its type.
LEMMA StoredFirst ==
  ASSUME LoopOK, Plain
  PROVE  Stored(loop.first, loop.unsigned) = Value(loop.first.n, loop.unsigned)
<1>1. ~loop.first.unsigned /\ (loop.unsigned => FitsBoth(loop.first.n))
  BY DEF Plain
<1>2. FitsInt(loop.first.n) /\ Wrapped(loop.first.n, loop.unsigned) = loop.first.n
  BY <1>1, LoopTypes, Unwrapped
<1> QED BY <1>2 DEF Stored

-----------------------------------------------------------------------------
(* The transpiler, and the forward loop. *)

\* The loop starts at its initial value.
LEMMA ReverseHeaderKeeps ==
  ASSUME IInv, ReverseHeader
  PROVE  IInv'
<1>1. LoopOK /\ LoopOK' /\ ahead' = <<>> /\ behind' = <<>> /\ loop' = loop
  BY DEF IInv, ReverseHeader, LoopOK
<1>2. <<>> \in Seq(Int) /\ Len(<<>>) = 0 /\ 1..0 = {}
  OBVIOUS
<1>3. CASE RejectReason(loop) # "none"
  <2>1. stage' = RejectReason(loop) /\ i' = i
    BY <1>3 DEF ReverseHeader
  <2>2. stage' \notin {"start", "ahead", "back", "done"}
    BY <1>3, <2>1 DEF RejectReason
  <2> QED BY <1>1, <1>2, <2>1, <2>2 DEF IInv, TakesValuesBack
<1>4. CASE RejectReason(loop) = "none"
  <2>1. back' = ReverseForHeader(loop) /\ i' = Stored(loop.first, loop.unsigned) /\ stage' = "ahead"
    BY <1>4 DEF ReverseHeader
  <2>2. Reversed'
    BY <1>1, <1>4, <2>1 DEF Reversed, RejectReason, Stride
  <2>3. /\ loop.first.n \in Int /\ loop.unsigned \in BOOLEAN
        /\ Stored(Value(loop.first.n, FALSE), loop.unsigned) \in CppValue
        /\ Stored(loop.first, loop.unsigned) = Stored(Value(loop.first.n, FALSE), loop.unsigned)
    BY <1>1, LoopTypes, StaysInt DEF Stored, Value
  <2>4. i' \in CppValue /\ i'.unsigned = loop.unsigned
    BY <2>1, <2>3 DEF Stored, Value
  <2>5. ASSUME Plain'
        PROVE  i'.n = loop.first.n
    <3>1. ahead' = ahead
      BY DEF ReverseHeader
    <3>2. Plain
      BY <1>1, <2>5, <3>1 DEF Plain, Stride
    <3> QED BY <1>1, <2>1, <3>2, StoredFirst DEF Value
  <2>6. Plain' => Progress' /\ i'.n = Term(Len(ahead) + 1)'
    <3>1. Term(1) = loop.first.n /\ (Len(ahead) + 1)' = 1
      BY <1>1, <1>2, TermOrder
    <3>2. Term(Len(ahead) + 1)' = Term(1)
      BY <1>1, <3>1 DEF Term, Stride
    <3> QED BY <1>1, <1>2, <2>5, <3>1, <3>2 DEF Progress
  <2>7. AheadOK'
    BY <1>1, <2>4, <2>6 DEF AheadOK
  <2> QED BY <1>1, <1>2, <2>1, <2>2, <2>4, <2>7 DEF IInv, TakesValuesBack
<1> QED BY <1>3, <1>4

\* A trip of the forward loop: while its values fit both types, the variable goes
\* to the next term.
LEMMA StepAheadKeeps ==
  ASSUME IInv, StepAhead
  PROVE  IInv'
<1>1. /\ LoopOK /\ LoopOK' /\ Reversed /\ Reversed' /\ AheadOK /\ stage = "ahead"
      /\ loop' = loop /\ behind' = <<>> /\ ahead' = Append(ahead, i.n) /\ Trip(Stride)
      /\ Holds(i, loop.cmp, loop.bound)
  BY DEF IInv, StepAhead, LoopOK, Reversed, AheadOK, Stride
<1>2. i \in CppValue /\ i.n \in Int /\ i.unsigned \in BOOLEAN /\ ahead \in Seq(Int)
  BY <1>1 DEF IInv, AheadOK, CppValue
<1>3. Stride \in Int /\ loop.first.n \in Int /\ loop.bound.n \in Int
  BY <1>1, LoopTypes
<1>4. /\ ahead' \in Seq(Int) /\ Len(ahead) \in Nat /\ Len(ahead') = Len(ahead) + 1
      /\ ahead'[Len(ahead) + 1] = i.n
      /\ \A k \in 1..Len(ahead) : ahead'[k] = ahead[k] /\ k \in 1..Len(ahead')
  BY <1>1, <1>2
<1>5. /\ i' \in CppValue /\ i'.unsigned = i.unsigned
      /\ stage' \in {"ahead", "undefined"}
      /\ stage' = "ahead" => i'.n = Wrapped(i.n + Stride, i.unsigned)
  <2>1. Wrapped(i.n + Stride, i.unsigned) \in Int
    <3>1. i.n + Stride \in Int
      BY <1>2, <1>3
    <3>2. \A n \in Int : \A unsigned \in BOOLEAN : Wrapped(n, unsigned) \in Int
      BY <1>1, StaysInt
    <3> QED BY <1>2, <3>1, <3>2
  <2> QED BY <1>1, <1>2, <2>1 DEF Trip, CppValue
<1>6. ASSUME Plain', stage' = "ahead"
      PROVE  Progress' /\ i'.n = Term(Len(ahead') + 1)
  <2>1. Plain
    BY <1>1, <1>4, <1>6 DEF Plain, Stride
  <2>2. Progress /\ i.n = Term(Len(ahead) + 1)
    BY <1>1, <2>1 DEF AheadOK
  <2>3. loop.unsigned \/ loop.bound.unsigned =>
          FitsBoth(i.n) /\ FitsBoth(i.n + Stride) /\ FitsBoth(loop.bound.n)
    <3> SUFFICES ASSUME loop.unsigned \/ loop.bound.unsigned
                 PROVE  FitsBoth(i.n) /\ FitsBoth(i.n + Stride) /\ FitsBoth(loop.bound.n)
      OBVIOUS
    <3>1. \A n \in {loop.first.n, loop.bound.n} \cup {ahead'[k] + Stride : k \in DOMAIN ahead'} : FitsBoth(n)
      BY <1>1, <1>6 DEF Plain, Stride
    <3>2. \A k \in 1..Len(ahead') : FitsBoth(ahead'[k] + Stride)
      BY <1>4, <3>1
    <3>3. FitsBoth(i.n + Stride)
      BY <1>4, <3>2
    <3>4. FitsBoth(i.n)
      <4>1. Len(ahead) + 1 \in 1..(Len(ahead) + 1)
        BY <1>4
      <4> QED BY <1>1, <1>2, <2>1, <2>2, <4>1, TermsFit
    <3> QED BY <3>1, <3>3, <3>4
  <2>4. Within(i.n)
    <3>1. i.unsigned \/ loop.bound.unsigned => FitsBoth(i.n) /\ FitsBoth(loop.bound.n)
      BY <1>1, <2>3 DEF AheadOK
    <3>2. ParseCond(loop.cmp)
      BY <1>1 DEF Reversed
    <3> QED BY <1>1, <1>2, <3>1, <3>2, HoldsIsWithin
  <2>5. i'.n = i.n + Stride
    <3>1. i.n + Stride \in Int /\ (i.unsigned => FitsBoth(i.n + Stride))
      BY <1>1, <1>2, <1>3, <2>3 DEF AheadOK
    <3> QED BY <1>2, <1>5, <1>6, <3>1, Unwrapped
  <2>6. \A k \in Int : Term(k)' = Term(k) /\ (Within(Term(k))' <=> Within(Term(k)))
    BY <1>1 DEF Term, Stride, Within, Upward, End
  <2>7. \A k \in 1..Len(ahead') : ahead'[k] = Term(k) /\ Within(Term(k))
    BY <1>4, <2>2, <2>4 DEF Progress
  <2>8. Progress'
    BY <1>4, <2>6, <2>7 DEF Progress
  <2>9. i'.n = Term(Len(ahead') + 1)
    BY <1>1, <1>4, <2>2, <2>5, TermStep
  <2> QED BY <2>8, <2>9
<1>7. Term(Len(ahead) + 1)' = Term(Len(ahead') + 1)
  BY <1>1 DEF Term, Stride
<1>8. stage' = "ahead" => AheadOK'
  BY <1>1, <1>5, <1>6, <1>7 DEF AheadOK
<1>9. behind' \in Seq(Int)
  BY <1>1
<1> QED BY <1>1, <1>4, <1>5, <1>8, <1>9 DEF IInv, TakesValuesBack

-----------------------------------------------------------------------------
(* The reversed loop. *)

\* A loop outside of the divergences computes the same numbers in both types.
LEMMA RegularIsPlain ==
  ASSUME {"empty", "signs"} \subseteq Excused, LoopOK, Reversed, Regular
  PROVE  /\ Plain /\ ~EmptyByLessThanStride
         /\ loop.bound.unsigned => ahead # <<>>
<1>1. ~EmptyByLessThanStride /\ ~MixesSigns
  BY DEF Regular, Excuse
<1>2. back.bound = loop.first
  BY HeaderIs
<1> QED BY <1>1, <1>2 DEF MixesSigns, Plain, Stride

\* What the header computes, an int holds, unless it is computed in unsigned int.
LEMMA DefinedFits ==
  ASSUME LoopOK, Reversed, back.defined
  PROVE  back.first.unsigned \/ FitsInt(back.first.n)
<1>1. PICK s \in Nat \ {0}, inclusive \in BOOLEAN :
        /\ Upward => back = BuildUpwardReverse(loop.first, loop.bound, s, inclusive)
        /\ ~Upward => back = BuildDownwardReverse(loop.first, loop.bound, s, inclusive)
  BY HeaderIs
<1>2. CASE Upward
  BY <1>1, <1>2 DEF BuildUpwardReverse, BackHeader, Value
<1>3. CASE ~Upward
  BY <1>1, <1>3 DEF BuildDownwardReverse, BackHeader, Value
<1> QED BY <1>2, <1>3

\* A comparison of two ints.
LEMMA HoldsOfInts ==
  ASSUME NEW x \in CppValue, NEW y \in CppValue, ~x.unsigned, ~y.unsigned
  PROVE  /\ Holds(x, ">=", y) <=> x.n >= y.n
         /\ Holds(x, "<=", y) <=> x.n <= y.n
<1>1. Wrapped(x.n, x.unsigned \/ y.unsigned) = x.n /\ Wrapped(y.n, x.unsigned \/ y.unsigned) = y.n
  BY DEF Wrapped
<1>2. x.n \in Int /\ y.n \in Int
  BY DEF CppValue
<1>3. Holds(x, ">=", y) <=> x.n >= y.n
  BY <1>1, <1>2 DEF Holds
<1>4. Holds(x, "<=", y) <=> x.n <= y.n
  BY <1>1, <1>2 DEF Holds
<1> QED BY <1>3, <1>4

\* After a loop without a trip, the reversed one makes none.
LEMMA NoTrip ==
  ASSUME LoopOK, Reversed, back.defined, Plain, ~EmptyByLessThanStride, ~loop.bound.unsigned,
         ~Within(loop.first.n)
  PROVE  LET x == Stored(back.first, FALSE)
         IN  x \in CppValue /\ ~x.unsigned /\ ~Holds(x, back.cmp, back.bound)
<1> DEFINE first == Stored(loop.first, loop.unsigned)
           x == Stored(back.first, FALSE)
<1>1. /\ loop.first.n \in Int /\ loop.unsigned \in BOOLEAN /\ End \in Int
      /\ loop.first \in CppValue /\ loop.bound \in CppValue /\ ~loop.first.unsigned
  BY LoopTypes DEF Plain
<1>2. PICK s \in Nat \ {0}, inclusive \in BOOLEAN :
        /\ back.bound = loop.first
        /\ Upward => /\ back = BuildUpwardReverse(loop.first, loop.bound, s, inclusive)
                     /\ back.cmp = ">=" /\ End = Highest(loop.bound, inclusive)
        /\ ~Upward => /\ back = BuildDownwardReverse(loop.first, loop.bound, s, inclusive)
                      /\ back.cmp = "<=" /\ End = Lowest(loop.bound, inclusive)
  BY HeaderIs
<1>3. first \in CppValue /\ first.n = loop.first.n /\ first.unsigned = loop.unsigned
  BY <1>1, StoredFirst DEF Value, CppValue
<1>4. ~Holds(first, loop.cmp, loop.bound)
  <2>1. first.unsigned \/ loop.bound.unsigned => FitsBoth(first.n) /\ FitsBoth(loop.bound.n)
    BY <1>3 DEF Plain
  <2>2. ParseCond(loop.cmp)
    BY DEF Reversed
  <2> HIDE DEF first
  <2> QED BY <1>3, <2>1, <2>2, HoldsIsWithin
<1>5. back.first.n # loop.first.n
  BY <1>4 DEF EmptyByLessThanStride
<1>6. /\ back.first.n \in Int /\ ~back.first.unsigned
      /\ Upward => back.first.n < loop.first.n
      /\ ~Upward => back.first.n > loop.first.n
  <2>1. CASE Upward
    <3>1. Highest(loop.bound, inclusive) < loop.first.n
      BY <1>1, <1>2, <2>1 DEF Within
    <3>2. back.first.n \in Int /\ back.first.n <= loop.first.n /\ ~back.first.unsigned
      BY <1>1, <1>2, <2>1, <3>1, EmptyUpward
    <3> QED BY <1>1, <1>5, <2>1, <3>2
  <2>2. CASE ~Upward
    <3>1. Lowest(loop.bound, inclusive) > loop.first.n
      BY <1>1, <1>2, <2>2 DEF Within
    <3>2. back.first.n \in Int /\ back.first.n >= loop.first.n /\ ~back.first.unsigned
      BY <1>1, <1>2, <2>2, <3>1, EmptyDownward
    <3> QED BY <1>1, <1>5, <2>2, <3>2
  <2> QED BY <2>1, <2>2
<1>7. x = Value(back.first.n, FALSE)
  BY <1>6, DefinedFits DEF Stored, Wrapped
<1> HIDE DEF x
<1>8. x \in CppValue /\ x.n = back.first.n /\ ~x.unsigned
  BY <1>6, <1>7 DEF CppValue, Value
<1>9. ~Holds(x, back.cmp, loop.first)
  <2>1. CASE Upward
    <3>1. ~ x.n >= loop.first.n
      BY <1>1, <1>6, <1>8, <2>1
    <3> QED BY <1>1, <1>2, <1>8, <2>1, <3>1, HoldsOfInts
  <2>2. CASE ~Upward
    <3>1. ~ x.n <= loop.first.n
      BY <1>1, <1>6, <1>8, <2>2
    <3> QED BY <1>1, <1>2, <1>8, <2>2, <3>1, HoldsOfInts
  <2> QED BY <2>1, <2>2
<1> QED BY <1>2, <1>8, <1>9 DEF x

\* After one with trips, the reversed one starts at its last value.
LEMMA LastTrip ==
  ASSUME LoopOK, Reversed, back.defined, Plain, ahead \in Seq(Int), ahead # <<>>,
         Progress, ~Within(Term(Len(ahead) + 1))
  PROVE  /\ Stored(back.first, FALSE) = Value(Term(Len(ahead)), FALSE)
         /\ Stride > 0 <=> Upward
<1> DEFINE n == Len(ahead)  q == n - 1
<1>1. n \in Nat \ {0} /\ n \in Int /\ q \in Nat /\ n \in 1..n /\ n \in 1..(n + 1)
  BY EmptySeq
<1>2. /\ loop.first.n \in Int /\ loop.bound.n \in Int /\ End \in Int /\ Stride \in Int /\ Stride # 0
      /\ loop.first \in CppValue /\ loop.bound \in CppValue /\ ~loop.first.unsigned
      /\ loop.bound.unsigned \in BOOLEAN
  BY LoopTypes DEF Plain, Reversed
<1>3. Term(n) = loop.first.n + q * Stride /\ q * Stride \in Int
  BY <1>1, <1>2 DEF Term
<1> HIDE DEF q
<1>9. Within(Term(n)) /\ Term(n) \in Int /\ Term(n + 1) = Term(n) + Stride
  BY <1>1, TermStep DEF Progress
<1>4. Stride > 0 <=> Upward
  BY <1>2, <1>9 DEF Within
<1>5. PICK s \in Nat \ {0}, inclusive \in BOOLEAN :
        /\ s = IF Stride < 0 THEN -Stride ELSE Stride
        /\ Upward => /\ back = BuildUpwardReverse(loop.first, loop.bound, s, inclusive)
                     /\ End = Highest(loop.bound, inclusive)
        /\ ~Upward => /\ back = BuildDownwardReverse(loop.first, loop.bound, s, inclusive)
                      /\ End = Lowest(loop.bound, inclusive)
  BY HeaderIs
<1>6. loop.bound.unsigned => FitsBoth(loop.first.n) /\ FitsBoth(loop.bound.n)
  BY DEF Plain
<1>7. back.first = Value(Term(n), loop.bound.unsigned)
  <2>1. CASE Upward
    <3>1. s = Stride
      BY <1>2, <1>4, <1>5, <2>1
    <3>2. Term(n) = loop.first.n + q * s
      BY <1>3, <3>1
    <3>3. LastUp(loop.first, loop.bound, s, inclusive, q)
      BY <1>2, <1>5, <1>9, <2>1, <3>1, <3>2 DEF Within, LastUp
    <3>4. BuildUpwardReverse(loop.first, loop.bound, s, inclusive).first
            = Value(loop.first.n + q * s, loop.bound.unsigned)
      BY <1>1, <1>2, <1>6, <3>3, LastUpward
    <3> QED BY <1>5, <2>1, <3>2, <3>4
  <2>2. CASE ~Upward
    <3>1. s = -Stride
      BY <1>2, <1>4, <1>5, <2>2
    <3>2. q * s = -(q * Stride) /\ q * s \in Int
      BY <1>1, <1>2, <3>1
    <3>3. Term(n) = loop.first.n - q * s
      BY <1>2, <1>3, <3>2
    <3>4. LastDown(loop.first, loop.bound, s, inclusive, q)
      BY <1>2, <1>5, <1>9, <2>2, <3>1, <3>3 DEF Within, LastDown
    <3>5. BuildDownwardReverse(loop.first, loop.bound, s, inclusive).first
            = Value(loop.first.n - q * s, loop.bound.unsigned)
      BY <1>1, <1>2, <1>6, <3>4, LastDownward
    <3> QED BY <1>5, <2>2, <3>3, <3>5
  <2> QED BY <2>1, <2>2
<1>8. FitsInt(Term(n))
  <2>1. CASE loop.bound.unsigned
    <3>1. FitsBoth(Term(n))
      BY <1>1, <2>1, TermsFit
    <3> QED BY <3>1 DEF FitsBoth
  <2>2. CASE ~loop.bound.unsigned
    BY <1>7, <2>2, DefinedFits DEF Value
  <2> QED BY <2>1, <2>2
<1> QED BY <1>4, <1>7, <1>8 DEF Stored, Value, Wrapped

\* The reversed loop starts at the last value of the forward one.
LEMMA TurnKeeps ==
  ASSUME {"empty", "signs"} \subseteq Excused, IInv, Turn
  PROVE  IInv'
<1>1. /\ LoopOK /\ LoopOK' /\ Reversed /\ Reversed' /\ AheadOK /\ ahead \in Seq(Int)
      /\ loop' = loop /\ ahead' = ahead /\ back' = back /\ behind = <<>> /\ behind' = <<>>
      /\ ~Holds(i, loop.cmp, loop.bound)
  BY DEF IInv, Turn, LoopOK, Reversed, AheadOK, Stride
<1>2. CASE ~back.defined
  <2>1. stage' = "undefined"
    BY <1>2 DEF Turn
  <2> QED BY <1>1, <2>1 DEF IInv, TakesValuesBack
<1>3. CASE back.defined
  <2>1. stage' = "back" /\ i' = Stored(back.first, FALSE)
    BY <1>3 DEF Turn
  <2>2. ASSUME Regular'
        PROVE  BackOK'
    <3>1. Regular
      BY <1>1, <2>2 DEF Regular, Excuse, EmptyByLessThanStride, MixesSigns, LeavesInt
    <3>2. Plain /\ ~EmptyByLessThanStride /\ (loop.bound.unsigned => ahead # <<>>)
      BY <1>1, <3>1, RegularIsPlain
    <3>3. Progress /\ i.n = Term(Len(ahead) + 1) /\ i \in CppValue /\ i.unsigned = loop.unsigned
      BY <1>1, <3>2 DEF AheadOK
    <3>4. ~Within(Term(Len(ahead) + 1))
      <4>1. Len(ahead) + 1 \in 1..(Len(ahead) + 1)
        BY <1>1
      <4>2. i.unsigned \/ loop.bound.unsigned => FitsBoth(i.n) /\ FitsBoth(loop.bound.n)
        BY <1>1, <3>2, <3>3, <4>1, TermsFit DEF Plain
      <4>3. ParseCond(loop.cmp)
        BY <1>1 DEF Reversed
      <4> QED BY <1>1, <3>3, <4>2, <4>3, HoldsIsWithin
    <3>5. CASE ahead = <<>>
      <4>1. Term(Len(ahead) + 1) = loop.first.n
        BY <1>1, <3>5, TermOrder
      <4>2. i' \in CppValue /\ ~i'.unsigned /\ ~Holds(i', back.cmp, back.bound)
        BY <1>1, <1>3, <2>1, <3>2, <3>4, <3>5, <4>1, NoTrip
      <4>3. behind' \in Seq(Int)
        BY <1>1
      <4> QED BY <1>1, <3>5, <4>2, <4>3 DEF BackOK
    <3>6. CASE ahead # <<>>
      <4>1. i' = Value(Term(Len(ahead)), FALSE) /\ (Stride > 0 <=> Upward)
        BY <1>1, <1>3, <2>1, <3>2, <3>3, <3>4, <3>6, LastTrip
      <4>2. Len(ahead) \in Nat /\ Term(Len(ahead)) \in Int /\ Len(behind') = 0
            /\ behind' \in Seq(Int) /\ Len(ahead) - 0 = Len(ahead)
        BY <1>1, TermStep
      <4>3. i' \in CppValue /\ ~i'.unsigned /\ i'.n = Term(Len(ahead))
        BY <4>1, <4>2 DEF Value, CppValue
      <4>4. \A k \in Int : Term(k)' = Term(k) /\ (Within(Term(k))' <=> Within(Term(k)))
        BY <1>1 DEF Term, Stride, Within, Upward, End
      <4>5. Progress' /\ (Stride > 0 <=> Upward)'
        BY <1>1, <3>3, <4>1, <4>4 DEF Progress, Stride, Upward
      <4>6. Term(Len(ahead) - Len(behind))' = Term(Len(ahead))
        BY <1>1, <4>2 DEF Term, Stride
      <4> QED BY <1>1, <3>6, <4>2, <4>3, <4>5, <4>6 DEF BackOK
    <3> QED BY <3>5, <3>6
  <2> QED BY <1>1, <1>3, <2>1, <2>2 DEF IInv, TakesValuesBack
<1> QED BY <1>2, <1>3

\* Whether the reversed loop goes on is whether values are left to take.
LEMMA GoesOn ==
  ASSUME LoopOK, Reversed, Plain, BackOK, ahead \in Seq(Int), ahead # <<>>
  PROVE  /\ Holds(i, back.cmp, back.bound) <=> Len(behind) < Len(ahead)
         /\ back.step = -Stride
<1> DEFINE m == Len(ahead) - Len(behind)
<1>1. /\ m \in Int /\ Len(behind) \in Nat /\ Len(ahead) \in Nat /\ (m >= 1 <=> Len(behind) < Len(ahead))
      /\ i \in CppValue /\ ~i.unsigned /\ i.n = Term(m) /\ (Stride > 0 <=> Upward)
  BY DEF BackOK
<1>2. loop.first \in CppValue /\ ~loop.first.unsigned /\ Stride \in Int /\ Stride # 0
  BY LoopTypes DEF Plain, Reversed
<1>3. PICK s \in Nat \ {0}, inclusive \in BOOLEAN :
        /\ s = IF Stride < 0 THEN -Stride ELSE Stride
        /\ back.bound = loop.first
        /\ Upward => back.cmp = ">=" /\ back.step = -s
        /\ ~Upward => back.cmp = "<=" /\ back.step = s
  BY HeaderIs
<1>4. back.step = -Stride
  BY <1>1, <1>2, <1>3
<1> HIDE DEF m
<1>5. /\ Upward => (Holds(i, back.cmp, back.bound) <=> i.n >= loop.first.n)
      /\ ~Upward => (Holds(i, back.cmp, back.bound) <=> i.n <= loop.first.n)
  BY <1>1, <1>2, <1>3, HoldsOfInts
<1>6. /\ Stride > 0 => (Term(m) >= loop.first.n <=> m >= 1)
      /\ Stride < 0 => (Term(m) <= loop.first.n <=> m >= 1)
  BY <1>1, TermOrder
<1>7. Stride < 0 <=> ~Upward
  BY <1>1, <1>2
<1> QED BY <1>1, <1>4, <1>5, <1>6, <1>7

\* A trip of the reversed loop takes the last value that is left.
LEMMA StepBackKeeps ==
  ASSUME {"empty", "signs"} \subseteq Excused, IInv, StepBack
  PROVE  IInv'
<1>1. /\ LoopOK /\ LoopOK' /\ Reversed /\ Reversed' /\ ahead \in Seq(Int) /\ back.defined
      /\ loop' = loop /\ ahead' = ahead /\ back' = back /\ behind' = Append(behind, i.n)
      /\ Holds(i, back.cmp, back.bound) /\ Trip(back.step) /\ stage = "back"
  BY DEF IInv, StepBack, LoopOK, Reversed, Stride
<1>2. stage' \in {"back", "undefined"}
  BY <1>1 DEF Trip
<1>3. ASSUME Regular', stage' = "back"
      PROVE  BackOK'
  <2>1. Regular
    BY <1>1, <1>3 DEF Regular, Excuse, EmptyByLessThanStride, MixesSigns, LeavesInt
  <2>2. BackOK /\ Plain
    BY <1>1, <2>1, RegularIsPlain DEF IInv
  <2>3. ahead # <<>>
    BY <1>1, <2>2 DEF BackOK
  <2>4. Len(behind) < Len(ahead) /\ back.step = -Stride
    BY <1>1, <2>2, <2>3, GoesOn
  <2> DEFINE m == Len(ahead) - Len(behind)
  <2>5. /\ Progress /\ (Stride > 0 <=> Upward) /\ i.n = Term(m)
        /\ i \in CppValue /\ ~i.unsigned /\ behind \in Seq(Int)
        /\ \A k \in 1..Len(behind) : behind[k] = ahead[Len(ahead) - k + 1]
        /\ Len(behind) \in Nat /\ Len(ahead) \in Nat /\ m \in 1..Len(ahead)
    BY <1>1, <2>2, <2>3, <2>4 DEF BackOK
  <2>6. i.n = ahead[m] /\ i.n \in Int
    BY <1>1, <2>5 DEF Progress
  <2>7. /\ behind' \in Seq(Int) /\ Len(behind') = Len(behind) + 1
        /\ behind'[Len(behind) + 1] = i.n
        /\ \A k \in 1..Len(behind) : behind'[k] = behind[k]
    BY <1>1, <2>5, <2>6
  <2>8. \A k \in 1..Len(behind') : behind'[k] = ahead[Len(ahead) - k + 1]
    <3> SUFFICES ASSUME NEW k \in 1..Len(behind')
                 PROVE  behind'[k] = ahead[Len(ahead) - k + 1]
      OBVIOUS
    <3>1. CASE k = Len(behind) + 1
      <4>1. Len(ahead) - k + 1 = m
        BY <2>5, <3>1
      <4> QED BY <2>6, <2>7, <3>1, <4>1
    <3>2. CASE k # Len(behind) + 1
      <4>1. k \in 1..Len(behind)
        BY <2>5, <2>7, <3>2
      <4> QED BY <2>5, <2>7, <4>1
    <3> QED BY <3>1, <3>2
  <2>9. i' = [i EXCEPT !.n = i.n + back.step]
    BY <1>1, <1>3, <2>5 DEF Trip, Wrapped
  <2>10. Stride \in Int /\ Term(m - 1) = i.n - Stride /\ Term(m - 1) \in Int
    BY <1>1, <2>5, <2>6, LoopTypes, TermStep
  <2>11. i' \in CppValue /\ ~i'.unsigned /\ i'.n = Term(m - 1)
    BY <2>4, <2>5, <2>6, <2>9, <2>10 DEF CppValue
  <2>12. \A k \in Int : Term(k)' = Term(k) /\ (Within(Term(k))' <=> Within(Term(k)))
    BY <1>1 DEF Term, Stride, Within, Upward, End
  <2>13. Progress' /\ (Stride > 0 <=> Upward)'
    BY <1>1, <2>5, <2>12 DEF Progress, Stride, Upward
  <2>14. Term(Len(ahead) - Len(behind))' = Term(m - 1)
    <3>1. Len(ahead) - (Len(behind) + 1) = m - 1
      BY <2>5
    <3> QED BY <1>1, <2>7, <3>1 DEF Term, Stride
  <2>15. Len(behind') <= Len(ahead)
    BY <2>4, <2>5, <2>7
  <2> QED BY <1>1, <2>3, <2>7, <2>8, <2>11, <2>13, <2>14, <2>15 DEF BackOK
<1> QED BY <1>1, <1>2, <1>3 DEF IInv, TakesValuesBack

\* The reversed loop stops when none is left.
LEMMA StopKeeps ==
  ASSUME {"empty", "signs"} \subseteq Excused, IInv, Stop
  PROVE  IInv'
<1>1. /\ LoopOK /\ LoopOK' /\ Reversed /\ ahead \in Seq(Int)
      /\ loop' = loop /\ ahead' = ahead /\ back' = back /\ behind' = behind
      /\ ~Holds(i, back.cmp, back.bound) /\ stage = "back" /\ stage' = "done"
  BY DEF IInv, Stop, LoopOK
<1>2. ASSUME Regular'
      PROVE  behind = Reverse(ahead)
  <2>1. Regular
    BY <1>1, <1>2 DEF Regular, Excuse, EmptyByLessThanStride, MixesSigns, LeavesInt
  <2>2. BackOK /\ Plain /\ behind \in Seq(Int)
    BY <1>1, <2>1, RegularIsPlain DEF IInv, BackOK
  <2>3. /\ Reverse(ahead) \in Seq(Int) /\ Len(Reverse(ahead)) = Len(ahead)
        /\ \A k \in 1..Len(ahead) : Reverse(ahead)[k] = ahead[Len(ahead) - k + 1]
    BY <1>1 DEF Reverse
  <2>4. Len(behind) = Len(ahead) /\ \A k \in 1..Len(ahead) : behind[k] = ahead[Len(ahead) - k + 1]
    <3>1. CASE ahead = <<>>
      BY <2>2, <3>1 DEF BackOK
    <3>2. CASE ahead # <<>>
      <4>1. ~ Len(behind) < Len(ahead)
        BY <1>1, <2>2, <3>2, GoesOn
      <4> QED BY <1>1, <2>2, <3>2, <4>1 DEF BackOK
    <3> QED BY <3>1, <3>2
  <2> QED BY <1>1, <2>2, <2>3, <2>4, SeqEqual
<1> QED BY <1>1, <1>2 DEF IInv, TakesValuesBack

-----------------------------------------------------------------------------
(* The program. *)

\* Every step keeps the invariant.
LEMMA StepHolds ==
  ASSUME {"empty", "signs"} \subseteq Excused, IInv, [Next]_vars
  PROVE  IInv'
<1>1. CASE UNCHANGED vars
  <2>1. UNCHANGED <<loop, back, stage, i, ahead, behind>>
    BY <1>1 DEF vars
  <2>2. LoopOK' /\ (Reversed' <=> Reversed) /\ (Regular' <=> Regular)
    BY <2>1 DEF IInv, LoopOK, Reversed, Stride, Regular, Excuse, EmptyByLessThanStride, MixesSigns, LeavesInt
  <2>3. (Plain' <=> Plain) /\ (Progress' <=> Progress)
    BY <2>1 DEF Plain, Progress, Term, Stride, Within, Upward, End
  <2>4. (AheadOK' <=> AheadOK) /\ (BackOK' <=> BackOK)
    BY <2>1, <2>3 DEF AheadOK, BackOK, Term, Stride, Upward
  <2> QED BY <2>1, <2>2, <2>4 DEF IInv, TakesValuesBack
<1> QED BY <1>1, ReverseHeaderKeeps, StepAheadKeeps, TurnKeeps, StepBackKeeps, StopKeeps DEF Next

\* In every reachable state the values taken are terms of one progression: the
\* result below is read from this.
THEOREM Invariance ==
  ASSUME {"empty", "signs"} \subseteq Excused
  PROVE  Spec => []IInv
<1>1. Init => IInv
  BY DEF Init, IInv, LoopOK, TakesValuesBack
<1>2. IInv /\ [Next]_vars => IInv'
  BY StepHolds
<1> QED BY <1>1, <1>2, PTL DEF Spec

\* For integers of every width, the reversed loop takes the values of the
\* forward loop, the last first, unless the loop is one of the known divergences.
THEOREM ReversesTheLoop ==
  ASSUME {"empty", "signs"} \subseteq Excused
  PROVE  Spec => []TakesValuesBack
<1>1. IInv => TakesValuesBack
  BY DEF IInv
<1> QED BY <1>1, Invariance, PTL
=============================================================================
