------------------------- MODULE GateDispatchProofs -------------------------
(***************************************************************************)
(* State vectors and gates, for every number of wires: gates are linear    *)
(* and lose no state, and a rotation that is taken apart is the rotation   *)
(* (SimulationIsExact).  Bits that are classical or have a qubit, together *)
(* with the qubits, stand for a state of the bits; every way to dispatch   *)
(* a gate makes of it what the gate, as written, means                     *)
(* (EveryDispatchIsExact), and so do execution and measurement.            *)
(***************************************************************************)
EXTENDS GateDispatch, TLAPS, SequenceTheorems, FiniteSetTheorems, WellFoundedInduction

\* Amplitudes, those that are not 0, and the vectors on some wires.
Gaussian == Int \X Int
NonZero == Gaussian \ {Zero}
Vectors(wires) == [SUBSET wires -> Gaussian]

-----------------------------------------------------------------------------
(* Amplitudes. *)

\* Sums and products of amplitudes are amplitudes, and the usual laws hold.
LEMMA RingLaws ==
  ASSUME NEW x \in Gaussian, NEW y \in Gaussian, NEW z \in Gaussian
  PROVE  /\ Plus(x, y) \in Gaussian /\ Times(x, y) \in Gaussian
         /\ Plus(x, y) = Plus(y, x) /\ Times(x, y) = Times(y, x)
         /\ Times(x, Plus(y, z)) = Plus(Times(x, y), Times(x, z))
         /\ Times(x, Times(y, z)) = Times(Times(x, y), z)
  BY DEF Gaussian, Times, Plus

\* The amplitudes 0, 1 and i.
LEMMA Units ==
  /\ Zero \in Gaussian /\ One \in NonZero /\ ImaginaryUnit \in NonZero
  /\ \A x \in Gaussian :
       /\ Plus(Zero, x) = x /\ Plus(x, Zero) = x
       /\ Times(Zero, x) = Zero /\ Times(x, Zero) = Zero
       /\ Times(One, x) = x /\ Times(x, One) = x
       /\ Minus(x) \in Gaussian /\ Conjugate(x) \in Gaussian /\ Norm(x) \in Gaussian
  BY DEF Gaussian, NonZero, Zero, One, ImaginaryUnit, Plus, Times, Minus, Conjugate, Norm, Real

\* A product of integers that vanishes in both parts has a factor that does.
LEMMA PartsVanish ==
  ASSUME NEW a \in Int, NEW b \in Int, NEW c \in Int, NEW d \in Int,
         a * c - b * d = 0, a * d + b * c = 0, c # 0 \/ d # 0
  PROVE  a = 0 /\ b = 0
<1>1. a * (c * c + d * d) = c * (a * c - b * d) + d * (a * d + b * c)
  BY SMT
<1>2. b * (c * c + d * d) = c * (a * d + b * c) - d * (a * c - b * d)
  BY SMT
<1>3. c * c + d * d \in Nat \ {0}
  BY SMT
<1>4. a * (c * c + d * d) = 0 /\ b * (c * c + d * d) = 0
  BY <1>1, <1>2
<1> QED BY <1>3, <1>4

\* A product is 0 only if a factor is.
LEMMA NoDivisors ==
  ASSUME NEW x \in Gaussian, NEW y \in NonZero, Times(x, y) = Zero
  PROVE  x = Zero
<1> DEFINE a == x[1]  b == x[2]  c == y[1]  d == y[2]
<1>1. a \in Int /\ b \in Int /\ c \in Int /\ d \in Int /\ x = <<a, b>> /\ y = <<c, d>>
  BY DEF Gaussian, NonZero
<1>2. a * c - b * d = 0 /\ a * d + b * c = 0
  BY DEF Times, Zero
<1>3. c # 0 \/ d # 0
  BY <1>1 DEF NonZero, Zero
<1> HIDE DEF a, b, c, d
<1>4. a = 0 /\ b = 0
  BY <1>1, <1>2, <1>3, PartsVanish
<1> QED BY <1>1, <1>4 DEF Zero

\* Products of amplitudes that are not 0.
LEMMA NonZeroTimes ==
  ASSUME NEW x \in NonZero, NEW y \in NonZero
  PROVE  Times(x, y) \in NonZero
  BY NoDivisors, RingLaws DEF NonZero

\* A factor that is not 0 cancels.
LEMMA Cancel ==
  ASSUME NEW k \in NonZero, NEW x \in Gaussian, NEW y \in Gaussian, Times(k, x) = Times(k, y)
  PROVE  x = y
<1> DEFINE d == <<x[1] - y[1], x[2] - y[2]>>
<1>1. d \in Gaussian /\ (d = Zero => x = y)
  BY DEF Gaussian, Zero
<1>2. Times(d, k) = <<Times(k, x)[1] - Times(k, y)[1], Times(k, x)[2] - Times(k, y)[2]>>
  BY DEF Gaussian, NonZero, Times
<1>3. Times(k, x) \in Gaussian
  BY RingLaws DEF NonZero
<1>4. Times(d, k) = Zero
  BY <1>2, <1>3 DEF Gaussian, Zero
<1> HIDE DEF d
<1> QED BY <1>1, <1>4, NoDivisors

-----------------------------------------------------------------------------
(* Rays. *)

\* One vector, times a, is the other, times b.
Factors(a, b, phi, psi) == \A s \in DOMAIN phi : Times(a, phi[s]) = Times(b, psi[s])
\* It is, for some factors.
Proportional(phi, psi) == \E a, b \in NonZero : Factors(a, b, phi, psi)

\* A vector is proportional to itself and to its multiples.
LEMMA Multiple ==
  ASSUME NEW wires, NEW phi \in Vectors(wires), NEW psi \in Vectors(wires), NEW k \in NonZero,
         \A s \in SUBSET wires : phi[s] = Times(k, psi[s])
  PROVE  Proportional(phi, psi)
<1>1. \A s \in DOMAIN phi : Times(One, phi[s]) = Times(k, psi[s])
  BY Units, RingLaws DEF Vectors, NonZero
<1> QED BY <1>1, Units DEF Proportional, Factors

\* A vector is proportional to itself.
LEMMA ProportionalSame ==
  ASSUME NEW wires, NEW phi \in Vectors(wires)
  PROVE  Proportional(phi, phi)
<1>1. \A s \in SUBSET wires : phi[s] = Times(One, phi[s])
  BY Units DEF Vectors
<1> QED BY <1>1, Multiple, Units

\* It does not matter which of the two comes first.
LEMMA ProportionalBack ==
  ASSUME NEW wires, NEW phi \in Vectors(wires), NEW psi \in Vectors(wires), Proportional(phi, psi)
  PROVE  Proportional(psi, phi)
<1>1. DOMAIN phi = DOMAIN psi
  BY DEF Vectors
<1> QED BY <1>1 DEF Proportional, Factors

\* Nor how many vectors are in between.
LEMMA ProportionalTrans ==
  ASSUME NEW wires, NEW phi \in Vectors(wires), NEW psi \in Vectors(wires), NEW chi \in Vectors(wires),
         Proportional(phi, psi), Proportional(psi, chi)
  PROVE  Proportional(phi, chi)
<1>1. PICK a \in NonZero, b \in NonZero : Factors(a, b, phi, psi)
  BY DEF Proportional
<1>2. PICK c \in NonZero, d \in NonZero : Factors(c, d, psi, chi)
  BY DEF Proportional
<1>3. Times(c, a) \in NonZero /\ Times(b, d) \in NonZero
  BY NonZeroTimes
<1>4. ASSUME NEW s \in SUBSET wires
      PROVE  Times(Times(c, a), phi[s]) = Times(Times(b, d), chi[s])
  <2> DEFINE x == phi[s]  y == psi[s]  w == chi[s]
  <2>1. /\ x \in Gaussian /\ y \in Gaussian /\ w \in Gaussian
        /\ a \in Gaussian /\ b \in Gaussian /\ c \in Gaussian /\ d \in Gaussian
    BY DEF Vectors, NonZero
  <2>2. Times(a, x) = Times(b, y) /\ Times(c, y) = Times(d, w)
    BY <1>1, <1>2 DEF Factors, Vectors
  <2> HIDE DEF x, y, w
  <2>3. Times(Times(c, a), x) = Times(c, Times(b, y))
    BY <2>1, <2>2, RingLaws
  <2>4. Times(c, Times(b, y)) = Times(b, Times(c, y))
    BY <2>1, RingLaws
  <2>5. Times(Times(b, d), w) = Times(b, Times(c, y))
    BY <2>1, <2>2, RingLaws
  <2> QED BY <2>3, <2>4, <2>5 DEF x, w
<1>5. Factors(Times(c, a), Times(b, d), phi, chi)
  BY <1>4 DEF Factors, Vectors
<1> QED BY <1>3, <1>5 DEF Proportional

\* Vectors that are proportional are 0 in the same places.
LEMMA ProportionalSupport ==
  ASSUME NEW wires, NEW phi \in Vectors(wires), NEW psi \in Vectors(wires), Proportional(phi, psi)
  PROVE  Support(phi) = Support(psi)
<1>1. PICK a \in NonZero, b \in NonZero : Factors(a, b, phi, psi)
  BY DEF Proportional
<1>2. ASSUME NEW s \in SUBSET wires
      PROVE  phi[s] = Zero <=> psi[s] = Zero
  <2>1. phi[s] \in Gaussian /\ psi[s] \in Gaussian /\ a \in Gaussian /\ b \in Gaussian
    BY DEF Vectors, NonZero
  <2>2. Times(a, phi[s]) = Times(b, psi[s])
    BY <1>1 DEF Factors, Vectors
  <2>3. ASSUME phi[s] = Zero  PROVE psi[s] = Zero
    <3>1. Times(psi[s], b) = Zero
      BY <2>1, <2>2, <2>3, Units, RingLaws
    <3> QED BY <2>1, <3>1, NoDivisors
  <2>4. ASSUME psi[s] = Zero  PROVE phi[s] = Zero
    <3>1. Times(phi[s], a) = Zero
      BY <2>1, <2>2, <2>4, Units, RingLaws
    <3> QED BY <2>1, <3>1, NoDivisors
  <2> QED BY <2>3, <2>4
<1> QED BY <1>2 DEF Support, Vectors

\* Vectors that are proportional and not 0 everywhere are on the same ray.
LEMMA ProportionalRay ==
  ASSUME NEW wires, NEW phi \in Vectors(wires), NEW psi \in Vectors(wires), Proportional(phi, psi),
         Support(phi) # {}
  PROVE  SameRay(phi, psi)
<1>1. PICK a \in NonZero, b \in NonZero : Factors(a, b, phi, psi)
  BY DEF Proportional
<1>2. ASSUME NEW s \in SUBSET wires, NEW t \in SUBSET wires
      PROVE  Times(phi[t], psi[s]) = Times(phi[s], psi[t])
  <2> DEFINE x == phi[s]  y == psi[s]  v == phi[t]  w == psi[t]
  <2>1. x \in Gaussian /\ y \in Gaussian /\ v \in Gaussian /\ w \in Gaussian /\ a \in Gaussian /\ b \in Gaussian
    BY DEF Vectors, NonZero
  <2>2. Times(a, x) = Times(b, y) /\ Times(a, v) = Times(b, w)
    BY <1>1 DEF Factors, Vectors
  <2> HIDE DEF x, y, v, w
  <2>3. Times(a, Times(v, y)) = Times(Times(b, w), y)
    BY <2>1, <2>2, RingLaws
  <2>4. Times(a, Times(x, w)) = Times(Times(b, y), w)
    BY <2>1, <2>2, RingLaws
  <2>5. Times(Times(b, y), w) = Times(Times(b, w), y)
    BY <2>1, RingLaws
  <2>6. Times(v, y) \in Gaussian /\ Times(x, w) \in Gaussian
    BY <2>1, RingLaws
  <2>7. Times(v, y) = Times(x, w)
    BY <2>3, <2>4, <2>5, <2>6, Cancel
  <2> QED BY <2>7 DEF x, y, v, w
<1>3. Support(psi) = Support(phi)
  BY ProportionalSupport
<1>4. Support(phi) \subseteq SUBSET wires
  BY DEF Support, Vectors
<1> DEFINE pivot == CHOOSE s \in Support(phi) : TRUE
<1>5. pivot \in Support(phi)
  OBVIOUS
<1> HIDE DEF pivot
<1>6. \A s \in Support(phi) : Times(phi[pivot], psi[s]) = Times(phi[s], psi[pivot])
  BY <1>2, <1>4, <1>5
<1> QED BY <1>3, <1>6 DEF SameRay, pivot

-----------------------------------------------------------------------------
(* The base gates. *)

\* The gates that take no control.
Bases == {"X", "Y", "Z", "H", "S", "P", "RX", "RY", "RZ"}
\* The r-th row of the matrix m, applied to the amplitudes x of 0 and y of 1.
RowOf(m, r, x, y) == Plus(Times(m.on0[r], x), Times(m.on1[r], y))

\* What a matrix is made of.
MatrixOK(m) ==
  /\ m.on0[1] \in Gaussian /\ m.on0[2] \in Gaussian /\ m.on1[1] \in Gaussian /\ m.on1[2] \in Gaussian

\* The matrices of the base gates have an inverse, whatever the angle.
LEMMA MatrixInvertible ==
  ASSUME NEW base \in Bases, NEW half \in NonZero
  PROVE  /\ MatrixOK(Matrix(base, half))
         /\ Times(Matrix(base, half).on0[1], Matrix(base, half).on1[2])
              # Times(Matrix(base, half).on0[2], Matrix(base, half).on1[1])
<1> DEFINE a == half[1]  b == half[2]
<1>1. a \in Int /\ b \in Int /\ half = <<a, b>> /\ (a # 0 \/ b # 0)
  BY DEF Gaussian, NonZero, Zero
<1>2. a * a + b * b # 0
  <2> HIDE DEF a, b
  <2> QED BY <1>1, SMT
<1> DEFINE m == Matrix(base, half)
<1>3. CASE base = "X"
  <2>1. m.on0 = <<Zero, One>> /\ m.on1 = <<One, Zero>>
    BY <1>3 DEF Matrix
  <2> QED BY <2>1 DEF MatrixOK, Gaussian, Times, Zero, One
<1>4. CASE base = "Y"
  <2>1. m.on0 = <<Zero, ImaginaryUnit>> /\ m.on1 = <<Minus(ImaginaryUnit), Zero>>
    BY <1>4 DEF Matrix
  <2> QED BY <2>1 DEF MatrixOK, Gaussian, Times, Zero, ImaginaryUnit, Minus
<1>5. CASE base = "Z"
  <2>1. m.on0 = <<One, Zero>> /\ m.on1 = <<Zero, Minus(One)>>
    BY <1>5 DEF Matrix
  <2> QED BY <2>1 DEF MatrixOK, Gaussian, Times, Zero, One, Minus
<1>6. CASE base = "H"
  <2>1. m.on0 = <<One, One>> /\ m.on1 = <<One, Minus(One)>>
    BY <1>6 DEF Matrix
  <2> QED BY <2>1 DEF MatrixOK, Gaussian, Times, One, Minus
<1>7. CASE base = "S"
  <2>1. m.on0 = <<One, Zero>> /\ m.on1 = <<Zero, ImaginaryUnit>>
    BY <1>7 DEF Matrix
  <2> QED BY <2>1 DEF MatrixOK, Gaussian, Times, Zero, One, ImaginaryUnit
<1>8. CASE base = "P"
  <2>1. m.on0 = <<Norm(half), Zero>> /\ m.on1 = <<Zero, Times(half, half)>>
    BY <1>8 DEF Matrix
  <2>2. Times(half, half) \in NonZero
    BY NonZeroTimes
  <2>3. Norm(half) \in NonZero
    BY <1>1, <1>2 DEF Norm, Real, Gaussian, NonZero, Zero
  <2>4. Times(Norm(half), Times(half, half)) \in NonZero /\ Times(Zero, Zero) = Zero
    BY <2>2, <2>3, NonZeroTimes, Units
  <2> QED BY <2>1, <2>2, <2>3, <2>4, Units DEF MatrixOK, NonZero
<1>9. CASE base = "RX"
  <2>1. m.on0 = <<Real(a), <<0, -b>>>> /\ m.on1 = <<<<0, -b>>, Real(a)>>
    BY <1>9 DEF Matrix
  <2>2. Times(Real(a), Real(a)) = <<a * a, 0>> /\ Times(<<0, -b>>, <<0, -b>>) = <<-(b * b), 0>>
    BY <1>1 DEF Times, Real
  <2>3. a * a # -(b * b)
    BY <1>1, <1>2
  <2> QED BY <1>1, <2>1, <2>2, <2>3 DEF MatrixOK, Gaussian, Real
<1>10. CASE base = "RY"
  <2>1. m.on0 = <<Real(a), Real(b)>> /\ m.on1 = <<Real(-b), Real(a)>>
    BY <1>10 DEF Matrix
  <2>2. Times(Real(a), Real(a)) = <<a * a, 0>> /\ Times(Real(b), Real(-b)) = <<-(b * b), 0>>
    BY <1>1 DEF Times, Real
  <2>3. a * a # -(b * b)
    BY <1>1, <1>2
  <2> QED BY <1>1, <2>1, <2>2, <2>3 DEF MatrixOK, Gaussian, Real
<1>11. CASE base = "RZ"
  <2>1. m.on0 = <<Conjugate(half), Zero>> /\ m.on1 = <<Zero, half>>
    BY <1>11 DEF Matrix
  <2>2. Conjugate(half) \in NonZero
    BY <1>1 DEF Conjugate, NonZero, Gaussian, Zero
  <2>3. Times(Conjugate(half), half) \in NonZero /\ Times(Zero, Zero) = Zero
    BY <2>2, NonZeroTimes, Units
  <2> QED BY <2>1, <2>2, <2>3, Units DEF MatrixOK, NonZero
<1> QED BY <1>3, <1>4, <1>5, <1>6, <1>7, <1>8, <1>9, <1>10, <1>11 DEF Bases

\* A factor goes through a row.
LEMMA RowScaled ==
  ASSUME NEW m, MatrixOK(m), NEW r \in {1, 2}, NEW k \in Gaussian, NEW x \in Gaussian, NEW y \in Gaussian
  PROVE  /\ RowOf(m, r, x, y) \in Gaussian
         /\ Times(k, RowOf(m, r, x, y)) = RowOf(m, r, Times(k, x), Times(k, y))
<1> DEFINE a == m.on0[r]  b == m.on1[r]
<1>1. a \in Gaussian /\ b \in Gaussian
  BY DEF MatrixOK
<1> HIDE DEF a, b
<1>2. Times(k, Plus(Times(a, x), Times(b, y))) = Plus(Times(a, Times(k, x)), Times(b, Times(k, y)))
  <2>1. Times(a, x) \in Gaussian /\ Times(b, y) \in Gaussian
    BY <1>1, RingLaws
  <2>2. Times(k, Plus(Times(a, x), Times(b, y))) = Plus(Times(k, Times(a, x)), Times(k, Times(b, y)))
    BY <2>1, RingLaws
  <2>3. Times(k, Times(a, x)) = Times(a, Times(k, x)) /\ Times(k, Times(b, y)) = Times(b, Times(k, y))
    BY <1>1, RingLaws
  <2> QED BY <2>2, <2>3
<1>3. Plus(Times(a, x), Times(b, y)) \in Gaussian
  BY <1>1, RingLaws
<1> QED BY <1>2, <1>3 DEF RowOf, a, b

\* A summand that two sums share cancels.
LEMMA CancelSum ==
  ASSUME NEW x \in Gaussian, NEW y \in Gaussian, NEW z \in Gaussian, Plus(x, z) = Zero, Plus(y, z) = Zero
  PROVE  x = y
  BY DEF Gaussian, Plus, Zero

\* Two rows that are not multiples of each other vanish together only at 0.
LEMMA RowsVanish ==
  ASSUME NEW m, MatrixOK(m), Times(m.on0[1], m.on1[2]) # Times(m.on0[2], m.on1[1]),
         NEW x \in Gaussian, NEW y \in Gaussian, RowOf(m, 1, x, y) = Zero, RowOf(m, 2, x, y) = Zero
  PROVE  x = Zero /\ y = Zero
<1> DEFINE a == m.on0[1]  b == m.on0[2]  c == m.on1[1]  d == m.on1[2]
<1>1. a \in Gaussian /\ b \in Gaussian /\ c \in Gaussian /\ d \in Gaussian /\ Times(a, d) # Times(b, c)
  BY DEF MatrixOK
<1>2. Plus(Times(a, x), Times(c, y)) = Zero /\ Plus(Times(b, x), Times(d, y)) = Zero
  BY DEF RowOf
<1> HIDE DEF a, b, c, d
<1>3. /\ Times(a, x) \in Gaussian /\ Times(c, y) \in Gaussian /\ Times(b, x) \in Gaussian /\ Times(d, y) \in Gaussian
      /\ Times(a, d) \in Gaussian /\ Times(b, c) \in Gaussian
  BY <1>1, RingLaws
<1>4. ASSUME x # Zero  PROVE FALSE
  <2>1. Plus(Times(d, Times(a, x)), Times(d, Times(c, y))) = Zero
    BY <1>1, <1>2, <1>3, RingLaws, Units
  <2>2. Plus(Times(c, Times(b, x)), Times(c, Times(d, y))) = Zero
    BY <1>1, <1>2, <1>3, RingLaws, Units
  <2>3. Times(d, Times(c, y)) = Times(c, Times(d, y))
    BY <1>1, RingLaws
  <2>4. Times(d, Times(a, x)) = Times(x, Times(a, d)) /\ Times(c, Times(b, x)) = Times(x, Times(b, c))
    BY <1>1, RingLaws
  <2>5. Times(x, Times(a, d)) \in Gaussian /\ Times(x, Times(b, c)) \in Gaussian /\ Times(c, Times(d, y)) \in Gaussian
    BY <1>1, <1>3, RingLaws
  <2>6. Times(x, Times(a, d)) = Times(x, Times(b, c))
    BY <2>1, <2>2, <2>3, <2>4, <2>5, CancelSum
  <2> QED BY <1>1, <1>3, <1>4, <2>6, Cancel DEF NonZero
<1>5. ASSUME y # Zero  PROVE FALSE
  <2>1. Plus(Times(b, Times(c, y)), Times(b, Times(a, x))) = Zero
    BY <1>1, <1>2, <1>3, RingLaws, Units
  <2>2. Plus(Times(a, Times(d, y)), Times(a, Times(b, x))) = Zero
    BY <1>1, <1>2, <1>3, RingLaws, Units
  <2>3. Times(b, Times(a, x)) = Times(a, Times(b, x))
    BY <1>1, RingLaws
  <2>4. Times(b, Times(c, y)) = Times(y, Times(b, c)) /\ Times(a, Times(d, y)) = Times(y, Times(a, d))
    BY <1>1, RingLaws
  <2>5. Times(y, Times(a, d)) \in Gaussian /\ Times(y, Times(b, c)) \in Gaussian /\ Times(a, Times(b, x)) \in Gaussian
    BY <1>1, <1>3, RingLaws
  <2>6. Times(y, Times(a, d)) = Times(y, Times(b, c))
    BY <2>1, <2>2, <2>3, <2>4, <2>5, CancelSum
  <2> QED BY <1>1, <1>3, <1>5, <2>6, Cancel DEF NonZero
<1> QED BY <1>4, <1>5

-----------------------------------------------------------------------------
(* Gates on vectors. *)

\* The row of the matrix that the value of the target in s selects, applied to
\* the amplitudes of the two basis states that differ from s in the target only.
AtTarget(base, half, target, psi, s) ==
  RowOf(Matrix(base, half), IF target \in s THEN 2 ELSE 1, psi[s \ {target}], psi[s \cup {target}])

\* What a controlled gate leaves at the basis state s.
LEMMA ControlledAt ==
  ASSUME NEW wires, NEW psi \in Vectors(wires), NEW base, NEW half, NEW by, NEW controls, NEW target,
         NEW s \in SUBSET wires
  PROVE  Controlled(base, half, by, controls, target, psi)[s] =
           IF controls \subseteq s THEN AtTarget(base, half, target, psi, s) ELSE Times(by, psi[s])
<1>1. s \in DOMAIN psi
  BY DEF Vectors
<1> QED BY <1>1 DEF Controlled, RowOf, AtTarget

\* It is a vector again.
LEMMA ControlledIsVector ==
  ASSUME NEW wires, NEW psi \in Vectors(wires), NEW base \in Bases, NEW half \in NonZero, NEW by \in Gaussian,
         NEW controls, NEW target \in wires
  PROVE  Controlled(base, half, by, controls, target, psi) \in Vectors(wires)
<1> DEFINE v == Controlled(base, half, by, controls, target, psi)
<1>1. ASSUME NEW s \in SUBSET wires
      PROVE  v[s] \in Gaussian
  <2>1. psi[s] \in Gaussian /\ psi[s \ {target}] \in Gaussian /\ psi[s \cup {target}] \in Gaussian
    BY DEF Vectors
  <2>2. Times(by, psi[s]) \in Gaussian
    BY <2>1, RingLaws
  <2>3. MatrixOK(Matrix(base, half))
    BY MatrixInvertible
  <2>4. AtTarget(base, half, target, psi, s) \in Gaussian
    BY <2>1, <2>3, RowScaled, Units DEF AtTarget
  <2> QED BY <2>2, <2>4, ControlledAt
<1>2. v = [s \in SUBSET wires |-> v[s]]
  BY DEF Controlled, Vectors
<1> HIDE DEF v
<1> QED BY <1>1, <1>2 DEF Vectors, v

\* Proportional vectors stay proportional.
LEMMA ControlledLinear ==
  ASSUME NEW wires, NEW phi \in Vectors(wires), NEW psi \in Vectors(wires), Proportional(phi, psi),
         NEW base \in Bases, NEW half \in NonZero, NEW by \in Gaussian, NEW controls, NEW target \in wires
  PROVE  Proportional(Controlled(base, half, by, controls, target, phi),
                      Controlled(base, half, by, controls, target, psi))
<1>1. PICK a \in NonZero, b \in NonZero : Factors(a, b, phi, psi)
  BY DEF Proportional
<1> DEFINE v == Controlled(base, half, by, controls, target, phi)
           w == Controlled(base, half, by, controls, target, psi)
           m == Matrix(base, half)
<1>2. MatrixOK(m)
  BY MatrixInvertible
<1>3. a \in Gaussian /\ b \in Gaussian
  BY DEF NonZero
<1>4. ASSUME NEW s \in SUBSET wires
      PROVE  Times(a, v[s]) = Times(b, w[s])
  <2>1. /\ phi[s] \in Gaussian /\ phi[s \ {target}] \in Gaussian /\ phi[s \cup {target}] \in Gaussian
        /\ psi[s] \in Gaussian /\ psi[s \ {target}] \in Gaussian /\ psi[s \cup {target}] \in Gaussian
    BY DEF Vectors
  <2>2. /\ Times(a, phi[s]) = Times(b, psi[s])
        /\ Times(a, phi[s \ {target}]) = Times(b, psi[s \ {target}])
        /\ Times(a, phi[s \cup {target}]) = Times(b, psi[s \cup {target}])
    BY <1>1 DEF Factors, Vectors
  <2>3. CASE ~(controls \subseteq s)
    <3>1. v[s] = Times(by, phi[s]) /\ w[s] = Times(by, psi[s])
      BY <2>3, ControlledAt
    <3>2. Times(a, Times(by, phi[s])) = Times(by, Times(a, phi[s]))
      BY <1>3, <2>1, RingLaws
    <3>3. Times(b, Times(by, psi[s])) = Times(by, Times(b, psi[s]))
      BY <1>3, <2>1, RingLaws
    <3> QED BY <2>2, <3>1, <3>2, <3>3
  <2>4. CASE controls \subseteq s
    <3> DEFINE r == IF target \in s THEN 2 ELSE 1
    <3>1. r \in {1, 2}
      OBVIOUS
    <3>6. v[s] = AtTarget(base, half, target, phi, s) /\ w[s] = AtTarget(base, half, target, psi, s)
      BY <2>4, ControlledAt
    <3>2. v[s] = RowOf(m, r, phi[s \ {target}], phi[s \cup {target}])
      BY ONLY <3>6 DEF AtTarget, r, m
    <3>3. w[s] = RowOf(m, r, psi[s \ {target}], psi[s \cup {target}])
      BY ONLY <3>6 DEF AtTarget, r, m
    <3> HIDE DEF r, v, w, m
    <3>4. Times(a, v[s]) = RowOf(m, r, Times(a, phi[s \ {target}]), Times(a, phi[s \cup {target}]))
      BY <1>2, <1>3, <2>1, <3>1, <3>2, RowScaled
    <3>5. Times(b, w[s]) = RowOf(m, r, Times(b, psi[s \ {target}]), Times(b, psi[s \cup {target}]))
      BY <1>2, <1>3, <2>1, <3>1, <3>3, RowScaled
    <3> QED BY <2>2, <3>4, <3>5
  <2> QED BY <2>3, <2>4
<1>5. v \in Vectors(wires)
  BY ControlledIsVector
<1> HIDE DEF v, w
<1>6. Factors(a, b, v, w)
  BY <1>4, <1>5 DEF Factors, Vectors
<1> QED BY <1>6 DEF Proportional, v, w

\* No state is lost.
LEMMA ControlledKeepsSome ==
  ASSUME NEW wires, NEW psi \in Vectors(wires), Support(psi) # {},
         NEW base \in Bases, NEW half \in NonZero, NEW by \in NonZero, NEW controls \in SUBSET wires,
         NEW target \in wires, target \notin controls
  PROVE  Support(Controlled(base, half, by, controls, target, psi)) # {}
<1> DEFINE v == Controlled(base, half, by, controls, target, psi)  m == Matrix(base, half)
<1>1. PICK s \in SUBSET wires : psi[s] # Zero
  BY DEF Support, Vectors
<1>2. v \in Vectors(wires)
  BY ControlledIsVector DEF NonZero
<1>3. DOMAIN v = SUBSET wires
  BY <1>2 DEF Vectors
<1>4. CASE ~(controls \subseteq s)
  <2>1. v[s] = Times(by, psi[s])
    BY <1>4, ControlledAt
  <2>2. psi[s] \in NonZero
    BY <1>1 DEF Vectors, NonZero
  <2>3. Times(by, psi[s]) \in NonZero
    BY <2>2, NonZeroTimes
  <2> QED BY <1>3, <2>1, <2>3 DEF Support, NonZero
<1>5. CASE controls \subseteq s
  <2> DEFINE zero == s \ {target}  one == s \cup {target}
  <2>1. /\ zero \in SUBSET wires /\ one \in SUBSET wires /\ controls \subseteq zero /\ controls \subseteq one
        /\ zero \ {target} = zero /\ one \ {target} = zero /\ zero \cup {target} = one /\ one \cup {target} = one
        /\ target \notin zero /\ target \in one /\ (s = zero \/ s = one)
    BY <1>5
  <2> HIDE DEF zero, one
  <2>7. v[zero] = AtTarget(base, half, target, psi, zero) /\ v[one] = AtTarget(base, half, target, psi, one)
    BY <2>1, ControlledAt
  <2>2. v[zero] = RowOf(m, 1, psi[zero], psi[one])
    BY ONLY <2>1, <2>7 DEF AtTarget, m
  <2>3. v[one] = RowOf(m, 2, psi[zero], psi[one])
    BY ONLY <2>1, <2>7 DEF AtTarget, m
  <2>4. psi[zero] \in Gaussian /\ psi[one] \in Gaussian
    BY <2>1 DEF Vectors
  <2>5. MatrixOK(m) /\ Times(m.on0[1], m.on1[2]) # Times(m.on0[2], m.on1[1])
    BY MatrixInvertible
  <2> HIDE DEF m, v
  <2>6. v[zero] # Zero \/ v[one] # Zero
    BY <1>1, <2>1, <2>2, <2>3, <2>4, <2>5, RowsVanish
  <2> QED BY <1>3, <2>1, <2>6 DEF Support, v
<1> QED BY <1>4, <1>5
\* The basis state s with two wires exchanged.
Swapped(a, b, s) == (s \ {a, b}) \cup (IF a \in s THEN {b} ELSE {}) \cup (IF b \in s THEN {a} ELSE {})

\* An exchange of two wires is its own inverse.
LEMMA SwappedBack ==
  ASSUME NEW wires, NEW a \in wires, NEW b \in wires, NEW s \in SUBSET wires
  PROVE  Swapped(a, b, s) \in SUBSET wires /\ Swapped(a, b, Swapped(a, b, s)) = s
  BY DEF Swapped

\* It puts every amplitude at another basis state.
LEMMA ExchangeAt ==
  ASSUME NEW wires, NEW psi \in Vectors(wires), NEW a, NEW b, NEW s \in SUBSET wires
  PROVE  Exchange(a, b, psi)[s] = psi[Swapped(a, b, s)]
  BY DEF Exchange, Swapped, Vectors

\* What it leaves is a vector.
LEMMA ExchangeIsVector ==
  ASSUME NEW wires, NEW psi \in Vectors(wires), NEW a \in wires, NEW b \in wires
  PROVE  Exchange(a, b, psi) \in Vectors(wires) /\ DOMAIN Exchange(a, b, psi) = SUBSET wires
<1>1. Exchange(a, b, psi) = [s \in SUBSET wires |-> psi[Swapped(a, b, s)]]
  BY DEF Exchange, Swapped, Vectors
<1>2. \A s \in SUBSET wires : psi[Swapped(a, b, s)] \in Gaussian
  BY SwappedBack DEF Vectors
<1> QED BY <1>1, <1>2 DEF Vectors

\* The factor that the part without the controls carries.
FactorOf(kind, z) == IF kind \in Rotations THEN Norm(z) ELSE One
\* The operands of a gate: its controls, and its target behind them.
ControlsOf(q) == {q[i] : i \in 1..(Len(q) - 1)}
TargetOf(q) == q[Len(q)]

\* A gate on wires, each of them once.
GateOK(kind, z, q, wires) ==
  /\ kind \in Kinds /\ z \in NonZero
  /\ q \in Seq(wires) /\ Len(q) = Arity(kind) /\ IsInjective(q)

\* The names of the gates.
LEMMA KindsAre ==
  Kinds = {"X", "Y", "Z", "H", "S", "P", "RX", "RY", "RZ", "CX", "CY", "CZ", "CRX", "CRY", "CRZ", "CCX", "SWAP"}
  BY DEF Kinds, GateInfo

\* How many operands a gate has.
LEMMA ArityIs ==
  ASSUME NEW kind \in Kinds
  PROVE  /\ Arity(kind) \in 1..3 /\ GateInfo[kind].controls \in 0..2
         /\ kind # "SWAP" => GateInfo[kind].base \in Bases /\ Arity(kind) = GateInfo[kind].controls + 1
         /\ kind = "SWAP" => Arity(kind) = 2 /\ GateInfo[kind].controls = 0
  BY KindsAre DEF Arity, GateInfo, Bases

\* The square of the length of an amplitude that is not 0.
LEMMA NormNonZero ==
  ASSUME NEW z \in NonZero
  PROVE  Norm(z) \in NonZero
<1> DEFINE a == z[1]  b == z[2]
<1>1. a \in Int /\ b \in Int /\ z = <<a, b>> /\ (a # 0 \/ b # 0)
  BY DEF Gaussian, NonZero, Zero
<1>2. a * a + b * b # 0
  <2> HIDE DEF a, b
  <2> QED BY <1>1, SMT
<1> QED BY <1>1, <1>2 DEF Norm, Real, Gaussian, NonZero, Zero

\* A gate's wires.
LEMMA OperandsOf ==
  ASSUME NEW wires, NEW kind, NEW z, NEW q, GateOK(kind, z, q, wires)
  PROVE  /\ Len(q) \in 1..3 /\ DOMAIN q = 1..Len(q) /\ \A i \in 1..Len(q) : q[i] \in wires
         /\ \A i, j \in 1..Len(q) : q[i] = q[j] => i = j
         /\ ControlsOf(q) \in SUBSET wires /\ TargetOf(q) \in wires /\ TargetOf(q) \notin ControlsOf(q)
<1>1. Len(q) \in 1..3
  BY ArityIs DEF GateOK
<1>2. q \in Seq(wires) /\ IsInjective(q)
  BY DEF GateOK
<1>3. DOMAIN q = 1..Len(q) /\ \A i \in 1..Len(q) : q[i] \in wires
  BY <1>2
<1>4. \A i, j \in 1..Len(q) : q[i] = q[j] => i = j
  BY <1>2, <1>3 DEF IsInjective
<1>5. \A i \in 1..(Len(q) - 1) : i \in 1..Len(q) /\ i # Len(q)
  BY <1>1
<1>6. Len(q) \in 1..Len(q)
  BY <1>1
<1>7. ControlsOf(q) \in SUBSET wires
  BY <1>3, <1>5 DEF ControlsOf
<1>8. TargetOf(q) \in wires /\ TargetOf(q) \notin ControlsOf(q)
  BY <1>3, <1>4, <1>5, <1>6 DEF ControlsOf, TargetOf
<1> QED BY <1>1, <1>3, <1>4, <1>7, <1>8

\* The gates but SWAP are controlled base gates.
LEMMA MeaningIs ==
  ASSUME NEW wires, NEW kind, NEW z, NEW q, GateOK(kind, z, q, wires), kind # "SWAP", NEW psi
  PROVE  /\ GateInfo[kind].base \in Bases /\ Times(z, z) \in NonZero /\ FactorOf(kind, z) \in NonZero
         /\ Meaning(kind, z, q, psi) =
              Controlled(GateInfo[kind].base, Times(z, z), FactorOf(kind, z), ControlsOf(q), TargetOf(q), psi)
<1>1. Len(q) \in 1..3 /\ Arity(kind) = Len(q) /\ GateInfo[kind].base \in Bases /\ z \in NonZero
  BY ArityIs, OperandsOf DEF GateOK
<1>2. Times(z, z) \in NonZero /\ FactorOf(kind, z) \in NonZero
  BY <1>1, NonZeroTimes, NormNonZero, Units DEF FactorOf
<1>3. Range(SubSeq(q, 1, Len(q) - 1)) = ControlsOf(q)
  <2> DEFINE n == Len(q) - 1  r == SubSeq(q, 1, n)
  <2>1. q \in Seq(wires) /\ n \in Int /\ \A i \in 1..n : q[i] \in wires
    BY <1>1, OperandsOf DEF GateOK
  <2> HIDE DEF n
  <2>2. /\ r \in Seq(wires) /\ Len(r) = (IF 1 <= n THEN n - 1 + 1 ELSE 0)
        /\ \A i \in 1..(n - 1 + 1) : r[i] = q[1 + i - 1]
    BY <2>1, SubSeqProperties
  <2>3. n \in 0..2
    BY <1>1 DEF n
  <2> HIDE DEF r
  <2>4. DOMAIN r = 1..n /\ \A i \in 1..n : r[i] = q[i]
    BY <2>2, <2>3
  <2> QED BY <2>4 DEF Range, ControlsOf, r, n
<1>4. Meaning(kind, z, q, psi) =
        Controlled(GateInfo[kind].base, Times(z, z), FactorOf(kind, z), Range(SubSeq(q, 1, Len(q) - 1)), q[Len(q)], psi)
  BY <1>1 DEF Meaning, FactorOf
<1> QED BY <1>1, <1>2, <1>3, <1>4 DEF TargetOf

\* SWAP exchanges its two operands.
LEMMA SwapIs ==
  ASSUME NEW wires, NEW z, NEW q, GateOK("SWAP", z, q, wires), NEW psi
  PROVE  Meaning("SWAP", z, q, psi) = Exchange(q[1], q[2], psi) /\ q[1] \in wires /\ q[2] \in wires /\ q[1] # q[2]
<1>1. Len(q) = 2
  BY ArityIs, KindsAre DEF GateOK
<1> QED BY <1>1, OperandsOf DEF Meaning

\* A gate makes a vector of a vector.
LEMMA MeaningIsVector ==
  ASSUME NEW wires, NEW kind, NEW z, NEW q, GateOK(kind, z, q, wires), NEW psi \in Vectors(wires)
  PROVE  Meaning(kind, z, q, psi) \in Vectors(wires)
<1>1. CASE kind = "SWAP"
  <2>1. GateOK("SWAP", z, q, wires)
    BY <1>1
  <2> DEFINE a == q[1]  b == q[2]
  <2>2. Meaning(kind, z, q, psi) = Exchange(a, b, psi) /\ a \in wires /\ b \in wires
    BY <1>1, <2>1, SwapIs
  <2> HIDE DEF a, b
  <2>3. Exchange(a, b, psi) \in Vectors(wires)
    BY <2>2, ExchangeIsVector
  <2> QED BY <2>2, <2>3
<1>2. CASE kind # "SWAP"
  BY <1>2, MeaningIs, OperandsOf, ControlledIsVector DEF NonZero
<1> QED BY <1>1, <1>2

\* Gates are linear: states that a measurement cannot tell apart stay so.
LEMMA MeaningLinear ==
  ASSUME NEW wires, NEW kind, NEW z, NEW q, GateOK(kind, z, q, wires),
         NEW phi \in Vectors(wires), NEW psi \in Vectors(wires), Proportional(phi, psi)
  PROVE  Proportional(Meaning(kind, z, q, phi), Meaning(kind, z, q, psi))
<1>1. CASE kind = "SWAP"
  <2> DEFINE a == q[1]  b == q[2]
  <2>1. /\ a \in wires /\ b \in wires
        /\ Meaning(kind, z, q, phi) = Exchange(a, b, phi) /\ Meaning(kind, z, q, psi) = Exchange(a, b, psi)
    BY <1>1, SwapIs
  <2> HIDE DEF a, b
  <2>2. PICK k \in NonZero, l \in NonZero : Factors(k, l, phi, psi)
    BY DEF Proportional
  <2>3. \A s \in SUBSET wires : Times(k, phi[s]) = Times(l, psi[s])
    BY <2>2 DEF Factors, Vectors
  <2>4. ASSUME NEW s \in SUBSET wires
        PROVE  Times(k, Exchange(a, b, phi)[s]) = Times(l, Exchange(a, b, psi)[s])
    <3>1. Swapped(a, b, s) \in SUBSET wires
      BY <2>1, SwappedBack
    <3>2. Exchange(a, b, phi)[s] = phi[Swapped(a, b, s)]
      BY ExchangeAt
    <3>3. Exchange(a, b, psi)[s] = psi[Swapped(a, b, s)]
      BY ExchangeAt
    <3> QED BY <2>3, <3>1, <3>2, <3>3
  <2>6. DOMAIN Exchange(a, b, phi) = SUBSET wires
    BY <2>1, ExchangeIsVector
  <2>7. Factors(k, l, Exchange(a, b, phi), Exchange(a, b, psi))
    BY <2>4, <2>6 DEF Factors
  <2> QED BY <2>1, <2>7 DEF Proportional
<1>2. CASE kind # "SWAP"
  BY <1>2, MeaningIs, OperandsOf, ControlledLinear DEF NonZero
<1> QED BY <1>1, <1>2

\* Gates lose no state.
LEMMA MeaningKeepsSome ==
  ASSUME NEW wires, NEW kind, NEW z, NEW q, GateOK(kind, z, q, wires), NEW psi \in Vectors(wires),
         Support(psi) # {}
  PROVE  Support(Meaning(kind, z, q, psi)) # {}
<1>1. CASE kind = "SWAP"
  <2> DEFINE a == q[1]  b == q[2]
  <2>1. a \in wires /\ b \in wires /\ Meaning(kind, z, q, psi) = Exchange(a, b, psi)
    BY <1>1, SwapIs
  <2> HIDE DEF a, b
  <2>2. PICK s \in SUBSET wires : psi[s] # Zero
    BY DEF Support, Vectors
  <2> DEFINE r == Swapped(a, b, s)  v == Exchange(a, b, psi)
  <2>3. r \in SUBSET wires /\ Swapped(a, b, r) = s
    BY <2>1, SwappedBack
  <2>5. DOMAIN v = SUBSET wires
    BY <2>1, ExchangeIsVector
  <2> HIDE DEF r
  <2>4. v[r] = psi[Swapped(a, b, r)]
    BY <2>3, ExchangeAt
  <2> HIDE DEF v
  <2>6. r \in Support(v)
    BY <2>2, <2>3, <2>4, <2>5 DEF Support
  <2> QED BY <2>1, <2>6 DEF v
<1>2. CASE kind # "SWAP"
  BY <1>2, MeaningIs, OperandsOf, ControlledKeepsSome
<1> QED BY <1>1, <1>2
-----------------------------------------------------------------------------
(* The controlled rotations, taken apart. *)

\* What RY makes of the amplitudes <<p, q>> of 0 and <<r, s>> of 1.
RowsOfRY(a, b, p, q, r, s) ==
  /\ RowOf(Matrix("RY", <<a, b>>), 1, <<p, q>>, <<r, s>>) = <<a * p - b * r, a * q - b * s>>
  /\ RowOf(Matrix("RY", <<a, b>>), 2, <<p, q>>, <<r, s>>) = <<b * p + a * r, b * q + a * s>>
\* And RX.
RowsOfRX(a, b, p, q, r, s) ==
  /\ RowOf(Matrix("RX", <<a, b>>), 1, <<p, q>>, <<r, s>>) = <<a * p + b * s, a * q - b * r>>
  /\ RowOf(Matrix("RX", <<a, b>>), 2, <<p, q>>, <<r, s>>) = <<b * q + a * r, a * s - b * p>>

\* Products with a real amplitude.
LEMMA RealTimes ==
  ASSUME NEW a \in Int, NEW p \in Int, NEW q \in Int
  PROVE  Times(Real(a), <<p, q>>) = <<a * p, a * q>>
<1>1. Times(Real(a), <<p, q>>) = <<a * p - 0 * q, a * q + 0 * p>>
  BY DEF Times, Real
<1>2. a * p - 0 * q = a * p /\ a * q + 0 * p = a * q
  OBVIOUS
<1> QED BY <1>1, <1>2

\* And with an imaginary one.
LEMMA ImaginaryTimes ==
  ASSUME NEW b \in Int, NEW p \in Int, NEW q \in Int
  PROVE  Times(<<0, -b>>, <<p, q>>) = <<b * q, -(b * p)>>
<1>1. Times(<<0, -b>>, <<p, q>>) = <<0 * p - (-b) * q, 0 * q + (-b) * p>>
  BY DEF Times
<1>2. 0 * p - (-b) * q = b * q /\ 0 * q + (-b) * p = -(b * p)
  OBVIOUS
<1> QED BY <1>1, <1>2

\* The rows of the two are as above, for every angle.
LEMMA RotationRows ==
  ASSUME NEW a \in Int, NEW b \in Int, NEW p \in Int, NEW q \in Int, NEW r \in Int, NEW s \in Int
  PROVE  RowsOfRY(a, b, p, q, r, s) /\ RowsOfRX(a, b, p, q, r, s)
<1> DEFINE x == <<p, q>>  y == <<r, s>>
<1>1. /\ Matrix("RY", <<a, b>>).on0 = <<Real(a), Real(b)>> /\ Matrix("RY", <<a, b>>).on1 = <<Real(-b), Real(a)>>
      /\ Matrix("RX", <<a, b>>).on0 = <<Real(a), <<0, -b>>>> /\ Matrix("RX", <<a, b>>).on1 = <<<<0, -b>>, Real(a)>>
  BY DEF Matrix
<1>2. /\ RowOf(Matrix("RY", <<a, b>>), 1, x, y) = Plus(Times(Real(a), x), Times(Real(-b), y))
      /\ RowOf(Matrix("RY", <<a, b>>), 2, x, y) = Plus(Times(Real(b), x), Times(Real(a), y))
      /\ RowOf(Matrix("RX", <<a, b>>), 1, x, y) = Plus(Times(Real(a), x), Times(<<0, -b>>, y))
      /\ RowOf(Matrix("RX", <<a, b>>), 2, x, y) = Plus(Times(<<0, -b>>, x), Times(Real(a), y))
  BY <1>1 DEF RowOf
<1>3. /\ Times(Real(a), x) = <<a * p, a * q>> /\ Times(Real(a), y) = <<a * r, a * s>>
      /\ Times(Real(b), x) = <<b * p, b * q>>
  BY RealTimes
<1>4. Times(Real(-b), y) = <<-(b * r), -(b * s)>>
  <2> DEFINE c == -b
  <2>1. c \in Int
    OBVIOUS
  <2> HIDE DEF c
  <2>2. Times(Real(c), y) = <<c * r, c * s>>
    BY <2>1, RealTimes
  <2>3. c * r = -(b * r) /\ c * s = -(b * s)
    BY DEF c
  <2> QED BY <2>2, <2>3 DEF c
<1>5. Times(<<0, -b>>, x) = <<b * q, -(b * p)>> /\ Times(<<0, -b>>, y) = <<b * s, -(b * r)>>
  BY ImaginaryTimes
<1>6. /\ RowOf(Matrix("RY", <<a, b>>), 1, x, y) = <<a * p + -(b * r), a * q + -(b * s)>>
      /\ RowOf(Matrix("RY", <<a, b>>), 2, x, y) = <<b * p + a * r, b * q + a * s>>
      /\ RowOf(Matrix("RX", <<a, b>>), 1, x, y) = <<a * p + b * s, a * q + -(b * r)>>
      /\ RowOf(Matrix("RX", <<a, b>>), 2, x, y) = <<b * q + a * r, -(b * p) + a * s>>
  BY <1>2, <1>3, <1>4, <1>5 DEF Plus
<1>7. /\ a * p + -(b * r) = a * p - b * r /\ a * q + -(b * s) = a * q - b * s
      /\ a * q + -(b * r) = a * q - b * r /\ -(b * p) + a * s = a * s - b * p
  OBVIOUS
<1> QED BY <1>6, <1>7 DEF RowsOfRY, RowsOfRX

\* RZ turns the phases of 0 and of 1.
LEMMA RowsOfRZ ==
  ASSUME NEW half \in Gaussian, NEW x \in Gaussian, NEW y \in Gaussian
  PROVE  /\ RowOf(Matrix("RZ", half), 1, x, y) = Times(Conjugate(half), x)
         /\ RowOf(Matrix("RZ", half), 2, x, y) = Times(half, y)
<1>1. Matrix("RZ", half).on0 = <<Conjugate(half), Zero>> /\ Matrix("RZ", half).on1 = <<Zero, half>>
  BY DEF Matrix
<1>2. Times(Conjugate(half), x) \in Gaussian /\ Times(half, y) \in Gaussian
  BY RingLaws, Units
<1> QED BY <1>1, <1>2, Units DEF RowOf

\* A gate without controls, on the two basis states that differ in its target.
LEMMA AloneAt ==
  ASSUME NEW wires, NEW v \in Vectors(wires), NEW base \in Bases, NEW half \in NonZero,
         NEW t \in wires, NEW u \in SUBSET wires, t \notin u
  PROVE  /\ Controlled(base, half, One, {}, t, v) \in Vectors(wires)
         /\ Controlled(base, half, One, {}, t, v)[u] = RowOf(Matrix(base, half), 1, v[u], v[u \cup {t}])
         /\ Controlled(base, half, One, {}, t, v)[u \cup {t}] = RowOf(Matrix(base, half), 2, v[u], v[u \cup {t}])
<1> DEFINE one == u \cup {t}
<1>1. one \in SUBSET wires /\ t \in one /\ one \cup {t} = one /\ one \ {t} = u /\ u \ {t} = u /\ u \cup {t} = one
      /\ {} \subseteq u /\ {} \subseteq one
  OBVIOUS
<1> HIDE DEF one
<1>2. /\ Controlled(base, half, One, {}, t, v)[u] = AtTarget(base, half, t, v, u)
      /\ Controlled(base, half, One, {}, t, v)[one] = AtTarget(base, half, t, v, one)
  BY <1>1, ControlledAt
<1>3. /\ AtTarget(base, half, t, v, u) = RowOf(Matrix(base, half), 1, v[u], v[one])
      /\ AtTarget(base, half, t, v, one) = RowOf(Matrix(base, half), 2, v[u], v[one])
  BY <1>1 DEF AtTarget
<1>4. Controlled(base, half, One, {}, t, v) \in Vectors(wires)
  BY ControlledIsVector, Units DEF NonZero
<1> QED BY <1>1, <1>2, <1>3, <1>4

\* A gate with the control c, on two basis states that differ in its target.
OneControl(base, half, by, c, t, v, u) ==
  /\ c \in u =>
       /\ Controlled(base, half, by, {c}, t, v)[u] = RowOf(Matrix(base, half), 1, v[u], v[u \cup {t}])
       /\ Controlled(base, half, by, {c}, t, v)[u \cup {t}] = RowOf(Matrix(base, half), 2, v[u], v[u \cup {t}])
  /\ c \notin u =>
       /\ Controlled(base, half, by, {c}, t, v)[u] = Times(by, v[u])
       /\ Controlled(base, half, by, {c}, t, v)[u \cup {t}] = Times(by, v[u \cup {t}])

\* That is what it does.
LEMMA OneControlAt ==
  ASSUME NEW wires, NEW v \in Vectors(wires), NEW base, NEW half, NEW by,
         NEW c \in wires, NEW t \in wires, c # t, NEW u \in SUBSET wires, t \notin u
  PROVE  OneControl(base, half, by, c, t, v, u)
<1> DEFINE one == u \cup {t}
<1>1. one \in SUBSET wires /\ t \in one /\ one \cup {t} = one /\ one \ {t} = u /\ u \ {t} = u /\ u \cup {t} = one
      /\ ({c} \subseteq u <=> c \in u) /\ ({c} \subseteq one <=> c \in u)
  OBVIOUS
<1> HIDE DEF one
<1>2. /\ c \in u => Controlled(base, half, by, {c}, t, v)[u] = AtTarget(base, half, t, v, u)
      /\ c \in u => Controlled(base, half, by, {c}, t, v)[one] = AtTarget(base, half, t, v, one)
      /\ c \notin u => Controlled(base, half, by, {c}, t, v)[u] = Times(by, v[u])
      /\ c \notin u => Controlled(base, half, by, {c}, t, v)[one] = Times(by, v[one])
  BY <1>1, ControlledAt
<1>3. /\ AtTarget(base, half, t, v, u) = RowOf(Matrix(base, half), 1, v[u], v[one])
      /\ AtTarget(base, half, t, v, one) = RowOf(Matrix(base, half), 2, v[u], v[one])
  BY <1>1 DEF AtTarget
<1> QED BY <1>1, <1>2, <1>3 DEF OneControl

\* CX.
LEMMA CxAt ==
  ASSUME NEW wires, NEW v \in Vectors(wires), NEW c \in wires, NEW t \in wires, c # t,
         NEW u \in SUBSET wires, t \notin u
  PROVE  /\ Meaning("CX", One, <<c, t>>, v) \in Vectors(wires)
         /\ Meaning("CX", One, <<c, t>>, v)[u] = IF c \in u THEN v[u \cup {t}] ELSE v[u]
         /\ Meaning("CX", One, <<c, t>>, v)[u \cup {t}] = IF c \in u THEN v[u] ELSE v[u \cup {t}]
<1> DEFINE q == <<c, t>>
<1>1. q \in Seq(wires) /\ Len(q) = 2 /\ q[1] = c /\ q[2] = t /\ DOMAIN q = 1..2
  OBVIOUS
<1>2. IsInjective(q)
  BY <1>1 DEF IsInjective
<1>3. "CX" \in Kinds /\ GateInfo["CX"].base = "X" /\ Arity("CX") = 2 /\ "X" \in Bases /\ "CX" # "SWAP"
  BY KindsAre DEF GateInfo, Arity, Bases
<1>4. One \in NonZero /\ Times(One, One) = One /\ One \in Gaussian
  BY Units DEF NonZero
<1>5. GateOK("CX", One, q, wires)
  BY <1>1, <1>2, <1>3, <1>4 DEF GateOK
<1>6. FactorOf("CX", One) = One
  BY DEF FactorOf, Rotations
<1>7. ControlsOf(q) = {c} /\ TargetOf(q) = t
  BY <1>1 DEF ControlsOf, TargetOf
<1> HIDE DEF q
<1>8. Meaning("CX", One, q, v) = Controlled("X", One, One, {c}, t, v)
  BY <1>3, <1>4, <1>5, <1>6, <1>7, MeaningIs
<1>9. v[u] \in Gaussian /\ v[u \cup {t}] \in Gaussian
  BY DEF Vectors
<1>10. \A x, y \in Gaussian : RowOf(Matrix("X", One), 1, x, y) = y /\ RowOf(Matrix("X", One), 2, x, y) = x
  <2>1. Matrix("X", One).on0 = <<Zero, One>> /\ Matrix("X", One).on1 = <<One, Zero>>
    BY DEF Matrix
  <2> QED BY <2>1, Units DEF RowOf
<1>11. Times(One, v[u]) = v[u] /\ Times(One, v[u \cup {t}]) = v[u \cup {t}]
  BY <1>9, Units
<1>12. Controlled("X", One, One, {c}, t, v) \in Vectors(wires)
  BY <1>3, <1>4, ControlledIsVector
<1>15. OneControl("X", One, One, c, t, v, u)
  BY OneControlAt
<1>13. c \in u => /\ Controlled("X", One, One, {c}, t, v)[u] = v[u \cup {t}]
                  /\ Controlled("X", One, One, {c}, t, v)[u \cup {t}] = v[u]
  BY <1>9, <1>10, <1>15 DEF OneControl
<1>14. c \notin u => /\ Controlled("X", One, One, {c}, t, v)[u] = v[u]
                     /\ Controlled("X", One, One, {c}, t, v)[u \cup {t}] = v[u \cup {t}]
  BY <1>11, <1>15 DEF OneControl
<1> QED BY <1>8, <1>12, <1>13, <1>14 DEF q

\* The gates that a controlled rotation is taken apart into.
Rotate(base, half, t, v) == Controlled(base, half, One, {}, t, v)
Cx(c, t, v) == Meaning("CX", One, <<c, t>>, v)
\* A rotation there, CX, and the rotation back, between CXs.
Sandwich(base, z, c, t, v) == Rotate(base, z, t, Cx(c, t, Rotate(base, Conjugate(z), t, Cx(c, t, v))))

\* What it makes of the amplitudes x of 0 and y of 1, where the control is 1 or not.
SandwichRow(base, z, inside, r, x, y) ==
  LET x0 == IF inside THEN y ELSE x
      y0 == IF inside THEN x ELSE y
      x1 == RowOf(Matrix(base, Conjugate(z)), 1, x0, y0)
      y1 == RowOf(Matrix(base, Conjugate(z)), 2, x0, y0)
  IN  RowOf(Matrix(base, z), r, IF inside THEN y1 ELSE x1, IF inside THEN x1 ELSE y1)

\* At two basis states that differ in the target.
SandwichRows(base, z, c, t, v, u) ==
  /\ Sandwich(base, z, c, t, v)[u] = SandwichRow(base, z, c \in u, 1, v[u], v[u \cup {t}])
  /\ Sandwich(base, z, c, t, v)[u \cup {t}] = SandwichRow(base, z, c \in u, 2, v[u], v[u \cup {t}])

\* That is what is there.
LEMMA SandwichAt ==
  ASSUME NEW wires, NEW v \in Vectors(wires), NEW base \in {"RY", "RZ"}, NEW z \in NonZero,
         NEW c \in wires, NEW t \in wires, c # t, NEW u \in SUBSET wires, t \notin u
  PROVE  Sandwich(base, z, c, t, v) \in Vectors(wires) /\ SandwichRows(base, z, c, t, v, u)
<1> DEFINE v1 == Cx(c, t, v)  v2 == Rotate(base, Conjugate(z), t, v1)  v3 == Cx(c, t, v2)
           v4 == Rotate(base, z, t, v3)  one == u \cup {t}
<1>1. base \in Bases /\ Conjugate(z) \in NonZero
  BY DEF Bases, Conjugate, NonZero, Gaussian, Zero
<1>2. v1 \in Vectors(wires) /\ v1[u] = (IF c \in u THEN v[one] ELSE v[u]) /\ v1[one] = (IF c \in u THEN v[u] ELSE v[one])
  BY CxAt DEF Cx
<1> HIDE DEF v1
<1>3. /\ v2 \in Vectors(wires)
      /\ v2[u] = RowOf(Matrix(base, Conjugate(z)), 1, v1[u], v1[one])
      /\ v2[one] = RowOf(Matrix(base, Conjugate(z)), 2, v1[u], v1[one])
  BY <1>1, <1>2, AloneAt DEF Rotate
<1> HIDE DEF v2
<1>4. v3 \in Vectors(wires) /\ v3[u] = (IF c \in u THEN v2[one] ELSE v2[u]) /\ v3[one] = (IF c \in u THEN v2[u] ELSE v2[one])
  BY <1>3, CxAt DEF Cx
<1> HIDE DEF v3
<1>5. /\ v4 \in Vectors(wires)
      /\ v4[u] = RowOf(Matrix(base, z), 1, v3[u], v3[one])
      /\ v4[one] = RowOf(Matrix(base, z), 2, v3[u], v3[one])
  BY <1>1, <1>4, AloneAt DEF Rotate
<1> HIDE DEF v4
<1>7. Sandwich(base, z, c, t, v) = v4
  BY DEF Sandwich, v1, v2, v3, v4
<1> HIDE DEF one
<1>8. v4[u] = SandwichRow(base, z, c \in u, 1, v[u], v[one]) /\ v4[one] = SandwichRow(base, z, c \in u, 2, v[u], v[one])
  BY ONLY <1>2, <1>3, <1>4, <1>5 DEF SandwichRow
<1> QED BY <1>5, <1>7, <1>8 DEF one, SandwichRows

\* The square of an angle, and what it is with its conjugate.
LEMMA Angles ==
  ASSUME NEW z \in NonZero
  PROVE  /\ Conjugate(z) \in NonZero /\ Conjugate(Conjugate(z)) = z
         /\ Times(Conjugate(z), z) = Norm(z) /\ Times(z, Conjugate(z)) = Norm(z)
         /\ Conjugate(Times(z, z)) = Times(Conjugate(z), Conjugate(z))
<1> DEFINE a == z[1]  b == z[2]
<1>1. a \in Int /\ b \in Int /\ z = <<a, b>>
  BY DEF NonZero, Gaussian
<1>2. Conjugate(z) = <<a, -b>> /\ Conjugate(Conjugate(z)) = <<a, -(-b)>> /\ -(-b) = b
  BY <1>1 DEF Conjugate
<1>3. Conjugate(z) \in NonZero
  BY <1>1, <1>2 DEF NonZero, Gaussian, Zero
<1> HIDE DEF a, b
<1>4. Times(Conjugate(z), z) = <<a * a - (-b) * b, a * b + (-b) * a>>
  BY <1>1, <1>2 DEF Times
<1>5. Times(z, z) = <<a * a - b * b, a * b + b * a>>
  BY <1>1 DEF Times
<1>6. Times(Conjugate(z), Conjugate(z)) = <<a * a - (-b) * (-b), a * (-b) + (-b) * a>>
  BY <1>2 DEF Times
<1>7. /\ a * a - (-b) * b = a * a + b * b /\ a * b + (-b) * a = 0
      /\ a * a - (-b) * (-b) = a * a - b * b /\ a * (-b) + (-b) * a = -(a * b + b * a)
  BY <1>1
<1>8. Times(Conjugate(z), z) = Norm(z)
  BY <1>1, <1>4, <1>7 DEF Norm, Real
<1>9. Conjugate(Times(z, z)) = Times(Conjugate(z), Conjugate(z))
  BY <1>5, <1>6, <1>7 DEF Conjugate
<1> QED BY <1>1, <1>2, <1>3, <1>8, <1>9, RingLaws DEF NonZero

\* Of two RZ: with the control at 1 the angle squared, away from it its length.
LEMMA SandwichRowRZ ==
  ASSUME NEW z \in NonZero, NEW x \in Gaussian, NEW y \in Gaussian
  PROVE  /\ SandwichRow("RZ", z, TRUE, 1, x, y) = RowOf(Matrix("RZ", Times(z, z)), 1, x, y)
         /\ SandwichRow("RZ", z, TRUE, 2, x, y) = RowOf(Matrix("RZ", Times(z, z)), 2, x, y)
         /\ SandwichRow("RZ", z, FALSE, 1, x, y) = Times(Norm(z), x)
         /\ SandwichRow("RZ", z, FALSE, 2, x, y) = Times(Norm(z), y)
<1> DEFINE w == Conjugate(z)
<1>1. /\ z \in Gaussian /\ w \in Gaussian /\ Conjugate(w) = z /\ Times(w, z) = Norm(z) /\ Times(z, w) = Norm(z)
      /\ Conjugate(Times(z, z)) = Times(w, w) /\ Times(z, z) \in Gaussian
  BY Angles, RingLaws DEF NonZero
<1> HIDE DEF w
<1>2. \A p \in Gaussian : Times(z, p) \in Gaussian /\ Times(w, p) \in Gaussian
  BY <1>1, RingLaws
<1>3. /\ RowOf(Matrix("RZ", w), 1, x, y) = Times(z, x) /\ RowOf(Matrix("RZ", w), 2, x, y) = Times(w, y)
      /\ RowOf(Matrix("RZ", w), 1, y, x) = Times(z, y) /\ RowOf(Matrix("RZ", w), 2, y, x) = Times(w, x)
  BY <1>1, RowsOfRZ
<1>4. /\ SandwichRow("RZ", z, TRUE, 1, x, y) = RowOf(Matrix("RZ", z), 1, Times(w, x), Times(z, y))
      /\ SandwichRow("RZ", z, TRUE, 2, x, y) = RowOf(Matrix("RZ", z), 2, Times(w, x), Times(z, y))
      /\ SandwichRow("RZ", z, FALSE, 1, x, y) = RowOf(Matrix("RZ", z), 1, Times(z, x), Times(w, y))
      /\ SandwichRow("RZ", z, FALSE, 2, x, y) = RowOf(Matrix("RZ", z), 2, Times(z, x), Times(w, y))
  BY <1>3 DEF SandwichRow, w
<1>5. /\ SandwichRow("RZ", z, TRUE, 1, x, y) = Times(w, Times(w, x))
      /\ SandwichRow("RZ", z, TRUE, 2, x, y) = Times(z, Times(z, y))
      /\ SandwichRow("RZ", z, FALSE, 1, x, y) = Times(w, Times(z, x))
      /\ SandwichRow("RZ", z, FALSE, 2, x, y) = Times(z, Times(w, y))
  <2>1. \A p, q \in Gaussian : RowOf(Matrix("RZ", z), 1, p, q) = Times(w, p) /\ RowOf(Matrix("RZ", z), 2, p, q) = Times(z, q)
    BY <1>1, RowsOfRZ DEF w
  <2> QED BY <1>2, <1>4, <2>1
<1>6. /\ Times(w, Times(w, x)) = Times(Times(w, w), x) /\ Times(z, Times(z, y)) = Times(Times(z, z), y)
      /\ Times(w, Times(z, x)) = Times(Norm(z), x) /\ Times(z, Times(w, y)) = Times(Norm(z), y)
  BY <1>1, RingLaws
<1>7. /\ RowOf(Matrix("RZ", Times(z, z)), 1, x, y) = Times(Times(w, w), x)
      /\ RowOf(Matrix("RZ", Times(z, z)), 2, x, y) = Times(Times(z, z), y)
  BY <1>1, RowsOfRZ
<1> QED BY <1>5, <1>6, <1>7

\* The same of two RY.
LEMMA SandwichRowRY ==
  ASSUME NEW z \in NonZero, NEW x \in Gaussian, NEW y \in Gaussian
  PROVE  /\ SandwichRow("RY", z, TRUE, 1, x, y) = RowOf(Matrix("RY", Times(z, z)), 1, x, y)
         /\ SandwichRow("RY", z, TRUE, 2, x, y) = RowOf(Matrix("RY", Times(z, z)), 2, x, y)
         /\ SandwichRow("RY", z, FALSE, 1, x, y) = Times(Norm(z), x)
         /\ SandwichRow("RY", z, FALSE, 2, x, y) = Times(Norm(z), y)
<1> DEFINE a == z[1]  b == z[2]  p == x[1]  q == x[2]  r == y[1]  s == y[2]  c == -b
           C == a * a - b * b  D == a * b + b * a  N == a * a + b * b
<1>1. /\ a \in Int /\ b \in Int /\ p \in Int /\ q \in Int /\ r \in Int /\ s \in Int
      /\ z = <<a, b>> /\ x = <<p, q>> /\ y = <<r, s>> /\ c \in Int
  BY DEF NonZero, Gaussian
<1>2. Conjugate(z) = <<a, c>> /\ Times(z, z) = <<C, D>> /\ Norm(z) = Real(N)
  BY <1>1 DEF Conjugate, Times, Norm
<1> HIDE DEF a, b, p, q, r, s
<1>3. C \in Int /\ D \in Int /\ N \in Int
  BY <1>1
<1> HIDE DEF c, C, D, N
<1>4. Times(Norm(z), x) = <<N * p, N * q>> /\ Times(Norm(z), y) = <<N * r, N * s>>
  BY <1>1, <1>2, <1>3, RealTimes
<1>5. RowsOfRY(C, D, p, q, r, s)
  BY <1>1, <1>3, RotationRows
<1>6. /\ SandwichRow("RY", z, TRUE, 1, x, y) = RowOf(Matrix("RY", Times(z, z)), 1, x, y)
      /\ SandwichRow("RY", z, TRUE, 2, x, y) = RowOf(Matrix("RY", Times(z, z)), 2, x, y)
  <2> DEFINE e1 == a * r - c * p  e2 == a * s - c * q  e3 == c * r + a * p  e4 == c * s + a * q
  <2>1. e1 \in Int /\ e2 \in Int /\ e3 \in Int /\ e4 \in Int
    BY <1>1
  <2>2. RowsOfRY(a, c, r, s, p, q)
    BY <1>1, RotationRows
  <2>3. /\ RowOf(Matrix("RY", <<a, c>>), 1, <<r, s>>, <<p, q>>) = <<e1, e2>>
        /\ RowOf(Matrix("RY", <<a, c>>), 2, <<r, s>>, <<p, q>>) = <<e3, e4>>
    BY <2>2 DEF RowsOfRY
  <2> HIDE DEF e1, e2, e3, e4
  <2>4. RowsOfRY(a, b, e3, e4, e1, e2)
    BY <1>1, <2>1, RotationRows
  <2>5. /\ SandwichRow("RY", z, TRUE, 1, x, y) = RowOf(Matrix("RY", <<a, b>>), 1, <<e3, e4>>, <<e1, e2>>)
        /\ SandwichRow("RY", z, TRUE, 2, x, y) = RowOf(Matrix("RY", <<a, b>>), 2, <<e3, e4>>, <<e1, e2>>)
    BY <1>1, <1>2, <2>3 DEF SandwichRow
  <2>6. /\ a * e3 - b * e1 = C * p - D * r
        /\ a * e4 - b * e2 = C * q - D * s
    BY <1>1, SMT DEF e1, e2, e3, e4, c, C, D, N
  <2>7. /\ b * e3 + a * e1 = D * p + C * r
        /\ b * e4 + a * e2 = D * q + C * s
    BY <1>1, SMT DEF e1, e2, e3, e4, c, C, D, N
  <2>8. /\ RowOf(Matrix("RY", Times(z, z)), 1, x, y) = <<C * p - D * r, C * q - D * s>>
        /\ RowOf(Matrix("RY", Times(z, z)), 2, x, y) = <<D * p + C * r, D * q + C * s>>
    BY <1>1, <1>2, <1>5 DEF RowsOfRY
  <2> QED BY <2>4, <2>5, <2>6, <2>7, <2>8 DEF RowsOfRY
<1>7. /\ SandwichRow("RY", z, FALSE, 1, x, y) = Times(Norm(z), x)
      /\ SandwichRow("RY", z, FALSE, 2, x, y) = Times(Norm(z), y)
  <2> DEFINE e1 == a * p - c * r  e2 == a * q - c * s  e3 == c * p + a * r  e4 == c * q + a * s
  <2>1. e1 \in Int /\ e2 \in Int /\ e3 \in Int /\ e4 \in Int
    BY <1>1
  <2>2. RowsOfRY(a, c, p, q, r, s)
    BY <1>1, RotationRows
  <2>3. /\ RowOf(Matrix("RY", <<a, c>>), 1, <<p, q>>, <<r, s>>) = <<e1, e2>>
        /\ RowOf(Matrix("RY", <<a, c>>), 2, <<p, q>>, <<r, s>>) = <<e3, e4>>
    BY <2>2 DEF RowsOfRY
  <2> HIDE DEF e1, e2, e3, e4
  <2>4. RowsOfRY(a, b, e1, e2, e3, e4)
    BY <1>1, <2>1, RotationRows
  <2>5. /\ SandwichRow("RY", z, FALSE, 1, x, y) = RowOf(Matrix("RY", <<a, b>>), 1, <<e1, e2>>, <<e3, e4>>)
        /\ SandwichRow("RY", z, FALSE, 2, x, y) = RowOf(Matrix("RY", <<a, b>>), 2, <<e1, e2>>, <<e3, e4>>)
    BY <1>1, <1>2, <2>3 DEF SandwichRow
  <2>6. /\ a * e1 - b * e3 = N * p
        /\ a * e2 - b * e4 = N * q
    BY <1>1, SMT DEF e1, e2, e3, e4, c, C, D, N
  <2>7. /\ b * e1 + a * e3 = N * r
        /\ b * e2 + a * e4 = N * s
    BY <1>1, SMT DEF e1, e2, e3, e4, c, C, D, N
  <2> QED BY <1>4, <2>4, <2>5, <2>6, <2>7 DEF RowsOfRY
<1> QED BY <1>6, <1>7

\* Two rotations between two CXs make a controlled one.
LEMMA SandwichIs ==
  ASSUME NEW wires, NEW v \in Vectors(wires), NEW base \in {"RY", "RZ"}, NEW z \in NonZero,
         NEW c \in wires, NEW t \in wires, c # t
  PROVE  Sandwich(base, z, c, t, v) = Controlled(base, Times(z, z), Norm(z), {c}, t, v)
<1> DEFINE w == Sandwich(base, z, c, t, v)  k == Controlled(base, Times(z, z), Norm(z), {c}, t, v)
<1>1. base \in Bases /\ Times(z, z) \in NonZero /\ Norm(z) \in Gaussian
  BY NonZeroTimes, NormNonZero DEF Bases, NonZero
<1>2. k \in Vectors(wires)
  BY <1>1, ControlledIsVector
<1>3. w \in Vectors(wires)
  <2>1. {} \in SUBSET wires /\ t \notin {}
    OBVIOUS
  <2> QED BY <2>1, SandwichAt
<1>6. ASSUME NEW u \in SUBSET wires, t \notin u
      PROVE  SandwichRows(base, z, c, t, v, u) /\ OneControl(base, Times(z, z), Norm(z), c, t, v, u)
  BY <1>6, SandwichAt, OneControlAt
<1> HIDE DEF w, k
<1>4. ASSUME NEW u \in SUBSET wires, t \notin u
      PROVE  w[u] = k[u] /\ w[u \cup {t}] = k[u \cup {t}]
  <2> DEFINE x == v[u]  y == v[u \cup {t}]
  <2>1. x \in Gaussian /\ y \in Gaussian
    BY DEF Vectors
  <2>2. w[u] = SandwichRow(base, z, c \in u, 1, x, y) /\ w[u \cup {t}] = SandwichRow(base, z, c \in u, 2, x, y)
    BY <1>4, <1>6 DEF SandwichRows, w
  <2>3. /\ c \in u => /\ k[u] = RowOf(Matrix(base, Times(z, z)), 1, x, y)
                      /\ k[u \cup {t}] = RowOf(Matrix(base, Times(z, z)), 2, x, y)
        /\ c \notin u => k[u] = Times(Norm(z), x) /\ k[u \cup {t}] = Times(Norm(z), y)
    BY <1>4, <1>6 DEF OneControl, k
  <2> HIDE DEF x, y
  <2>4. /\ SandwichRow(base, z, TRUE, 1, x, y) = RowOf(Matrix(base, Times(z, z)), 1, x, y)
        /\ SandwichRow(base, z, TRUE, 2, x, y) = RowOf(Matrix(base, Times(z, z)), 2, x, y)
        /\ SandwichRow(base, z, FALSE, 1, x, y) = Times(Norm(z), x)
        /\ SandwichRow(base, z, FALSE, 2, x, y) = Times(Norm(z), y)
    <3>1. CASE base = "RY"
      BY <2>1, <3>1, SandwichRowRY
    <3>2. CASE base = "RZ"
      BY <2>1, <3>2, SandwichRowRZ
    <3> QED BY <3>1, <3>2
  <2>5. CASE c \in u
    <3>1. (c \in u) = TRUE
      BY <2>5
    <3> QED BY <2>2, <2>3, <2>4, <3>1
  <2>6. CASE c \notin u
    <3>1. (c \in u) = FALSE
      BY <2>6
    <3> QED BY <2>2, <2>3, <2>4, <3>1
  <2> QED BY <2>5, <2>6
<1>5. \A s \in SUBSET wires : w[s] = k[s]
  <2> TAKE s \in SUBSET wires
  <2> DEFINE u == s \ {t}
  <2>1. u \in SUBSET wires /\ t \notin u /\ (s = u \/ s = u \cup {t})
    OBVIOUS
  <2> HIDE DEF u
  <2> QED BY <1>4, <2>1
<1>8. w = k
  BY <1>2, <1>3, <1>5 DEF Vectors
<1> QED BY <1>8 DEF w, k

\* RZ by a quarter, there and back, makes RY a RX, twice as long.
LEMMA QuarterTurns ==
  ASSUME NEW h \in Gaussian, NEW x \in Gaussian, NEW y \in Gaussian
  PROVE  /\ Times(<<1, 1>>, RowOf(Matrix("RY", h), 1, Times(<<1, -1>>, x), Times(<<1, 1>>, y)))
              = Times(Real(2), RowOf(Matrix("RX", h), 1, x, y))
         /\ Times(<<1, -1>>, RowOf(Matrix("RY", h), 2, Times(<<1, -1>>, x), Times(<<1, 1>>, y)))
              = Times(Real(2), RowOf(Matrix("RX", h), 2, x, y))
<1> DEFINE C == h[1]  D == h[2]  p == x[1]  q == x[2]  r == y[1]  s == y[2]
<1>1. /\ C \in Int /\ D \in Int /\ p \in Int /\ q \in Int /\ r \in Int /\ s \in Int
      /\ h = <<C, D>> /\ x = <<p, q>> /\ y = <<r, s>>
  BY DEF Gaussian
<1> HIDE DEF C, D, p, q, r, s
<1>2. \A e, f \in Int : Times(<<1, 1>>, <<e, f>>) = <<e - f, e + f>> /\ Times(<<1, -1>>, <<e, f>>) = <<e + f, f - e>>
  <2> TAKE e, f \in Int
  <2>1. Times(<<1, 1>>, <<e, f>>) = <<1 * e - 1 * f, 1 * f + 1 * e>>
    BY DEF Times
  <2>2. Times(<<1, -1>>, <<e, f>>) = <<1 * e - (-1) * f, 1 * f + (-1) * e>>
    BY DEF Times
  <2>3. 1 * e - 1 * f = e - f /\ 1 * f + 1 * e = e + f /\ 1 * e - (-1) * f = e + f /\ 1 * f + (-1) * e = f - e
    OBVIOUS
  <2> QED BY <2>1, <2>2, <2>3
<1> DEFINE e1 == p + q  e2 == q - p  e3 == r - s  e4 == r + s
           f1 == C * e1 - D * e3  f2 == C * e2 - D * e4  f3 == D * e1 + C * e3  f4 == D * e2 + C * e4
           g1 == C * p + D * s  g2 == C * q - D * r  g3 == D * q + C * r  g4 == C * s - D * p
<1>3. /\ e1 \in Int /\ e2 \in Int /\ e3 \in Int /\ e4 \in Int /\ f1 \in Int /\ f2 \in Int /\ f3 \in Int /\ f4 \in Int
      /\ g1 \in Int /\ g2 \in Int /\ g3 \in Int /\ g4 \in Int
  BY <1>1
<1>4. /\ f1 - f2 = 2 * g1 /\ f1 + f2 = 2 * g2 /\ f3 + f4 = 2 * g3 /\ f4 - f3 = 2 * g4
  BY <1>1, SMT
<1>5. Times(<<1, -1>>, x) = <<e1, e2>> /\ Times(<<1, 1>>, y) = <<e3, e4>>
  BY <1>1, <1>2
<1> HIDE DEF e1, e2, e3, e4
<1>6. RowsOfRY(C, D, e1, e2, e3, e4) /\ RowsOfRX(C, D, p, q, r, s)
  BY <1>1, <1>3, RotationRows
<1>7. /\ RowOf(Matrix("RY", h), 1, Times(<<1, -1>>, x), Times(<<1, 1>>, y)) = <<f1, f2>>
      /\ RowOf(Matrix("RY", h), 2, Times(<<1, -1>>, x), Times(<<1, 1>>, y)) = <<f3, f4>>
      /\ RowOf(Matrix("RX", h), 1, x, y) = <<g1, g2>> /\ RowOf(Matrix("RX", h), 2, x, y) = <<g3, g4>>
  BY <1>1, <1>5, <1>6 DEF RowsOfRY, RowsOfRX
<1> HIDE DEF f1, f2, f3, f4, g1, g2, g3, g4
<1>8. Times(Real(2), <<g1, g2>>) = <<2 * g1, 2 * g2>> /\ Times(Real(2), <<g3, g4>>) = <<2 * g3, 2 * g4>>
  BY <1>3, RealTimes
<1>9. Times(<<1, 1>>, <<f1, f2>>) = <<f1 - f2, f1 + f2>> /\ Times(<<1, -1>>, <<f3, f4>>) = <<f3 + f4, f4 - f3>>
  BY <1>2, <1>3
<1> QED BY <1>4, <1>7, <1>8, <1>9

\* A controlled rotation taken apart as execute_gate.cpp has it.
TakenApart(kind, base, k, z, c, t, psi, s) ==
  ExecSimulateCrot(kind, z, c, t, psi)[s] = Times(k, Controlled(base, Times(z, z), Norm(z), {c}, t, psi)[s])

\* CRX.
LEMMA TakenApartX ==
  ASSUME NEW wires, NEW psi \in Vectors(wires), NEW z \in NonZero, NEW c \in wires, NEW t \in wires, c # t,
         NEW u \in SUBSET wires, t \notin u
  PROVE  /\ ExecSimulateCrot("CRX", z, c, t, psi) \in Vectors(wires)
         /\ TakenApart("CRX", "RX", Real(2), z, c, t, psi, u)
         /\ TakenApart("CRX", "RX", Real(2), z, c, t, psi, u \cup {t})
<1> DEFINE e == <<1, 1>>  d == <<1, -1>>  v1 == Rotate("RZ", e, t, psi)  v2 == Sandwich("RY", z, c, t, v1)
           v3 == Rotate("RZ", d, t, v2)  one == u \cup {t}  h == Times(z, z)  N == Norm(z)
           k == Controlled("RX", h, N, {c}, t, psi)
<1>1. e \in NonZero /\ d \in NonZero /\ Conjugate(e) = d /\ Conjugate(d) = e /\ Times(e, d) = Real(2) /\ Times(d, e) = Real(2)
  <2>1. Conjugate(e) = d /\ Conjugate(d) = e
    <3>1. Conjugate(e) = d /\ e \in NonZero
      BY DEF Conjugate, NonZero, Gaussian, Zero
    <3> QED BY <3>1, Angles
  <2>2. Times(e, d) = <<1 * 1 - 1 * (-1), 1 * (-1) + 1 * 1>> /\ Times(d, e) = <<1 * 1 - (-1) * 1, 1 * 1 + (-1) * 1>>
    BY DEF Times
  <2>3. 1 * 1 - 1 * (-1) = 2 /\ 1 * (-1) + 1 * 1 = 0 /\ 1 * 1 - (-1) * 1 = 2 /\ 1 * 1 + (-1) * 1 = 0
    OBVIOUS
  <2>4. e \in NonZero /\ d \in NonZero
    BY DEF NonZero, Gaussian, Zero
  <2> QED BY <2>1, <2>2, <2>3, <2>4 DEF Real
<1>2. ExecSimulateCrot("CRX", z, c, t, psi) = Rotate("RZ", Conjugate(e), t, Sandwich("RY", z, c, t, Rotate("RZ", e, t, psi)))
  BY DEF ExecSimulateCrot, Sandwich, Rotate, Cx
<1>3. ExecSimulateCrot("CRX", z, c, t, psi) = v3
  BY <1>1, <1>2
<1>4. h \in NonZero /\ h \in Gaussian /\ N \in Gaussian /\ {"RX", "RY", "RZ"} \subseteq Bases
  BY NonZeroTimes, NormNonZero DEF Bases, NonZero
<1> HIDE DEF e, d
<1>5. /\ v1 \in Vectors(wires)
      /\ v1[u] = RowOf(Matrix("RZ", e), 1, psi[u], psi[one]) /\ v1[one] = RowOf(Matrix("RZ", e), 2, psi[u], psi[one])
  BY <1>1, <1>4, AloneAt DEF Rotate
<1> HIDE DEF v1
<1>6. v2 = Controlled("RY", h, N, {c}, t, v1)
  BY <1>5, SandwichIs
<1>7. v2 \in Vectors(wires)
  BY <1>4, <1>5, <1>6, ControlledIsVector
<1>8. OneControl("RY", h, N, c, t, v1, u) /\ OneControl("RX", h, N, c, t, psi, u)
  BY <1>5, OneControlAt
<1> HIDE DEF v2
<1>15. v3 \in Vectors(wires)
  BY <1>1, <1>4, <1>7, AloneAt DEF Rotate
<1>9. v3[u] = RowOf(Matrix("RZ", d), 1, v2[u], v2[one]) /\ v3[one] = RowOf(Matrix("RZ", d), 2, v2[u], v2[one])
  BY <1>1, <1>4, <1>7, AloneAt DEF Rotate
<1> HIDE DEF v3
<1> DEFINE x == psi[u]  y == psi[one]
<1>10. x \in Gaussian /\ y \in Gaussian /\ v2[u] \in Gaussian /\ v2[one] \in Gaussian /\ e \in Gaussian /\ d \in Gaussian
  BY <1>1, <1>7 DEF Vectors, NonZero
<1>11. v1[u] = Times(d, x) /\ v1[one] = Times(e, y)
  BY <1>1, <1>5, <1>10, RowsOfRZ
<1>12. v3[u] = Times(e, v2[u]) /\ v3[one] = Times(d, v2[one])
  BY <1>1, <1>9, <1>10, RowsOfRZ
<1>13. CASE c \in u
  <2>1. v2[u] = RowOf(Matrix("RY", h), 1, Times(d, x), Times(e, y)) /\ v2[one] = RowOf(Matrix("RY", h), 2, Times(d, x), Times(e, y))
    BY <1>6, <1>8, <1>11, <1>13 DEF OneControl
  <2>2. k[u] = RowOf(Matrix("RX", h), 1, x, y) /\ k[one] = RowOf(Matrix("RX", h), 2, x, y)
    BY <1>8, <1>13 DEF OneControl
  <2> HIDE DEF x, y, h, k, one
  <2>3. /\ Times(e, RowOf(Matrix("RY", h), 1, Times(d, x), Times(e, y))) = Times(Real(2), RowOf(Matrix("RX", h), 1, x, y))
        /\ Times(d, RowOf(Matrix("RY", h), 2, Times(d, x), Times(e, y))) = Times(Real(2), RowOf(Matrix("RX", h), 2, x, y))
    BY <1>4, <1>10, QuarterTurns DEF e, d
  <2>4. v3[u] = Times(Real(2), k[u]) /\ v3[one] = Times(Real(2), k[one])
    BY <1>12, <2>1, <2>2, <2>3
  <2> QED BY <1>3, <1>15, <2>4 DEF TakenApart, k, h, one, N
<1>14. CASE c \notin u
  <2>1. v2[u] = Times(N, Times(d, x)) /\ v2[one] = Times(N, Times(e, y))
    BY <1>6, <1>8, <1>11, <1>14 DEF OneControl
  <2>2. k[u] = Times(N, x) /\ k[one] = Times(N, y)
    BY <1>8, <1>14 DEF OneControl
  <2> HIDE DEF x, y, h, k, one, N
  <2>3. Times(N, x) \in Gaussian /\ Times(N, y) \in Gaussian
    BY <1>4, <1>10, RingLaws
  <2>4. Times(N, Times(d, x)) = Times(d, Times(N, x)) /\ Times(N, Times(e, y)) = Times(e, Times(N, y))
    BY <1>4, <1>10, RingLaws
  <2>5. Times(e, Times(d, Times(N, x))) = Times(Real(2), Times(N, x)) /\ Times(d, Times(e, Times(N, y))) = Times(Real(2), Times(N, y))
    BY <1>1, <1>10, <2>3, RingLaws
  <2>6. v3[u] = Times(Real(2), k[u]) /\ v3[one] = Times(Real(2), k[one])
    BY <1>12, <2>1, <2>2, <2>4, <2>5
  <2> QED BY <1>3, <1>15, <2>6 DEF TakenApart, k, h, one, N
<1> QED BY <1>3, <1>13, <1>14, <1>15

\* What the simulator makes of a gate is what the gate means, but for a factor.
LEMMA SimulatedIs ==
  ASSUME NEW wires, NEW psi \in Vectors(wires), NEW g, GateOK(g.kind, g.z, g.q, wires)
  PROVE  /\ ExecSimulate(g, psi) \in Vectors(wires)
         /\ Proportional(ExecSimulate(g, psi), Meaning(g.kind, g.z, g.q, psi))
<1> DEFINE kind == g.kind  z == g.z  q == g.q  c == q[1]  t == q[2]  v == ExecSimulate(g, psi)  w == Meaning(kind, z, q, psi)
<1>1. w \in Vectors(wires)
  BY MeaningIsVector
<1>2. CASE kind \notin {"CRX", "CRY", "CRZ"}
  <2>1. v = w
    BY <1>2 DEF ExecSimulate
  <2> QED BY <1>1, <2>1, ProportionalSame
<1>3. CASE kind \in {"CRX", "CRY", "CRZ"}
  <2> DEFINE base == GateInfo[kind].base
  <2>1. /\ kind # "SWAP" /\ FactorOf(kind, z) = Norm(z) /\ Arity(kind) = 2
        /\ (kind = "CRX" => base = "RX") /\ (kind = "CRY" => base = "RY") /\ (kind = "CRZ" => base = "RZ")
    BY <1>3 DEF FactorOf, Rotations, Arity, GateInfo
  <2>2. Len(q) = 2 /\ z \in NonZero
    BY <2>1 DEF GateOK
  <2>3. c \in wires /\ t \in wires /\ c # t
    BY <2>2, OperandsOf
  <2>4. ControlsOf(q) = {c} /\ TargetOf(q) = t
    BY <2>2 DEF ControlsOf, TargetOf
  <2>5. v = ExecSimulateCrot(kind, z, c, t, psi)
    BY <1>3 DEF ExecSimulate
  <2>6. w = Controlled(base, Times(z, z), Norm(z), {c}, t, psi)
    BY <2>1, <2>4, MeaningIs
  <2> HIDE DEF v, w, c, t, z, base, kind
  <2>7. CASE kind \in {"CRY", "CRZ"}
    <3>1. v = Sandwich(base, z, c, t, psi) /\ base \in {"RY", "RZ"}
      BY <2>1, <2>5, <2>7 DEF ExecSimulateCrot, Sandwich, Rotate, Cx
    <3>2. v = w
      BY <2>2, <2>3, <2>6, <3>1, SandwichIs
    <3> QED BY <1>1, <3>2, ProportionalSame DEF v, w, kind, z
  <2>8. CASE kind = "CRX"
    <3>1. v = ExecSimulateCrot("CRX", z, c, t, psi) /\ w = Controlled("RX", Times(z, z), Norm(z), {c}, t, psi)
      BY <2>1, <2>5, <2>6, <2>8
    <3>2. {} \in SUBSET wires /\ t \notin {}
      OBVIOUS
    <3>3. v \in Vectors(wires)
      BY <2>2, <2>3, <3>1, <3>2, TakenApartX
    <3>4. ASSUME NEW s \in SUBSET wires
          PROVE  v[s] = Times(Real(2), w[s])
      <4> DEFINE u == s \ {t}
      <4>1. u \in SUBSET wires /\ t \notin u /\ (s = u \/ s = u \cup {t})
        OBVIOUS
      <4> HIDE DEF u
      <4>2. /\ TakenApart("CRX", "RX", Real(2), z, c, t, psi, u)
            /\ TakenApart("CRX", "RX", Real(2), z, c, t, psi, u \cup {t})
        BY <2>2, <2>3, <4>1, TakenApartX
      <4> QED BY <3>1, <4>1, <4>2 DEF TakenApart
    <3>5. Real(2) \in NonZero
      BY DEF Real, NonZero, Gaussian, Zero
    <3>6. Proportional(v, w)
      BY <1>1, <3>3, <3>4, <3>5, Multiple
    <3> QED BY <3>3, <3>6 DEF v, w, kind, z
  <2> QED BY <1>3, <2>7, <2>8
<1> QED BY <1>2, <1>3

\* A state vector is simulated as the circuit is meant: the gates that Orkan does
\* not have, taken apart, leave it on the ray where the gate puts it.
THEOREM SimulationIsExact ==
  ASSUME NEW g, GateOK(g.kind, g.z, g.q, Qubits), NEW psi \in Vectors(Qubits), Support(psi) # {}
  PROVE  SameRay(ExecSimulate(g, psi), Meaning(g.kind, g.z, g.q, psi))
<1> DEFINE v == ExecSimulate(g, psi)  w == Meaning(g.kind, g.z, g.q, psi)
<1>1. v \in Vectors(Qubits) /\ Proportional(v, w)
  BY SimulatedIs
<1>2. w \in Vectors(Qubits) /\ Support(w) # {}
  BY MeaningIsVector, MeaningKeepsSome
<1> HIDE DEF v, w
<1>3. Support(v) # {}
  BY <1>1, <1>2, ProportionalSupport
<1>4. SameRay(v, w)
  BY <1>1, <1>2, <1>3, ProportionalRay
<1> QED BY <1>4 DEF v, w
-----------------------------------------------------------------------------
(* Bits and qubits. *)

\* What a bit may be.
BitRecords == [value : {0, 1}, qubit : Qubits \cup {Unpromoted}]
\* The bits names: no two of them have the same qubit.
BitsOK(a, names) ==
  /\ a \in [names -> BitRecords]
  /\ \A b, c \in names : a[b].qubit = a[c].qubit /\ ~IsClassical(a[b]) => b = c

\* The bits that are classical, and of those the ones that are 1.
ClassicalOf(a) == {b \in DOMAIN a : IsClassical(a[b])}
OnesOf(a) == {b \in ClassicalOf(a) : a[b].value = 1}
\* The qubits of the bits s that have one.
QubitsOf(a, s) == {a[b].qubit : b \in s \ ClassicalOf(a)}

\* The state of the bits, given that of the qubits.
Together(a, psi) ==
  [s \in SUBSET DOMAIN a |-> IF s \cap ClassicalOf(a) = OnesOf(a) THEN psi[QubitsOf(a, s)] ELSE Zero]

\* The qubits that no bit has are 0.
Within(a, psi) == \A s \in DOMAIN psi : psi[s] # Zero => s \subseteq QubitsOf(a, DOMAIN a)

\* The bits, by what they are.
LEMMA BitsAre ==
  ASSUME NEW names, NEW a, BitsOK(a, names)
  PROVE  /\ DOMAIN a = names /\ ClassicalOf(a) \in SUBSET names /\ OnesOf(a) \in SUBSET ClassicalOf(a)
         /\ \A b \in names : /\ b \in ClassicalOf(a) <=> IsClassical(a[b])
                             /\ ~IsClassical(a[b]) => a[b].qubit \in Qubits
                             /\ a[b].value \in {0, 1}
                             /\ b \in OnesOf(a) <=> IsClassical(a[b]) /\ a[b].value = 1
  BY DEF BitsOK, BitRecords, ClassicalOf, OnesOf, IsClassical

\* The qubits of bits.
LEMMA QubitsOfAre ==
  ASSUME NEW names, NEW a, BitsOK(a, names), NEW s \in SUBSET names
  PROVE  /\ QubitsOf(a, s) \in SUBSET Qubits
         /\ \A q : q \in QubitsOf(a, s) <=> \E b \in s : ~IsClassical(a[b]) /\ a[b].qubit = q
         /\ \A b \in names : ~IsClassical(a[b]) => (a[b].qubit \in QubitsOf(a, s) <=> b \in s)
<1>1. \A q : q \in QubitsOf(a, s) <=> \E b \in s : ~IsClassical(a[b]) /\ a[b].qubit = q
  BY BitsAre DEF QubitsOf
<1>2. QubitsOf(a, s) \in SUBSET Qubits
  BY <1>1, BitsAre
<1>3. \A b \in names : ~IsClassical(a[b]) => (a[b].qubit \in QubitsOf(a, s) <=> b \in s)
  BY <1>1 DEF BitsOK
<1> QED BY <1>1, <1>2, <1>3

\* The state of the bits is that of the qubits where the classical bits have
\* their values, and 0 elsewhere.
LEMMA TogetherAt ==
  ASSUME NEW names, NEW a, BitsOK(a, names), NEW psi, NEW s \in SUBSET names
  PROVE  Together(a, psi)[s] = IF s \cap ClassicalOf(a) = OnesOf(a) THEN psi[QubitsOf(a, s)] ELSE Zero
  BY BitsAre DEF Together

\* It is a vector.
LEMMA TogetherIsVector ==
  ASSUME NEW names, NEW a, BitsOK(a, names), NEW psi \in Vectors(Qubits)
  PROVE  Together(a, psi) \in Vectors(names)
<1>1. DOMAIN a = names
  BY BitsAre
<1>2. \A s \in SUBSET names : psi[QubitsOf(a, s)] \in Gaussian
  BY QubitsOfAre DEF Vectors
<1>3. Zero \in Gaussian
  BY Units
<1> QED BY <1>1, <1>2, <1>3 DEF Together, Vectors

\* Two vectors that have the same amplitudes are the same.
LEMMA SameVector ==
  ASSUME NEW wires, NEW phi \in Vectors(wires), NEW psi \in Vectors(wires),
         \A s \in SUBSET wires : phi[s] = psi[s]
  PROVE  phi = psi
  BY DEF Vectors

\* Qubits that cannot be told apart make bits that cannot.
LEMMA TogetherLinear ==
  ASSUME NEW names, NEW a, BitsOK(a, names), NEW phi \in Vectors(Qubits), NEW psi \in Vectors(Qubits),
         Proportional(phi, psi)
  PROVE  Proportional(Together(a, phi), Together(a, psi))
<1>1. PICK k \in NonZero, l \in NonZero : Factors(k, l, phi, psi)
  BY DEF Proportional
<1>2. \A s \in SUBSET Qubits : Times(k, phi[s]) = Times(l, psi[s])
  BY <1>1 DEF Factors, Vectors
<1>3. Times(k, Zero) = Zero /\ Times(l, Zero) = Zero
  BY Units DEF NonZero
<1>4. ASSUME NEW s \in SUBSET names
      PROVE  Times(k, Together(a, phi)[s]) = Times(l, Together(a, psi)[s])
  <2>1. QubitsOf(a, s) \in SUBSET Qubits
    BY QubitsOfAre
  <2>2. Together(a, phi)[s] = IF s \cap ClassicalOf(a) = OnesOf(a) THEN phi[QubitsOf(a, s)] ELSE Zero
    BY TogetherAt
  <2>3. Together(a, psi)[s] = IF s \cap ClassicalOf(a) = OnesOf(a) THEN psi[QubitsOf(a, s)] ELSE Zero
    BY TogetherAt
  <2> QED BY <1>2, <1>3, <2>1, <2>2, <2>3
<1>5. DOMAIN Together(a, phi) = SUBSET names
  BY TogetherIsVector DEF Vectors
<1>6. Factors(k, l, Together(a, phi), Together(a, psi))
  BY <1>4, <1>5 DEF Factors
<1> QED BY <1>6 DEF Proportional

-----------------------------------------------------------------------------
(* Gates on bits. *)

\* A row at two amplitudes that are 0.
LEMMA RowOfZeros ==
  ASSUME NEW m, MatrixOK(m), NEW r \in {1, 2}
  PROVE  RowOf(m, r, Zero, Zero) = Zero
<1>1. m.on0[r] \in Gaussian /\ m.on1[r] \in Gaussian
  BY DEF MatrixOK
<1> QED BY <1>1, Units DEF RowOf

\* A gate on a bit that has a qubit, whose classical controls are 1, is the gate
\* on the qubits that remain.
LEMMA ControlledTogether ==
  ASSUME NEW names, NEW a, BitsOK(a, names), NEW psi \in Vectors(Qubits),
         NEW base \in Bases, NEW half \in NonZero, NEW by \in Gaussian,
         NEW C \in SUBSET names, NEW t \in names, t \notin C, ~IsClassical(a[t]),
         \A c \in C : IsClassical(a[c]) => a[c].value = 1
  PROVE  Controlled(base, half, by, C, t, Together(a, psi))
           = Together(a, Controlled(base, half, by, QubitsOf(a, C), a[t].qubit, psi))
<1> DEFINE q == a[t].qubit  K == QubitsOf(a, C)  phi == Together(a, psi)
           chi == Controlled(base, half, by, K, q, psi)  m == Matrix(base, half)
           v == Controlled(base, half, by, C, t, phi)  w == Together(a, chi)
           cl == ClassicalOf(a)  ones == OnesOf(a)
<1>1. q \in Qubits /\ K \in SUBSET Qubits /\ t \notin cl /\ ones \in SUBSET cl
  BY BitsAre, QubitsOfAre
<1>2. phi \in Vectors(names)
  BY TogetherIsVector
<1>3. chi \in Vectors(Qubits)
  BY <1>1, ControlledIsVector
<1>4. v \in Vectors(names) /\ w \in Vectors(names)
  BY <1>2, <1>3, ControlledIsVector, TogetherIsVector
<1>5. MatrixOK(m)
  BY MatrixInvertible
<1>6. ASSUME NEW s \in SUBSET names
      PROVE  v[s] = w[s]
  <2> DEFINE zero == s \ {t}  one == s \cup {t}  S == QubitsOf(a, s)
  <2>1. zero \in SUBSET names /\ one \in SUBSET names /\ S \in SUBSET Qubits
    BY QubitsOfAre
  <2>2. zero \cap cl = s \cap cl /\ one \cap cl = s \cap cl
    BY <1>1
  <2>3. phi[s] = IF s \cap cl = ones THEN psi[S] ELSE Zero
    BY TogetherAt
  <2>4. phi[zero] = IF s \cap cl = ones THEN psi[QubitsOf(a, zero)] ELSE Zero
    BY <2>1, <2>2, TogetherAt
  <2>5. phi[one] = IF s \cap cl = ones THEN psi[QubitsOf(a, one)] ELSE Zero
    BY <2>1, <2>2, TogetherAt
  <2>6. v[s] = IF C \subseteq s THEN AtTarget(base, half, t, phi, s) ELSE Times(by, phi[s])
    BY <1>2, ControlledAt
  <2>7. w[s] = IF s \cap cl = ones THEN chi[S] ELSE Zero
    BY TogetherAt
  <2>8. AtTarget(base, half, t, phi, s) = RowOf(m, IF t \in s THEN 2 ELSE 1, phi[zero], phi[one])
    BY DEF AtTarget
  <2>9. CASE s \cap cl = ones
    <3>1. QubitsOf(a, zero) = S \ {q} /\ QubitsOf(a, one) = S \cup {q} /\ (t \in s <=> q \in S)
      <4>1. \A p : p \in S <=> \E b \in s : ~IsClassical(a[b]) /\ a[b].qubit = p
        BY QubitsOfAre
      <4>2. \A p : p \in QubitsOf(a, zero) <=> \E b \in zero : ~IsClassical(a[b]) /\ a[b].qubit = p
        BY <2>1, QubitsOfAre
      <4>3. \A p : p \in QubitsOf(a, one) <=> \E b \in one : ~IsClassical(a[b]) /\ a[b].qubit = p
        BY <2>1, QubitsOfAre
      <4>4. \A b \in names : a[b].qubit = q => b = t
        BY DEF BitsOK
      <4>5. \A p : p \in QubitsOf(a, zero) <=> p \in S /\ p # q
        BY <4>1, <4>2, <4>4
      <4>6. \A p : p \in QubitsOf(a, one) <=> p \in S \/ p = q
        BY <4>1, <4>3
      <4>7. t \in s <=> q \in S
        BY QubitsOfAre
      <4> QED BY <4>5, <4>6, <4>7
    <3>2. C \subseteq s <=> K \subseteq S
      <4>1. ASSUME C \subseteq s  PROVE K \subseteq S
        BY <4>1, QubitsOfAre
      <4>2. ASSUME K \subseteq S, NEW c \in C  PROVE c \in s
        <5>1. CASE IsClassical(a[c])
          <6>1. c \in ones
            BY <5>1, BitsAre
          <6> QED BY <2>9, <6>1
        <5>2. CASE ~IsClassical(a[c])
          <6>1. a[c].qubit \in K
            BY <5>2, QubitsOfAre
          <6> QED BY <4>2, <5>2, <6>1, QubitsOfAre
        <5> QED BY <5>1, <5>2
      <4> QED BY <4>1, <4>2
    <3>3. chi[S] = IF K \subseteq S THEN AtTarget(base, half, q, psi, S) ELSE Times(by, psi[S])
      BY <2>1, ControlledAt
    <3>4. AtTarget(base, half, q, psi, S) = RowOf(m, IF q \in S THEN 2 ELSE 1, psi[S \ {q}], psi[S \cup {q}])
      BY DEF AtTarget
    <3>5. phi[s] = psi[S] /\ phi[zero] = psi[S \ {q}] /\ phi[one] = psi[S \cup {q}]
      BY <2>3, <2>4, <2>5, <2>9, <3>1
    <3>6. AtTarget(base, half, t, phi, s) = AtTarget(base, half, q, psi, S)
      BY ONLY <2>8, <3>1, <3>4, <3>5
    <3> HIDE DEF v, w, phi, chi, K, S, cl, ones
    <3> QED BY <2>6, <2>7, <2>9, <3>2, <3>3, <3>5, <3>6
  <2>10. CASE s \cap cl # ones
    <3>1. phi[s] = Zero /\ phi[zero] = Zero /\ phi[one] = Zero
      BY <2>3, <2>4, <2>5, <2>10
    <3>2. AtTarget(base, half, t, phi, s) = Zero
      BY <1>5, <2>8, <3>1, RowOfZeros
    <3>3. Times(by, Zero) = Zero
      BY Units
    <3> QED BY <2>6, <2>7, <2>10, <3>1, <3>2, <3>3
  <2> QED BY <2>9, <2>10
<1> HIDE DEF v, w
<1>7. v = w
  BY <1>4, <1>6, SameVector
<1> QED BY <1>7 DEF v, w

\* A classical control that is 0 leaves the bits as they are, up to a factor.
LEMMA ControlledOff ==
  ASSUME NEW names, NEW a, BitsOK(a, names), NEW psi \in Vectors(Qubits),
         NEW base \in Bases, NEW half \in NonZero, NEW by \in Gaussian,
         NEW C \in SUBSET names, NEW t \in names, t \notin C,
         NEW c \in C, IsClassical(a[c]), a[c].value = 0
  PROVE  \A s \in SUBSET names :
           Controlled(base, half, by, C, t, Together(a, psi))[s] = Times(by, Together(a, psi)[s])
<1> DEFINE phi == Together(a, psi)  m == Matrix(base, half)  v == Controlled(base, half, by, C, t, phi)
<1>1. phi \in Vectors(names)
  BY TogetherIsVector
<1>2. c \in ClassicalOf(a) /\ c \notin OnesOf(a) /\ c # t
  BY BitsAre
<1>3. MatrixOK(m)
  BY MatrixInvertible
<1>4. \A s \in SUBSET names : c \in s => phi[s] = Zero
  BY <1>2, TogetherAt
<1>5. ASSUME NEW s \in SUBSET names
      PROVE  v[s] = Times(by, phi[s])
  <2>1. v[s] = IF C \subseteq s THEN AtTarget(base, half, t, phi, s) ELSE Times(by, phi[s])
    BY <1>1, ControlledAt
  <2>2. CASE C \subseteq s
    <3> DEFINE zero == s \ {t}  one == s \cup {t}
    <3>1. phi[s] = Zero /\ phi[zero] = Zero /\ phi[one] = Zero
      BY <1>2, <1>4, <2>2
    <3>2. AtTarget(base, half, t, phi, s) = RowOf(m, IF t \in s THEN 2 ELSE 1, phi[zero], phi[one])
      BY DEF AtTarget
    <3>3. AtTarget(base, half, t, phi, s) = Zero
      BY <1>3, <3>1, <3>2, RowOfZeros
    <3>4. Times(by, Zero) = Zero
      BY Units
    <3> QED BY <2>1, <2>2, <3>1, <3>3, <3>4
  <2>3. CASE ~(C \subseteq s)
    BY <2>1, <2>3
  <2> QED BY <2>2, <2>3
<1> QED BY <1>5

\* The matrices of the gates that keep 0 and 1, and of those that exchange them.
LEMMA Diagonals ==
  ASSUME NEW half \in NonZero
  PROVE  /\ \A base \in {"Z", "S", "P", "RZ"} :
              Matrix(base, half).on1[1] = Zero /\ Matrix(base, half).on0[2] = Zero
         /\ \A base \in {"X", "Y"} :
              Matrix(base, half).on0[1] = Zero /\ Matrix(base, half).on1[2] = Zero
<1>1. ASSUME NEW base \in {"Z", "S", "P", "RZ"}
      PROVE  Matrix(base, half).on1[1] = Zero /\ Matrix(base, half).on0[2] = Zero
  BY DEF Matrix
<1>2. ASSUME NEW base \in {"X", "Y"}
      PROVE  Matrix(base, half).on0[1] = Zero /\ Matrix(base, half).on1[2] = Zero
  BY DEF Matrix
<1> QED BY <1>1, <1>2

\* What such matrices leave, and that they leave something.
LEMMA RowsOfDiagonals ==
  ASSUME NEW m, MatrixOK(m), Times(m.on0[1], m.on1[2]) # Times(m.on0[2], m.on1[1]),
         NEW x \in Gaussian, NEW y \in Gaussian
  PROVE  /\ m.on1[1] = Zero /\ m.on0[2] = Zero =>
              /\ RowOf(m, 1, x, y) = Times(m.on0[1], x) /\ RowOf(m, 2, x, y) = Times(m.on1[2], y)
              /\ m.on0[1] \in NonZero /\ m.on1[2] \in NonZero
         /\ m.on0[1] = Zero /\ m.on1[2] = Zero =>
              /\ RowOf(m, 1, x, y) = Times(m.on1[1], y) /\ RowOf(m, 2, x, y) = Times(m.on0[2], x)
              /\ m.on1[1] \in NonZero /\ m.on0[2] \in NonZero
<1> DEFINE p == m.on0[1]  q == m.on0[2]  r == m.on1[1]  u == m.on1[2]
<1>1. p \in Gaussian /\ q \in Gaussian /\ r \in Gaussian /\ u \in Gaussian
  BY DEF MatrixOK
<1>2. RowOf(m, 1, x, y) = Plus(Times(p, x), Times(r, y)) /\ RowOf(m, 2, x, y) = Plus(Times(q, x), Times(u, y))
  BY DEF RowOf
<1>3. Times(p, u) # Times(q, r)
  OBVIOUS
<1> HIDE DEF p, q, r, u
<1>4. /\ Times(p, x) \in Gaussian /\ Times(q, x) \in Gaussian /\ Times(r, y) \in Gaussian /\ Times(u, y) \in Gaussian
  BY <1>1, RingLaws
<1>5. \A g \in Gaussian : Plus(g, Zero) = g /\ Plus(Zero, g) = g /\ Times(Zero, g) = Zero /\ Times(g, Zero) = Zero
  <2> SUFFICES ASSUME NEW g \in Gaussian
               PROVE  Plus(g, Zero) = g /\ Plus(Zero, g) = g /\ Times(Zero, g) = Zero /\ Times(g, Zero) = Zero
    OBVIOUS
  <2>1. Zero \in Gaussian
    BY Units
  <2> QED BY <2>1, Units, RingLaws
<1>6. r = Zero /\ q = Zero =>
        /\ RowOf(m, 1, x, y) = Times(p, x) /\ RowOf(m, 2, x, y) = Times(u, y) /\ p # Zero /\ u # Zero
  BY <1>1, <1>2, <1>3, <1>4, <1>5
<1>7. p = Zero /\ u = Zero =>
        /\ RowOf(m, 1, x, y) = Times(r, y) /\ RowOf(m, 2, x, y) = Times(q, x) /\ r # Zero /\ q # Zero
  BY <1>1, <1>2, <1>3, <1>4, <1>5
<1> QED BY <1>1, <1>6, <1>7 DEF NonZero, p, q, r, u

\* The vector v is a multiple of w.
Multiplied(names, v, w) == \E k \in NonZero : \A s \in SUBSET names : v[s] = Times(k, w[s])

\* A gate that keeps 0 and 1, on classical bits, its controls 1.
LEMMA ControlledKept ==
  ASSUME NEW names, NEW a, BitsOK(a, names), NEW psi \in Vectors(Qubits),
         NEW base \in {"Z", "S", "P", "RZ"}, NEW half \in NonZero, NEW by \in Gaussian,
         NEW C \in SUBSET names, NEW t \in names, t \notin C, IsClassical(a[t]),
         \A c \in C : IsClassical(a[c]) /\ a[c].value = 1
  PROVE  Multiplied(names, Controlled(base, half, by, C, t, Together(a, psi)), Together(a, psi))
<1> DEFINE phi == Together(a, psi)  m == Matrix(base, half)  v == Controlled(base, half, by, C, t, phi)
           k == IF a[t].value = 1 THEN m.on1[2] ELSE m.on0[1]
           cl == ClassicalOf(a)  ones == OnesOf(a)
<1>1. phi \in Vectors(names)
  BY TogetherIsVector
<1>2. C \subseteq ones /\ t \in cl /\ (t \in ones <=> a[t].value = 1) /\ ones \subseteq cl
  BY BitsAre
<1>3. base \in Bases
  BY DEF Bases
<1>4. MatrixOK(m) /\ Times(m.on0[1], m.on1[2]) # Times(m.on0[2], m.on1[1])
  BY <1>3, MatrixInvertible
<1>5. m.on1[1] = Zero /\ m.on0[2] = Zero
  BY Diagonals
<1> DEFINE p == m.on0[1]  u == m.on1[2]
<1>6. /\ \A x, y \in Gaussian : RowOf(m, 1, x, y) = Times(p, x) /\ RowOf(m, 2, x, y) = Times(u, y)
      /\ p \in NonZero /\ u \in NonZero
  <2>1. Zero \in Gaussian
    BY Units
  <2> QED BY <1>4, <1>5, <2>1, RowsOfDiagonals
<1>7. k \in NonZero
  BY <1>6
<1>8. \A s \in SUBSET names : s \cap cl # ones => phi[s] = Zero
  BY TogetherAt
<1>9. \A s \in SUBSET names : phi[s] \in Gaussian
  BY <1>1 DEF Vectors
<1>10. k = IF t \in ones THEN u ELSE p
  BY <1>2
<1>11. \A s \in SUBSET names : AtTarget(base, half, t, phi, s) = RowOf(m, IF t \in s THEN 2 ELSE 1, phi[s \ {t}], phi[s \cup {t}])
  BY DEF AtTarget
<1>12. \A s \in SUBSET names : v[s] = IF C \subseteq s THEN AtTarget(base, half, t, phi, s) ELSE Times(by, phi[s])
  BY <1>1, ControlledAt
<1>13. \A g \in Gaussian : Times(g, Zero) = Zero
  BY Units
<1> HIDE DEF m, p, u, phi, v, cl, ones, k
<1>14. ASSUME NEW s \in SUBSET names
      PROVE  v[s] = Times(k, phi[s])
  <2>1. C \subseteq s => v[s] = IF t \in s THEN Times(u, phi[s]) ELSE Times(p, phi[s])
    <3>1. (t \in s => s \cup {t} = s) /\ (t \notin s => s \ {t} = s)
      OBVIOUS
    <3>2. phi[s \ {t}] \in Gaussian /\ phi[s \cup {t}] \in Gaussian
      BY <1>9
    <3>3. RowOf(m, 1, phi[s \ {t}], phi[s \cup {t}]) = Times(p, phi[s \ {t}])
      BY <1>6, <3>2
    <3>4. RowOf(m, 2, phi[s \ {t}], phi[s \cup {t}]) = Times(u, phi[s \cup {t}])
      BY <1>6, <3>2
    <3> QED BY <1>11, <1>12, <3>1, <3>3, <3>4
  <2>2. CASE s \cap cl = ones
    <3>1. C \subseteq s /\ (t \in s <=> t \in ones)
      BY <1>2, <2>2
    <3> QED BY <1>10, <2>1, <3>1
  <2>3. CASE s \cap cl # ones
    <3>1. phi[s] = Zero
      BY <1>8, <2>3
    <3>2. p \in Gaussian /\ u \in Gaussian /\ k \in Gaussian
      BY <1>6, <1>7 DEF NonZero
    <3> QED BY <1>12, <1>13, <2>1, <3>1, <3>2
  <2> QED BY <2>2, <2>3
<1> QED BY <1>7, <1>14 DEF phi, v, Multiplied

\* The bits b are the bits a, but that the value of t is the other one.
FlippedAt(a, b, t) == b = [a EXCEPT ![t].value = 1 - @]
\* But that x and y have each other's values.
ExchangedAt(a, b, x, y) == b = [a EXCEPT ![x].value = a[y].value, ![y].value = a[x].value]

\* A gate that exchanges 0 and 1, on classical bits, its controls 1, flips the
\* value of the last.
LEMMA ControlledFlips ==
  ASSUME NEW names, NEW a, BitsOK(a, names), NEW psi \in Vectors(Qubits),
         NEW base \in {"X", "Y"}, NEW half \in NonZero, NEW by \in Gaussian,
         NEW C \in SUBSET names, NEW t \in names, t \notin C, IsClassical(a[t]),
         \A c \in C : IsClassical(a[c]) /\ a[c].value = 1,
         NEW b, FlippedAt(a, b, t)
  PROVE  /\ BitsOK(b, names)
         /\ Multiplied(names, Controlled(base, half, by, C, t, Together(a, psi)), Together(b, psi))
<1> DEFINE phi == Together(a, psi)  chi == Together(b, psi)
           m == Matrix(base, half)  v == Controlled(base, half, by, C, t, phi)
           p == m.on1[1]  u == m.on0[2]
           cl == ClassicalOf(a)  ones == OnesOf(a)  nones == OnesOf(b)
           k == IF t \in ones THEN p ELSE u
<1>1. BitsOK(b, names)
  <2>1. a[t].value \in {0, 1} /\ a[t] \in BitRecords /\ a \in [names -> BitRecords]
    BY DEF BitsOK, BitRecords
  <2>2. 1 - a[t].value \in {0, 1}
    BY <2>1
  <2>3. [a[t] EXCEPT !.value = 1 - @] \in BitRecords
    BY <2>1, <2>2 DEF BitRecords
  <2>4. b \in [names -> BitRecords]
    BY <2>1, <2>3 DEF FlippedAt
  <2>5. \A c \in names : b[c].qubit = a[c].qubit
    BY <2>1 DEF BitRecords, FlippedAt
  <2> QED BY <2>4, <2>5 DEF BitsOK, IsClassical
<1>2. ClassicalOf(b) = cl /\ \A s \in SUBSET names : QubitsOf(b, s) = QubitsOf(a, s)
  <2>1. DOMAIN b = names /\ DOMAIN a = names /\ \A c \in names : b[c].qubit = a[c].qubit
    BY DEF BitsOK, BitRecords, FlippedAt
  <2>2. ClassicalOf(b) = cl
    BY <2>1 DEF ClassicalOf, IsClassical
  <2> QED BY <2>1, <2>2 DEF QubitsOf
<1>3. \A c \in names : c # t => (c \in nones <=> c \in ones)
  <2>1. \A c \in names : c # t => b[c] = a[c]
    BY DEF BitsOK, FlippedAt
  <2> QED BY <1>1, <2>1, BitsAre
<1>4. t \in nones <=> t \notin ones
  <2>1. b[t].value = 1 - a[t].value /\ a[t].value \in {0, 1} /\ IsClassical(b[t])
    BY DEF BitsOK, BitRecords, IsClassical, FlippedAt
  <2> QED BY <1>1, <2>1, BitsAre
<1>5. phi \in Vectors(names) /\ chi \in Vectors(names)
  BY <1>1, TogetherIsVector
<1>6. C \subseteq ones /\ t \in cl /\ ones \subseteq cl /\ cl \subseteq names /\ nones \subseteq cl
  <2>1. nones \subseteq cl
    BY <1>1, <1>2, BitsAre
  <2> QED BY <2>1, BitsAre
<1>7. MatrixOK(m) /\ Times(m.on0[1], m.on1[2]) # Times(m.on0[2], m.on1[1])
  BY MatrixInvertible DEF Bases
<1>8. m.on0[1] = Zero /\ m.on1[2] = Zero
  BY Diagonals
<1>9. /\ \A x, y \in Gaussian : RowOf(m, 1, x, y) = Times(p, y) /\ RowOf(m, 2, x, y) = Times(u, x)
      /\ p \in NonZero /\ u \in NonZero
  <2>1. Zero \in Gaussian
    BY Units
  <2> QED BY <1>7, <1>8, <2>1, RowsOfDiagonals
<1>10. k \in NonZero
  BY <1>9
<1>11. \A s \in SUBSET names : phi[s] = IF s \cap cl = ones THEN psi[QubitsOf(a, s)] ELSE Zero
  BY TogetherAt
<1>12. \A s \in SUBSET names : chi[s] = IF s \cap cl = nones THEN psi[QubitsOf(a, s)] ELSE Zero
  BY <1>1, <1>2, TogetherAt
<1>13. \A s \in SUBSET names : phi[s] \in Gaussian /\ chi[s] \in Gaussian
  BY <1>5 DEF Vectors
<1>14. \A s \in SUBSET names : AtTarget(base, half, t, phi, s) = RowOf(m, IF t \in s THEN 2 ELSE 1, phi[s \ {t}], phi[s \cup {t}])
  BY DEF AtTarget
<1>15. \A s \in SUBSET names : v[s] = IF C \subseteq s THEN AtTarget(base, half, t, phi, s) ELSE Times(by, phi[s])
  BY <1>5, ControlledAt
<1>16. \A g \in Gaussian : Times(g, Zero) = Zero
  BY Units
<1>17. \A s, r \in SUBSET names : s \ {t} = r \ {t} => QubitsOf(a, s) = QubitsOf(a, r)
  BY <1>6 DEF QubitsOf
<1> HIDE DEF m, p, u, phi, chi, v, cl, ones, nones, k
<1>18. ASSUME NEW s \in SUBSET names
      PROVE  v[s] = Times(k, chi[s])
  <2> DEFINE zero == s \ {t}  one == s \cup {t}
  <2>1. C \subseteq s => v[s] = IF t \in s THEN Times(u, phi[zero]) ELSE Times(p, phi[one])
    <3>1. phi[zero] \in Gaussian /\ phi[one] \in Gaussian
      BY <1>13
    <3>2. RowOf(m, 1, phi[zero], phi[one]) = Times(p, phi[one])
      BY <1>9, <3>1
    <3>3. RowOf(m, 2, phi[zero], phi[one]) = Times(u, phi[zero])
      BY <1>9, <3>1
    <3> QED BY <1>14, <1>15, <3>2, <3>3
  <2>2. zero \in SUBSET names /\ one \in SUBSET names
    OBVIOUS
  <2>3. QubitsOf(a, zero) = QubitsOf(a, s) /\ QubitsOf(a, one) = QubitsOf(a, s)
    <3>1. zero \ {t} = s \ {t} /\ one \ {t} = s \ {t}
      OBVIOUS
    <3> QED BY <1>17, <2>2, <3>1
  <2>4. CASE s \cap cl = nones
    <3>1. C \subseteq s /\ (t \in s <=> t \notin ones)
      BY <1>3, <1>4, <1>6, <2>4
    <3>2. CASE t \in s
      <4>1. zero \cap cl = ones
        BY <1>3, <1>6, <2>4, <3>1, <3>2
      <4>2. phi[zero] = psi[QubitsOf(a, s)]
        BY <1>11, <2>2, <2>3, <4>1
      <4>3. chi[s] = psi[QubitsOf(a, s)] /\ k = u
        BY <1>12, <2>4, <3>1, <3>2 DEF k
      <4> QED BY <2>1, <3>1, <3>2, <4>2, <4>3
    <3>3. CASE t \notin s
      <4>1. one \cap cl = ones
        BY <1>3, <1>6, <2>4, <3>1, <3>3
      <4>2. phi[one] = psi[QubitsOf(a, s)]
        BY <1>11, <2>2, <2>3, <4>1
      <4>3. chi[s] = psi[QubitsOf(a, s)] /\ k = p
        BY <1>12, <2>4, <3>1, <3>3 DEF k
      <4> QED BY <2>1, <3>1, <3>3, <4>2, <4>3
    <3> QED BY <3>2, <3>3
  <2>5. CASE s \cap cl # nones
    <3>1. chi[s] = Zero
      BY <1>12, <2>5
    <3>2. p \in Gaussian /\ u \in Gaussian /\ k \in Gaussian
      BY <1>9, <1>10 DEF NonZero
    <3>3. CASE C \subseteq s /\ t \in s
      <4>1. zero \cap cl # ones
        BY <1>3, <1>4, <1>6, <2>5, <3>3
      <4>2. phi[zero] = Zero
        BY <1>11, <2>2, <4>1
      <4> QED BY <1>16, <2>1, <3>1, <3>2, <3>3, <4>2
    <3>4. CASE C \subseteq s /\ t \notin s
      <4>1. one \cap cl # ones
        BY <1>3, <1>4, <1>6, <2>5, <3>4
      <4>2. phi[one] = Zero
        BY <1>11, <2>2, <4>1
      <4> QED BY <1>16, <2>1, <3>1, <3>2, <3>4, <4>2
    <3>5. CASE ~(C \subseteq s)
      <4>1. s \cap cl # ones
        BY <1>6, <3>5
      <4>2. phi[s] = Zero
        BY <1>11, <4>1
      <4> QED BY <1>15, <1>16, <3>1, <3>2, <3>5, <4>2
    <3> QED BY <3>3, <3>4, <3>5
  <2> QED BY <2>4, <2>5
<1> QED BY <1>1, <1>10, <1>18 DEF phi, chi, v, Multiplied

\* SWAP of classical bits exchanges their values.
LEMMA SwapValues ==
  ASSUME NEW names, NEW a, BitsOK(a, names), NEW psi \in Vectors(Qubits),
         NEW x \in names, NEW y \in names, IsClassical(a[x]), IsClassical(a[y]),
         NEW b, ExchangedAt(a, b, x, y)
  PROVE  BitsOK(b, names) /\ Exchange(x, y, Together(a, psi)) = Together(b, psi)
<1> DEFINE phi == Together(a, psi)  chi == Together(b, psi)  v == Exchange(x, y, phi)
           cl == ClassicalOf(a)  ones == OnesOf(a)  nones == OnesOf(b)
<1>1. /\ b \in [names -> BitRecords] /\ \A c \in names : b[c].qubit = a[c].qubit
      /\ b[x].value = a[y].value /\ b[y].value = a[x].value
      /\ \A c \in names : c # x /\ c # y => b[c].value = a[c].value
  BY DEF BitsOK, BitRecords, ExchangedAt
<1>2. BitsOK(b, names)
  BY <1>1 DEF BitsOK, IsClassical
<1>3. ClassicalOf(b) = cl /\ \A s \in SUBSET names : QubitsOf(b, s) = QubitsOf(a, s)
  <2>1. DOMAIN b = names /\ DOMAIN a = names
    BY <1>1 DEF BitsOK
  <2>2. ClassicalOf(b) = cl
    BY <1>1, <2>1 DEF ClassicalOf, IsClassical
  <2> QED BY <1>1, <2>1, <2>2 DEF QubitsOf
<1>4. \A c \in names : (c \in ones <=> c \in cl /\ a[c].value = 1) /\ (c \in nones <=> c \in cl /\ b[c].value = 1)
  BY <1>2, <1>3, BitsAre
<1>5. x \in cl /\ y \in cl /\ cl \subseteq names /\ ones \subseteq cl /\ nones \subseteq cl
  <2>1. nones \subseteq cl
    BY <1>2, <1>3, BitsAre
  <2> QED BY <2>1, BitsAre
<1>6. /\ x \in nones <=> y \in ones
      /\ y \in nones <=> x \in ones
      /\ \A c \in names : c # x /\ c # y => (c \in nones <=> c \in ones)
  BY <1>1, <1>4, <1>5
<1>7. phi \in Vectors(names) /\ chi \in Vectors(names)
  BY <1>2, TogetherIsVector
<1>8. v \in Vectors(names)
  BY <1>7, ExchangeIsVector
<1>9. \A s \in SUBSET names : phi[s] = IF s \cap cl = ones THEN psi[QubitsOf(a, s)] ELSE Zero
  BY TogetherAt
<1>10. \A s \in SUBSET names : chi[s] = IF s \cap cl = nones THEN psi[QubitsOf(a, s)] ELSE Zero
  BY <1>2, <1>3, TogetherAt
<1>11. \A s \in SUBSET names : v[s] = phi[Swapped(x, y, s)]
  BY <1>7, ExchangeAt
<1>12. \A s, r \in SUBSET names : s \ cl = r \ cl => QubitsOf(a, s) = QubitsOf(a, r)
  BY DEF QubitsOf
<1> HIDE DEF phi, chi, v, cl, ones, nones
<1>13. ASSUME NEW s \in SUBSET names
      PROVE  v[s] = chi[s]
  <2> DEFINE r == Swapped(x, y, s)
  <2>1. /\ r \in SUBSET names /\ (x \in r <=> y \in s) /\ (y \in r <=> x \in s)
        /\ \A c \in names : c # x /\ c # y => (c \in r <=> c \in s)
    BY DEF Swapped
  <2> HIDE DEF r
  <2>2. r \cap cl = ones <=> s \cap cl = nones
    <3>1. \A z \in SUBSET names, w \in SUBSET cl : z \cap cl = w <=> \A c \in cl : c \in z <=> c \in w
      BY <1>5
    <3>2. r \cap cl = ones <=> \A c \in cl : c \in r <=> c \in ones
      BY <1>5, <2>1, <3>1
    <3>3. s \cap cl = nones <=> \A c \in cl : c \in s <=> c \in nones
      BY <1>5, <3>1
    <3> QED BY <1>5, <1>6, <2>1, <3>2, <3>3
  <2>3. QubitsOf(a, r) = QubitsOf(a, s)
    <3>1. r \ cl = s \ cl
      BY <1>5, <2>1
    <3> QED BY <1>12, <2>1, <3>1
  <2> QED BY <1>9, <1>10, <1>11, <2>1, <2>2, <2>3 DEF r
<1>14. v = chi
  BY <1>7, <1>8, <1>13, SameVector
<1> QED BY <1>2, <1>14 DEF v, phi, chi

\* SWAP of bits that have qubits exchanges those.
LEMMA SwapTogether ==
  ASSUME NEW names, NEW a, BitsOK(a, names), NEW psi \in Vectors(Qubits),
         NEW x \in names, NEW y \in names, ~IsClassical(a[x]), ~IsClassical(a[y])
  PROVE  Exchange(x, y, Together(a, psi)) = Together(a, Exchange(a[x].qubit, a[y].qubit, psi))
<1> DEFINE phi == Together(a, psi)  p == a[x].qubit  q == a[y].qubit  xi == Exchange(p, q, psi)
           chi == Together(a, xi)  v == Exchange(x, y, phi)
           cl == ClassicalOf(a)  ones == OnesOf(a)
<1>1. p \in Qubits /\ q \in Qubits /\ x \notin cl /\ y \notin cl
  BY BitsAre
<1>2. xi \in Vectors(Qubits) /\ phi \in Vectors(names)
  BY <1>1, ExchangeIsVector, TogetherIsVector
<1>3. chi \in Vectors(names) /\ v \in Vectors(names)
  BY <1>2, ExchangeIsVector, TogetherIsVector
<1>4. \A s \in SUBSET names : phi[s] = IF s \cap cl = ones THEN psi[QubitsOf(a, s)] ELSE Zero
  BY TogetherAt
<1>5. \A s \in SUBSET names : chi[s] = IF s \cap cl = ones THEN xi[QubitsOf(a, s)] ELSE Zero
  BY TogetherAt
<1>6. \A s \in SUBSET names : v[s] = phi[Swapped(x, y, s)]
  BY <1>2, ExchangeAt
<1>7. \A s \in SUBSET Qubits : xi[s] = psi[Swapped(p, q, s)]
  BY ExchangeAt
<1>8. ASSUME NEW s \in SUBSET names
      PROVE  v[s] = chi[s]
  <2> DEFINE r == Swapped(x, y, s)  S == QubitsOf(a, s)
  <2>1. r \in SUBSET names /\ r \cap cl = s \cap cl
    BY <1>1 DEF Swapped
  <2>2. \A b \in names : b \in r <=> IF b = x THEN y \in s ELSE IF b = y THEN x \in s ELSE b \in s
    BY DEF Swapped
  <2>3. S \in SUBSET Qubits
    BY QubitsOfAre
  <2>4. \A b \in names : ~IsClassical(a[b]) => (a[b].qubit \in S <=> b \in s) /\ (a[b].qubit \in QubitsOf(a, r) <=> b \in r)
    BY <2>1, QubitsOfAre
  <2>5. /\ \A o : o \in S => \E b \in names : ~IsClassical(a[b]) /\ a[b].qubit = o
        /\ \A o : o \in QubitsOf(a, r) => \E b \in names : ~IsClassical(a[b]) /\ a[b].qubit = o
    BY <2>1, QubitsOfAre
  <2>6. \A b \in names : ~IsClassical(a[b]) => (a[b].qubit = p <=> b = x) /\ (a[b].qubit = q <=> b = y)
    BY DEF BitsOK
  <2>7. \A o : o \in Swapped(p, q, S) <=> IF o = p THEN q \in S ELSE IF o = q THEN p \in S ELSE o \in S
    BY DEF Swapped
  <2>8. ASSUME NEW b \in names, ~IsClassical(a[b])
        PROVE  a[b].qubit \in QubitsOf(a, r) <=> a[b].qubit \in Swapped(p, q, S)
    <3>1. (p \in S <=> x \in s) /\ (q \in S <=> y \in s) /\ (a[b].qubit \in S <=> b \in s)
      BY <2>4, <2>8
    <3>2. a[b].qubit \in Swapped(p, q, S) <=> IF b = x THEN y \in s ELSE IF b = y THEN x \in s ELSE b \in s
      BY <2>6, <2>7, <2>8, <3>1
    <3> HIDE DEF r, S, p, q
    <3> QED BY <2>2, <2>4, <2>8, <3>2
  <2>9. \A o : o \in Swapped(p, q, S) => \E b \in names : ~IsClassical(a[b]) /\ a[b].qubit = o
    <3> HIDE DEF S
    <3> QED BY <2>5, <2>7
  <2>10. QubitsOf(a, r) = Swapped(p, q, S)
    <3>1. \A o : o \in QubitsOf(a, r) <=> o \in Swapped(p, q, S)
      <4> HIDE DEF r, S, p, q
      <4> QED BY <2>5, <2>8, <2>9
    <3> QED BY <3>1
  <2> HIDE DEF v, phi, chi, xi, cl, ones, p, q, S, r
  <2>11. phi[r] = IF s \cap cl = ones THEN psi[Swapped(p, q, S)] ELSE Zero
    BY <1>4, <2>1, <2>10
  <2>12. chi[s] = IF s \cap cl = ones THEN psi[Swapped(p, q, S)] ELSE Zero
    BY <1>5, <1>7, <2>3 DEF S
  <2> QED BY <1>6, <2>11, <2>12 DEF r
<1> HIDE DEF v, phi, chi, xi, p, q
<1>9. v = chi
  BY <1>3, <1>8, SameVector
<1> QED BY <1>9 DEF v, phi, chi, xi, p, q

-----------------------------------------------------------------------------
(* Promotion. *)

\* A set of naturals that is not empty has a least element.
LEMMA LeastNatural ==
  ASSUME NEW T, T \subseteq Nat, T # {}
  PROVE  Min(T) \in T /\ \A y \in T : Min(T) <= y
<1> DEFINE Less == {p \in Nat \X Nat : p[1] < p[2]}
<1>1. OpToRel(<, Nat) = Less
  BY Zenon DEF OpToRel
<1>2. IsWellFoundedOn(Less, Nat)
  BY ONLY <1>1, NatLessThanWellFounded, Zenon
<1>3. PICK x \in T : \A y \in T : ~(<<y, x>> \in Less)
  BY <1>2, WFMin
<1>4. \A y \in Nat : <<y, x>> \in Less <=> y < x
  OBVIOUS
<1> HIDE DEF Less
<1>5. \A y \in T : ~(y < x)
  BY <1>3, <1>4
<1>6. \A y \in T : x <= y
  BY <1>5
<1> QED BY <1>6 DEF Min

\* There are qubits enough for the bits, each of which has one at most: as long
\* as a bit has none, one is left for it.
LEMMA QubitIsLeft ==
  ASSUME NEW names, NEW a, BitsOK(a, names), IsFiniteSet(names), Cardinality(names) <= Cardinality(Qubits),
         NEW x \in names, IsClassical(a[x])
  PROVE  Qubits \ {a[b].qubit : b \in DOMAIN a} # {}
<1> DEFINE S == names \ ClassicalOf(a)  T == QubitsOf(a, names)  f == [b \in S |-> a[b].qubit]  R == names \ {x}
<1>1. T \in SUBSET Qubits /\ \A q : q \in T <=> \E b \in names : ~IsClassical(a[b]) /\ a[b].qubit = q
  BY QubitsOfAre
<1>2. S \in SUBSET R /\ \A b \in names : b \in S <=> ~IsClassical(a[b])
  BY BitsAre
<1>3. IsFiniteSet(R) /\ Cardinality(R) = Cardinality(names) - 1
  BY FS_RemoveElement
<1>4. IsFiniteSet(S) /\ Cardinality(S) <= Cardinality(R)
  BY <1>2, <1>3, FS_Subset
<1>5. f \in Surjection(S, T)
  BY <1>1, <1>2 DEF Surjection
<1>6. IsFiniteSet(T) /\ Cardinality(T) <= Cardinality(S)
  BY <1>4, <1>5, FS_Surjection
<1>7. /\ Cardinality(T) \in Nat /\ Cardinality(S) \in Nat /\ Cardinality(R) \in Nat
      /\ Cardinality(names) \in Nat /\ Cardinality(Qubits) \in Nat
  BY <1>3, <1>4, <1>6, QubitsAssumption, FS_CardinalityType
<1>8. T # Qubits
  BY <1>3, <1>4, <1>6, <1>7
<1>9. PICK q \in Qubits : q \notin T
  BY <1>1, <1>8
<1>10. q # Unpromoted
  BY QubitsAssumption DEF Unpromoted
<1>11. ASSUME NEW b \in DOMAIN a, a[b].qubit = q
       PROVE  FALSE
  BY <1>1, <1>9, <1>10, <1>11, BitsAre DEF IsClassical
<1> QED BY <1>9, <1>11

\* The bits b are the bits a, but that x has the qubit q.
PromotedAt(a, b, x, q) == b = [a EXCEPT ![x].qubit = q]

\* A bit is promoted to a qubit that no bit has.
LEMMA PromoteIs ==
  ASSUME NEW names, NEW a, BitsOK(a, names), IsFiniteSet(names), Cardinality(names) <= Cardinality(Qubits),
         NEW x \in names, IsClassical(a[x])
  PROVE  \E q \in Qubits : q \notin QubitsOf(a, names) /\ PromotedAt(a, Promote(a, x), x, q)
<1> DEFINE T == Qubits \ {a[b].qubit : b \in DOMAIN a}
<1>1. T # {}
  BY QubitIsLeft
<1>5. T \subseteq Nat
  BY QubitsAssumption
<1> HIDE DEF T
<1>2. Min(T) \in T
  BY <1>1, <1>5, LeastNatural
<1>3. Promote(a, x) = [a EXCEPT ![x].qubit = Min(T)]
  BY DEF Promote, T
<1>4. Min(T) \in Qubits /\ Min(T) \notin QubitsOf(a, names)
  <2>1. DOMAIN a = names /\ names \in SUBSET names
    BY BitsAre
  <2>2. Min(T) \in Qubits /\ ~\E b \in names : a[b].qubit = Min(T)
    BY <1>2, <2>1 DEF T
  <2>3. \A q : q \in QubitsOf(a, names) <=> \E b \in names : ~IsClassical(a[b]) /\ a[b].qubit = q
    BY <2>1, QubitsOfAre
  <2> QED BY <2>2, <2>3
<1> QED BY <1>3, <1>4 DEF PromotedAt

\* What the bits are after a promotion.
LEMMA PromotedAre ==
  ASSUME NEW names, NEW a, BitsOK(a, names), NEW x \in names, IsClassical(a[x]),
         NEW q \in Qubits, q \notin QubitsOf(a, names), NEW b, PromotedAt(a, b, x, q)
  PROVE  /\ BitsOK(b, names) /\ b[x].qubit = q /\ ~IsClassical(b[x])
         /\ \A c \in names : b[c].value = a[c].value /\ (c # x => b[c] = a[c])
         /\ ClassicalOf(b) = ClassicalOf(a) \ {x} /\ OnesOf(b) = OnesOf(a) \ {x}
<1>1. a \in [names -> BitRecords]
  BY DEF BitsOK
<1>2. /\ b \in [names -> BitRecords] /\ b[x].qubit = q
      /\ \A c \in names : b[c].value = a[c].value /\ (c # x => b[c] = a[c])
  BY <1>1 DEF PromotedAt, BitRecords
<1>3. q # Unpromoted
  BY QubitsAssumption DEF Unpromoted
<1>4. \A c \in names : ~IsClassical(a[c]) => a[c].qubit # q
  BY QubitsOfAre
<1>5. BitsOK(b, names)
  <2> SUFFICES ASSUME NEW c \in names, NEW d \in names, b[c].qubit = b[d].qubit, ~IsClassical(b[c])
               PROVE  c = d
    BY <1>2 DEF BitsOK
  <2>1. CASE c = x
    BY <1>2, <1>3, <1>4, <2>1 DEF IsClassical
  <2>2. CASE c # x
    <3>1. d # x
      BY <1>2, <1>4, <2>2 DEF IsClassical
    <3> QED BY <1>2, <2>2, <3>1 DEF BitsOK
  <2> QED BY <2>1, <2>2
<1>6. ~IsClassical(b[x])
  BY <1>2, <1>3 DEF IsClassical
<1>7. \A c : c \in ClassicalOf(b) <=> c \in ClassicalOf(a) \ {x}
  BY <1>2, <1>5, <1>6, BitsAre
<1>8. \A c : c \in OnesOf(b) <=> c \in OnesOf(a) \ {x}
  BY <1>2, <1>5, <1>6, BitsAre
<1> QED BY <1>2, <1>5, <1>6, <1>7, <1>8

\* The vector chi is psi with 0 and 1 of the qubit q exchanged.
Toggled(q, psi, chi) ==
  /\ chi \in Vectors(Qubits)
  /\ \A s \in SUBSET Qubits : chi[s] = IF q \in s THEN psi[s \ {q}] ELSE psi[s \cup {q}]

\* That is what X does.
LEMMA FlipAt ==
  ASSUME NEW psi \in Vectors(Qubits), NEW q \in Qubits
  PROVE  GateOK("X", One, <<q>>, Qubits) /\ Toggled(q, psi, Meaning("X", One, <<q>>, psi))
<1> DEFINE chi == Meaning("X", One, <<q>>, psi)
<1>1. GateOK("X", One, <<q>>, Qubits)
  BY KindsAre, Units DEF GateOK, Arity, GateInfo, IsInjective
<1>2. chi \in Vectors(Qubits)
  BY <1>1, MeaningIsVector
<1> DEFINE v == Controlled("X", Times(One, One), FactorOf("X", One), ControlsOf(<<q>>), TargetOf(<<q>>), psi)
<1>3. chi = v /\ Times(One, One) \in NonZero
  BY <1>1, MeaningIs DEF GateInfo
<1>4. ControlsOf(<<q>>) = {} /\ TargetOf(<<q>>) = q
  BY DEF ControlsOf, TargetOf
<1> DEFINE h == Times(One, One)  m == Matrix("X", h)  f == FactorOf("X", One)
<1>5. \A s \in SUBSET Qubits : AtTarget("X", h, q, psi, s) = RowOf(m, IF q \in s THEN 2 ELSE 1, psi[s \ {q}], psi[s \cup {q}])
  BY DEF AtTarget
<1>6. \A s \in SUBSET Qubits : Controlled("X", h, f, {}, q, psi)[s] = AtTarget("X", h, q, psi, s)
  <2> HIDE DEF h, m, f
  <2> QED BY ControlledAt
<1>7. m.on0[1] = Zero /\ m.on0[2] = One /\ m.on1[1] = One /\ m.on1[2] = Zero
  BY DEF Matrix
<1>8. \A x, y \in Gaussian : RowOf(m, 1, x, y) = y /\ RowOf(m, 2, x, y) = x
  <2> SUFFICES ASSUME NEW x \in Gaussian, NEW y \in Gaussian
               PROVE  RowOf(m, 1, x, y) = y /\ RowOf(m, 2, x, y) = x
    OBVIOUS
  <2>1. RowOf(m, 1, x, y) = Plus(Times(Zero, x), Times(One, y)) /\ RowOf(m, 2, x, y) = Plus(Times(One, x), Times(Zero, y))
    BY <1>7 DEF RowOf
  <2>2. /\ Times(Zero, x) = Zero /\ Times(One, y) = y /\ Times(One, x) = x /\ Times(Zero, y) = Zero
        /\ Plus(Zero, y) = y /\ Plus(x, Zero) = x
    BY Units, RingLaws
  <2> QED BY <2>1, <2>2
<1>9. \A s \in SUBSET Qubits : psi[s \ {q}] \in Gaussian /\ psi[s \cup {q}] \in Gaussian
  BY DEF Vectors
<1> HIDE DEF m
<1>10. \A s \in SUBSET Qubits : AtTarget("X", h, q, psi, s) = IF q \in s THEN psi[s \ {q}] ELSE psi[s \cup {q}]
  BY <1>5, <1>8, <1>9
<1>11. chi = Controlled("X", h, f, {}, q, psi)
  BY <1>3, <1>4
<1> HIDE DEF h, f, v, chi
<1>12. Toggled(q, psi, chi)
  BY <1>2, <1>6, <1>10, <1>11 DEF Toggled
<1> QED BY <1>1, <1>12 DEF chi

\* The qubit that a promoted bit takes is brought to its value.
Prepared(a, x, q, psi) == IF a[x].value = 1 THEN Meaning("X", One, <<q>>, psi) ELSE psi

\* A promotion changes nothing about the state of the bits.
LEMMA PromotedTogether ==
  ASSUME NEW names, NEW a, BitsOK(a, names), NEW x \in names, IsClassical(a[x]),
         NEW q \in Qubits, q \notin QubitsOf(a, names), NEW b, PromotedAt(a, b, x, q),
         NEW psi \in Vectors(Qubits), Within(a, psi)
  PROVE  /\ Prepared(a, x, q, psi) \in Vectors(Qubits) /\ Within(b, Prepared(a, x, q, psi))
         /\ Together(b, Prepared(a, x, q, psi)) = Together(a, psi)
<1> DEFINE chi == Prepared(a, x, q, psi)
           cl == ClassicalOf(a)  ones == OnesOf(a)
<1>1. /\ BitsOK(b, names) /\ b[x].qubit = q /\ ~IsClassical(b[x])
      /\ \A c \in names : b[c].value = a[c].value /\ (c # x => b[c] = a[c])
      /\ ClassicalOf(b) = cl \ {x} /\ OnesOf(b) = ones \ {x}
  BY PromotedAre
<1>2. x \in cl /\ (x \in ones <=> a[x].value = 1) /\ ones \subseteq cl /\ cl \subseteq names /\ DOMAIN a = names /\ DOMAIN b = names
  BY <1>1, BitsAre
<1>3. \A s \in SUBSET Qubits : psi[s] # Zero => q \notin s /\ s \subseteq QubitsOf(a, names)
  BY <1>2 DEF Within, Vectors
<1>4. /\ chi \in Vectors(Qubits)
      /\ \A s \in SUBSET Qubits : chi[s] = IF x \in ones THEN IF q \in s THEN psi[s \ {q}] ELSE psi[s \cup {q}] ELSE psi[s]
  <2>1. CASE x \in ones
    <3>1. chi = Meaning("X", One, <<q>>, psi)
      BY <1>2, <2>1 DEF Prepared
    <3>2. Toggled(q, psi, chi)
      BY <3>1, FlipAt
    <3> QED BY <2>1, <3>2 DEF Toggled
  <2>2. CASE x \notin ones
    BY <1>2, <2>2 DEF Prepared
  <2> QED BY <2>1, <2>2
<1> HIDE DEF chi
<1>5. ASSUME NEW s \in SUBSET names
      PROVE  /\ QubitsOf(b, s) \in SUBSET Qubits /\ QubitsOf(a, s) \in SUBSET Qubits
             /\ QubitsOf(b, s) = IF x \in s THEN QubitsOf(a, s) \cup {q} ELSE QubitsOf(a, s)
             /\ q \notin QubitsOf(a, s)
  <2>1. /\ QubitsOf(b, s) \in SUBSET Qubits /\ QubitsOf(a, s) \in SUBSET Qubits
        /\ \A p : p \in QubitsOf(a, s) <=> \E c \in s : ~IsClassical(a[c]) /\ a[c].qubit = p
        /\ \A p : p \in QubitsOf(b, s) <=> \E c \in s : ~IsClassical(b[c]) /\ b[c].qubit = p
    BY <1>1, QubitsOfAre
  <2>2. q \notin QubitsOf(a, s)
    BY <2>1, QubitsOfAre
  <2>3. x \in s => \A p : p \in QubitsOf(b, s) <=> p \in QubitsOf(a, s) \/ p = q
    BY <1>1, <2>1
  <2>4. x \notin s => \A p : p \in QubitsOf(b, s) <=> p \in QubitsOf(a, s)
    BY <1>1, <2>1
  <2> QED BY <2>1, <2>2, <2>3, <2>4
<1>6. ASSUME NEW s \in SUBSET Qubits, chi[s] # Zero
      PROVE  s \subseteq QubitsOf(b, names)
  <2>1. QubitsOf(b, names) = QubitsOf(a, names) \cup {q}
    BY <1>5
  <2>2. CASE x \in ones /\ q \in s
    <3>1. psi[s \ {q}] # Zero
      BY <1>4, <1>6, <2>2
    <3> QED BY <1>3, <2>1, <3>1
  <2>3. CASE x \in ones /\ q \notin s
    <3>1. psi[s \cup {q}] # Zero
      BY <1>4, <1>6, <2>3
    <3> QED BY <1>3, <2>1, <3>1
  <2>4. CASE x \notin ones
    <3>1. psi[s] # Zero
      BY <1>4, <1>6, <2>4
    <3> QED BY <1>3, <2>1, <3>1
  <2> QED BY <2>2, <2>3, <2>4
<1>7. Within(b, chi)
  BY <1>2, <1>4, <1>6 DEF Within, Vectors
<1>8. Together(a, psi) \in Vectors(names) /\ Together(b, chi) \in Vectors(names)
  BY <1>1, <1>4, TogetherIsVector
<1>9. ASSUME NEW s \in SUBSET names
      PROVE  Together(b, chi)[s] = Together(a, psi)[s]
  <2> DEFINE S == QubitsOf(a, s)  U == QubitsOf(b, s)
  <2>1. Together(a, psi)[s] = IF s \cap cl = ones THEN psi[S] ELSE Zero
    BY TogetherAt
  <2>2. Together(b, chi)[s] = IF s \cap (cl \ {x}) = ones \ {x} THEN chi[U] ELSE Zero
    BY <1>1, TogetherAt
  <2>3. U \in SUBSET Qubits /\ S \in SUBSET Qubits /\ U = (IF x \in s THEN S \cup {q} ELSE S) /\ q \notin S
    BY <1>5
  <2> HIDE DEF S, U, cl, ones
  <2>4. CASE x \in s /\ x \in ones
    <3>1. s \cap cl = ones <=> s \cap (cl \ {x}) = ones \ {x}
      BY <1>2, <2>4
    <3>2. chi[U] = psi[S]
      <4>1. U \ {q} = S /\ q \in U
        BY <2>3, <2>4
      <4> QED BY <1>4, <2>3, <2>4, <4>1
    <3> QED BY <2>1, <2>2, <3>1, <3>2
  <2>5. CASE x \in s /\ x \notin ones
    <3>1. s \cap cl # ones
      BY <1>2, <2>5
    <3>2. chi[U] = Zero
      <4>1. q \in U
        BY <2>3, <2>5
      <4> QED BY <1>3, <1>4, <2>3, <2>5, <4>1
    <3> QED BY <2>1, <2>2, <3>1, <3>2
  <2>6. CASE x \notin s /\ x \in ones
    <3>1. s \cap cl # ones
      BY <1>2, <2>6
    <3>2. chi[U] = Zero
      <4>1. q \notin U /\ U \cup {q} \in SUBSET Qubits
        BY <2>3, <2>6
      <4>2. psi[U \cup {q}] = Zero
        BY <1>3, <4>1
      <4> QED BY <1>4, <2>3, <2>6, <4>1, <4>2
    <3> QED BY <2>1, <2>2, <3>1, <3>2
  <2>7. CASE x \notin s /\ x \notin ones
    <3>1. s \cap cl = ones <=> s \cap (cl \ {x}) = ones \ {x}
      BY <1>2, <2>7
    <3>2. chi[U] = psi[S]
      BY <1>4, <2>3, <2>7
    <3> QED BY <2>1, <2>2, <3>1, <3>2
  <2> QED BY <2>4, <2>5, <2>6, <2>7
<1>10. Together(b, chi) = Together(a, psi)
  BY <1>8, <1>9, SameVector
<1> QED BY <1>4, <1>7, <1>10 DEF chi

-----------------------------------------------------------------------------
(* Circuits. *)

\* Gates on qubits.
Gates == {g \in [kind : Kinds, z : NonZero, q : Seq(Qubits)] : GateOK(g.kind, g.z, g.q, Qubits)}

\* What a gate makes of a state.
Applied(g, psi) == Meaning(g.kind, g.z, g.q, psi)

\* The state after up to three gates.
After(gates, psi) ==
  CASE Len(gates) = 0 -> psi
    [] Len(gates) = 1 -> Applied(gates[1], psi)
    [] Len(gates) = 2 -> Applied(gates[2], Applied(gates[1], psi))
    [] Len(gates) = 3 -> Applied(gates[3], Applied(gates[2], Applied(gates[1], psi)))

\* A gate by its name is one of the gates.
LEMMA GateIs ==
  ASSUME NEW kind, NEW z, NEW q, GateOK(kind, z, q, Qubits)
  PROVE  Gate(kind, z, q) \in Gates /\ \A psi : Applied(Gate(kind, z, q), psi) = Meaning(kind, z, q, psi)
<1>1. kind \in Kinds /\ z \in NonZero /\ q \in Seq(Qubits)
  BY DEF GateOK
<1> DEFINE g == Gate(kind, z, q)
<1>2. g \in [kind : Kinds, z : NonZero, q : Seq(Qubits)] /\ g.kind = kind /\ g.z = z /\ g.q = q
  BY <1>1 DEF Gate
<1> HIDE DEF g
<1>3. g \in Gates
  BY <1>2 DEF Gates
<1> QED BY <1>2, <1>3 DEF Applied, g

\* Vectors stay vectors.
LEMMA AppliedIsVector ==
  ASSUME NEW g \in Gates, NEW psi \in Vectors(Qubits)
  PROVE  Applied(g, psi) \in Vectors(Qubits)
<1>1. GateOK(g.kind, g.z, g.q, Qubits)
  BY DEF Gates
<1> QED BY <1>1, MeaningIsVector DEF Applied

\* The state after so many gates.
LEMMA AfterAt ==
  ASSUME NEW gates, NEW psi
  PROVE  /\ Len(gates) = 0 => After(gates, psi) = psi
         /\ Len(gates) = 1 => After(gates, psi) = Applied(gates[1], psi)
         /\ Len(gates) = 2 => After(gates, psi) = Applied(gates[2], Applied(gates[1], psi))
         /\ Len(gates) = 3 => After(gates, psi) = Applied(gates[3], Applied(gates[2], Applied(gates[1], psi)))
<1>1. Len(gates) = 0 => After(gates, psi) = psi
  BY DEF After
<1>2. Len(gates) = 1 => After(gates, psi) = Applied(gates[1], psi)
  BY DEF After
<1>3. Len(gates) = 2 => After(gates, psi) = Applied(gates[2], Applied(gates[1], psi))
  BY DEF After
<1>4. Len(gates) = 3 => After(gates, psi) = Applied(gates[3], Applied(gates[2], Applied(gates[1], psi)))
  BY DEF After
<1> QED BY <1>1, <1>2, <1>3, <1>4

\* One gate more, at the end.
LEMMA AfterAppend ==
  ASSUME NEW gates \in Seq(Gates), Len(gates) <= 2, NEW g \in Gates, NEW psi
  PROVE  /\ Append(gates, g) \in Seq(Gates) /\ Len(Append(gates, g)) = Len(gates) + 1
         /\ After(Append(gates, g), psi) = Applied(g, After(gates, psi))
<1> DEFINE r == Append(gates, g)  n == Len(gates)
<1>1. /\ r \in Seq(Gates) /\ Len(r) = n + 1 /\ n \in Nat /\ n <= 2
      /\ r[n + 1] = g /\ \A i \in 1..n : r[i] = gates[i]
  BY AppendProperties
<1>2. /\ n = 0 => After(gates, psi) = psi
      /\ n = 1 => After(gates, psi) = Applied(gates[1], psi)
      /\ n = 2 => After(gates, psi) = Applied(gates[2], Applied(gates[1], psi))
  BY AfterAt
<1> HIDE DEF r, n
<1>3. /\ Len(r) = 1 => After(r, psi) = Applied(r[1], psi)
      /\ Len(r) = 2 => After(r, psi) = Applied(r[2], Applied(r[1], psi))
      /\ Len(r) = 3 => After(r, psi) = Applied(r[3], Applied(r[2], Applied(r[1], psi)))
  BY AfterAt
<1>4. n = 0 \/ n = 1 \/ n = 2
  BY <1>1
<1>5. CASE n = 0
  <2>1. Len(r) = 1 /\ r[1] = g
    BY <1>1, <1>5
  <2> QED BY <1>1, <1>2, <1>3, <1>5, <2>1 DEF r, n
<1>6. CASE n = 1
  <2>1. Len(r) = 2 /\ r[2] = g /\ r[1] = gates[1]
    BY <1>1, <1>6
  <2> QED BY <1>1, <1>2, <1>3, <1>6, <2>1 DEF r, n
<1>7. CASE n = 2
  <2>1. Len(r) = 3 /\ r[3] = g /\ r[1] = gates[1] /\ r[2] = gates[2]
    BY <1>1, <1>7
  <2> QED BY <1>1, <1>2, <1>3, <1>7, <2>1 DEF r, n
<1> QED BY <1>4, <1>5, <1>6, <1>7

\* The first gate first.
LEMMA AfterHead ==
  ASSUME NEW gates \in Seq(Gates), Len(gates) <= 3, gates # <<>>, NEW psi
  PROVE  /\ Head(gates) \in Gates /\ Tail(gates) \in Seq(Gates) /\ Len(Tail(gates)) = Len(gates) - 1
         /\ After(gates, psi) = After(Tail(gates), Applied(Head(gates), psi))
<1> DEFINE r == Tail(gates)  n == Len(gates)  h == Head(gates)
<1>1. n \in Nat /\ n # 0 /\ n <= 3
  BY EmptySeq
<1>2. h = gates[1] /\ h \in Gates
  BY <1>1, HeadTailProperties
<1>3. r \in Seq(Gates) /\ Len(r) = n - 1 /\ \A i \in 1..Len(r) : r[i] = gates[i + 1]
  BY HeadTailProperties
<1>4. /\ n = 1 => After(gates, psi) = Applied(gates[1], psi)
      /\ n = 2 => After(gates, psi) = Applied(gates[2], Applied(gates[1], psi))
      /\ n = 3 => After(gates, psi) = Applied(gates[3], Applied(gates[2], Applied(gates[1], psi)))
  BY AfterAt
<1> HIDE DEF r, n, h
<1>5. /\ Len(r) = 0 => After(r, Applied(h, psi)) = Applied(h, psi)
      /\ Len(r) = 1 => After(r, Applied(h, psi)) = Applied(r[1], Applied(h, psi))
      /\ Len(r) = 2 => After(r, Applied(h, psi)) = Applied(r[2], Applied(r[1], Applied(h, psi)))
  BY AfterAt
<1>6. n = 1 \/ n = 2 \/ n = 3
  BY <1>1
<1>7. After(gates, psi) = After(r, Applied(h, psi))
  <2>1. CASE n = 1
    <3>1. Len(r) = 0
      BY <1>3, <2>1
    <3> QED BY <1>2, <1>4, <1>5, <2>1, <3>1
  <2>2. CASE n = 2
    <3>1. Len(r) = 1 /\ r[1] = gates[2]
      BY <1>3, <2>2
    <3> QED BY <1>2, <1>4, <1>5, <2>2, <3>1
  <2>3. CASE n = 3
    <3>1. Len(r) = 2 /\ r[1] = gates[2] /\ r[2] = gates[3]
      BY <1>3, <2>3
    <3> QED BY <1>2, <1>4, <1>5, <2>3, <3>1
  <2> QED BY <1>6, <2>1, <2>2, <2>3
<1> QED BY <1>2, <1>3, <1>7 DEF r, n, h

\* No gate, and one.
LEMMA AfterFew ==
  ASSUME NEW psi
  PROVE  /\ After(<<>>, psi) = psi /\ <<>> \in Seq(Gates)
         /\ \A g \in Gates : After(<<g>>, psi) = Applied(g, psi) /\ <<g>> \in Seq(Gates)
  BY DEF After

\* Gates on the qubits that the bits have leave the others 0.
LEMMA MeaningWithin ==
  ASSUME NEW names, NEW a, BitsOK(a, names), NEW kind, NEW z, NEW q, GateOK(kind, z, q, Qubits),
         \A i \in 1..Len(q) : q[i] \in QubitsOf(a, names),
         NEW psi \in Vectors(Qubits), Within(a, psi)
  PROVE  Within(a, Meaning(kind, z, q, psi))
<1> DEFINE K == QubitsOf(a, names)  v == Meaning(kind, z, q, psi)
<1>1. v \in Vectors(Qubits) /\ DOMAIN a = names
  BY MeaningIsVector, BitsAre
<1>2. \A s \in SUBSET Qubits : psi[s] # Zero => s \subseteq K
  BY <1>1 DEF Within, Vectors
<1>3. ASSUME NEW s \in SUBSET Qubits, ~(s \subseteq K)
      PROVE  v[s] = Zero
  <2>1. CASE kind = "SWAP"
    <3> DEFINE x == q[1]  y == q[2]
    <3>1. v = Exchange(x, y, psi) /\ x \in K /\ y \in K
      <4>1. Len(q) = 2
        BY <2>1, ArityIs DEF GateOK
      <4> QED BY <2>1, <4>1, SwapIs
    <3> HIDE DEF x, y, v, K
    <3>2. v[s] = psi[Swapped(x, y, s)]
      BY <3>1, ExchangeAt
    <3>3. Swapped(x, y, s) \in SUBSET Qubits /\ ~(Swapped(x, y, s) \subseteq K)
      <4>1. K \subseteq Qubits
        BY QubitsOfAre DEF K
      <4> QED BY <1>3, <3>1, <4>1 DEF Swapped
    <3> QED BY <1>2, <3>2, <3>3
  <2>2. CASE kind # "SWAP"
    <3> DEFINE base == GateInfo[kind].base  h == Times(z, z)  f == FactorOf(kind, z)
               C == ControlsOf(q)  t == TargetOf(q)
    <3>1. /\ base \in Bases /\ h \in NonZero /\ f \in NonZero /\ v = Controlled(base, h, f, C, t, psi)
      BY <2>2, MeaningIs
    <3>2. t \in K
      BY OperandsOf DEF TargetOf
    <3> HIDE DEF base, h, f, C, t, v, K
    <3>3. v[s] = IF C \subseteq s THEN AtTarget(base, h, t, psi, s) ELSE Times(f, psi[s])
      BY <3>1, ControlledAt
    <3>4. psi[s] = Zero /\ psi[s \ {t}] = Zero /\ psi[s \cup {t}] = Zero
      <4>1. K \subseteq Qubits
        BY QubitsOfAre DEF K
      <4> QED BY <1>2, <1>3, <3>2, <4>1
    <3>5. AtTarget(base, h, t, psi, s) = Zero
      <4>1. MatrixOK(Matrix(base, h))
        BY <3>1, MatrixInvertible
      <4> QED BY <3>4, <4>1, RowOfZeros DEF AtTarget
    <3>6. Times(f, Zero) = Zero
      BY <3>1, Units DEF NonZero
    <3> QED BY <3>3, <3>4, <3>5, <3>6
  <2> QED BY <2>1, <2>2
<1> QED BY <1>1, <1>3 DEF Within, Vectors

-----------------------------------------------------------------------------
(* Dispatch. *)

\* What dispatch is to do: whatever the qubits are, the gates and bits that it
\* leaves make of them what the gate, as written, makes of the bits.
Faithful(kind, z, ops, a, d, names) ==
  /\ BitsOK(d.bits, names) /\ d.gates \in Seq(Gates) /\ Len(d.gates) <= 3
  /\ \A psi \in Vectors(Qubits) : Within(a, psi) =>
       /\ Within(d.bits, After(d.gates, psi))
       /\ Proportional(Together(d.bits, After(d.gates, psi)), Meaning(kind, z, ops, Together(a, psi)))

\* The operands of short gates.
LEMMA ShortOperands ==
  ASSUME NEW q
  PROVE  /\ Len(q) = 1 => ControlsOf(q) = {} /\ TargetOf(q) = q[1]
         /\ Len(q) = 2 => ControlsOf(q) = {q[1]} /\ TargetOf(q) = q[2]
         /\ Len(q) = 3 => ControlsOf(q) = {q[1], q[2]} /\ TargetOf(q) = q[3]
<1>1. 1..(1 - 1) = {} /\ 1..(2 - 1) = {1} /\ 1..(3 - 1) = {1, 2}
  OBVIOUS
<1>2. Len(q) = 1 => ControlsOf(q) = {}
  BY <1>1 DEF ControlsOf
<1>3. Len(q) = 2 => ControlsOf(q) = {q[1]}
  BY <1>1 DEF ControlsOf
<1>4. Len(q) = 3 => ControlsOf(q) = {q[1], q[2]}
  <2> SUFFICES ASSUME Len(q) = 3  PROVE ControlsOf(q) = {q[1], q[2]}
    OBVIOUS
  <2>1. ControlsOf(q) = {q[i] : i \in {1, 2}}
    BY <1>1 DEF ControlsOf
  <2> QED BY <2>1
<1> QED BY <1>2, <1>3, <1>4 DEF TargetOf

\* The gate r on the qubits q is what is left of the gate kind on the bits ops,
\* of which the controls that are classical are 1.
Reduces(kind, ops, a, r, q) ==
  /\ kind # "SWAP" /\ r # "SWAP" /\ r \in Kinds
  /\ GateInfo[r].base = GateInfo[kind].base /\ (r \in Rotations <=> kind \in Rotations)
  /\ q \in Seq(Qubits) /\ Len(q) = Arity(r) /\ IsInjective(q)
  /\ ~IsClassical(a[TargetOf(ops)])
  /\ \A c \in ControlsOf(ops) : IsClassical(a[c]) => a[c].value = 1
  /\ TargetOf(q) = a[TargetOf(ops)].qubit /\ ControlsOf(q) = QubitsOf(a, ControlsOf(ops))

\* Such a gate does to the qubits what the gate does to the bits.
LEMMA ReducedTogether ==
  ASSUME NEW names, NEW a, BitsOK(a, names), NEW kind, NEW z, NEW ops, GateOK(kind, z, ops, names),
         NEW r, NEW q, Reduces(kind, ops, a, r, q)
  PROVE  /\ GateOK(r, z, q, Qubits) /\ \A i \in 1..Len(q) : q[i] \in QubitsOf(a, names)
         /\ \A psi \in Vectors(Qubits) : Meaning(kind, z, ops, Together(a, psi)) = Together(a, Meaning(r, z, q, psi))
<1>1. GateOK(r, z, q, Qubits)
  BY DEF GateOK, Reduces
<1> DEFINE t == TargetOf(ops)  C == ControlsOf(ops)
<1>2. t \in names /\ C \in SUBSET names /\ t \notin C
  BY OperandsOf
<1>3. /\ ~IsClassical(a[t]) /\ \A c \in C : IsClassical(a[c]) => a[c].value = 1
      /\ TargetOf(q) = a[t].qubit /\ ControlsOf(q) = QubitsOf(a, C)
  BY DEF Reduces
<1> HIDE DEF t, C
<1>4. ASSUME NEW i \in 1..Len(q)
      PROVE  q[i] \in QubitsOf(a, names)
  <2>1. Len(q) \in 1..3
    BY <1>1, OperandsOf
  <2>2. i = Len(q) => q[i] = a[t].qubit
    BY <1>3 DEF TargetOf
  <2>3. i # Len(q) => q[i] \in QubitsOf(a, C)
    <3>1. i # Len(q) => i \in 1..(Len(q) - 1)
      BY <2>1
    <3>2. i # Len(q) => q[i] \in ControlsOf(q)
      BY <3>1 DEF ControlsOf
    <3> QED BY <1>3, <3>2
  <2>4. QubitsOf(a, C) \subseteq QubitsOf(a, names)
    BY <1>2 DEF QubitsOf
  <2>5. a[t].qubit \in QubitsOf(a, names)
    BY <1>2, <1>3, QubitsOfAre
  <2> QED BY <2>2, <2>3, <2>4, <2>5
<1>5. ASSUME NEW psi \in Vectors(Qubits)
      PROVE  Meaning(kind, z, ops, Together(a, psi)) = Together(a, Meaning(r, z, q, psi))
  <2> DEFINE base == GateInfo[kind].base  h == Times(z, z)  f == FactorOf(kind, z)
  <2>1. /\ base \in Bases /\ h \in NonZero /\ f \in NonZero
        /\ Meaning(kind, z, ops, Together(a, psi)) = Controlled(base, h, f, C, t, Together(a, psi))
    BY MeaningIs DEF Reduces, C, t
  <2>2. Meaning(r, z, q, psi) = Controlled(GateInfo[r].base, h, FactorOf(r, z), ControlsOf(q), TargetOf(q), psi)
    BY <1>1, MeaningIs DEF Reduces
  <2>3. GateInfo[r].base = base /\ FactorOf(r, z) = f
    BY DEF Reduces, FactorOf
  <2>4. Meaning(r, z, q, psi) = Controlled(base, h, f, QubitsOf(a, C), a[t].qubit, psi)
    BY <1>3, <2>2, <2>3
  <2> HIDE DEF base, h, f
  <2>5. Controlled(base, h, f, C, t, Together(a, psi)) = Together(a, Controlled(base, h, f, QubitsOf(a, C), a[t].qubit, psi))
    BY <1>2, <1>3, <2>1, ControlledTogether DEF NonZero
  <2> QED BY <2>1, <2>4, <2>5
<1> QED BY <1>1, <1>4, <1>5

\* To dispatch it is faithful.
LEMMA ReducedIsFaithful ==
  ASSUME NEW names, NEW a, BitsOK(a, names), NEW kind, NEW z, NEW ops, GateOK(kind, z, ops, names),
         NEW r, NEW q, Reduces(kind, ops, a, r, q)
  PROVE  Faithful(kind, z, ops, a, Dispatched(a, <<Gate(r, z, q)>>), names)
<1> DEFINE g == Gate(r, z, q)  d == Dispatched(a, <<g>>)
<1>1. /\ GateOK(r, z, q, Qubits) /\ \A i \in 1..Len(q) : q[i] \in QubitsOf(a, names)
      /\ \A psi \in Vectors(Qubits) : Meaning(kind, z, ops, Together(a, psi)) = Together(a, Meaning(r, z, q, psi))
  BY ReducedTogether
<1>2. g \in Gates /\ \A psi : Applied(g, psi) = Meaning(r, z, q, psi)
  BY <1>1, GateIs
<1> HIDE DEF g
<1>3. d.bits = a /\ d.gates = <<g>> /\ d.gates \in Seq(Gates) /\ Len(d.gates) <= 3
  BY <1>2, AfterFew DEF Dispatched
<1> HIDE DEF d
<1>4. ASSUME NEW psi \in Vectors(Qubits), Within(a, psi)
      PROVE  /\ Within(d.bits, After(d.gates, psi))
             /\ Proportional(Together(d.bits, After(d.gates, psi)), Meaning(kind, z, ops, Together(a, psi)))
  <2> DEFINE chi == Meaning(r, z, q, psi)
  <2>1. After(d.gates, psi) = chi
    BY <1>2, <1>3, AfterFew
  <2>2. Within(a, chi) /\ chi \in Vectors(Qubits)
    BY <1>1, <1>4, MeaningWithin, MeaningIsVector
  <2>3. Meaning(kind, z, ops, Together(a, psi)) = Together(a, chi)
    BY <1>1
  <2> HIDE DEF chi
  <2>4. Proportional(Together(a, chi), Together(a, chi))
    BY <2>2, TogetherIsVector, ProportionalSame
  <2> QED BY <1>3, <2>1, <2>2, <2>3, <2>4
<1>5. Faithful(kind, z, ops, a, d, names)
  BY <1>3, <1>4 DEF Faithful
<1> QED BY <1>5 DEF d, g

\* The operands q are the qubits of the bits o.
OnQubitsOf(a, o, q) == q = [i \in DOMAIN o |-> a[o[i]].qubit]

\* The n bits o have qubits, and each of them is there once.
OperandsOK(names, a, n, o) ==
  /\ DOMAIN o = 1..n /\ \A i \in 1..n : o[i] \in names /\ ~IsClassical(a[o[i]])
  /\ \A i, j \in 1..n : o[i] = o[j] => i = j

\* The gate on the bits o, each with a qubit and each of them once, is one on
\* that many qubits.
LEMMA QubitsOfOperands ==
  ASSUME NEW names, NEW a, BitsOK(a, names), NEW n \in 1..3, NEW o, OperandsOK(names, a, n, o),
         NEW q, OnQubitsOf(a, o, q)
  PROVE  /\ q \in Seq(Qubits) /\ Len(q) = n /\ IsInjective(q)
         /\ \A i \in 1..n : q[i] = a[o[i]].qubit
<1> DEFINE p == [i \in 1..n |-> a[o[i]].qubit]
<1>8. /\ DOMAIN o = 1..n /\ \A i \in 1..n : o[i] \in names /\ ~IsClassical(a[o[i]])
      /\ \A i, j \in 1..n : o[i] = o[j] => i = j
  BY DEF OperandsOK
<1>1. \A i \in 1..n : a[o[i]].qubit \in Qubits
  BY <1>8, BitsAre
<1>2. p \in Seq(Qubits) /\ Len(p) = n /\ DOMAIN p = 1..n
  BY <1>1
<1>3. \A i, j \in 1..n : a[o[i]].qubit = a[o[j]].qubit => i = j
  BY <1>8 DEF BitsOK
<1>4. \A i \in 1..n : p[i] = a[o[i]].qubit
  OBVIOUS
<1> HIDE DEF p
<1>5. \A i, j \in DOMAIN p : p[i] = p[j] => i = j
  BY <1>2, <1>3, <1>4
<1>6. IsInjective(p)
  BY <1>5 DEF IsInjective
<1>7. q = p
  BY <1>8 DEF OnQubitsOf, p
<1> QED BY <1>2, <1>4, <1>6, <1>7

\* The gates that have a control, what is left of them without one, and its place.
Reduction(kind, p, e) ==
  \/ kind \in {"CX", "CY", "CZ", "CRX", "CRY", "CRZ"} /\ p = {1} /\ e.remaining = <<2>> /\ Arity(e.reduced) = 1
  \/ kind = "CCX" /\ p = {1} /\ e.remaining = <<2, 3>> /\ Arity(e.reduced) = 2
  \/ kind = "CCX" /\ p = {2} /\ e.remaining = <<1, 3>> /\ Arity(e.reduced) = 2
  \/ kind = "CCX" /\ p = {1, 2} /\ e.remaining = <<3>> /\ Arity(e.reduced) = 1

\* The entry of the table for the gate kind, of which the operands at p are
\* classical.
IsEntryFor(e, kind, p) == e = CHOOSE x \in ReductionTable : x.gate = kind /\ x.pattern = p

\* The same base gate is left, on the other operands.
LEMMA TableIs ==
  ASSUME NEW kind \in Kinds, kind # "SWAP", NEW p, p \in SUBSET (1..GateInfo[kind].controls), p # {},
         NEW e, IsEntryFor(e, kind, p)
  PROVE  /\ Reduction(kind, p, e) /\ e.reduced \in Kinds \ {"SWAP"}
         /\ GateInfo[e.reduced].base = GateInfo[kind].base /\ (e.reduced \in Rotations <=> kind \in Rotations)
<1> DEFINE single == [CX |-> "X", CY |-> "Y", CZ |-> "Z", CRX |-> "RX", CRY |-> "RY", CRZ |-> "RZ"]
           Six == {"CX", "CY", "CZ", "CRX", "CRY", "CRZ"}
           Entry(g, w, r, m) == [gate |-> g, pattern |-> w, reduced |-> r, remaining |-> m]
<1>1. \A x : x \in ReductionTable <=>
        \/ \E g \in Six : x = Entry(g, {1}, single[g], <<2>>)
        \/ x = Entry("CCX", {1}, "CX", <<2, 3>>)
        \/ x = Entry("CCX", {2}, "CX", <<1, 3>>)
        \/ x = Entry("CCX", {1, 2}, "X", <<3>>)
  <2>1. DOMAIN single = Six
    OBVIOUS
  <2>2. ReductionTable =
          {Entry(g, {1}, single[g], <<2>>) : g \in DOMAIN single}
          \cup {Entry("CCX", {1}, "CX", <<2, 3>>), Entry("CCX", {2}, "CX", <<1, 3>>), Entry("CCX", {1, 2}, "X", <<3>>)}
    BY DEF ReductionTable
  <2> HIDE DEF single, Six, Entry
  <2> QED BY <2>1, <2>2
<1>2. \/ kind \in Six /\ p = {1}
      \/ kind = "CCX" /\ (p = {1} \/ p = {2} \/ p = {1, 2})
  <2>1. kind \in Six \/ kind = "CCX" \/ GateInfo[kind].controls = 0
    BY KindsAre DEF GateInfo
  <2>2. CASE kind \in Six
    <3>1. GateInfo[kind].controls = 1
      BY <2>2 DEF GateInfo
    <3> QED BY <2>2, <3>1
  <2>3. CASE kind = "CCX"
    <3>1. GateInfo[kind].controls = 2
      BY <2>3 DEF GateInfo
    <3>2. p \in SUBSET {1, 2}
      BY <3>1
    <3> QED BY <2>3, <3>2
  <2>4. CASE GateInfo[kind].controls = 0
    <3>1. 1..0 = {}
      OBVIOUS
    <3>2. p \in SUBSET {}
      BY <2>4, <3>1
    <3> QED BY <3>2
  <2> QED BY <2>1, <2>2, <2>3, <2>4
<1>3. \A g, w, r, m : Entry(g, w, r, m).gate = g /\ Entry(g, w, r, m).pattern = w
        /\ Entry(g, w, r, m).reduced = r /\ Entry(g, w, r, m).remaining = m
  OBVIOUS
<1>4. e \in ReductionTable /\ e.gate = kind /\ e.pattern = p
  <2>1. \E x \in ReductionTable : x.gate = kind /\ x.pattern = p
    <3> HIDE DEF single, Entry, Six
    <3>1. CASE kind \in Six /\ p = {1}
      <4>1. Entry(kind, {1}, single[kind], <<2>>) \in ReductionTable
        BY <1>1, <3>1
      <4> QED BY <1>3, <3>1, <4>1
    <3>2. CASE kind = "CCX" /\ p = {1}
      BY <1>1, <1>3, <3>2
    <3>3. CASE kind = "CCX" /\ p = {2}
      BY <1>1, <1>3, <3>3
    <3>4. CASE kind = "CCX" /\ p = {1, 2}
      BY <1>1, <1>3, <3>4
    <3> QED BY <1>2, <3>1, <3>2, <3>3, <3>4
  <2> QED BY <2>1 DEF IsEntryFor
<1>5. /\ \A g \in Six : single[g] \in Kinds \ {"SWAP"} /\ GateInfo[single[g]].base = GateInfo[g].base
           /\ (single[g] \in Rotations <=> g \in Rotations) /\ Arity(single[g]) = 1
      /\ "CX" \in Kinds \ {"SWAP"} /\ GateInfo["CX"].base = GateInfo["CCX"].base /\ "CX" \notin Rotations /\ Arity("CX") = 2
      /\ "X" \in Kinds \ {"SWAP"} /\ GateInfo["X"].base = GateInfo["CCX"].base /\ "X" \notin Rotations /\ Arity("X") = 1
      /\ "CCX" \notin Rotations
  BY KindsAre DEF GateInfo, Rotations, Arity
<1>6. {1} # {2} /\ {1} # {1, 2} /\ {2} # {1, 2}
  OBVIOUS
<1> HIDE DEF single, Entry
<1>7. CASE \E g \in Six : e = Entry(g, {1}, single[g], <<2>>)
  <2>1. PICK g \in Six : e = Entry(g, {1}, single[g], <<2>>)
    BY <1>7
  <2>2. kind = g /\ p = {1} /\ e.reduced = single[g] /\ e.remaining = <<2>>
    BY <1>3, <1>4, <2>1
  <2> QED BY <1>5, <2>2 DEF Reduction
<1>8. CASE e = Entry("CCX", {1}, "CX", <<2, 3>>)
  <2>1. kind = "CCX" /\ p = {1} /\ e.reduced = "CX" /\ e.remaining = <<2, 3>>
    BY <1>3, <1>4, <1>8
  <2> QED BY <1>5, <2>1 DEF Reduction
<1>9. CASE e = Entry("CCX", {2}, "CX", <<1, 3>>)
  <2>1. kind = "CCX" /\ p = {2} /\ e.reduced = "CX" /\ e.remaining = <<1, 3>>
    BY <1>3, <1>4, <1>9
  <2> QED BY <1>5, <2>1 DEF Reduction
<1>10. CASE e = Entry("CCX", {1, 2}, "X", <<3>>)
  <2>1. kind = "CCX" /\ p = {1, 2} /\ e.reduced = "X" /\ e.remaining = <<3>>
    BY <1>3, <1>4, <1>10
  <2> QED BY <1>5, <2>1 DEF Reduction
<1> QED BY <1>1, <1>4, <1>7, <1>8, <1>9, <1>10

\* Nothing is left out of a gate whose bits all have qubits.
LEMMA WholeReduces ==
  ASSUME NEW names, NEW a, BitsOK(a, names), NEW kind, NEW z, NEW ops, GateOK(kind, z, ops, names),
         \A i \in 1..Len(ops) : ~IsClassical(a[ops[i]]),
         NEW q, OnQubitsOf(a, ops, q)
  PROVE  /\ q \in Seq(Qubits) /\ Len(q) = Len(ops) /\ IsInjective(q) /\ \A i \in 1..Len(ops) : q[i] = a[ops[i]].qubit
         /\ kind # "SWAP" => Reduces(kind, ops, a, kind, q)
<1> DEFINE n == Len(ops)  C == ControlsOf(ops)  t == TargetOf(ops)
<1>1. /\ n \in 1..3 /\ DOMAIN ops = 1..n /\ (\A i \in 1..n : ops[i] \in names)
      /\ (\A i, j \in 1..n : ops[i] = ops[j] => i = j)
      /\ C \in SUBSET names /\ kind \in Kinds /\ n = Arity(kind)
  BY OperandsOf DEF GateOK
<1>2. OperandsOK(names, a, n, ops)
  BY <1>1 DEF OperandsOK
<1>3. \A i \in 1..n : q[i] = a[ops[i]].qubit
  BY <1>1 DEF OnQubitsOf
<1>4. DOMAIN q = 1..n
  BY <1>1 DEF OnQubitsOf
<1>5. ~IsClassical(a[t]) /\ \A i \in 1..(n - 1) : i \in 1..n /\ ~IsClassical(a[ops[i]])
  BY <1>1 DEF TargetOf
<1> HIDE DEF n
<1>6. q \in Seq(Qubits)
  BY <1>1, <1>2, QubitsOfOperands
<1>7. IsInjective(q)
  BY <1>1, <1>2, QubitsOfOperands
<1>8. Len(q) = n
  <2>1. DOMAIN q = 1..Len(q) /\ Len(q) \in Nat
    BY <1>6, LenProperties
  <2> QED BY <1>1, <1>4, <2>1
<1>9. TargetOf(q) = a[t].qubit
  BY <1>1, <1>3, <1>8 DEF TargetOf, n
<1>10. ControlsOf(q) = QubitsOf(a, C)
  <2>1. \A x : x \in QubitsOf(a, C) <=> \E b \in C : ~IsClassical(a[b]) /\ a[b].qubit = x
    BY <1>1, QubitsOfAre
  <2>2. C = {ops[i] : i \in 1..(n - 1)}
    BY DEF ControlsOf, n
  <2>3. \A x : x \in QubitsOf(a, C) <=> \E i \in 1..(n - 1) : ~IsClassical(a[ops[i]]) /\ a[ops[i]].qubit = x
    BY <2>1, <2>2
  <2>4. \A x : x \in ControlsOf(q) <=> \E i \in 1..(n - 1) : q[i] = x
    BY <1>8 DEF ControlsOf
  <2>5. \A i \in 1..(n - 1) : q[i] = a[ops[i]].qubit /\ ~IsClassical(a[ops[i]])
    BY <1>3, <1>5
  <2>6. \A x : x \in ControlsOf(q) <=> x \in QubitsOf(a, C)
    BY <2>3, <2>4, <2>5
  <2> QED BY <2>6
<1>11. \A c \in C : ~IsClassical(a[c])
  BY <1>5 DEF ControlsOf, n
<1>12. kind # "SWAP" => Reduces(kind, ops, a, kind, q)
  BY <1>1, <1>5, <1>6, <1>7, <1>8, <1>9, <1>10, <1>11 DEF Reduces
<1> QED BY <1>3, <1>6, <1>7, <1>8, <1>12 DEF n

\* The mixed dispatch of a gate but SWAP, no classical control of which is 0,
\* leaves the gate on the operands that have qubits.
LEMMA MixedReduces ==
  ASSUME NEW names, NEW a, BitsOK(a, names), NEW kind, NEW z, NEW ops, GateOK(kind, z, ops, names), kind # "SWAP",
         Pattern(a, ops) \subseteq 1..GateInfo[kind].controls,
         \A i \in Pattern(a, ops) : a[ops[i]].value # 0
  PROVE  \E r, q : DispatchMixed(kind, z, a, ops) = Dispatched(a, <<Gate(r, z, q)>>) /\ Reduces(kind, ops, a, r, q)
<1> DEFINE n == Len(ops)  p == Pattern(a, ops)  C == ControlsOf(ops)  t == TargetOf(ops)
<1>1. /\ n \in 1..3 /\ DOMAIN ops = 1..n /\ (\A i \in 1..n : ops[i] \in names)
      /\ (\A i, j \in 1..n : ops[i] = ops[j] => i = j)
      /\ C \in SUBSET names /\ t \in names
  BY OperandsOf
<1>2. kind \in Kinds /\ n = Arity(kind) /\ n = GateInfo[kind].controls + 1 /\ GateInfo[kind].controls \in 0..2
  BY ArityIs DEF GateOK
<1>3. \A i \in 1..n : i \in p <=> IsClassical(a[ops[i]])
  BY <1>1 DEF Pattern
<1>4. ~IsClassical(a[t])
  <2>1. n \notin 1..GateInfo[kind].controls /\ n \in 1..n
    BY <1>1, <1>2
  <2> QED BY <1>3, <2>1 DEF TargetOf
<1>5. \A c \in C : IsClassical(a[c]) => a[c].value = 1
  <2> SUFFICES ASSUME NEW i \in 1..(n - 1), IsClassical(a[ops[i]])
               PROVE  a[ops[i]].value = 1
    BY DEF ControlsOf
  <2>1. i \in 1..n
    BY <1>1
  <2> QED BY <1>1, <1>3, <2>1, BitsAre
<1>6. \A i \in p : ~(a[ops[i]].value = 0)
  OBVIOUS
<1>7. \A q : q \in QubitsOf(a, C) <=> \E i \in 1..(n - 1) : ~IsClassical(a[ops[i]]) /\ a[ops[i]].qubit = q
  <2>1. \A q : q \in QubitsOf(a, C) <=> \E b \in C : ~IsClassical(a[b]) /\ a[b].qubit = q
    BY <1>1, QubitsOfAre
  <2> QED BY <2>1 DEF ControlsOf
<1>8. CASE p = {}
  <2> DEFINE q == [i \in DOMAIN ops |-> a[ops[i]].qubit]
  <2>1. DispatchMixed(kind, z, a, ops) = Dispatched(a, <<Gate(kind, z, q)>>)
    BY <1>6, <1>8 DEF DispatchMixed, OnQubits
  <2>2. \A i \in 1..n : ~IsClassical(a[ops[i]])
    BY <1>3, <1>8
  <2>3. OnQubitsOf(a, ops, q)
    BY DEF OnQubitsOf
  <2> HIDE DEF q
  <2>4. Reduces(kind, ops, a, kind, q)
    BY <2>2, <2>3, WholeReduces
  <2> QED BY <2>1, <2>4
<1>9. CASE p # {}
  <2> DEFINE e == CHOOSE x \in ReductionTable : x.gate = kind /\ x.pattern = p
             r == e.reduced  w == e.remaining
             o == [i \in DOMAIN w |-> ops[w[i]]]
             q == [i \in DOMAIN o |-> a[o[i]].qubit]
  <2>1. DispatchMixed(kind, z, a, ops) = Dispatched(a, <<Gate(r, z, q)>>)
    BY <1>6, <1>9 DEF DispatchMixed, OnQubits
  <2>2. IsEntryFor(e, kind, p)
    BY DEF IsEntryFor
  <2> HIDE DEF e
  <2>3. /\ Reduction(kind, p, e) /\ e.reduced \in Kinds \ {"SWAP"}
        /\ GateInfo[e.reduced].base = GateInfo[kind].base /\ (e.reduced \in Rotations <=> kind \in Rotations)
    <3> HIDE DEF p
    <3> QED BY <1>2, <1>9, <2>2, TableIs DEF p
  <2> HIDE DEF p
  <2>4. /\ kind \in {"CX", "CY", "CZ", "CRX", "CRY", "CRZ"} => n = 2
        /\ kind = "CCX" => n = 3
    BY <1>2 DEF GateInfo
  <2> SUFFICES ASSUME TRUE
               PROVE  /\ q \in Seq(Qubits) /\ Len(q) = Arity(r) /\ IsInjective(q)
                      /\ TargetOf(q) = a[t].qubit /\ \A x : x \in ControlsOf(q) <=> x \in QubitsOf(a, C)
    <3>1. ControlsOf(q) = QubitsOf(a, C) => Reduces(kind, ops, a, r, q) \/ ~(q \in Seq(Qubits) /\ Len(q) = Arity(r) /\ IsInjective(q) /\ TargetOf(q) = a[t].qubit)
      BY <1>4, <1>5, <2>3 DEF Reduces
    <3> QED BY <2>1, <3>1
  <2>5. t = ops[n]
    BY DEF TargetOf
  <2>6. CASE Arity(r) = 1 /\ ((n = 2 /\ p = {1} /\ w = <<2>>) \/ (n = 3 /\ p = {1, 2} /\ w = <<3>>))
    <3>1. DOMAIN o = 1..1 /\ o[1] = ops[n]
      <4>1. CASE n = 2 /\ w = <<2>>
        BY <4>1
      <4>2. CASE n = 3 /\ w = <<3>>
        BY <4>2
      <4> QED BY <2>6, <4>1, <4>2
    <3>2. ops[n] \in names /\ ~IsClassical(a[ops[n]])
      BY <1>1, <1>4, <2>5
    <3> HIDE DEF o, w, r
    <3>3. q \in Seq(Qubits) /\ Len(q) = 1 /\ IsInjective(q) /\ q[1] = a[ops[n]].qubit
      <4>1. 1 \in 1..3 /\ 1..1 = {1} /\ 1 \in {1}
        OBVIOUS
      <4>2. /\ \A i \in 1..1 : o[i] \in names /\ ~IsClassical(a[o[i]])
            /\ \A i, j \in 1..1 : o[i] = o[j] => i = j
        BY <3>1, <3>2, <4>1
      <4>3. q \in Seq(Qubits) /\ Len(q) = 1 /\ IsInjective(q) /\ \A i \in 1..1 : q[i] = a[o[i]].qubit
        <5>1. OnQubitsOf(a, o, q)
          BY DEF OnQubitsOf
        <5>2. OperandsOK(names, a, 1, o)
          BY <3>1, <4>1, <4>2 DEF OperandsOK
        <5> HIDE DEF q
        <5> QED BY <3>1, <4>1, <5>1, <5>2, QubitsOfOperands
      <4> QED BY <3>1, <4>1, <4>3
    <3> HIDE DEF q
    <3>4. ControlsOf(q) = {} /\ TargetOf(q) = q[1]
      BY <3>3, ShortOperands
    <3>5. \A i \in 1..(n - 1) : IsClassical(a[ops[i]])
      <4>1. \A i \in 1..(n - 1) : i \in p /\ i \in 1..n
        <5>1. CASE n = 2 /\ p = {1}
          BY <5>1
        <5>2. CASE n = 3 /\ p = {1, 2}
          BY <5>2
        <5> QED BY <2>6, <5>1, <5>2
      <4> QED BY <1>3, <4>1 DEF p
    <3> QED BY <1>7, <2>5, <2>6, <3>3, <3>4, <3>5
  <2>7. CASE Arity(r) = 2 /\ n = 3 /\ ((p = {1} /\ w = <<2, 3>>) \/ (p = {2} /\ w = <<1, 3>>))
    <3> DEFINE k == w[1]
    <3>1. k \in {1, 2} /\ DOMAIN o = 1..2 /\ o[1] = ops[k] /\ o[2] = ops[3] /\ k \notin p
      BY <2>7
    <3>2. \A i \in 1..(n - 1) : i # k => i \in p
      BY <2>7
    <3> HIDE DEF k, o, w, r
    <3>3. /\ ops[3] \in names /\ ~IsClassical(a[ops[3]]) /\ ops[k] \in names /\ ~IsClassical(a[ops[k]]) /\ ops[k] # ops[3]
          /\ \A i \in 1..2 : i # k => IsClassical(a[ops[i]])
      <4>1. 3 \in 1..n /\ k \in 1..n /\ k # 3 /\ 1..(n - 1) = 1..2 /\ 1..2 \subseteq 1..n
        BY <2>7, <3>1
      <4>2. \A i \in 1..2 : i # k => i \in p
        BY <3>2, <4>1
      <4> QED BY <1>1, <1>3, <1>4, <2>5, <2>7, <3>1, <4>1, <4>2 DEF p
    <3>4. q \in Seq(Qubits) /\ Len(q) = 2 /\ IsInjective(q) /\ q[1] = a[ops[k]].qubit /\ q[2] = a[ops[3]].qubit
      <4>1. 2 \in 1..3 /\ 1..2 = {1, 2}
        OBVIOUS
      <4>2. /\ \A i \in 1..2 : o[i] \in names /\ ~IsClassical(a[o[i]])
            /\ \A i, j \in 1..2 : o[i] = o[j] => i = j
        BY <3>1, <3>3, <4>1
      <4>3. q \in Seq(Qubits) /\ Len(q) = 2 /\ IsInjective(q) /\ \A i \in 1..2 : q[i] = a[o[i]].qubit
        <5>1. OnQubitsOf(a, o, q)
          BY DEF OnQubitsOf
        <5>2. OperandsOK(names, a, 2, o)
          BY <3>1, <4>1, <4>2 DEF OperandsOK
        <5> HIDE DEF q
        <5> QED BY <3>1, <4>1, <5>1, <5>2, QubitsOfOperands
      <4> QED BY <3>1, <4>1, <4>3
    <3> HIDE DEF q
    <3>5. ControlsOf(q) = {q[1]} /\ TargetOf(q) = q[2]
      BY <3>4, ShortOperands
    <3>6. \A x : x \in QubitsOf(a, C) <=> x = a[ops[k]].qubit
      <4>1. 1..(n - 1) = {1, 2}
        BY <2>7
      <4>2. \A x : x \in QubitsOf(a, C) <=> \E i \in {1, 2} : ~IsClassical(a[ops[i]]) /\ a[ops[i]].qubit = x
        BY <1>7, <4>1
      <4>3. 1..2 = {1, 2}
        OBVIOUS
      <4> QED BY <3>1, <3>3, <4>2, <4>3
    <3> QED BY <2>5, <2>7, <3>4, <3>5, <3>6
  <2>8. \/ Arity(r) = 1 /\ ((n = 2 /\ p = {1} /\ w = <<2>>) \/ (n = 3 /\ p = {1, 2} /\ w = <<3>>))
        \/ Arity(r) = 2 /\ n = 3 /\ ((p = {1} /\ w = <<2, 3>>) \/ (p = {2} /\ w = <<1, 3>>))
    <3>1. Reduction(kind, p, e)
      BY <2>3
    <3> HIDE DEF n
    <3> QED BY ONLY <2>4, <3>1 DEF Reduction, r, w
  <2> HIDE DEF q, r, w, o
  <2> QED BY <2>6, <2>7, <2>8
<1> QED BY <1>8, <1>9

\* The last operand, and the others.
LEMMA FrontIs ==
  ASSUME NEW names, NEW kind, NEW z, NEW ops, GateOK(kind, z, ops, names)
  PROVE  Range(Front(ops)) = ControlsOf(ops) /\ Last(ops) = TargetOf(ops)
<1> DEFINE n == Len(ops) - 1  r == SubSeq(ops, 1, n)
<1>1. ops \in Seq(names) /\ n \in 0..2 /\ \A i \in 1..n : ops[i] \in names
  <2>1. Len(ops) \in 1..3 /\ (\A i \in 1..Len(ops) : ops[i] \in names) /\ ops \in Seq(names)
    BY OperandsOf DEF GateOK
  <2>2. n \in 0..2 /\ \A i \in 1..n : i \in 1..Len(ops)
    BY <2>1
  <2> QED BY <2>1, <2>2
<1> HIDE DEF n
<1>2. /\ r \in Seq(names) /\ Len(r) = (IF 1 <= n THEN n - 1 + 1 ELSE 0)
      /\ \A i \in 1..(n - 1 + 1) : r[i] = ops[1 + i - 1]
  BY <1>1, SubSeqProperties
<1> HIDE DEF r
<1>3. DOMAIN r = 1..n /\ \A i \in 1..n : r[i] = ops[i]
  BY <1>1, <1>2
<1>4. Range(r) = ControlsOf(ops)
  BY <1>3 DEF Range, ControlsOf, n
<1> QED BY <1>4 DEF Front, Last, TargetOf, r, n

\* A change of values keeps the qubits.
LEMMA SameQubits ==
  ASSUME NEW names, NEW a, BitsOK(a, names), NEW b, BitsOK(b, names), \A c \in names : b[c].qubit = a[c].qubit,
         NEW psi \in Vectors(Qubits), Within(a, psi)
  PROVE  Within(b, psi)
<1>1. DOMAIN a = names /\ DOMAIN b = names /\ ClassicalOf(b) = ClassicalOf(a)
  BY BitsAre DEF ClassicalOf, IsClassical
<1>2. QubitsOf(b, names) = QubitsOf(a, names)
  BY <1>1 DEF QubitsOf
<1> QED BY <1>1, <1>2 DEF Within

\* Dispatch without a gate is faithful where the gate does to the bits what the
\* change of their values does, up to a factor.
LEMMA QuietIsFaithful ==
  ASSUME NEW names, NEW a, BitsOK(a, names), NEW kind, NEW z, NEW ops, GateOK(kind, z, ops, names),
         NEW b, BitsOK(b, names), \A c \in names : b[c].qubit = a[c].qubit,
         \A psi \in Vectors(Qubits) : Multiplied(names, Meaning(kind, z, ops, Together(a, psi)), Together(b, psi))
  PROVE  Faithful(kind, z, ops, a, Dispatched(b, <<>>), names)
<1> DEFINE d == Dispatched(b, <<>>)
<1>1. d.bits = b /\ d.gates = <<>> /\ d.gates \in Seq(Gates) /\ Len(d.gates) <= 3
  BY DEF Dispatched
<1> HIDE DEF d
<1>2. ASSUME NEW psi \in Vectors(Qubits), Within(a, psi)
      PROVE  /\ Within(d.bits, After(d.gates, psi))
             /\ Proportional(Together(d.bits, After(d.gates, psi)), Meaning(kind, z, ops, Together(a, psi)))
  <2> DEFINE phi == Together(a, psi)  v == Meaning(kind, z, ops, phi)  w == Together(b, psi)
  <2>1. After(d.gates, psi) = psi
    BY <1>1, AfterFew
  <2>2. Within(b, psi)
    BY <1>2, SameQubits
  <2>3. phi \in Vectors(names) /\ w \in Vectors(names)
    BY TogetherIsVector
  <2>4. PICK k \in NonZero : \A s \in SUBSET names : v[s] = Times(k, w[s])
    BY DEF Multiplied
  <2> HIDE DEF phi
  <2>5. v \in Vectors(names)
    BY <2>3, MeaningIsVector
  <2> HIDE DEF v, w
  <2>6. Proportional(v, w)
    BY <2>3, <2>4, <2>5, Multiple
  <2>7. Proportional(w, v)
    BY <2>3, <2>5, <2>6, ProportionalBack
  <2> QED BY <1>1, <2>1, <2>2, <2>7 DEF v, w, phi
<1>3. Faithful(kind, z, ops, a, d, names)
  BY <1>1, <1>2 DEF Faithful
<1> QED BY <1>3 DEF d

\* A gate with a classical control that is 0 does nothing.
LEMMA IdleIsFaithful ==
  ASSUME NEW names, NEW a, BitsOK(a, names), NEW kind, NEW z, NEW ops, GateOK(kind, z, ops, names), kind # "SWAP",
         NEW c \in ControlsOf(ops), IsClassical(a[c]), a[c].value = 0
  PROVE  Faithful(kind, z, ops, a, Dispatched(a, <<>>), names)
<1> DEFINE base == GateInfo[kind].base  h == Times(z, z)  f == FactorOf(kind, z)  C == ControlsOf(ops)  t == TargetOf(ops)
<1>1. /\ base \in Bases /\ h \in NonZero /\ f \in NonZero
      /\ \A psi : Meaning(kind, z, ops, psi) = Controlled(base, h, f, C, t, psi)
  BY MeaningIs
<1>2. C \in SUBSET names /\ t \in names /\ t \notin C /\ c \in C
  BY OperandsOf
<1> HIDE DEF base, h, f, C, t
<1>3. ASSUME NEW psi \in Vectors(Qubits)
      PROVE  \A s \in SUBSET names : Meaning(kind, z, ops, Together(a, psi))[s] = Times(f, Together(a, psi)[s])
  <2>1. \A s \in SUBSET names : Controlled(base, h, f, C, t, Together(a, psi))[s] = Times(f, Together(a, psi)[s])
    BY <1>1, <1>2, ControlledOff DEF NonZero
  <2> QED BY <1>1, <2>1
<1>4. \A psi \in Vectors(Qubits) : Multiplied(names, Meaning(kind, z, ops, Together(a, psi)), Together(a, psi))
  BY <1>1, <1>3 DEF Multiplied
<1> QED BY <1>4, QuietIsFaithful

\* A gate on classical bits is faithful.
LEMMA ClassicalIsFaithful ==
  ASSUME NEW names, NEW a, BitsOK(a, names), NEW kind, NEW z, NEW ops, GateOK(kind, z, ops, names),
         \A i \in 1..Len(ops) : IsClassical(a[ops[i]]), GateInfo[kind].effect # "branch"
  PROVE  Faithful(kind, z, ops, a, DispatchClassical(kind, a, ops), names)
<1> DEFINE C == ControlsOf(ops)  t == TargetOf(ops)
<1>1. /\ Range(Front(ops)) = C /\ Last(ops) = t /\ C \in SUBSET names /\ t \in names /\ t \notin C
      /\ Len(ops) \in 1..3 /\ \A i \in 1..Len(ops) : ops[i] \in names
  BY OperandsOf, FrontIs
<1>2. IsClassical(a[t]) /\ \A c \in C : IsClassical(a[c])
  <2>1. Len(ops) \in 1..Len(ops) /\ \A i \in 1..(Len(ops) - 1) : i \in 1..Len(ops)
    BY <1>1
  <2> QED BY <2>1 DEF ControlsOf, TargetOf
<1>3. kind \in Kinds
  BY DEF GateOK
<1>4. CASE kind = "SWAP"
  <2> DEFINE x == ops[1]  y == ops[2]  b == Flipped(kind, a, ops)
  <2>1. Len(ops) = 2 /\ x \in names /\ y \in names /\ IsClassical(a[x]) /\ IsClassical(a[y])
    <3>1. Len(ops) = 2
      BY <1>4, ArityIs DEF GateOK
    <3> QED BY <1>1, <3>1
  <2>2. DispatchClassical(kind, a, ops) = Dispatched(b, <<>>)
    BY <1>4 DEF DispatchClassical, GateInfo
  <2>3. ExchangedAt(a, b, x, y)
    BY <1>4 DEF Flipped, ExchangedAt
  <2>4. \A psi : Meaning(kind, z, ops, psi) = Exchange(x, y, psi)
    BY <1>4, SwapIs
  <2> HIDE DEF b, x, y
  <2>5. BitsOK(b, names) /\ \A psi \in Vectors(Qubits) : Exchange(x, y, Together(a, psi)) = Together(b, psi)
    <3>1. Vectors(Qubits) # {}
      <4>1. [s \in SUBSET Qubits |-> Zero] \in Vectors(Qubits)
        BY Units DEF Vectors
      <4> QED BY <4>1
    <3>2. \A psi \in Vectors(Qubits) : BitsOK(b, names) /\ Exchange(x, y, Together(a, psi)) = Together(b, psi)
      BY <2>1, <2>3, SwapValues
    <3> QED BY <3>1, <3>2
  <2>6. \A c \in names : b[c].qubit = a[c].qubit
    BY <2>1, <2>3 DEF ExchangedAt, BitsOK, BitRecords
  <2>7. ASSUME NEW psi \in Vectors(Qubits)
        PROVE  Multiplied(names, Meaning(kind, z, ops, Together(a, psi)), Together(b, psi))
    <3>1. Together(b, psi) \in Vectors(names)
      BY <2>5, TogetherIsVector
    <3>2. \A s \in SUBSET names : Times(One, Together(b, psi)[s]) = Together(b, psi)[s]
      BY <3>1, Units DEF Vectors
    <3>3. Meaning(kind, z, ops, Together(a, psi)) = Together(b, psi)
      BY <2>4, <2>5
    <3> QED BY <3>2, <3>3, Units DEF Multiplied
  <2>8. Faithful(kind, z, ops, a, Dispatched(b, <<>>), names)
    BY <2>5, <2>6, <2>7, QuietIsFaithful
  <2> QED BY <2>2, <2>8
<1>5. CASE kind # "SWAP" /\ \E c \in C : a[c].value # 1
  <2>1. PICK c \in C : a[c].value # 1
    BY <1>5
  <2>2. IsClassical(a[c]) /\ a[c].value = 0
    BY <1>1, <1>2, <2>1, BitsAre
  <2>3. Faithful(kind, z, ops, a, Dispatched(a, <<>>), names)
    BY <1>5, <2>2, IdleIsFaithful
  <2>4. Flipped(kind, a, ops) = a
    BY <1>1, <1>5 DEF Flipped
  <2> QED BY <2>3, <2>4 DEF DispatchClassical
<1>6. CASE kind # "SWAP" /\ \A c \in C : a[c].value = 1
  <2> DEFINE base == GateInfo[kind].base  h == Times(z, z)  f == FactorOf(kind, z)
  <2>1. /\ base \in Bases /\ h \in NonZero /\ f \in NonZero
        /\ \A psi : Meaning(kind, z, ops, psi) = Controlled(base, h, f, C, t, psi)
    BY <1>6, MeaningIs
  <2>2. \/ GateInfo[kind].effect = "flip" /\ base \in {"X", "Y"}
        \/ GateInfo[kind].effect = "none" /\ base \in {"Z", "S", "P", "RZ"}
    BY <1>3, <1>6, KindsAre DEF GateInfo
  <2>3. \A c \in C : IsClassical(a[c]) /\ a[c].value = 1
    BY <1>2, <1>6
  <2>4. CASE GateInfo[kind].effect = "none" /\ base \in {"Z", "S", "P", "RZ"}
    <3>1. DispatchClassical(kind, a, ops) = Dispatched(a, <<>>)
      BY <2>4 DEF DispatchClassical
    <3> HIDE DEF base, h, f, C, t
    <3>2. \A psi \in Vectors(Qubits) : Multiplied(names, Controlled(base, h, f, C, t, Together(a, psi)), Together(a, psi))
      BY <1>1, <1>2, <2>1, <2>3, <2>4, ControlledKept DEF NonZero
    <3>3. \A psi \in Vectors(Qubits) : Multiplied(names, Meaning(kind, z, ops, Together(a, psi)), Together(a, psi))
      BY <2>1, <3>2
    <3> QED BY <3>1, <3>3, QuietIsFaithful
  <2>5. CASE GateInfo[kind].effect = "flip" /\ base \in {"X", "Y"}
    <3> DEFINE b == Flipped(kind, a, ops)
    <3>1. DispatchClassical(kind, a, ops) = Dispatched(b, <<>>)
      BY <2>5 DEF DispatchClassical
    <3>2. FlippedAt(a, b, t)
      BY <1>1, <1>6 DEF Flipped, FlippedAt
    <3> HIDE DEF base, h, f, C, t, b
    <3>3. ASSUME NEW psi \in Vectors(Qubits)
          PROVE  /\ BitsOK(b, names)
                 /\ Multiplied(names, Controlled(base, h, f, C, t, Together(a, psi)), Together(b, psi))
      <4>1. f \in Gaussian
        BY <2>1 DEF NonZero
      <4>2. BitsOK(b, names)
        BY <1>1, <1>2, <2>1, <2>3, <2>5, <3>2, <4>1, ControlledFlips
      <4>3. Multiplied(names, Controlled(base, h, f, C, t, Together(a, psi)), Together(b, psi))
        BY <1>1, <1>2, <2>1, <2>3, <2>5, <3>2, <4>1, ControlledFlips
      <4> QED BY <4>2, <4>3
    <3>4. BitsOK(b, names)
      <4>1. [s \in SUBSET Qubits |-> Zero] \in Vectors(Qubits)
        BY Units DEF Vectors
      <4> QED BY <3>3, <4>1
    <3>5. \A psi \in Vectors(Qubits) : Multiplied(names, Meaning(kind, z, ops, Together(a, psi)), Together(b, psi))
      BY <2>1, <3>3
    <3>6. \A c \in names : b[c].qubit = a[c].qubit
      BY <3>2 DEF FlippedAt, BitsOK, BitRecords
    <3>7. Faithful(kind, z, ops, a, Dispatched(b, <<>>), names)
      BY <3>4, <3>5, <3>6, QuietIsFaithful
    <3> QED BY <3>1, <3>7
  <2> QED BY <2>2, <2>4, <2>5
<1> QED BY <1>4, <1>5, <1>6

\* A gate whose target has a qubit is faithful.
LEMMA MixedIsFaithful ==
  ASSUME NEW names, NEW a, BitsOK(a, names), NEW kind, NEW z, NEW ops, GateOK(kind, z, ops, names),
         Pattern(a, ops) \subseteq 1..GateInfo[kind].controls
  PROVE  Faithful(kind, z, ops, a, DispatchMixed(kind, z, a, ops), names)
<1> DEFINE p == Pattern(a, ops)  n == Len(ops)
<1>1. /\ n \in 1..3 /\ DOMAIN ops = 1..n /\ (\A i \in 1..n : ops[i] \in names)
      /\ kind \in Kinds /\ n = Arity(kind)
  BY OperandsOf DEF GateOK
<1>2. \A i \in 1..n : i \in p <=> IsClassical(a[ops[i]])
  BY <1>1 DEF Pattern
<1>3. CASE kind = "SWAP"
  <2> DEFINE q == [i \in DOMAIN ops |-> a[ops[i]].qubit]  g == Gate(kind, z, q)  d == Dispatched(a, <<g>>)
             x == ops[1]  y == ops[2]
  <2>1. n = 2 /\ p = {}
    <3>1. GateInfo[kind].controls = 0 /\ n = 2
      BY <1>1, <1>3, ArityIs
    <3>2. 1..0 = {}
      OBVIOUS
    <3> QED BY <3>1, <3>2
  <2>2. DispatchMixed(kind, z, a, ops) = d
    BY <2>1 DEF DispatchMixed, OnQubits
  <2>3. \A i \in 1..n : ~IsClassical(a[ops[i]])
    BY <1>2, <2>1
  <2>4. OnQubitsOf(a, ops, q)
    BY DEF OnQubitsOf
  <2>5. x \in names /\ y \in names /\ ~IsClassical(a[x]) /\ ~IsClassical(a[y])
    BY <1>1, <2>1, <2>3
  <2> HIDE DEF q
  <2>6. q \in Seq(Qubits) /\ Len(q) = n /\ IsInjective(q) /\ \A i \in 1..n : q[i] = a[ops[i]].qubit
    BY <2>3, <2>4, WholeReduces
  <2>7. GateOK(kind, z, q, Qubits) /\ q[1] = a[x].qubit /\ q[2] = a[y].qubit
    BY <2>1, <2>6 DEF GateOK
  <2>8. g \in Gates /\ \A psi : Applied(g, psi) = Meaning(kind, z, q, psi)
    BY <2>7, GateIs
  <2> HIDE DEF g
  <2>9. d.bits = a /\ d.gates = <<g>> /\ d.gates \in Seq(Gates) /\ Len(d.gates) <= 3
    BY <2>8, AfterFew DEF Dispatched
  <2> HIDE DEF d
  <2>10. \A i \in 1..Len(q) : q[i] \in QubitsOf(a, names)
    <3>1. \A b \in names : ~IsClassical(a[b]) => a[b].qubit \in QubitsOf(a, names)
      BY QubitsOfAre
    <3> QED BY <1>1, <2>3, <2>6, <3>1
  <2>11. \A psi : Meaning(kind, z, ops, psi) = Exchange(x, y, psi)
    BY <1>3, SwapIs
  <2>12. \A psi : Meaning(kind, z, q, psi) = Exchange(a[x].qubit, a[y].qubit, psi)
    BY <1>3, <2>7, SwapIs
  <2> HIDE DEF x, y
  <2>13. ASSUME NEW psi \in Vectors(Qubits), Within(a, psi)
         PROVE  /\ Within(d.bits, After(d.gates, psi))
                /\ Proportional(Together(d.bits, After(d.gates, psi)), Meaning(kind, z, ops, Together(a, psi)))
    <3> DEFINE chi == Meaning(kind, z, q, psi)
    <3>1. After(d.gates, psi) = chi
      BY <2>8, <2>9, AfterFew
    <3>2. Within(a, chi) /\ chi \in Vectors(Qubits)
      BY <2>7, <2>10, <2>13, MeaningWithin, MeaningIsVector
    <3>3. Exchange(x, y, Together(a, psi)) = Together(a, Exchange(a[x].qubit, a[y].qubit, psi))
      BY <2>5, SwapTogether
    <3>4. Meaning(kind, z, ops, Together(a, psi)) = Together(a, chi)
      BY <2>11, <2>12, <3>3
    <3> HIDE DEF chi
    <3>5. Proportional(Together(a, chi), Together(a, chi))
      BY <3>2, TogetherIsVector, ProportionalSame
    <3> QED BY <2>9, <3>1, <3>2, <3>4, <3>5
  <2>14. Faithful(kind, z, ops, a, d, names)
    BY <2>9, <2>13 DEF Faithful
  <2> QED BY <2>2, <2>14
<1>4. CASE kind # "SWAP" /\ \E i \in p : a[ops[i]].value = 0
  <2>1. PICK i \in p : a[ops[i]].value = 0
    BY <1>4
  <2>2. i \in 1..(n - 1)
    <3>1. n = GateInfo[kind].controls + 1 /\ GateInfo[kind].controls \in 0..2
      BY <1>1, <1>4, ArityIs
    <3> QED BY <3>1
  <2>3. ops[i] \in ControlsOf(ops)
    BY <2>2 DEF ControlsOf
  <2>4. IsClassical(a[ops[i]])
    BY <1>1, <1>2, <2>2
  <2>5. DispatchMixed(kind, z, a, ops) = Dispatched(a, <<>>)
    BY <1>4 DEF DispatchMixed
  <2> QED BY <1>4, <2>1, <2>3, <2>4, <2>5, IdleIsFaithful
<1>5. CASE kind # "SWAP" /\ \A i \in p : a[ops[i]].value # 0
  <2>1. PICK r, q : DispatchMixed(kind, z, a, ops) = Dispatched(a, <<Gate(r, z, q)>>) /\ Reduces(kind, ops, a, r, q)
    BY <1>5, MixedReduces
  <2> QED BY <2>1, ReducedIsFaithful
<1> QED BY <1>3, <1>4, <1>5

\* Up to n operands are promoted: bits and gates stand for what the bits a did.
Promoting(names, a, d, n) ==
  /\ BitsOK(d.bits, names) /\ d.gates \in Seq(Gates) /\ Len(d.gates) <= n
  /\ \A psi \in Vectors(Qubits) : Within(a, psi) =>
       /\ After(d.gates, psi) \in Vectors(Qubits) /\ Within(d.bits, After(d.gates, psi))
       /\ Together(d.bits, After(d.gates, psi)) = Together(a, psi)

\* One operand more is promoted.
LEMMA PromoteOperandKeeps ==
  ASSUME NEW names, NEW a, IsFiniteSet(names), Cardinality(names) <= Cardinality(Qubits),
         NEW n \in 0..1, NEW d, Promoting(names, a, d, n), NEW x \in names
  PROVE  /\ Promoting(names, a, PromoteOperand(d, x), n + 1)
         /\ ~IsClassical(PromoteOperand(d, x).bits[x])
         /\ \A c \in names : ~IsClassical(d.bits[c]) => ~IsClassical(PromoteOperand(d, x).bits[c])
<1> DEFINE e == PromoteOperand(d, x)  a1 == d.bits  g1 == d.gates
<1>1. /\ BitsOK(a1, names) /\ g1 \in Seq(Gates) /\ Len(g1) <= n /\ Len(g1) \in Nat
      /\ \A psi \in Vectors(Qubits) : Within(a, psi) =>
           /\ After(g1, psi) \in Vectors(Qubits) /\ Within(a1, After(g1, psi))
           /\ Together(a1, After(g1, psi)) = Together(a, psi)
  BY DEF Promoting
<1>2. CASE ~IsClassical(a1[x])
  <2>1. e = d
    BY <1>2 DEF PromoteOperand
  <2>2. Len(g1) <= n + 1
    BY <1>1
  <2> HIDE DEF e
  <2>3. Promoting(names, a, d, n + 1)
    BY <1>1, <2>2 DEF Promoting
  <2> QED BY <1>2, <2>1, <2>3 DEF e
<1>3. CASE IsClassical(a1[x])
  <2> DEFINE b == Promote(a1, x)  g2 == e.gates
  <2>1. PICK q \in Qubits : q \notin QubitsOf(a1, names) /\ PromotedAt(a1, b, x, q)
    BY <1>1, <1>3, PromoteIs
  <2> DEFINE g == Gate("X", One, <<q>>)
  <2>2. /\ BitsOK(b, names) /\ b[x].qubit = q /\ ~IsClassical(b[x])
        /\ \A c \in names : b[c].value = a1[c].value /\ (c # x => b[c] = a1[c])
    <3> HIDE DEF b
    <3> QED BY <1>1, <1>3, <2>1, PromotedAre
  <2>3. e = Dispatched(b, IF a1[x].value = 1 THEN Append(g1, g) ELSE g1)
    <3>1. e = Dispatched(b, IF a1[x].value = 1 THEN Append(g1, Gate("X", One, <<b[x].qubit>>)) ELSE g1)
      BY <1>3 DEF PromoteOperand
    <3> HIDE DEF b, e
    <3> QED BY <2>2, <3>1
  <2>4. e.bits = b /\ g2 = (IF a1[x].value = 1 THEN Append(g1, g) ELSE g1)
    BY <2>3 DEF Dispatched
  <2>5. g \in Gates /\ \A psi : Applied(g, psi) = Meaning("X", One, <<q>>, psi)
    <3>1. [s \in SUBSET Qubits |-> Zero] \in Vectors(Qubits)
      BY Units DEF Vectors
    <3>2. GateOK("X", One, <<q>>, Qubits)
      BY <3>1, FlipAt
    <3> QED BY <3>2, GateIs
  <2> HIDE DEF b, e, g, g2, a1, g1
  <2>6. g2 \in Seq(Gates) /\ Len(g2) <= n + 1
    <3>1. Append(g1, g) \in Seq(Gates) /\ Len(Append(g1, g)) = Len(g1) + 1
      BY <1>1, <2>5, AppendProperties
    <3> QED BY <1>1, <2>4, <3>1
  <2>7. ASSUME NEW psi \in Vectors(Qubits), Within(a, psi)
        PROVE  /\ After(g2, psi) \in Vectors(Qubits) /\ Within(b, After(g2, psi))
               /\ Together(b, After(g2, psi)) = Together(a, psi)
    <3> DEFINE xi == After(g1, psi)
    <3>1. xi \in Vectors(Qubits) /\ Within(a1, xi) /\ Together(a1, xi) = Together(a, psi)
      BY <1>1, <2>7
    <3>2. After(g2, psi) = Prepared(a1, x, q, xi)
      <4>1. CASE a1[x].value = 1
        <5>1. Len(g1) <= 2
          BY <1>1
        <5>2. After(Append(g1, g), psi) = Applied(g, xi)
          BY <1>1, <2>5, <5>1, AfterAppend
        <5> QED BY <2>4, <2>5, <4>1, <5>2 DEF Prepared
      <4>2. CASE a1[x].value # 1
        BY <2>4, <4>2 DEF Prepared
      <4> QED BY <4>1, <4>2
    <3> HIDE DEF xi
    <3> QED BY <1>1, <1>3, <2>1, <3>1, <3>2, PromotedTogether
  <2>8. Promoting(names, a, e, n + 1)
    BY <2>2, <2>4, <2>6, <2>7 DEF Promoting, g2
  <2>9. \A c \in names : ~IsClassical(a1[c]) => ~IsClassical(b[c])
    BY <2>2
  <2> QED BY <2>2, <2>4, <2>8, <2>9 DEF e, a1, g2
<1> QED BY <1>2, <1>3

\* The last gate, after the promotions.
LEMMA PromotedIsFaithful ==
  ASSUME NEW names, NEW a, NEW kind, NEW z, NEW ops, GateOK(kind, z, ops, names), kind # "SWAP",
         NEW d, Promoting(names, a, d, 2), \A i \in 1..Len(ops) : ~IsClassical(d.bits[ops[i]])
  PROVE  Faithful(kind, z, ops, a, Dispatched(d.bits, Append(d.gates, OnQubits(kind, z, d.bits, ops))), names)
<1> DEFINE b == d.bits  g1 == d.gates  q == [i \in DOMAIN ops |-> b[ops[i]].qubit]  g == Gate(kind, z, q)
           e == Dispatched(b, Append(g1, g))
<1>1. /\ BitsOK(b, names) /\ g1 \in Seq(Gates) /\ Len(g1) <= 2
      /\ \A psi \in Vectors(Qubits) : Within(a, psi) =>
           /\ After(g1, psi) \in Vectors(Qubits) /\ Within(b, After(g1, psi))
           /\ Together(b, After(g1, psi)) = Together(a, psi)
  BY DEF Promoting
<1>2. OnQubits(kind, z, b, ops) = g
  BY DEF OnQubits
<1>3. OnQubitsOf(b, ops, q)
  BY DEF OnQubitsOf
<1>4. \A i \in 1..Len(ops) : ~IsClassical(b[ops[i]])
  OBVIOUS
<1> HIDE DEF q, b, g1
<1>5. Reduces(kind, ops, b, kind, q)
  BY <1>1, <1>3, <1>4, WholeReduces
<1>6. /\ GateOK(kind, z, q, Qubits) /\ (\A i \in 1..Len(q) : q[i] \in QubitsOf(b, names))
      /\ \A psi \in Vectors(Qubits) : Meaning(kind, z, ops, Together(b, psi)) = Together(b, Meaning(kind, z, q, psi))
  BY <1>1, <1>5, ReducedTogether
<1>7. g \in Gates /\ \A psi : Applied(g, psi) = Meaning(kind, z, q, psi)
  BY <1>6, GateIs
<1> HIDE DEF g
<1>8. /\ Append(g1, g) \in Seq(Gates) /\ Len(Append(g1, g)) = Len(g1) + 1
      /\ \A psi : After(Append(g1, g), psi) = Applied(g, After(g1, psi))
  BY <1>1, <1>7, AfterAppend
<1>9. e.bits = b /\ e.gates = Append(g1, g) /\ e.gates \in Seq(Gates) /\ Len(e.gates) <= 3
  BY <1>1, <1>8 DEF Dispatched
<1> HIDE DEF e
<1>10. ASSUME NEW psi \in Vectors(Qubits), Within(a, psi)
      PROVE  /\ Within(e.bits, After(e.gates, psi))
             /\ Proportional(Together(e.bits, After(e.gates, psi)), Meaning(kind, z, ops, Together(a, psi)))
  <2> DEFINE xi == After(g1, psi)  chi == Meaning(kind, z, q, xi)
  <2>1. xi \in Vectors(Qubits) /\ Within(b, xi) /\ Together(b, xi) = Together(a, psi)
    BY <1>1, <1>10
  <2>2. After(e.gates, psi) = chi
    BY <1>7, <1>8, <1>9
  <2> HIDE DEF xi
  <2>3. Within(b, chi) /\ chi \in Vectors(Qubits)
    BY <1>1, <1>6, <2>1, MeaningWithin, MeaningIsVector
  <2>4. Meaning(kind, z, ops, Together(a, psi)) = Together(b, chi)
    BY <1>6, <2>1
  <2> HIDE DEF chi
  <2>5. Proportional(Together(b, chi), Together(b, chi))
    BY <1>1, <2>3, TogetherIsVector, ProportionalSame
  <2> QED BY <1>9, <2>2, <2>3, <2>4, <2>5
<1>11. Faithful(kind, z, ops, a, e, names)
  BY <1>1, <1>9, <1>10 DEF Faithful
<1> QED BY <1>2, <1>11 DEF e, b, g1

\* A gate that may take a bit out of 0 and 1 promotes its operands, and is faithful.
LEMMA BranchIsFaithful ==
  ASSUME NEW names, NEW a, BitsOK(a, names), IsFiniteSet(names), Cardinality(names) <= Cardinality(Qubits),
         NEW kind, NEW z, NEW ops, GateOK(kind, z, ops, names), GateInfo[kind].effect = "branch"
  PROVE  Faithful(kind, z, ops, a, DispatchBranch(kind, z, a, ops), names)
<1> DEFINE n == Len(ops)  d0 == Dispatched(a, <<>>)
           x == ops[1]  y == ops[2]
           d1 == PromoteOperand(d0, x)
           Steps(f) == f = [i \in 0..n |-> IF i = 0 THEN d0 ELSE PromoteOperand(f[i - 1], ops[i])]
           f == CHOOSE f : Steps(f)
           d == f[n]
<1>1. kind # "SWAP" /\ n \in 1..2 /\ \A i \in 1..n : ops[i] \in names
  <2>1. kind \in Kinds /\ n = Arity(kind) /\ \A i \in 1..n : ops[i] \in names
    BY OperandsOf DEF GateOK
  <2>2. kind \in {"H", "RX", "RY", "CRX", "CRY"}
    BY <2>1, KindsAre DEF GateInfo
  <2> QED BY <2>1, <2>2 DEF Arity, GateInfo
<1>2. DispatchBranch(kind, z, a, ops) = Dispatched(d.bits, Append(d.gates, OnQubits(kind, z, d.bits, ops)))
  BY DEF DispatchBranch
<1>3. Promoting(names, a, d0, 0)
  <2>1. d0.bits = a /\ d0.gates = <<>>
    BY DEF Dispatched
  <2>2. \A psi : After(<<>>, psi) = psi
    BY AfterFew
  <2> HIDE DEF d0
  <2>3. Promoting(names, a, d0, 0)
    BY <2>1, <2>2 DEF Promoting
  <2> QED BY <2>1, <2>3 DEF d0
<1> HIDE DEF d0
<1>4. CASE n = 1
  <2>1. d = d1
    <3> DEFINE h == [i \in 0..n |-> IF i = 0 THEN d0 ELSE d1]
    <3>1. Steps(h)
      <4>1. \A i \in 0..n : i = 0 \/ i = 1
        BY <1>4
      <4>2. h[0] = d0
        BY <1>4
      <4> HIDE DEF h
      <4>3. \A i \in 0..n : (IF i = 0 THEN d0 ELSE d1) = (IF i = 0 THEN d0 ELSE PromoteOperand(h[i - 1], ops[i]))
        BY <4>1, <4>2
      <4> QED BY <4>3 DEF h
    <3> HIDE DEF h
    <3>2. Steps(f)
      BY <3>1
    <3> HIDE DEF f
    <3>3. f[0] = d0 /\ f[1] = PromoteOperand(f[0], x)
      BY <1>4, <3>2
    <3> QED BY <1>4, <3>3
  <2> HIDE DEF d
  <2>2. x \in names
    BY <1>1
  <2> HIDE DEF x
  <2>3. Promoting(names, a, d1, 0 + 1) /\ ~IsClassical(d1.bits[x])
    BY <1>3, <2>2, PromoteOperandKeeps
  <2>4. Promoting(names, a, d1, 2)
    BY <2>3 DEF Promoting
  <2>5. \A i \in 1..Len(ops) : ~IsClassical(d1.bits[ops[i]])
    BY <1>4, <2>3 DEF x
  <2> HIDE DEF d1
  <2> QED BY <1>1, <1>2, <2>1, <2>4, <2>5, PromotedIsFaithful
<1>5. CASE n = 2
  <2> DEFINE d2 == PromoteOperand(d1, y)
  <2>1. d = d2
    <3> DEFINE h == [i \in 0..n |-> IF i = 0 THEN d0 ELSE IF i = 1 THEN d1 ELSE d2]
    <3>1. Steps(h)
      <4>1. \A i \in 0..n : i = 0 \/ i = 1 \/ i = 2
        BY <1>5
      <4>2. h[0] = d0 /\ h[1] = d1
        BY <1>5
      <4> HIDE DEF h
      <4>3. \A i \in 0..n : (IF i = 0 THEN d0 ELSE IF i = 1 THEN d1 ELSE d2) = (IF i = 0 THEN d0 ELSE PromoteOperand(h[i - 1], ops[i]))
        BY <4>1, <4>2
      <4> QED BY <4>3 DEF h
    <3> HIDE DEF h
    <3>2. Steps(f)
      BY <3>1
    <3> HIDE DEF f
    <3>3. f[0] = d0 /\ f[1] = PromoteOperand(f[0], x) /\ f[2] = PromoteOperand(f[1], y)
      BY <1>5, <3>2
    <3> QED BY <1>5, <3>3
  <2> HIDE DEF d
  <2>2. x \in names /\ y \in names
    BY <1>1, <1>5
  <2> HIDE DEF x, y
  <2>3. Promoting(names, a, d1, 0 + 1) /\ ~IsClassical(d1.bits[x])
    BY <1>3, <2>2, PromoteOperandKeeps
  <2> HIDE DEF d1
  <2>6. 0 + 1 = 1 /\ 1 \in 0..1 /\ 1 + 1 = 2
    OBVIOUS
  <2>7. Promoting(names, a, d1, 1)
    BY <2>3, <2>6
  <2>4. Promoting(names, a, d2, 2) /\ ~IsClassical(d2.bits[y]) /\ ~IsClassical(d2.bits[x])
    BY <2>2, <2>3, <2>6, <2>7, PromoteOperandKeeps
  <2>5. \A i \in 1..Len(ops) : ~IsClassical(d2.bits[ops[i]])
    BY <1>5, <2>4 DEF x, y
  <2> HIDE DEF d2
  <2> QED BY <1>1, <1>2, <2>1, <2>4, <2>5, PromotedIsFaithful
<1> QED BY <1>1, <1>4, <1>5

\* Whichever way a gate is dispatched, its flips, promotions and reductions leave
\* the bits and the qubits together in the state that the gate, as written, makes
\* of the bits: for every number of bits and qubits, gate, angle and state.
THEOREM EveryDispatchIsExact ==
  ASSUME NEW names, NEW a, BitsOK(a, names), IsFiniteSet(names), Cardinality(names) <= Cardinality(Qubits),
         NEW kind, NEW z, NEW ops, GateOK(kind, z, ops, names), NEW d \in Dispatches(kind, z, a, ops)
  PROVE  Faithful(kind, z, ops, a, d, names)
<1>1. DOMAIN ops = 1..Len(ops)
  BY OperandsOf
<1>2. CASE Pattern(a, ops) = DOMAIN ops /\ GateInfo[kind].effect # "branch" /\ d = DispatchClassical(kind, a, ops)
  <2>1. \A i \in 1..Len(ops) : IsClassical(a[ops[i]])
    BY <1>1, <1>2 DEF Pattern
  <2> QED BY <1>2, <2>1, ClassicalIsFaithful
<1>3. CASE GateInfo[kind].effect = "branch" /\ d = DispatchBranch(kind, z, a, ops)
  BY <1>3, BranchIsFaithful
<1>4. CASE Pattern(a, ops) \subseteq 1..GateInfo[kind].controls /\ d = DispatchMixed(kind, z, a, ops)
  BY <1>4, MixedIsFaithful
<1> QED BY <1>2, <1>3, <1>4 DEF Dispatches

-----------------------------------------------------------------------------
(* Bits and qubits that stand for a state. *)

\* Qubits that are not 0 everywhere make bits that are not.
LEMMA TogetherKeepsSome ==
  ASSUME NEW names, NEW a, BitsOK(a, names), NEW psi \in Vectors(Qubits), Within(a, psi), Support(psi) # {}
  PROVE  Support(Together(a, psi)) # {}
<1>1. PICK S \in SUBSET Qubits : psi[S] # Zero
  BY DEF Support, Vectors
<1>2. S \subseteq QubitsOf(a, names)
  BY <1>1, BitsAre DEF Within, Vectors
<1> DEFINE s == OnesOf(a) \cup {b \in names : ~IsClassical(a[b]) /\ a[b].qubit \in S}
<1>3. s \in SUBSET names /\ s \cap ClassicalOf(a) = OnesOf(a)
  BY BitsAre
<1>4. \A b \in names : ~IsClassical(a[b]) => (b \in s <=> a[b].qubit \in S)
  BY BitsAre
<1> HIDE DEF s
<1>5. \A q : q \in QubitsOf(a, s) <=> \E b \in s : ~IsClassical(a[b]) /\ a[b].qubit = q
  BY <1>3, QubitsOfAre
<1>6. \A q : q \in QubitsOf(a, names) <=> \E b \in names : ~IsClassical(a[b]) /\ a[b].qubit = q
  BY QubitsOfAre
<1>7. \A q : q \in QubitsOf(a, s) <=> q \in S
  BY <1>2, <1>3, <1>4, <1>5, <1>6
<1>8. QubitsOf(a, s) = S
  BY <1>7
<1>9. Together(a, psi)[s] # Zero
  BY <1>1, <1>3, <1>8, TogetherAt
<1>10. DOMAIN Together(a, psi) = SUBSET names
  BY TogetherIsVector DEF Vectors
<1> QED BY <1>3, <1>9, <1>10 DEF Support

\* What a measurement leaves at a basis state.
LEMMA CollapseAt ==
  ASSUME NEW wires, NEW psi \in Vectors(wires), NEW q, NEW o
  PROVE  /\ Collapse(q, o, psi) \in Vectors(wires)
         /\ \A s \in SUBSET wires : Collapse(q, o, psi)[s] = IF (q \in s) = (o = 1) THEN psi[s] ELSE Zero
<1>1. DOMAIN psi = SUBSET wires /\ \A s \in SUBSET wires : psi[s] \in Gaussian
  BY DEF Vectors
<1>2. Zero \in Gaussian
  BY Units
<1>3. Collapse(q, o, psi) = [s \in SUBSET wires |-> IF (q \in s) = (o = 1) THEN psi[s] ELSE Zero]
  BY <1>1 DEF Collapse
<1>4. \A s \in SUBSET wires : (IF (q \in s) = (o = 1) THEN psi[s] ELSE Zero) \in Gaussian
  BY <1>1, <1>2
<1> QED BY <1>3, <1>4 DEF Vectors

\* Vectors on the same ray stay there.
LEMMA CollapseLinear ==
  ASSUME NEW wires, NEW phi \in Vectors(wires), NEW psi \in Vectors(wires), Proportional(phi, psi), NEW q, NEW o
  PROVE  Proportional(Collapse(q, o, phi), Collapse(q, o, psi))
<1> DEFINE v == Collapse(q, o, phi)  w == Collapse(q, o, psi)
<1>1. PICK a \in NonZero, b \in NonZero : Factors(a, b, phi, psi)
  BY DEF Proportional
<1>2. \A s \in SUBSET wires : Times(a, phi[s]) = Times(b, psi[s])
  BY <1>1 DEF Factors, Vectors
<1>3. Times(a, Zero) = Zero /\ Times(b, Zero) = Zero
  BY Units DEF NonZero
<1>4. /\ v \in Vectors(wires)
      /\ \A s \in SUBSET wires : v[s] = IF (q \in s) = (o = 1) THEN phi[s] ELSE Zero
  BY CollapseAt
<1>5. \A s \in SUBSET wires : w[s] = IF (q \in s) = (o = 1) THEN psi[s] ELSE Zero
  BY CollapseAt
<1>6. DOMAIN v = SUBSET wires
  BY <1>4 DEF Vectors
<1> HIDE DEF v, w
<1>7. \A s \in SUBSET wires : Times(a, v[s]) = Times(b, w[s])
  BY <1>2, <1>3, <1>4, <1>5
<1>8. Factors(a, b, v, w)
  BY <1>6, <1>7 DEF Factors
<1> QED BY <1>8 DEF Proportional, v, w

\* An outcome that is possible leaves something.
LEMMA CollapseKeepsSome ==
  ASSUME NEW wires, NEW psi \in Vectors(wires), NEW q, NEW o \in Possible(q, psi)
  PROVE  Support(Collapse(q, o, psi)) # {}
<1>1. PICK s \in Support(psi) : o = IF q \in s THEN 1 ELSE 0
  BY DEF Possible
<1>2. s \in SUBSET wires /\ psi[s] # Zero
  BY DEF Support, Vectors
<1>3. Collapse(q, o, psi)[s] # Zero /\ DOMAIN Collapse(q, o, psi) = SUBSET wires
  BY <1>1, <1>2, CollapseAt DEF Vectors
<1> QED BY <1>2, <1>3 DEF Support

\* To measure the qubit of a bit is to measure the bit.
LEMMA CollapseTogether ==
  ASSUME NEW names, NEW a, BitsOK(a, names), NEW psi \in Vectors(Qubits), Within(a, psi),
         NEW b \in names, ~IsClassical(a[b]), NEW o
  PROVE  /\ Within(a, Collapse(a[b].qubit, o, psi))
         /\ Collapse(b, o, Together(a, psi)) = Together(a, Collapse(a[b].qubit, o, psi))
<1> DEFINE q == a[b].qubit  phi == Together(a, psi)  chi == Collapse(q, o, psi)
           v == Collapse(b, o, phi)  w == Together(a, chi)  cl == ClassicalOf(a)  ones == OnesOf(a)
<1>1. phi \in Vectors(names)
  BY TogetherIsVector
<1>2. /\ chi \in Vectors(Qubits)
      /\ \A s \in SUBSET Qubits : chi[s] = IF (q \in s) = (o = 1) THEN psi[s] ELSE Zero
  BY CollapseAt
<1> HIDE DEF phi
<1>3. /\ v \in Vectors(names)
      /\ \A s \in SUBSET names : v[s] = IF (b \in s) = (o = 1) THEN phi[s] ELSE Zero
  BY <1>1, CollapseAt
<1> HIDE DEF chi
<1>4. w \in Vectors(names) /\ \A s \in SUBSET names : w[s] = IF s \cap cl = ones THEN chi[QubitsOf(a, s)] ELSE Zero
  BY <1>2, TogetherIsVector, TogetherAt
<1>5. \A s \in SUBSET names : phi[s] = IF s \cap cl = ones THEN psi[QubitsOf(a, s)] ELSE Zero
  BY TogetherAt DEF phi
<1>6. \A s \in SUBSET names : QubitsOf(a, s) \in SUBSET Qubits /\ (q \in QubitsOf(a, s) <=> b \in s)
  BY QubitsOfAre
<1> HIDE DEF v, w, cl, ones, q
<1>7. \A s \in SUBSET names : v[s] = w[s]
  BY <1>2, <1>3, <1>4, <1>5, <1>6
<1>8. v = w
  BY <1>3, <1>4, <1>7, SameVector
<1>9. \A s \in SUBSET Qubits : chi[s] # Zero => psi[s] # Zero
  BY <1>2
<1>10. Within(a, chi)
  BY <1>2, <1>9 DEF Within, Vectors
<1> QED BY <1>8, <1>10 DEF v, w, phi, chi, q

\* After gates, vectors are vectors, and those on the same ray still are.
LEMMA AfterLinear ==
  ASSUME NEW gates \in Seq(Gates), Len(gates) <= 3, NEW phi \in Vectors(Qubits), NEW psi \in Vectors(Qubits),
         Proportional(phi, psi)
  PROVE  /\ After(gates, psi) \in Vectors(Qubits) /\ After(gates, phi) \in Vectors(Qubits)
         /\ Proportional(After(gates, phi), After(gates, psi))
<1> DEFINE n == Len(gates)
<1>1. n = 0 \/ n = 1 \/ n = 2 \/ n = 3
  <2>1. n \in Nat /\ n <= 3
    BY LenProperties
  <2> HIDE DEF n
  <2> QED BY <2>1
<1>2. ASSUME NEW g \in Gates, NEW v \in Vectors(Qubits), NEW w \in Vectors(Qubits), Proportional(v, w)
      PROVE  /\ Applied(g, v) \in Vectors(Qubits) /\ Applied(g, w) \in Vectors(Qubits)
             /\ Proportional(Applied(g, v), Applied(g, w))
  <2>1. GateOK(g.kind, g.z, g.q, Qubits)
    BY DEF Gates
  <2> QED BY <1>2, <2>1, AppliedIsVector, MeaningLinear DEF Applied
<1>3. \A i \in 1..n : gates[i] \in Gates
  OBVIOUS
<1> DEFINE v1 == Applied(gates[1], phi)  w1 == Applied(gates[1], psi)
           v2 == Applied(gates[2], v1)  w2 == Applied(gates[2], w1)
           v3 == Applied(gates[3], v2)  w3 == Applied(gates[3], w2)
<1>4. n >= 1 => v1 \in Vectors(Qubits) /\ w1 \in Vectors(Qubits) /\ Proportional(v1, w1)
  <2>1. n >= 1 => gates[1] \in Gates
    BY <1>1, <1>3
  <2> QED BY <1>2, <2>1
<1>5. n >= 2 => v2 \in Vectors(Qubits) /\ w2 \in Vectors(Qubits) /\ Proportional(v2, w2)
  <2>1. n >= 2 => gates[2] \in Gates /\ n >= 1
    BY <1>1, <1>3
  <2> HIDE DEF v1, w1, n
  <2> QED BY <1>2, <1>4, <2>1
<1>6. n >= 3 => v3 \in Vectors(Qubits) /\ w3 \in Vectors(Qubits) /\ Proportional(v3, w3)
  <2>1. n >= 3 => gates[3] \in Gates /\ n >= 2
    BY <1>1, <1>3
  <2> HIDE DEF v2, w2, n
  <2> QED BY <1>2, <1>5, <2>1
<1>7. /\ n = 0 => After(gates, phi) = phi /\ After(gates, psi) = psi
      /\ n = 1 => After(gates, phi) = v1 /\ After(gates, psi) = w1
      /\ n = 2 => After(gates, phi) = v2 /\ After(gates, psi) = w2
      /\ n = 3 => After(gates, phi) = v3 /\ After(gates, psi) = w3
  BY AfterAt
<1> HIDE DEF v1, w1, v2, w2, v3, w3, n
<1> QED BY <1>1, <1>4, <1>5, <1>6, <1>7

\* The bits a and the qubits, in the state psi before the gates, are in the state
\* phi of the bits.
Matches(a, gates, psi, phi) ==
  /\ psi \in Vectors(Qubits) /\ Support(psi) # {}
  /\ Within(a, After(gates, psi)) /\ Proportional(Together(a, After(gates, psi)), phi)

\* They still are when the qubits are in a state that cannot be told apart.
LEMMA MatchesRay ==
  ASSUME NEW names, NEW a, BitsOK(a, names), NEW gates \in Seq(Gates), Len(gates) <= 3, NEW phi \in Vectors(names),
         NEW psi, Matches(a, gates, psi, phi), NEW chi \in Vectors(Qubits), Proportional(chi, psi)
  PROVE  Matches(a, gates, chi, phi)
<1> DEFINE v == After(gates, chi)  w == After(gates, psi)  x == Together(a, v)  y == Together(a, w)
<1>1. psi \in Vectors(Qubits) /\ Support(psi) # {} /\ Within(a, w) /\ Proportional(y, phi)
  BY DEF Matches
<1>2. v \in Vectors(Qubits) /\ w \in Vectors(Qubits) /\ Proportional(v, w)
  BY <1>1, AfterLinear
<1>3. Support(chi) # {}
  BY <1>1, ProportionalSupport
<1> HIDE DEF v, w
<1>4. Within(a, v)
  <2>1. Support(v) = Support(w)
    BY <1>2, ProportionalSupport
  <2>2. \A s \in SUBSET Qubits : v[s] # Zero => w[s] # Zero
    BY <1>2, <2>1 DEF Support, Vectors
  <2> QED BY <1>1, <1>2, <2>2 DEF Within, Vectors
<1>5. x \in Vectors(names) /\ y \in Vectors(names) /\ Proportional(x, y)
  BY <1>2, TogetherIsVector, TogetherLinear
<1> HIDE DEF x, y
<1>6. Proportional(x, phi)
  BY <1>1, <1>5, ProportionalTrans
<1> QED BY <1>3, <1>4, <1>6 DEF Matches, v, x

\* A bit that is dispatched a gate: bits and gates match what the gate, as
\* written, makes of the state of the bits.
LEMMA MatchesDispatch ==
  ASSUME NEW names, NEW a, BitsOK(a, names), IsFiniteSet(names), Cardinality(names) <= Cardinality(Qubits),
         NEW kind, NEW z, NEW ops, GateOK(kind, z, ops, names), NEW d \in Dispatches(kind, z, a, ops),
         NEW phi \in Vectors(names)
  PROVE  /\ BitsOK(d.bits, names) /\ d.gates \in Seq(Gates) /\ Len(d.gates) <= 3
         /\ \A psi : Matches(a, <<>>, psi, phi) => Matches(d.bits, d.gates, psi, Meaning(kind, z, ops, phi))
<1>1. Faithful(kind, z, ops, a, d, names)
  BY EveryDispatchIsExact
<1>2. /\ BitsOK(d.bits, names) /\ d.gates \in Seq(Gates) /\ Len(d.gates) <= 3
      /\ \A psi \in Vectors(Qubits) : Within(a, psi) =>
           /\ Within(d.bits, After(d.gates, psi))
           /\ Proportional(Together(d.bits, After(d.gates, psi)), Meaning(kind, z, ops, Together(a, psi)))
  BY <1>1 DEF Faithful
<1>3. ASSUME NEW psi, Matches(a, <<>>, psi, phi)
      PROVE  Matches(d.bits, d.gates, psi, Meaning(kind, z, ops, phi))
  <2> DEFINE x == Together(a, psi)  u == Meaning(kind, z, ops, x)  v == Meaning(kind, z, ops, phi)
             xi == After(d.gates, psi)  y == Together(d.bits, xi)
  <2>1. psi \in Vectors(Qubits) /\ Support(psi) # {} /\ Within(a, psi) /\ Proportional(x, phi)
    BY <1>3, AfterFew DEF Matches
  <2>2. x \in Vectors(names)
    BY <2>1, TogetherIsVector
  <2>3. Within(d.bits, xi) /\ Proportional(y, u)
    BY <1>2, <2>1
  <2>4. xi \in Vectors(Qubits)
    <3>1. Proportional(psi, psi)
      BY <2>1, ProportionalSame
    <3> QED BY <1>2, <2>1, <3>1, AfterLinear
  <2> HIDE DEF x, xi
  <2>5. u \in Vectors(names) /\ v \in Vectors(names) /\ Proportional(u, v)
    BY <2>1, <2>2, MeaningIsVector, MeaningLinear
  <2>6. y \in Vectors(names)
    BY <1>2, <2>4, TogetherIsVector
  <2> HIDE DEF u, v, y
  <2>7. Proportional(y, v)
    BY <2>3, <2>5, <2>6, ProportionalTrans
  <2> QED BY <2>1, <2>3, <2>7 DEF Matches, v, y, xi
<1> QED BY <1>2, <1>3

\* A gate of them that is executed, as it is or simulated.
LEMMA MatchesExecuted ==
  ASSUME NEW names, NEW a, BitsOK(a, names), NEW gates \in Seq(Gates), Len(gates) <= 3, gates # <<>>,
         NEW phi \in Vectors(names), NEW psi, Matches(a, gates, psi, phi)
  PROVE  /\ Matches(a, Tail(gates), Applied(Head(gates), psi), phi)
         /\ Matches(a, Tail(gates), ExecSimulate(Head(gates), psi), phi)
<1> DEFINE g == Head(gates)  r == Tail(gates)  v == Applied(g, psi)  w == ExecSimulate(g, psi)
<1>1. g \in Gates /\ r \in Seq(Gates) /\ Len(r) = Len(gates) - 1 /\ After(gates, psi) = After(r, v)
  BY AfterHead
<1>2. psi \in Vectors(Qubits) /\ Support(psi) # {} /\ Within(a, After(gates, psi))
      /\ Proportional(Together(a, After(gates, psi)), phi)
  BY DEF Matches
<1>3. Len(r) <= 3
  BY <1>1, LenProperties
<1>4. GateOK(g.kind, g.z, g.q, Qubits)
  BY <1>1 DEF Gates
<1> HIDE DEF g, r
<1>5. v \in Vectors(Qubits) /\ Support(v) # {}
  BY <1>2, <1>4, MeaningIsVector, MeaningKeepsSome DEF Applied
<1>6. w \in Vectors(Qubits) /\ Proportional(w, v)
  BY <1>2, <1>4, SimulatedIs DEF Applied
<1> HIDE DEF v, w
<1>7. Matches(a, r, v, phi)
  BY <1>1, <1>2, <1>5 DEF Matches
<1>8. Matches(a, r, w, phi)
  BY <1>1, <1>3, <1>6, <1>7, MatchesRay
<1> QED BY <1>7, <1>8 DEF v, w, g, r

\* A measurement of a bit by way of its qubit.
LEMMA MatchesMeasured ==
  ASSUME NEW names, NEW a, BitsOK(a, names), NEW phi \in Vectors(names), NEW psi, Matches(a, <<>>, psi, phi),
         NEW b \in names, ~IsClassical(a[b]), NEW o \in Possible(a[b].qubit, psi)
  PROVE  Matches(a, <<>>, Collapse(a[b].qubit, o, psi), Collapse(b, o, phi))
<1> DEFINE q == a[b].qubit  x == Together(a, psi)  u == Collapse(b, o, x)  v == Collapse(b, o, phi)
           chi == Collapse(q, o, psi)
<1>1. psi \in Vectors(Qubits) /\ Support(psi) # {} /\ Within(a, psi) /\ Proportional(x, phi)
  BY AfterFew DEF Matches
<1>2. chi \in Vectors(Qubits) /\ Support(chi) # {}
  BY <1>1, CollapseAt, CollapseKeepsSome
<1>3. Within(a, chi) /\ u = Together(a, chi)
  BY <1>1, CollapseTogether
<1>4. x \in Vectors(names)
  BY <1>1, TogetherIsVector
<1> HIDE DEF x
<1>5. Proportional(u, v)
  BY <1>1, <1>4, CollapseLinear
<1> HIDE DEF u, v, chi
<1>6. After(<<>>, chi) = chi
  BY AfterFew
<1> QED BY <1>2, <1>3, <1>5, <1>6 DEF Matches, chi, v

\* The bits are classical, and those in ones are 1.
IsStart(a, names, ones) == a = [b \in names |-> [value |-> IF b \in ones THEN 1 ELSE 0, qubit |-> Unpromoted]]

\* Bits that are classical, and qubits that are all 0.
LEMMA MatchesStart ==
  ASSUME NEW names, NEW ones \in SUBSET names, NEW a,
         IsStart(a, names, ones)
  PROVE  BitsOK(a, names) /\ Basis(names, ones) \in Vectors(names) /\ Matches(a, <<>>, Basis(Qubits, {}), Basis(names, ones))
<1> DEFINE psi == Basis(Qubits, {})  phi == Basis(names, ones)  x == Together(a, psi)
<1>1. a \in [names -> BitRecords] /\ \A b \in names : IsClassical(a[b]) /\ (a[b].value = 1 <=> b \in ones)
  BY DEF IsStart, BitRecords, IsClassical
<1>2. BitsOK(a, names)
  BY <1>1 DEF BitsOK
<1>3. \A wires : \A s : Basis(wires, s) \in Vectors(wires) /\ \A r \in SUBSET wires : Basis(wires, s)[r] = IF r = s THEN One ELSE Zero
  <2> SUFFICES ASSUME NEW wires, NEW s
               PROVE  Basis(wires, s) \in Vectors(wires) /\ \A r \in SUBSET wires : Basis(wires, s)[r] = IF r = s THEN One ELSE Zero
    OBVIOUS
  <2>1. One \in Gaussian /\ Zero \in Gaussian
    BY Units DEF NonZero
  <2> QED BY <2>1 DEF Basis, Vectors
<1>4. One # Zero
  BY DEF One, Zero
<1>5. ClassicalOf(a) = names /\ OnesOf(a) = ones
  BY <1>1, <1>2, BitsAre
<1>6. \A s \in SUBSET names : QubitsOf(a, s) = {}
  BY <1>5 DEF QubitsOf
<1>7. /\ psi \in Vectors(Qubits) /\ phi \in Vectors(names) /\ psi[{}] = One
      /\ \A r \in SUBSET Qubits : psi[r] # Zero => r = {}
      /\ \A s \in SUBSET names : phi[s] = IF s = ones THEN One ELSE Zero
  BY <1>3, <1>4
<1> HIDE DEF psi, phi
<1>8. Support(psi) # {} /\ Within(a, psi)
  BY <1>4, <1>7 DEF Support, Within, Vectors
<1>9. x \in Vectors(names) /\ \A s \in SUBSET names : x[s] = IF s \cap names = ones THEN psi[{}] ELSE Zero
  <2>1. x \in Vectors(names)
    BY <1>2, <1>7, TogetherIsVector
  <2>2. \A s \in SUBSET names : x[s] = IF s \cap ClassicalOf(a) = OnesOf(a) THEN psi[QubitsOf(a, s)] ELSE Zero
    BY <1>2, TogetherAt
  <2> HIDE DEF x
  <2> QED BY <1>5, <1>6, <2>1, <2>2
<1>10. x = phi
  <2>1. \A s \in SUBSET names : s \cap names = s
    OBVIOUS
  <2>2. \A s \in SUBSET names : x[s] = phi[s]
    BY <1>7, <1>9, <2>1
  <2> HIDE DEF x
  <2> QED BY <1>7, <1>9, <2>2, SameVector
<1> HIDE DEF x
<1>11. Proportional(x, phi)
  BY <1>9, <1>10, ProportionalSame
<1>12. After(<<>>, psi) = psi
  BY AfterFew
<1> QED BY <1>2, <1>7, <1>8, <1>11, <1>12 DEF Matches, x, psi, phi

\* Bits and qubits that match a state are in it.
LEMMA MatchesRays ==
  ASSUME NEW names, NEW a, BitsOK(a, names), NEW phi \in Vectors(names), NEW psi, Matches(a, <<>>, psi, phi)
  PROVE  SameRay(Together(a, psi), phi)
<1> DEFINE x == Together(a, psi)
<1>1. psi \in Vectors(Qubits) /\ Support(psi) # {} /\ Within(a, psi) /\ Proportional(x, phi)
  BY AfterFew DEF Matches
<1>2. x \in Vectors(names) /\ Support(x) # {}
  BY <1>1, TogetherIsVector, TogetherKeepsSome
<1> HIDE DEF x
<1>3. SameRay(x, phi)
  BY <1>1, <1>2, ProportionalRay
<1> QED BY <1>3 DEF x
=============================================================================
