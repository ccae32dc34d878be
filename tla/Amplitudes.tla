----------------------------- MODULE Amplitudes -----------------------------
(***************************************************************************)
(* State vectors and the gates on them, exactly.  A vector gives every     *)
(* basis state, a set of the wires that are 1, a Gaussian integer <<re,    *)
(* im>>: amplitudes are kept up to a common factor, so that no gate needs  *)
(* a root.  An angle is a Gaussian integer z as well, one that e^(i*t/4)   *)
(* is a multiple of: then z*z stands for half the angle, as the matrices   *)
(* of the rotations have it.  The gate T, whose phase is no such multiple, *)
(* is left out.                                                            *)
(***************************************************************************)
EXTENDS Integers, Sequences, FiniteSets, SequencesExt

Zero == <<0, 0>>
One == <<1, 0>>
ImaginaryUnit == <<0, 1>>
Real(x) == <<x, 0>>

Plus(x, y) == <<x[1] + y[1], x[2] + y[2]>>
Times(x, y) == <<x[1] * y[1] - x[2] * y[2], x[1] * y[2] + x[2] * y[1]>>
Minus(x) == <<-x[1], -x[2]>>
Conjugate(x) == <<x[1], -x[2]>>
Norm(x) == Real(x[1] * x[1] + x[2] * x[2])

\* The basis state in which exactly the wires of ones are 1.
Basis(wires, ones) == [s \in SUBSET wires |-> IF s = ones THEN One ELSE Zero]

Support(psi) == {s \in DOMAIN psi : psi[s] # Zero}

\* Vectors that differ by a factor, so that no measurement tells them apart.
SameRay(phi, psi) ==
  /\ Support(phi) # {} /\ Support(psi) = Support(phi)
  /\ LET pivot == CHOOSE s \in Support(phi) : TRUE
     IN  \A s \in Support(phi) : Times(phi[pivot], psi[s]) = Times(phi[s], psi[pivot])

-----------------------------------------------------------------------------
(* Gates. *)

\* A gate by name: what it controls on (how many of its first operands), its
\* base gate, and what it does to a classical bit.
GateInfo ==
  [X    |-> [controls |-> 0, base |-> "X",  effect |-> "flip"],
   Y    |-> [controls |-> 0, base |-> "Y",  effect |-> "flip"],
   Z    |-> [controls |-> 0, base |-> "Z",  effect |-> "none"],
   H    |-> [controls |-> 0, base |-> "H",  effect |-> "branch"],
   S    |-> [controls |-> 0, base |-> "S",  effect |-> "none"],
   P    |-> [controls |-> 0, base |-> "P",  effect |-> "none"],
   RX   |-> [controls |-> 0, base |-> "RX", effect |-> "branch"],
   RY   |-> [controls |-> 0, base |-> "RY", effect |-> "branch"],
   RZ   |-> [controls |-> 0, base |-> "RZ", effect |-> "none"],
   CX   |-> [controls |-> 1, base |-> "X",  effect |-> "flip"],
   CY   |-> [controls |-> 1, base |-> "Y",  effect |-> "flip"],
   CZ   |-> [controls |-> 1, base |-> "Z",  effect |-> "none"],
   CRX  |-> [controls |-> 1, base |-> "RX", effect |-> "branch"],
   CRY  |-> [controls |-> 1, base |-> "RY", effect |-> "branch"],
   CRZ  |-> [controls |-> 1, base |-> "RZ", effect |-> "none"],
   CCX  |-> [controls |-> 2, base |-> "X",  effect |-> "flip"],
   SWAP |-> [controls |-> 0, base |-> "SWAP", effect |-> "flip"]]

Kinds == DOMAIN GateInfo
Rotations == {"P", "RX", "RY", "RZ", "CRX", "CRY", "CRZ"}
Arity(kind) == IF kind = "SWAP" THEN 2 ELSE GateInfo[kind].controls + 1

\* Where the base gate takes 0 and 1: the amplitudes of 0 and of 1 in each.
Matrix(base, half) ==
  CASE base = "X"  -> [on0 |-> <<Zero, One>>, on1 |-> <<One, Zero>>]
    [] base = "Y"  -> [on0 |-> <<Zero, ImaginaryUnit>>, on1 |-> <<Minus(ImaginaryUnit), Zero>>]
    [] base = "Z"  -> [on0 |-> <<One, Zero>>, on1 |-> <<Zero, Minus(One)>>]
    [] base = "H"  -> [on0 |-> <<One, One>>, on1 |-> <<One, Minus(One)>>]
    [] base = "S"  -> [on0 |-> <<One, Zero>>, on1 |-> <<Zero, ImaginaryUnit>>]
    [] base = "P"  -> [on0 |-> <<Norm(half), Zero>>, on1 |-> <<Zero, Times(half, half)>>]
    [] base = "RX" -> [on0 |-> <<Real(half[1]), <<0, -half[2]>>>>, on1 |-> <<<<0, -half[2]>>, Real(half[1])>>]
    [] base = "RY" -> [on0 |-> <<Real(half[1]), Real(half[2])>>, on1 |-> <<Real(-half[2]), Real(half[1])>>]
    [] base = "RZ" -> [on0 |-> <<Conjugate(half), Zero>>, on1 |-> <<Zero, half>>]

\* The controlled gate.  The base gate's matrix may carry a factor, by, which the
\* part without the controls has to carry as well.
Controlled(base, half, by, controls, target, psi) ==
  LET m == Matrix(base, half)
  IN  [s \in DOMAIN psi |->
        IF ~(controls \subseteq s) THEN Times(by, psi[s])
        ELSE LET zero == s \ {target}
                 one == s \cup {target}
                 row == IF target \in s THEN 2 ELSE 1
             IN  Plus(Times(m.on0[row], psi[zero]), Times(m.on1[row], psi[one]))]

Exchange(a, b, psi) ==
  [s \in DOMAIN psi |->
    psi[(s \ {a, b}) \cup (IF a \in s THEN {b} ELSE {}) \cup (IF b \in s THEN {a} ELSE {})]]

\* What the gate means: its base gate on the last operand where the others are 1.
Meaning(kind, z, q, psi) ==
  IF kind = "SWAP" THEN Exchange(q[1], q[2], psi)
  ELSE LET n == Arity(kind)
           by == IF kind \in Rotations THEN Norm(z) ELSE One
       IN  Controlled(GateInfo[kind].base, Times(z, z), by, Range(SubSeq(q, 1, n - 1)), q[n], psi)

\* What is left of the state when the wire is found to be outcome.
Collapse(q, outcome, psi) ==
  [s \in DOMAIN psi |-> IF (q \in s) = (outcome = 1) THEN psi[s] ELSE Zero]

Possible(q, psi) == {IF q \in s THEN 1 ELSE 0 : s \in Support(psi)}
=============================================================================
