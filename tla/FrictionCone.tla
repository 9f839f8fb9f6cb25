----------------------------- MODULE FrictionCone -----------------------------
(***************************************************************************)
(* FrictionConeConstraint's value and approximations, and the friction     *)
(* pyramid of the whole body controller, for one foot.                     *)
(*                                                                         *)
(* Numbers are integers: a coefficient of friction is Mu / Scale, and what *)
(* the code divides by the tangent norm or its cube is given times that.   *)
(* The norm is a root; it is an argument n, with n * n the square.         *)
(***************************************************************************)
EXTENDS Integers

CONSTANTS Mu, Scale, Regularization

\* What the configuration asserts.
ConeAssumption ==
  Mu \in Nat \ {0} /\ Scale \in Nat \ {0} /\ Regularization \in Nat \ {0}

ContactForce == [x : Int, y : Int, z : Int]

\* F_tangent_square, and that n is its root F_tangent_norm.
TangentSquare(F) == F.x * F.x + F.y * F.y + Regularization
IsTangentNorm(n, F) == n \in Nat \ {0} /\ n * n = TangentSquare(F)

\* coneConstraint(), times Scale; there is no gripper force.
ConeConstraint(F, n) == Mu * F.z - Scale * n

\* computeConeLocalDerivatives(): dCone_dF, times Scale * n.
DCone(F, n) == [x |-> -Scale * F.x, y |-> -Scale * F.y, z |-> Mu * n]

\* d2Cone_dF2's upper left corner, times n^3; the rest is zero.
D2Cone(F) == [xx |-> -(F.y * F.y + Regularization), xy |-> F.x * F.y,
              yy |-> -(F.x * F.x + Regularization)]

Along(D, F, G) == D.x * (G.x - F.x) + D.y * (G.y - F.y) + D.z * (G.z - F.z)

\* frictionConeSecondDerivativeInput(), along a direction v; the shift of the
\* diagonal, times n^3, is an argument.
Curvature(F, v, shift) ==
  LET H == D2Cone(F)
  IN  H.xx * v.x * v.x + 2 * H.xy * v.x * v.y + H.yy * v.y * v.y
        - shift * (v.x * v.x + v.y * v.y + v.z * v.z)

\* frictionPyramic_ of formulateFrictionConeTask(), times Scale: every row <= 0.
InPyramid(F) ==
  /\ -F.z <= 0
  /\ Scale * F.x - Mu * F.z <= 0 /\ -Scale * F.x - Mu * F.z <= 0
  /\ Scale * F.y - Mu * F.z <= 0 /\ -Scale * F.y - Mu * F.z <= 0
=============================================================================
