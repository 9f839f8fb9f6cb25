------------------ MODULE MCSwitchedModelReferenceManager ------------------
(***************************************************************************)
(* Two pairs of feet that swing in turn, and the kinds of gait of the      *)
(* gait.info files: a stance, a trot, and a flying trot, whose swings      *)
(* reach over three phases.                                                *)
(***************************************************************************)
EXTENDS OptimalControlProblem

MCLegs == {1, 2}

Standing   == [modeSequence |-> <<{1, 2}>>,             switchingTimes |-> <<0, 2>>]
Trot       == [modeSequence |-> <<{1}, {2}>>,           switchingTimes |-> <<0, 2, 4>>]
FlyingTrot == [modeSequence |-> <<{1}, {}, {2}, {}>>,   switchingTimes |-> <<0, 1, 2, 3, 4>>]

MCGaits == {Standing, Trot, FlyingTrot}
=============================================================================
