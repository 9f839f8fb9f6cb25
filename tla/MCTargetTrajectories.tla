------------------------ MODULE MCTargetTrajectories ------------------------
(***************************************************************************)
(* A robot that turns by up to a third of a turn at a time, and is asked to*)
(* turn at one third per unit of time.                                     *)
(***************************************************************************)
EXTENDS TargetTrajectories

MCTurns    == -1..1
MCHeadings == -1..3
MCRates    == {1}
=============================================================================
