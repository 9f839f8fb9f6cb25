-------------------------- MODULE HierarchicalWbc --------------------------
(***************************************************************************)
(* HierarchicalWbc::update(): the hierarchies that HoQp is given, one for  *)
(* every set of planned contacts, what their solution answers, and where   *)
(* it goes.                                                                *)
(***************************************************************************)
EXTENDS HoQp, WbcTasks, UnitreeHW

WbcHierarchies == {Priorities(contacts) : contacts \in SUBSET ToSet(Feet)}

-----------------------------------------------------------------------------
(* Properties of the controller's hierarchies.                             *)

Posed(names) == {names[i] : i \in DOMAIN names}

\* What the solved hierarchy asks for, without the levels.
PosedEqualities   == {row[2] : row \in Posed(stackedTasks.a)}
PosedInequalities == {row[2] : row \in Posed(stackedTasks.d)}

\* Whatever the planned contacts, every foot gets exactly one of the two
\* treatments: a standing foot does not move and its force stays in the friction
\* pyramid, a swinging foot gives no force and follows its swing.
EveryFootIsTreated ==
  (tasks \in WbcHierarchies /\ level = Len(tasks)) =>
    \A f \in ToSet(Feet) :
      LET stands == <<"motion", f>> \in PosedEqualities
      IN  /\ stands <=> <<"cone", f>> \in PosedInequalities
          /\ stands <=> <<"noForce", f>> \notin PosedEqualities
          /\ stands <=> <<"swing", f>> \notin PosedEqualities

\* The hierarchical and the weighted controller solve the same problem, up to
\* the priorities: the same rows are asked for with the same contacts.
SameRowsAsWeighted ==
  (tasks \in WbcHierarchies /\ level = Len(tasks)) =>
    \E contacts \in SUBSET ToSet(Feet) :
      LET weighted == Plus(Constraints(contacts), WeightedTasks(contacts))
      IN  /\ PosedEqualities = Posed(weighted.a)
          /\ PosedInequalities = Posed(weighted.d)

\* The torques of a solved hierarchy reach the motors they were computed for, and
\* the measurements behind them came from there.
TorquesReachTheirMotors == level = Len(tasks) => EveryMotorIsItsJoint
=============================================================================
