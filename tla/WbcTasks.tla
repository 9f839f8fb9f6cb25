------------------------------ MODULE WbcTasks ------------------------------
(***************************************************************************)
(* The tasks WbcBase formulates from the planned contacts, and how         *)
(* HierarchicalWbc and WeightedWbc put them together.  A block of rows of  *)
(* one constraint on one foot is one name.                                 *)
(***************************************************************************)
EXTENDS Integers, Sequences, FiniteSets, SequencesExt, Task

CONSTANT Feet   \* in the order of contactNames3DoF

ASSUME FeetAssumption == Feet \in Seq(ToSet(Feet))

\* The counter j of the loops over i, when foot i has got its rows.
RowOf(i, chosen) == Cardinality({j \in chosen : j <= i})

\* The blocks of a constraint on some feet, in the order of the loop over i.
Blocks(name, feet) ==
  LET chosen == {i \in DOMAIN Feet : Feet[i] \in feet}
  IN  [k \in 1..Cardinality(chosen) |->
         <<name, Feet[CHOOSE i \in chosen : RowOf(i, chosen) = k]>>]

InContact(contacts) == contacts
InSwing(contacts)   == {Feet[i] : i \in DOMAIN Feet} \ contacts

FloatingBaseEomTask == Equalities(<< <<"eom">> >>)
TorqueLimitsTask    == Inequalities(<< <<"torque">> >>)

NoContactMotionTask(contacts) == Equalities(Blocks("motion", InContact(contacts)))

ConesOfAll(contacts) ==   \* mutant: the contact flag is not looked at
  [a |-> Blocks("noForce", InSwing(contacts)), d |-> Blocks("cone", ToSet(Feet))]

\* No force on a swinging foot, the friction pyramid on a standing one; the
\* rows d_ has beyond those are zero.
FrictionConeTask(contacts) ==
  [a |-> Blocks("noForce", InSwing(contacts)),
   d |-> Blocks("cone", InContact(contacts)) \o Blocks("blank", InSwing(contacts))]

BaseAccelTask          == Equalities(<< <<"baseAccel">> >>)
SwingLegTask(contacts) == Equalities(Blocks("swing", InSwing(contacts)))
ContactForceTask       == Equalities(Blocks("force", ToSet(Feet)))

\* WeightedWbc::formulateConstraints(), and the first priority of
\* HierarchicalWbc::update().
Constraints(contacts) ==
  Plus(Plus(Plus(FloatingBaseEomTask, TorqueLimitsTask), FrictionConeTask(contacts)),
       NoContactMotionTask(contacts))

\* WeightedWbc::formulateWeightedTasks(), without the weights.
WeightedTasks(contacts) ==
  Plus(Plus(SwingLegTask(contacts), BaseAccelTask), ContactForceTask)

\* HierarchicalWbc::update()
Priorities(contacts) ==
  <<Constraints(contacts), Plus(BaseAccelTask, SwingLegTask(contacts)), ContactForceTask>>
=============================================================================
