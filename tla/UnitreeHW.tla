------------------------------ MODULE UnitreeHW ------------------------------
(***************************************************************************)
(* The ways of UnitreeHW's data: the SDK counts motors and foot sensors in *)
(* its own order, handles are found by name, and the controller lists the  *)
(* names in the order of its model.  One cycle of the loop is a function   *)
(* from what the motors and the feet report to what the motors are told.   *)
(* A joint is its leg and its place in the leg.                            *)
(***************************************************************************)
EXTENDS Integers, Sequences, SequencesExt

\* The SDK: FR, FL, RR, RL, three motors each from the hip down, and in
\* footForce as many feet.
SdkLegs  == <<"RF", "LF", "RH", "LH">>
Places   == <<"HAA", "HFE", "KFE">>
Motors   == 0..11
MotorOf(i) == <<SdkLegs[(i \div 3) + 1], Places[(i % 3) + 1]>>

\* The model's actuated joints, leg by leg in the order of their names; and the
\* feet, in the order of a mode's contact flags.
ModelLegs  == <<"LF", "LH", "RF", "RH">>
ModelJoint == [j \in 1..12 |-> <<ModelLegs[((j - 1) \div 3) + 1], Places[((j - 1) % 3) + 1]>>]
FlagOrder  == <<"LF", "RF", "LH", "RH">>

-----------------------------------------------------------------------------
(* The hardware.                                                           *)

LegIndexAsFeet == [LF |-> 0, RF |-> 1, LH |-> 2, RH |-> 3]   \* mutant: in the order of the feet

\* setupJoints(): by the names of the urdf's joints, whichever order they are in.
LegIndex == [RF |-> 0, LF |-> 1, RH |-> 2, LH |-> 3]
PlaceIndex == [HAA |-> 0, HFE |-> 1, KFE |-> 2]

JointHandle(joint) == LegIndex[joint[1]] * 3 + PlaceIndex[joint[2]]

\* setupContactSensor(): CONTACT_SENSOR_NAMES.
ContactSensorNames == <<"RF", "LF", "RH", "LH">>
ContactHandle(foot) == CHOOSE i \in 1..4 : ContactSensorNames[i] = foot

\* read(): jointData_ and contactState_, from the feet that press hard enough.
JointData(motorState)    == [i \in Motors |-> motorState[i]]
ContactState(footForces) == [i \in 1..4 |-> footForces[i]]

\* write(): motorCmd
MotorCmd(jointData) == [i \in Motors |-> jointData[i]]

-----------------------------------------------------------------------------
(* The controller.                                                         *)

\* init(): hybridJointHandles_ and contactHandles_.
LegOrder    == <<"LF", "LH", "RF", "RH">>
JointNames  == [j \in 1..12 |-> <<LegOrder[((j - 1) \div 3) + 1], Places[((j - 1) % 3) + 1]>>]
ContactNames3DoF == <<"LF", "RF", "LH", "RH">>

\* updateStateEstimation(): what the estimate takes for the joints' positions
\* and for the contacts, by the model's names.
JointPos(motorState) ==
  [j \in 1..12 |-> JointData(motorState)[JointHandle(JointNames[j])]]

ContactFlag(footForces) ==
  [k \in 1..4 |-> ContactState(footForces)[ContactHandle(ContactNames3DoF[k])]]

\* getMode(): the feet whose flags are set.
GetMode(flags) == {FlagOrder[k] : k \in {m \in 1..4 : flags[m]}}

\* update(): the model's torques, command by command.
SetCommands(torque) ==
  [i \in Motors |-> torque[CHOOSE j \in 1..12 : JointHandle(JointNames[j]) = i]]

-----------------------------------------------------------------------------
(* Properties.                                                             *)

\* Every joint's control loop closes over its own motor: what the model takes
\* for a joint's position was measured at that joint, the torque it finds for
\* the joint goes to that motor, and a foot that presses is the one whose
\* contact flag is set, though four orders of legs are in use.
EveryMotorIsItsJoint ==
  LET measured == [i \in Motors |-> MotorOf(i)]
      told     == MotorCmd(SetCommands(ModelJoint))
  IN  /\ JointPos(measured) = ModelJoint
      /\ told = measured
      /\ \A pressed \in SUBSET ToSet(SdkLegs) :
           GetMode(ContactFlag([i \in 1..4 |-> SdkLegs[i] \in pressed])) = pressed
=============================================================================
