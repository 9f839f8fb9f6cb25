------------------- MODULE SwitchedModelReferenceManager -------------------
(***************************************************************************)
(* legged_interface's SwitchedModelReferenceManager: before every solve it *)
(* asks the gait schedule for the modes around the horizon and has the     *)
(* swing planner lay out the feet.  A gait may be received at any time; it *)
(* is put behind the horizon after the next solve was prepared.            *)
(*                                                                         *)
(* Times are counted from the initial time of the last solve, which makes  *)
(* the states of an endless run finitely many.                             *)
(***************************************************************************)
EXTENDS SwingTrajectoryPlanner

CONSTANTS
  Horizon,     \* mpc.timeHorizon
  MaxStep,     \* bound: the MPC solves every 1..MaxStep ticks
  DefaultGait, \* defaultModeSequenceTemplate
  FirstEvent   \* the event of initialModeSchedule

ASSUME ManagerAssumption ==
  /\ Horizon \in Nat \ {0} /\ MaxStep \in Nat \ {0} /\ FirstEvent \in Nat
  /\ DefaultGait \in Gaits

VARIABLES
  gaitSchedule,  \* gaitSchedulePtr_'s mode schedule
  template,      \* and its mode sequence template
  receivedGait,  \* GaitReceiver's, and whether it is still to be inserted
  gaitUpdated,
  modeSchedule,  \* the mode schedule of the last solve
  feet,          \* the planner's feetHeightTrajectories_
  planned,       \* the last update() did not throw
  elapsed,       \* history: ticks between the last two solves, 0 after a command
  since          \* history: ticks solved since the last command, up to Settled

vars == <<gaitSchedule, template, receivedGait, gaitUpdated, modeSchedule, feet, planned,
          elapsed, since>>

\* From the command to the gait: the next solve, its horizon, the leading stance.
Settled == MaxStep + Horizon + Transition

InitialSchedule == [eventTimes |-> <<FirstEvent>>, modeSequence |-> <<STANCE, STANCE>>]

Init ==
  /\ gaitSchedule = InitialSchedule
  /\ template = DefaultGait
  /\ receivedGait = DefaultGait
  /\ gaitUpdated = FALSE
  /\ modeSchedule = InitialSchedule
  /\ feet = Update(InitialSchedule)
  /\ planned = TRUE
  /\ elapsed = 0
  /\ since = 0

\* A gait command arrives, on a subscriber's thread.
ReceiveGait(g) ==
  /\ receivedGait' = g
  /\ gaitUpdated' = TRUE
  /\ elapsed' = 0 /\ since' = 0
  /\ UNCHANGED <<gaitSchedule, template, modeSchedule, feet, planned>>

LowerAhead  == Horizon      \* mutant: the sign of the margin
LowerAtInit == 0            \* mutant: no margin before the horizon
Lower       == -Horizon     \* initTime - timeHorizon
Upper       == 2 * Horizon  \* finalTime + timeHorizon

\* modifyReferences(): the schedule for this solve, and the feet.
ModifyReferences(sched) ==
  /\ modeSchedule' = GetModeSchedule(sched, template, Lower, Upper)
  /\ planned' = UpdateSucceeds(modeSchedule')
  /\ feet' = (IF planned' THEN Update(modeSchedule') ELSE feet)

\* The solver's synchronized module: a new gait starts behind the horizon.
InsertReceived ==
  /\ template' = (IF gaitUpdated THEN receivedGait ELSE template)
  /\ gaitSchedule' = (IF gaitUpdated THEN InsertGait(modeSchedule', Horizon) ELSE modeSchedule')
  /\ gaitUpdated' = FALSE

PreSolverRunUnsynchronized(d) ==   \* mutant: gaitReceiver not added to the solver's modules
  /\ planned
  /\ elapsed' = d /\ since' = Min({since + d, Settled})
  /\ ModifyReferences(Shift(gaitSchedule, d))
  /\ gaitSchedule' = modeSchedule'
  /\ UNCHANGED <<template, receivedGait, gaitUpdated>>

\* The preparation of the next solve, d ticks after the last; an exception
\* ends it, and with it the MPC.
PreSolverRun(d) ==
  /\ planned
  /\ elapsed' = d /\ since' = Min({since + d, Settled})
  /\ ModifyReferences(Shift(gaitSchedule, d))
  /\ IF planned' THEN InsertReceived
     ELSE gaitSchedule' = modeSchedule' /\ UNCHANGED <<template, gaitUpdated>>
  /\ UNCHANGED receivedGait

Solve == \E d \in 1..MaxStep : PreSolverRun(d)

Next == Solve \/ \E g \in Gaits : ReceiveGait(g)

Spec == Init /\ [][Next]_vars

-----------------------------------------------------------------------------
(* Properties.                                                             *)

IsSchedule(sched) ==
  /\ Len(sched.modeSequence) = Len(sched.eventTimes) + 1
  /\ \A p \in DOMAIN sched.modeSequence : sched.modeSequence[p] \subseteq Legs
  /\ \A i, j \in DOMAIN sched.eventTimes : i < j => sched.eventTimes[i] < sched.eventTimes[j]

TypeOK ==
  /\ IsSchedule(gaitSchedule) /\ IsSchedule(modeSchedule)
  /\ template \in Gaits /\ receivedGait \in Gaits /\ gaitUpdated \in BOOLEAN
  /\ \A leg \in Legs : planned => Len(feet[leg]) = Len(modeSchedule.modeSequence)
  /\ planned \in BOOLEAN /\ elapsed \in 0..MaxStep /\ since \in 0..Settled

\* Every swing the planner is given has its lift-off and its touch-down: no
\* gait, and no change of gait at any time, makes update() throw.
EverySwingIsDefined == planned

\* What getZvelocityConstraint() and getZpositionConstraint() evaluate for a
\* leg at a time in the horizon.
FootAt(leg, t) == feet[leg][PhaseAt(modeSchedule.eventTimes, t)]

\* A swing is there exactly while the leg is up, and reaches from the end of
\* its last contact to the start of its next.
SwingSpansTheAir ==
  \A leg \in Legs, t \in 0..Horizon :
    LET foot == FootAt(leg, t)
    IN  IF leg \in ModeAt(modeSchedule, t) THEN ~foot.swings
        ELSE /\ foot.swings
             /\ foot.liftOff < t /\ t <= foot.touchDown
             /\ leg \in ModeAt(modeSchedule, foot.liftOff)
             /\ leg \in ModeAt(modeSchedule, foot.touchDown + 1)
             /\ \A s \in (foot.liftOff + 1)..foot.touchDown : leg \notin ModeAt(modeSchedule, s)

\* A contact that the last solve planned in its horizon stays planned: gait
\* commands only ever act behind it.  What comes after the last event of a
\* schedule is not planned yet, but only the initial schedule may end that early.
HorizonIsKept ==
  [][elapsed' > 0 =>
       \A t \in elapsed'..Horizon :
         t <= LastOf(modeSchedule.eventTimes) =>
           ModeAt(modeSchedule', t - elapsed') = ModeAt(modeSchedule, t)]_vars

\* A foot in the air for less than a horizon keeps its lift-off, and its
\* touch-down if the last solve had it in its horizon.
SwingIsKept ==
  [][elapsed' > 0 =>
       \A leg \in Legs :
         LET before == feet[leg][PhaseAt(modeSchedule.eventTimes, elapsed')]
             after  == feet'[leg][PhaseAt(modeSchedule'.eventTimes, 0)]
         IN  /\ before.swings
             /\ before.liftOff >= elapsed' - Horizon
             /\ before.touchDown < Horizon
             => after = Swing(before.liftOff - elapsed', before.touchDown - elapsed')]_vars

\* A gait is walked soon after it was asked for: the robot's mode is one of the
\* gait's.
GaitIsWalked ==
  since = Settled /\ planned =>
    \E p \in DOMAIN receivedGait.modeSequence :
      ModeAt(modeSchedule, 1) = receivedGait.modeSequence[p]
=============================================================================
