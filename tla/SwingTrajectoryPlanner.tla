----------------------- MODULE SwingTrajectoryPlanner -----------------------
(***************************************************************************)
(* legged_interface's SwingTrajectoryPlanner: from a mode schedule, the    *)
(* swing of every foot in every phase, told by its lift-off and touch-down *)
(* times.  Heights are the terrain's and the configuration's, the same for *)
(* every swing of that length.  Phases count from 1, so an index that the  *)
(* code finds missing (-1) is 0 here.                                      *)
(***************************************************************************)
EXTENDS GaitSchedule, FiniteSetsExt

\* extractContactFlags(), for one leg.
ContactFlags(modes, leg) == [p \in DOMAIN modes |-> leg \in modes[p]]

TouchDownAfter(flags, p) ==   \* mutant: the contact phase's own event
  Min({Len(flags)} \cup {i \in (p + 1)..Len(flags) : flags[i]})

TouchDown(flags, p) == Min({Len(flags) + 1} \cup {i \in (p + 1)..Len(flags) : flags[i]}) - 1

LiftOffSkipsFirst(flags, p) ==   \* mutant: ip > 0 for ip >= 0
  Max({0} \cup {i \in 2..(p - 1) : flags[i]})

LiftOff(flags, p) == Max({0} \cup {i \in 1..(p - 1) : flags[i]})

\* findIndex(): the events at which the swing through phase p starts and ends.
FindIndex(p, flags) ==
  IF flags[p] THEN [start |-> 0, final |-> 0]
  ELSE [start |-> LiftOff(flags, p), final |-> TouchDown(flags, p)]

\* updateFootSchedule().
UpdateFootSchedule(flags) == [p \in DOMAIN flags |-> FindIndex(p, flags)]

\* checkThatIndicesAreValid(): throws otherwise.
IndicesAreValid(index, modes) == index.start >= 1 /\ index.final < Len(modes)

\* A foot's trajectory in a phase.
Stance           == [swings |-> FALSE]
Swing(from, to)  == [swings |-> TRUE, liftOff |-> from, touchDown |-> to]

\* update() reaches its end: no swing lacks its lift-off or touch-down.
UpdateSucceeds(sched) ==
  \A leg \in Legs :
    LET flags == ContactFlags(sched.modeSequence, leg)
        index == UpdateFootSchedule(flags)
    IN  \A p \in DOMAIN flags : flags[p] \/ IndicesAreValid(index[p], sched.modeSequence)

UpdatePerEvent(sched) ==   \* mutant: a trajectory per event time, none for the last phase
  [leg \in Legs |->
    LET flags == ContactFlags(sched.modeSequence, leg)
        index == UpdateFootSchedule(flags)
    IN  [p \in DOMAIN sched.eventTimes |->
          IF flags[p] THEN Stance
          ELSE Swing(sched.eventTimes[index[p].start], sched.eventTimes[index[p].final])]]

\* update(): feetHeightTrajectories_, one entry per leg and phase.
Update(sched) ==
  [leg \in Legs |->
    LET flags == ContactFlags(sched.modeSequence, leg)
        index == UpdateFootSchedule(flags)
    IN  [p \in DOMAIN flags |->
          IF flags[p] THEN Stance
          ELSE Swing(sched.eventTimes[index[p].start], sched.eventTimes[index[p].final])]]
=============================================================================
