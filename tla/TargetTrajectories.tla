------------------------- MODULE TargetTrajectories -------------------------
(***************************************************************************)
(* The way of a command: the TargetTrajectoriesPublisher node turns goals  *)
(* and velocity commands into target trajectories, from the last           *)
(* observation it received from the LeggedController; OCS2's reference     *)
(* manager keeps them for the next solve.  The controller may be stopped   *)
(* and started again at any time, upon which the yaw of its observations   *)
(* counts from within one turn again.                                      *)
(*                                                                         *)
(* Headings are counted in sectors.  `turn' is where the robot really      *)
(* faces, counted over all its turns; only its value within one turn can   *)
(* be measured.  Positions appear as the time it takes to cover them.      *)
(***************************************************************************)
EXTENDS Integers, FiniteSetsExt

CONSTANTS
  Sectors,       \* of a full turn
  Turns,         \* sectors the robot may turn from one update to the next
  Headings,      \* bound: where it may come to face, full turns counted
  MaxRuns,       \* bound: starts of the controller
  Rates,         \* angular velocities of cmd_vel, in sectors per unit of time
  WalkTimes,     \* displacementTime of the goals
  TimeToTarget   \* TIME_TO_TARGET, mpc.timeHorizon

ASSUME TargetAssumption ==
  /\ Sectors \in Nat \ {0} /\ Headings \subseteq Int /\ MaxRuns \in Nat \ {0}
  /\ \A d \in Turns : d \in Int /\ 2 * d < Sectors /\ -2 * d < Sectors
  /\ 0 \in Turns
  /\ Rates \subseteq Int /\ WalkTimes \subseteq Nat /\ TimeToTarget \in Nat

\* normalize_angle(): within half a turn to either side, the right one included.
Normalize(a) == LET r == a % Sectors IN IF 2 * r > Sectors THEN r - Sectors ELSE r

ShortestAngularDistance(from, to) == Normalize(to - from)

Magnitude(a)  == IF a < 0 THEN -a ELSE a
WithinOneTurn == {Normalize(a) : a \in 0..(Sectors - 1)}
RunNumbers    == 1..MaxRuns

VARIABLES
  turn,         \* where the robot faces
  run,          \* how many times the controller was started
  running,      \* it is running
  yaw,          \* currentObservation_.state(9)
  observed,     \* the observation in the publisher's queue of length 1
  latest,       \* latestObservation_
  publisher,    \* what the publisher's only thread is doing
  topic,        \* the trajectories in the subscriber's queue of length 1
  buffer,       \* the reference manager's, and whether it is new
  fresh,
  target,       \* the target trajectories of the last solve
  solvedIn      \* history: the run of the last solve

robotVars     == <<turn, run, running, yaw>>
publisherVars == <<latest, publisher>>
managerVars   == <<buffer, fresh, target, solvedIn>>
vars          == <<robotVars, observed, publisherVars, topic, managerVars>>

None       == [run |-> 0, yaw |-> 0]   \* no message; before the first observation
Idle       == [busy |-> FALSE]
Waiting(g) == [busy |-> TRUE, goal |-> g]

Observation(r, y) == [run |-> r, yaw |-> y]

\* Trajectories from the observed pose: how far they turn, and how long it takes.
Trajectories(obs, to, time) == [run |-> obs.run, by |-> to - obs.yaw, time |-> time]

\* Of targets in the reference manager: the run of the observation they were
\* computed from, and the run in which they were set.
Target(of, set) == [of |-> of, set |-> set]

Init ==
  /\ turn \in Headings
  /\ run = 0 /\ running = FALSE
  /\ yaw = 0
  /\ observed = None /\ latest = None
  /\ publisher = Idle
  /\ topic = None
  /\ buffer = Target(0, 0) /\ fresh = FALSE /\ target = Target(0, 0)
  /\ solvedIn = 0

-----------------------------------------------------------------------------
(* The controller.                                                         *)

\* The robot turns, and the imu tells its heading within one turn.
RobotTurns ==
  /\ \E d \in Turns : turn' = turn + d
  /\ turn' \in Headings

UnwrapNothing(last) == Normalize(turn')   \* mutant: the yaw as it was measured

\* updateStateEstimation(): the measured yaw, unwrapped from the last.
Unwrap(last) == last + ShortestAngularDistance(last, Normalize(turn'))

StartWithTargets ==   \* mutant: targets set upon the first start only
  /\ ~running /\ run < MaxRuns
  /\ RobotTurns
  /\ running' = TRUE /\ run' = run + 1
  /\ yaw' = Unwrap(0)
  /\ IF run = 0 THEN buffer' = Target(1, 1) /\ fresh' = TRUE
     ELSE UNCHANGED <<buffer, fresh>>
  /\ UNCHANGED <<observed, publisherVars, topic, target, solvedIn>>

\* starting(): the state is zeroed, estimated, and set as the target to hold.
Start ==
  /\ ~running /\ run < MaxRuns
  /\ RobotTurns
  /\ running' = TRUE /\ run' = run + 1
  /\ yaw' = Unwrap(0)
  /\ buffer' = Target(run', run') /\ fresh' = TRUE
  /\ UNCHANGED <<observed, publisherVars, topic, target, solvedIn>>

\* update(): estimate, and publish the observation.
UpdateController ==
  /\ running
  /\ RobotTurns
  /\ yaw' = Unwrap(yaw)
  /\ observed' = Observation(run, yaw')
  /\ UNCHANGED <<run, running, publisherVars, topic, managerVars>>

Stop ==
  /\ running
  /\ running' = FALSE
  /\ UNCHANGED <<turn, run, yaw, observed, publisherVars, topic, managerVars>>

-----------------------------------------------------------------------------
(* The publisher: callbacks in turn, on one thread.                        *)

HandleFirstObservation ==   \* mutant: only the first observation is kept
  /\ ~publisher.busy /\ observed # None
  /\ latest' = (IF latest = None THEN observed ELSE latest)
  /\ observed' = None
  /\ UNCHANGED <<robotVars, publisher, topic, managerVars>>

\* observationCallback.
HandleObservation ==
  /\ ~publisher.busy /\ observed # None
  /\ latest' = observed
  /\ observed' = None
  /\ UNCHANGED <<robotVars, publisher, topic, managerVars>>

EverObserves == TRUE   \* mutant: no look at the observation's time

\* The time of an observation is 0 before the first one only.
Observed == latest # None

\* A target rotation velocity of one sector per unit of time.
EstimateTimeToTarget(turned, walking) == Max({Magnitude(turned), walking})

GoalTheShortWay(g, walking) ==   \* mutant: time for the shorter turn
  Trajectories(latest, g, EstimateTimeToTarget(Normalize(g - latest.yaw), walking))

\* goalToTargetTrajectories(): the goal's yaw, as it came.
GoalToTargetTrajectories(g, walking) ==
  Trajectories(latest, g, EstimateTimeToTarget(g - latest.yaw, walking))

CmdVelToTargetTrajectories(rate) ==
  Trajectories(latest, latest.yaw + rate * TimeToTarget, TimeToTarget)

\* A goal arrives; its transform may have to be waited for.
HandleGoal ==
  /\ ~publisher.busy /\ Observed
  /\ \E g \in WithinOneTurn : publisher' = Waiting(g)
  /\ UNCHANGED <<robotVars, observed, latest, topic, managerVars>>

PublishGoal ==
  /\ publisher.busy
  /\ \E walking \in WalkTimes : topic' = GoalToTargetTrajectories(publisher.goal, walking)
  /\ publisher' = Idle
  /\ UNCHANGED <<robotVars, observed, latest, managerVars>>

\* The transform timed out.
GiveUpGoal ==
  /\ publisher.busy
  /\ publisher' = Idle
  /\ UNCHANGED <<robotVars, observed, latest, topic, managerVars>>

HandleCmdVel ==
  /\ ~publisher.busy /\ Observed
  /\ \E rate \in Rates : topic' = CmdVelToTargetTrajectories(rate)
  /\ UNCHANGED <<robotVars, observed, publisherVars, managerVars>>

-----------------------------------------------------------------------------
(* The reference manager, on a subscriber's and on the solver's thread.    *)

ReceiveTargetsOnce ==   \* mutant: not while those before have not been solved for
  /\ topic # None
  /\ IF fresh THEN UNCHANGED buffer ELSE buffer' = Target(topic.run, run)
  /\ fresh' = TRUE
  /\ topic' = None
  /\ UNCHANGED <<robotVars, observed, publisherVars, target, solvedIn>>

ReceiveTargets ==
  /\ topic # None
  /\ buffer' = Target(topic.run, run) /\ fresh' = TRUE
  /\ topic' = None
  /\ UNCHANGED <<robotVars, observed, publisherVars, target, solvedIn>>

\* preSolverRun(): new targets replace the old.  A solve that began before a
\* stop may come to this after it.
Solve ==
  /\ run > 0
  /\ target' = (IF fresh THEN buffer ELSE target)
  /\ fresh' = FALSE
  /\ solvedIn' = run
  /\ UNCHANGED <<robotVars, observed, publisherVars, topic, buffer>>

Controller == Start \/ UpdateController \/ Stop
Goal       == HandleGoal \/ PublishGoal \/ GiveUpGoal
Next       == Controller \/ HandleObservation \/ Goal \/ HandleCmdVel \/ ReceiveTargets \/ Solve

\* The loop updates a running controller, whose solver solves.  Subscribers'
\* threads run; the publisher's serves its callbacks in the order they came, so
\* an observation is not passed over for ever, and waits for a transform end.
Fairness ==
  /\ WF_vars(UpdateController) /\ WF_vars(running /\ Solve)
  /\ WF_vars(ReceiveTargets)
  /\ SF_vars(HandleObservation) /\ WF_vars(PublishGoal \/ GiveUpGoal)

Spec == Init /\ [][Next]_vars /\ Fairness

-----------------------------------------------------------------------------
(* Properties.                                                             *)

\* Types, and that no trajectories are published before a first observation.
TypeOK ==
  /\ turn \in Headings /\ run \in 0..MaxRuns /\ running \in BOOLEAN
  /\ yaw \in Int
  /\ observed = None \/ observed.run \in 1..run
  /\ latest = None \/ latest.run \in 1..run
  /\ publisher.busy => publisher.goal \in WithinOneTurn
  /\ topic = None \/ topic.run \in 1..run
  /\ buffer.of \in 0..buffer.set /\ buffer.set \in 0..run
  /\ fresh \in BOOLEAN
  /\ target.of \in 0..target.set /\ target.set \in 0..run
  /\ solvedIn \in 0..run

\* Within a run the yaw of the observations turns as the robot does, over any
\* number of full turns, though only the heading within one is measured.
YawFollowsRobot == [][run' = run => yaw' - yaw = turn' - turn]_<<yaw, turn>>

\* No trajectory asks to turn faster than the target rotation velocity or a
\* velocity that may be commanded, also where a goal asks to undo full turns.
TurnIsFeasible ==
  topic # None =>
    \E rate \in {1} \cup {Magnitude(r) : r \in Rates} :
      Magnitude(topic.by) <= rate * topic.time

\* After a start the solver uses what was set since: at first the pose to hold,
\* never what an earlier run left behind.
SolvesForThisRun == solvedIn = run => target.set = run

\* A target computed in an earlier run may still arrive in a later one, and stays
\* while nothing else is asked for; but a controller that keeps running and is
\* sent velocities comes to pursue targets of its own run only.
StaleTargetsDieOut ==
  <>[]running /\ []<><<HandleCmdVel>>_vars => <>[](target.of = run)

\* The stages of an observation's run on the way to the solver: the publisher is
\* sent it, knows it, lets nothing else be under way, the reference manager has
\* targets computed from it, the solver pursues them.
Sent     == run \in {observed.run, latest.run}
Known    == latest.run = run
Asked    == Known /\ topic.run \in {0, run}
Buffered == Asked /\ buffer.of = run
Pursued  == Buffered /\ target.of = run

\* Until the next start no stage is ever lost again, whatever is still under way
\* from earlier runs; and each is followed by the next upon one callback or solve,
\* which is why StaleTargetsDieOut.
OwnTargetsAdvance ==
  [][run' = run =>
       /\ Sent => Sent'
       /\ Known => Known'
       /\ Asked => Asked'
       /\ Buffered => Buffered'
       /\ Pursued => Pursued'
       /\ UpdateController => Sent'
       /\ Sent /\ HandleObservation => Known'
       /\ Known /\ (HandleCmdVel \/ PublishGoal) => Asked'
       /\ Asked /\ ReceiveTargets => Buffered'
       /\ Buffered /\ Solve => Pursued']_vars
=============================================================================
