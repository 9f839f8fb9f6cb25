---------------------- MODULE TargetTrajectories_proof ----------------------
(***************************************************************************)
(* Proofs about TargetTrajectories: what a stop and a start of the         *)
(* controller leave of the targets, how a run's own come through, and that *)
(* the unwrapped yaw follows the robot, for any number of sectors, turns   *)
(* and starts.                                                             *)
(***************************************************************************)
EXTENDS TargetTrajectories, TLAPS

-----------------------------------------------------------------------------
(* Angles.                                                                 *)

\* Normalization adds full turns, to within half a turn.
LEMMA NormalizeAddsTurns ==
  ASSUME TargetAssumption, NEW a \in Int
  PROVE  /\ Normalize(a) \in Int
         /\ 2 * Normalize(a) <= Sectors /\ -2 * Normalize(a) < Sectors
         /\ \E k \in Int : Normalize(a) = a + k * Sectors
<1>1. Sectors \in Nat /\ Sectors > 0
  BY SMT DEF TargetAssumption
<1> DEFINE r == a % Sectors
           q == a \div Sectors
<1>2. r \in Int /\ q \in Int /\ a = Sectors * q + r /\ 0 <= r /\ r < Sectors
  BY <1>1, SMT
<1>3. r = a + (-q) * Sectors /\ r - Sectors = a + (-q - 1) * Sectors
  BY <1>1, <1>2, SMT
<1> HIDE DEF r, q
<1>4. -q \in Int /\ -q - 1 \in Int
  BY <1>2, SMT
<1>5. Normalize(a) = IF 2 * r > Sectors THEN r - Sectors ELSE r
  BY DEF Normalize, r
<1>6. \E k \in Int : Normalize(a) = a + k * Sectors
  BY <1>3, <1>4, <1>5
<1>7. Normalize(a) \in Int /\ 2 * Normalize(a) <= Sectors /\ -2 * Normalize(a) < Sectors
  BY <1>1, <1>2, <1>5, SMT
<1> QED BY <1>6, <1>7

\* Numbers that are full turns apart, both within half a turn, are the same.
LEMMA WithinHalfATurn ==
  ASSUME TargetAssumption, NEW a \in Int, NEW b \in Int, NEW k \in Int,
         a = b + k * Sectors,
         2 * a <= Sectors, -2 * a < Sectors, 2 * b < Sectors, -2 * b < Sectors
  PROVE  a = b
<1>1. Sectors \in Nat /\ Sectors > 0
  BY SMT DEF TargetAssumption
<1>2. CASE k = 0
  BY <1>1, <1>2, SMT
<1>3. CASE k > 0
  <2>1. k * Sectors >= Sectors
    BY <1>1, <1>3, SMT
  <2> QED BY <1>1, <2>1, SMT
<1>4. CASE k < 0
  <2>1. k * Sectors <= -Sectors
    BY <1>1, <1>4, SMT
  <2> QED BY <1>1, <2>1, SMT
<1> QED BY <1>2, <1>3, <1>4, SMT

\* The yaw and the robot's heading are full turns apart.
Turned(y, t) == \E k \in Int : y = t + k * Sectors

Unwrapped(last, t) == last + ShortestAngularDistance(last, Normalize(t))

\* Unwrapping ends full turns apart from the heading, wherever it starts.
LEMMA UnwrappedFollows ==
  ASSUME TargetAssumption, NEW t \in Int, NEW last \in Int
  PROVE  Unwrapped(last, t) \in Int /\ Turned(Unwrapped(last, t), t)
<1>0. Sectors \in Int
  BY SMT DEF TargetAssumption
<1>1. PICK k \in Int : Normalize(t) = t + k * Sectors
  BY NormalizeAddsTurns
<1>2. Normalize(t) \in Int /\ Normalize(t) - last \in Int
  <2>1. Normalize(t) \in Int
    BY NormalizeAddsTurns
  <2> QED BY <2>1, SMT
<1>3. PICK j \in Int : Normalize(Normalize(t) - last) = Normalize(t) - last + j * Sectors
  BY <1>2, NormalizeAddsTurns
<1>4. Unwrapped(last, t) = t + (k + j) * Sectors
  BY <1>0, <1>1, <1>2, <1>3, SMT DEF Unwrapped, ShortestAngularDistance
<1>5. k + j \in Int
  BY SMT
<1>6. Unwrapped(last, t) \in Int
  BY <1>0, <1>4, <1>5, SMT
<1> QED BY <1>4, <1>5, <1>6 DEF Turned

\* From a yaw that follows the robot, unwrapping turns as far as the robot does.
LEMMA UnwrappedTurns ==
  ASSUME TargetAssumption, NEW t \in Int, NEW last \in Int, Turned(last, t),
         NEW d \in Turns
  PROVE  Unwrapped(last, t + d) = last + d
<1>0. Sectors \in Int /\ d \in Int /\ 2 * d < Sectors /\ -2 * d < Sectors
  BY SMT DEF TargetAssumption
<1>1. PICK i \in Int : last = t + i * Sectors
  BY DEF Turned
<1>2. t + d \in Int
  BY <1>0, SMT
<1>3. PICK k \in Int : Normalize(t + d) = t + d + k * Sectors
  BY <1>2, NormalizeAddsTurns
<1>4. Normalize(t + d) - last \in Int
  BY <1>2, NormalizeAddsTurns, SMT
<1> DEFINE s == Normalize(Normalize(t + d) - last)
<1>5. /\ s \in Int /\ 2 * s <= Sectors /\ -2 * s < Sectors
      /\ \E j \in Int : s = Normalize(t + d) - last + j * Sectors
  BY <1>4, NormalizeAddsTurns
<1>6. PICK j \in Int : s = Normalize(t + d) - last + j * Sectors
  BY <1>5
<1> HIDE DEF s
<1>7. s = d + (k - i + j) * Sectors /\ k - i + j \in Int
  BY <1>0, <1>1, <1>3, <1>6, SMT
<1>8. s = d
  BY <1>0, <1>5, <1>7, WithinHalfATurn
<1> QED BY <1>8 DEF Unwrapped, ShortestAngularDistance, s
-----------------------------------------------------------------------------
(* The invariant.                                                          *)

\* Whatever is under way was computed in this run or an earlier one.
Messages ==
  /\ observed = None \/ observed.run \in 1..run
  /\ latest = None \/ latest.run \in 1..run
  /\ topic = None \/ topic.run \in 1..run
  /\ publisher.busy => publisher.goal \in WithinOneTurn /\ Observed

Managed ==
  /\ buffer.of \in 0..buffer.set /\ buffer.set \in 0..run
  /\ fresh \in BOOLEAN
  /\ target.of \in 0..target.set /\ target.set \in 0..run
  /\ solvedIn \in 0..run

\* A running controller's yaw is the robot's heading, but for full turns.
YawIsUnwrapped == running => Turned(yaw, turn)

\* The buffer was set in this run, and is solved for unless it is still new.
TargetsAreOfThisRun ==
  /\ buffer.set = run
  /\ fresh \/ target.set = run
  /\ SolvesForThisRun

Robot ==
  /\ turn \in Headings /\ run \in 0..MaxRuns /\ running \in BOOLEAN /\ yaw \in Int
  /\ running => run # 0

IInv == Robot /\ Messages /\ Managed /\ YawIsUnwrapped /\ TargetsAreOfThisRun

LEMMA Constants ==
  Sectors \in Int /\ Headings \subseteq Int /\ MaxRuns \in Nat
  BY TargetAssumption, SMT DEF TargetAssumption

LEMMA InitIInv == Init => IInv
<1> SUFFICES ASSUME Init PROVE IInv
  OBVIOUS
<1>1. Robot
  <2>1. turn \in Headings /\ run = 0 /\ running = FALSE /\ yaw = 0
    BY DEF Init
  <2>2. 0 \in 0..MaxRuns
    BY Constants, SMT
  <2>3. run \in 0..MaxRuns
    BY <2>1, <2>2, Zenon
  <2>4. yaw \in Int
    BY <2>1, SMT
  <2> QED BY <2>1, <2>3, <2>4, Zenon DEF Robot
<1>2. Messages
  BY DEF Init, Messages, None, Idle, Observed
<1>3. Managed
  <2>1. buffer = Target(0, 0) /\ target = Target(0, 0) /\ fresh = FALSE /\ solvedIn = 0 /\ run = 0
    BY DEF Init
  <2>2. 0 \in 0..0
    BY SMT
  <2> QED BY <2>1, <2>2 DEF Managed, Target
<1>5. TargetsAreOfThisRun
  BY DEF Init, TargetsAreOfThisRun, SolvesForThisRun, Target
<1>4. YawIsUnwrapped
  BY DEF Init, YawIsUnwrapped
<1> QED BY <1>1, <1>2, <1>3, <1>4, <1>5 DEF IInv

\* The robot's turn and the yaw after it.
LEMMA RobotStep ==
  ASSUME Robot, RobotTurns, NEW last \in Int, yaw' = Unwrap(last)
  PROVE  turn' \in Headings /\ yaw' \in Int /\ Turned(yaw', turn')
<1>1. turn' \in Headings /\ turn' \in Int
  BY Constants DEF RobotTurns
<1>2. yaw' = Unwrapped(last, turn')
  BY DEF Unwrap, Unwrapped
<1> QED BY <1>1, <1>2, TargetAssumption, UnwrappedFollows

LEMMA NextIInv == IInv /\ [Next]_vars => IInv'
<1> SUFFICES ASSUME IInv, [Next]_vars PROVE IInv'
  OBVIOUS
<1> USE DEF IInv
<1>0. run \in Nat /\ MaxRuns \in Nat /\ run <= MaxRuns
  BY Constants, SMT DEF Robot
<1>1. CASE Start
  <2>1. RobotTurns /\ yaw' = Unwrap(0) /\ running' = TRUE /\ run' = run + 1 /\ run < MaxRuns
    BY <1>1 DEF Start
  <2>2. turn' \in Headings /\ yaw' \in Int /\ Turned(yaw', turn')
    BY <2>1, RobotStep
  <2>3. Robot'
    BY <1>0, <2>1, <2>2, SMT DEF Robot
  <2>4. Messages'
    BY <1>0, <1>1, SMT DEF Messages, Start, publisherVars, Observed
  <2>5. Managed'
    BY <1>0, <1>1, SMT DEF Managed, Start, Target
  <2>6. TargetsAreOfThisRun'
    BY <1>0, <1>1, SMT DEF TargetsAreOfThisRun, SolvesForThisRun, Managed, Start, Target
  <2>7. YawIsUnwrapped'
    BY <2>2 DEF YawIsUnwrapped
  <2> QED BY <2>3, <2>4, <2>5, <2>6, <2>7
<1>2. CASE UpdateController
  <2>1. RobotTurns /\ yaw' = Unwrap(yaw) /\ UNCHANGED <<run, running>> /\ yaw \in Int /\ running
    BY <1>2 DEF UpdateController, Robot
  <2>2. turn' \in Headings /\ yaw' \in Int /\ Turned(yaw', turn')
    BY <2>1, RobotStep
  <2>3. Robot'
    BY <2>1, <2>2 DEF Robot
  <2>4. Messages'
    <3>1. observed' = Observation(run, yaw')
      BY <1>2 DEF UpdateController
    <3>2. run # 0
      BY <2>1 DEF Robot
    <3>3. observed'.run \in 1..run
      BY <1>0, <3>1, <3>2, SMT DEF Observation
    <3> QED BY <1>2, <3>3, Zenon DEF Messages, UpdateController, publisherVars, Observed
  <2>5. Managed' /\ TargetsAreOfThisRun'
    BY <1>2 DEF Managed, TargetsAreOfThisRun, SolvesForThisRun, UpdateController, managerVars
  <2>6. YawIsUnwrapped'
    BY <2>2 DEF YawIsUnwrapped
  <2> QED BY <2>3, <2>4, <2>5, <2>6
<1>3. CASE Stop
  <2>1. Robot'
    BY <1>3, Zenon DEF Stop, Robot
  <2>2. Messages'
    BY <1>3, Zenon DEF Messages, Stop, publisherVars, Observed
  <2>3. Managed' /\ TargetsAreOfThisRun'
    BY <1>3, Zenon DEF Managed, TargetsAreOfThisRun, SolvesForThisRun, Stop, managerVars
  <2>4. YawIsUnwrapped'
    BY <1>3 DEF YawIsUnwrapped, Stop
  <2> QED BY <2>1, <2>2, <2>3, <2>4
<1>4. CASE HandleObservation
  <2>1. UNCHANGED <<robotVars, publisher, topic, managerVars>> /\ latest' = observed
        /\ observed' = None /\ ~publisher.busy
    BY <1>4 DEF HandleObservation
  <2>2. Messages'
    BY <2>1, Zenon DEF Messages, robotVars
  <2> QED BY <2>1, <2>2, Zenon DEF Robot, robotVars, Managed, TargetsAreOfThisRun,
             SolvesForThisRun, managerVars, YawIsUnwrapped
<1>5. CASE HandleGoal
  <2>1. UNCHANGED <<robotVars, observed, latest, topic, managerVars>> /\ Observed
        /\ \E g \in WithinOneTurn : publisher' = Waiting(g)
    BY <1>5 DEF HandleGoal
  <2>2. publisher'.goal \in WithinOneTurn
    BY <2>1 DEF Waiting
  <2>3. Messages'
    BY <2>1, <2>2, Zenon DEF Messages, robotVars, Observed
  <2> QED BY <2>1, <2>3, Zenon DEF Robot, robotVars, Managed, TargetsAreOfThisRun,
             SolvesForThisRun, managerVars, YawIsUnwrapped
<1>6. CASE PublishGoal
  <2>1. UNCHANGED <<robotVars, observed, latest, managerVars>> /\ publisher' = Idle
        /\ latest.run \in 1..run
        /\ \E walking \in WalkTimes : topic' = GoalToTargetTrajectories(publisher.goal, walking)
    BY <1>6 DEF PublishGoal, Messages, Observed
  <2>2. topic'.run = latest.run /\ run' = run
    BY <2>1 DEF GoalToTargetTrajectories, Trajectories, robotVars
  <2>3. ~publisher'.busy
    BY <2>1 DEF Idle
  <2>4. Messages'
    BY <2>1, <2>2, <2>3, Zenon DEF Messages
  <2> QED BY <2>1, <2>4, Zenon DEF Robot, robotVars, Managed, TargetsAreOfThisRun,
             SolvesForThisRun, managerVars, YawIsUnwrapped
<1>7. CASE GiveUpGoal
  <2>1. UNCHANGED <<robotVars, observed, latest, topic, managerVars>> /\ publisher' = Idle
    BY <1>7 DEF GiveUpGoal
  <2>2. ~publisher'.busy
    BY <2>1 DEF Idle
  <2> QED BY <2>1, <2>2, Zenon DEF Messages, Robot, robotVars, Managed, TargetsAreOfThisRun,
             SolvesForThisRun, managerVars, YawIsUnwrapped
<1>8. CASE HandleCmdVel
  <2>1. UNCHANGED <<robotVars, observed, publisherVars, managerVars>> /\ latest.run \in 1..run
        /\ \E rate \in Rates : topic' = CmdVelToTargetTrajectories(rate)
    BY <1>8 DEF HandleCmdVel, Messages, Observed
  <2>2. topic'.run = latest.run /\ run' = run
    BY <2>1 DEF CmdVelToTargetTrajectories, Trajectories, robotVars
  <2>3. Messages'
    BY <2>1, <2>2, Zenon DEF Messages, publisherVars, Observed
  <2> QED BY <2>1, <2>3, Zenon DEF Robot, robotVars, Managed, TargetsAreOfThisRun,
             SolvesForThisRun, managerVars, YawIsUnwrapped
<1>9. CASE ReceiveTargets
  <2>1. UNCHANGED <<robotVars, observed, publisherVars, target, solvedIn>> /\ topic' = None
        /\ buffer' = Target(topic.run, run) /\ fresh' = TRUE /\ topic.run \in 1..run
    BY <1>9 DEF ReceiveTargets, Messages
  <2>2. Messages'
    BY <2>1, Zenon DEF Messages, robotVars, publisherVars, Observed
  <2>3. buffer'.of = topic.run /\ buffer'.set = run /\ run' = run
    BY <2>1 DEF Target, robotVars
  <2>4. topic.run \in 0..run /\ run \in 0..run
    BY <1>0, <2>1, SMT
  <2>5. Managed' /\ TargetsAreOfThisRun'
    BY <2>1, <2>3, <2>4, Zenon DEF Managed, TargetsAreOfThisRun, SolvesForThisRun
  <2> QED BY <2>1, <2>2, <2>5, Zenon DEF Robot, robotVars, YawIsUnwrapped
<1>10. CASE Solve
  <2>1. UNCHANGED <<robotVars, observed, publisherVars, topic, buffer>> /\ run' = run
        /\ target' = (IF fresh THEN buffer ELSE target) /\ fresh' = FALSE /\ solvedIn' = run
    BY <1>10 DEF Solve, robotVars
  <2>2. target'.of \in 0..target'.set /\ target'.set \in 0..run
    BY <2>1 DEF Managed
  <2>3. target'.set = run
    BY <2>1 DEF TargetsAreOfThisRun
  <2>4. run \in 0..run
    BY <1>0, SMT
  <2>5. Managed' /\ TargetsAreOfThisRun'
    BY <2>1, <2>2, <2>3, <2>4, Zenon DEF Managed, TargetsAreOfThisRun, SolvesForThisRun
  <2> QED BY <2>1, <2>5, Zenon DEF Messages, Robot, robotVars, publisherVars, Observed,
             YawIsUnwrapped
<1>11. CASE UNCHANGED vars
  BY <1>11, Zenon DEF vars, Messages, Robot, robotVars, publisherVars, Observed, Managed,
     managerVars, TargetsAreOfThisRun, SolvesForThisRun, YawIsUnwrapped
<1> QED BY <1>1, <1>2, <1>3, <1>4, <1>5, <1>6, <1>7, <1>8, <1>9, <1>10, <1>11
        DEF Next, Controller, Goal

LEMMA Invariance == Spec => []IInv
  BY InitIInv, NextIInv, PTL DEF Spec

-----------------------------------------------------------------------------
(* Turns and the time for them.                                            *)

LEMMA MaxOfTwo ==
  ASSUME NEW a \in Int, NEW b \in Int
  PROVE  Max({a, b}) \in Int /\ a <= Max({a, b})
<1>1. \E x \in {a, b} : \A y \in {a, b} : x >= y
  BY SMT
<1>2. Max({a, b}) \in {a, b} /\ \A y \in {a, b} : Max({a, b}) >= y
  BY <1>1 DEF Max
<1> QED BY <1>2, SMT

LEMMA GoalsAreInt == WithinOneTurn \subseteq Int
<1>1. \A a \in 0..(Sectors - 1) : a \in Int /\ Normalize(a) \in Int
  BY NormalizeAddsTurns, TargetAssumption, SMT
<1> QED BY <1>1 DEF WithinOneTurn

LEMMA GoalIsFeasible ==
  ASSUME NEW g \in Int, NEW walking \in WalkTimes, latest.yaw \in Int,
         topic' = GoalToTargetTrajectories(g, walking)
  PROVE  TurnIsFeasible'
<1> DEFINE by == g - latest.yaw
           time == Max({Magnitude(by), walking})
<1>1. by \in Int /\ Magnitude(by) \in Int /\ walking \in Int
  BY TargetAssumption, SMT DEF TargetAssumption, Magnitude
<1>2. topic'.by = by /\ topic'.time = time
  BY DEF GoalToTargetTrajectories, Trajectories, EstimateTimeToTarget
<1> HIDE DEF by
<1>3. time \in Int /\ Magnitude(by) <= time
  BY <1>1, MaxOfTwo
<1> HIDE DEF time
<1>4. 1 * time = time
  BY <1>3, SMT
<1>5. Magnitude(topic'.by) <= 1 * topic'.time
  BY <1>2, <1>3, <1>4
<1> QED BY <1>5 DEF TurnIsFeasible

LEMMA CmdVelIsFeasible ==
  ASSUME NEW rate \in Rates, latest.yaw \in Int,
         topic' = CmdVelToTargetTrajectories(rate)
  PROVE  TurnIsFeasible'
<1>1. rate \in Int /\ TimeToTarget \in Nat
  BY TargetAssumption DEF TargetAssumption
<1>2. topic'.by = (latest.yaw + rate * TimeToTarget) - latest.yaw /\ topic'.time = TimeToTarget
  BY DEF CmdVelToTargetTrajectories, Trajectories
<1>3. topic'.by = rate * TimeToTarget
  BY <1>1, <1>2, SMT
<1>4. Magnitude(rate * TimeToTarget) <= Magnitude(rate) * TimeToTarget
  <2>1. CASE rate >= 0
    <3>1. rate * TimeToTarget >= 0
      BY <1>1, <2>1, SMT
    <3> QED BY <1>1, <2>1, <3>1, SMT DEF Magnitude
  <2>2. CASE rate < 0
    <3>1. rate * TimeToTarget <= 0 /\ (-rate) * TimeToTarget = -(rate * TimeToTarget)
      BY <1>1, <2>2, SMT
    <3> QED BY <1>1, <2>2, <3>1, SMT DEF Magnitude
  <2> QED BY <1>1, <2>1, <2>2, SMT
<1>5. Magnitude(topic'.by) <= Magnitude(rate) * topic'.time
  BY <1>2, <1>3, <1>4
<1> QED BY <1>5 DEF TurnIsFeasible

\* Yaws that are under way are numbers, and the trajectories can be followed.
Feasible == observed.yaw \in Int /\ latest.yaw \in Int /\ TurnIsFeasible

LEMMA InitFeasible == Init => Feasible
  BY DEF Init, Feasible, None, TurnIsFeasible

LEMMA NextFeasible == IInv /\ Feasible /\ [Next]_vars => Feasible'
<1> SUFFICES ASSUME IInv, Feasible, [Next]_vars PROVE Feasible'
  OBVIOUS
<1>1. CASE UpdateController
  <2>1. yaw' \in Int /\ observed' = Observation(run, yaw')
    BY <1>1, RobotStep DEF UpdateController, IInv, Robot
  <2>2. observed'.yaw \in Int
    BY <2>1 DEF Observation
  <2> QED BY <1>1, <2>2, Zenon DEF UpdateController, publisherVars, Feasible, TurnIsFeasible
<1>2. CASE HandleObservation
  <2>1. observed'.yaw \in Int
    BY <1>2 DEF HandleObservation, None
  <2> QED BY <1>2, <2>1, Zenon DEF HandleObservation, Feasible, TurnIsFeasible
<1>3. CASE PublishGoal
  <2>1. publisher.goal \in Int
    BY <1>3, GoalsAreInt DEF PublishGoal, IInv, Messages
  <2>2. TurnIsFeasible'
    BY <1>3, <2>1, GoalIsFeasible DEF PublishGoal, Feasible
  <2> QED BY <1>3, <2>2, Zenon DEF PublishGoal, Feasible
<1>4. CASE HandleCmdVel
  <2>1. TurnIsFeasible'
    BY <1>4, CmdVelIsFeasible DEF HandleCmdVel, Feasible
  <2> QED BY <1>4, <2>1, Zenon DEF HandleCmdVel, publisherVars, Feasible
<1>5. CASE ReceiveTargets
  BY <1>5, Zenon DEF ReceiveTargets, publisherVars, Feasible, TurnIsFeasible
<1>6. CASE UNCHANGED <<observed, latest, topic>>
  BY <1>6, Zenon DEF Feasible, TurnIsFeasible
<1>7. Start \/ Stop \/ HandleGoal \/ GiveUpGoal \/ Solve \/ UNCHANGED vars
        => UNCHANGED <<observed, latest, topic>>
  BY Zenon DEF Start, Stop, HandleGoal, GiveUpGoal, Solve, vars, publisherVars
<1> QED BY <1>1, <1>2, <1>3, <1>4, <1>5, <1>6, <1>7 DEF Next, Controller, Goal

-----------------------------------------------------------------------------
(* Theorems.                                                               *)

\* Whatever is under way, published or solved for has its type and belongs to a
\* run that was started, with any constants.
THEOREM TypeCorrect == Spec => []TypeOK
<1>1. IInv => TypeOK
  BY Zenon DEF IInv, Robot, Messages, Managed, TypeOK
<1> QED BY <1>1, Invariance, PTL

\* After a start the solver never uses targets that were set before it, however
\* often the controller is stopped and started and whatever arrives late.
THEOREM SolvesOwnRun == Spec => []SolvesForThisRun
<1>1. IInv => SolvesForThisRun
  BY DEF IInv, TargetsAreOfThisRun
<1> QED BY <1>1, Invariance, PTL

\* Within a run the observed yaw turns as far as the robot does, over any number
\* of full turns, as long as it turns less than half a turn between two updates.
THEOREM YawFollows == Spec => YawFollowsRobot
<1>1. IInv /\ [Next]_vars => [run' = run => yaw' - yaw = turn' - turn]_<<yaw, turn>>
  <2> SUFFICES ASSUME IInv, [Next]_vars, run' = run
               PROVE  yaw' - yaw = turn' - turn \/ UNCHANGED <<yaw, turn>>
    OBVIOUS
  <2>1. run \in Int /\ yaw \in Int /\ turn \in Int
    BY Constants, SMT DEF IInv, Robot
  <2>2. CASE Start
    <3>1. run' = run + 1
      BY <2>2 DEF Start
    <3> QED BY <2>1, <3>1, SMT
  <2>3. CASE UpdateController
    <3>1. Turned(yaw, turn) /\ yaw' = Unwrapped(yaw, turn')
      BY <2>3 DEF UpdateController, IInv, YawIsUnwrapped, Unwrap, Unwrapped
    <3>2. PICK d \in Turns : turn' = turn + d
      BY <2>3 DEF UpdateController, RobotTurns
    <3>3. Unwrapped(yaw, turn + d) = yaw + d
      BY <2>1, <3>1, TargetAssumption, UnwrappedTurns
    <3>4. d \in Int
      BY TargetAssumption, SMT DEF TargetAssumption
    <3> QED BY <2>1, <3>1, <3>2, <3>3, <3>4, SMT
  <2>4. CASE Stop
    BY <2>4 DEF Stop
  <2>5. CASE HandleObservation \/ Goal \/ HandleCmdVel \/ ReceiveTargets \/ Solve
    BY <2>5, Zenon DEF HandleObservation, Goal, HandleGoal, PublishGoal, GiveUpGoal, HandleCmdVel,
       ReceiveTargets, Solve, robotVars
  <2>6. CASE UNCHANGED vars
    BY <2>6 DEF vars, robotVars
  <2> QED BY <2>2, <2>3, <2>4, <2>5, <2>6 DEF Next, Controller
<1> QED BY <1>1, Invariance, PTL DEF Spec, YawFollowsRobot

\* However many turns were made, no published trajectory asks for a turn in less
\* time than the target rotation velocity or the command needs for it.
THEOREM TurnsAreFeasible == Spec => []TurnIsFeasible
<1>1. Feasible => TurnIsFeasible
  BY DEF Feasible
<1> QED BY <1>1, InitFeasible, NextFeasible, Invariance, PTL DEF Spec

-----------------------------------------------------------------------------
(* The stages of a run's own targets.                                      *)

\* No observation overtakes a later one, and what is not new in the buffer is
\* what the solver pursues.
ObservationsInOrder == observed = None \/ latest.run <= observed.run
TargetIsBuffer      == fresh \/ target = buffer

Stages == ObservationsInOrder /\ TargetIsBuffer

LEMMA InitStages == Init => Stages
  BY DEF Init, Stages, ObservationsInOrder, TargetIsBuffer

\* Every message's run, None's included, is a number, of this run or earlier.
LEMMA RunsAreNumbers ==
  ASSUME IInv
  PROVE  /\ run \in Nat
         /\ observed.run \in 0..run /\ latest.run \in 0..run /\ topic.run \in 0..run
         /\ run # 0 => (topic = None <=> topic.run = 0) /\ (observed = None <=> observed.run = 0)
<1>1. run \in Nat /\ None.run = 0
  BY Constants, SMT DEF IInv, Robot, None
<1> QED BY <1>1, SMT DEF IInv, Messages

LEMMA NextStages == IInv /\ Stages /\ [Next]_vars => Stages'
<1> SUFFICES ASSUME IInv, Stages, [Next]_vars PROVE Stages'
  OBVIOUS
<1> USE DEF Stages, ObservationsInOrder, TargetIsBuffer
<1>1. CASE Start
  BY <1>1, Zenon DEF Start, publisherVars
<1>2. CASE UpdateController
  <2>1. observed'.run = run /\ UNCHANGED <<latest, fresh, target, buffer>>
    BY <1>2 DEF UpdateController, Observation, publisherVars, managerVars
  <2>2. latest.run <= run
    BY RunsAreNumbers, SMT
  <2> QED BY <2>1, <2>2, Zenon
<1>3. CASE HandleObservation
  BY <1>3, Zenon DEF HandleObservation, managerVars
<1>4. CASE ReceiveTargets
  BY <1>4, Zenon DEF ReceiveTargets, publisherVars
<1>5. CASE Solve
  BY <1>5, Zenon DEF Solve, publisherVars
<1>6. CASE Stop \/ Goal \/ HandleCmdVel \/ UNCHANGED vars
  <2>1. UNCHANGED <<observed, latest, managerVars>>
    BY <1>6, Zenon DEF Stop, Goal, HandleGoal, PublishGoal, GiveUpGoal, HandleCmdVel, vars,
       publisherVars
  <2> QED BY <2>1, Zenon DEF managerVars
<1> QED BY <1>1, <1>2, <1>3, <1>4, <1>5, <1>6, Zenon DEF Next, Controller

\* Within a run no step loses a stage.
LEMMA StagesStay ==
  ASSUME IInv, Stages, Next, run' = run
  PROVE  /\ Sent => Sent'
         /\ Known => Known'
         /\ Asked => Asked'
         /\ Buffered => Buffered'
         /\ Pursued => Pursued'
<1> USE DEF Sent, Known, Asked, Buffered, Pursued
<1>0. /\ run \in Nat
      /\ observed.run \in 0..run /\ latest.run \in 0..run /\ topic.run \in 0..run
      /\ None.run = 0
  BY RunsAreNumbers DEF None
<1>1. CASE Start
  BY <1>0, <1>1, SMT DEF Start
<1>2. CASE UpdateController
  <2>1. observed'.run = run /\ UNCHANGED <<latest, topic, target, buffer>>
    BY <1>2 DEF UpdateController, Observation, publisherVars, managerVars
  <2> QED BY <2>1
<1>3. CASE HandleObservation
  <2>1. latest' = observed /\ latest.run <= observed.run /\ UNCHANGED <<topic, target, buffer>>
    BY <1>3 DEF HandleObservation, Stages, ObservationsInOrder, managerVars
  <2>2. run \in {latest.run, observed.run} => latest'.run = run
    BY <1>0, <2>1, SMT
  <2> QED BY <2>1, <2>2
<1>4. CASE PublishGoal \/ HandleCmdVel
  <2>1. UNCHANGED <<observed, latest, target, buffer>>
    BY <1>4 DEF PublishGoal, HandleCmdVel, publisherVars, managerVars
  <2>2. topic'.run = latest.run
    BY <1>4 DEF PublishGoal, HandleCmdVel, GoalToTargetTrajectories, CmdVelToTargetTrajectories,
       Trajectories
  <2> QED BY <2>1, <2>2
<1>5. CASE ReceiveTargets
  <2>1. /\ UNCHANGED <<observed, latest, target>> /\ topic # None
        /\ topic'.run = 0 /\ buffer'.of = topic.run
    BY <1>0, <1>5 DEF ReceiveTargets, publisherVars, Target
  <2>2. Asked => topic.run = run
    BY <2>1, RunsAreNumbers, SMT
  <2> QED BY <2>1, <2>2
<1>6. CASE Solve
  <2>1. UNCHANGED <<observed, latest, topic, buffer>> /\ target' \in {buffer, target}
    BY <1>6 DEF Solve, publisherVars
  <2> QED BY <2>1
<1>7. CASE Stop \/ HandleGoal \/ GiveUpGoal
  <2>1. UNCHANGED <<observed, latest, topic, target, buffer>>
    BY <1>7 DEF Stop, HandleGoal, GiveUpGoal, publisherVars, managerVars
  <2> QED BY <2>1
<1> QED BY <1>1, <1>2, <1>3, <1>4, <1>5, <1>6, <1>7 DEF Next, Controller, Goal

\* Within a run each stage is followed by the next.
LEMMA StagesAdvance ==
  ASSUME IInv, Stages, run' = run
  PROVE  /\ UpdateController => Sent'
         /\ Sent /\ HandleObservation => Known'
         /\ Known /\ (HandleCmdVel \/ PublishGoal) => Asked'
         /\ Asked /\ ReceiveTargets => Buffered'
         /\ Buffered /\ Solve => Pursued'
<1> USE DEF Sent, Known, Asked, Buffered, Pursued
<1>0. /\ run \in Nat
      /\ observed.run \in 0..run /\ latest.run \in 0..run /\ topic.run \in 0..run
      /\ None.run = 0
  BY RunsAreNumbers DEF None
<1>1. UpdateController => Sent'
  BY DEF UpdateController, Observation
<1>2. ASSUME Sent, HandleObservation PROVE Known'
  <2>1. latest' = observed /\ latest.run <= observed.run
    BY <1>2 DEF HandleObservation, Stages, ObservationsInOrder
  <2> QED BY <1>0, <1>2, <2>1, SMT
<1>3. ASSUME Known, HandleCmdVel \/ PublishGoal PROVE Asked'
  <2>1. UNCHANGED latest
    BY <1>3 DEF PublishGoal, HandleCmdVel, publisherVars
  <2>2. topic'.run = latest.run
    BY <1>3 DEF PublishGoal, HandleCmdVel, GoalToTargetTrajectories, CmdVelToTargetTrajectories,
       Trajectories
  <2> QED BY <1>3, <2>1, <2>2
<1>4. ASSUME Asked, ReceiveTargets PROVE Buffered'
  <2>1. UNCHANGED latest /\ topic # None /\ topic'.run = 0 /\ buffer'.of = topic.run
    BY <1>0, <1>4 DEF ReceiveTargets, publisherVars, Target
  <2>2. topic.run = run
    BY <1>4, <2>1, RunsAreNumbers, SMT
  <2> QED BY <1>4, <2>1, <2>2
<1>5. ASSUME Buffered, Solve PROVE Pursued'
  <2>1. UNCHANGED <<latest, topic, buffer>> /\ target' = buffer
    BY <1>5 DEF Solve, publisherVars, Stages, TargetIsBuffer
  <2> QED BY <1>5, <2>1
<1> QED BY <1>1, <1>2, <1>3, <1>4, <1>5

\* A run's own observations make their way to the solver stage by stage, and what
\* earlier runs left behind takes none of them back.
THEOREM OwnTargetsComeThrough == Spec => OwnTargetsAdvance
<1>1. IInv /\ Stages /\ [Next]_vars => Stages'
  BY NextStages
<1>2. IInv /\ Stages /\ [Next]_vars =>
        [run' = run =>
           /\ Sent => Sent'
           /\ Known => Known'
           /\ Asked => Asked'
           /\ Buffered => Buffered'
           /\ Pursued => Pursued'
           /\ UpdateController => Sent'
           /\ Sent /\ HandleObservation => Known'
           /\ Known /\ (HandleCmdVel \/ PublishGoal) => Asked'
           /\ Asked /\ ReceiveTargets => Buffered'
           /\ Buffered /\ Solve => Pursued']_vars
  BY StagesStay, StagesAdvance
<1> QED BY <1>1, <1>2, InitStages, Invariance, PTL DEF Spec, OwnTargetsAdvance
=============================================================================
