# legged_control in TLA+

This directory models legged_control: a ROS package set that walks a quadruped
with nonlinear model predictive control (NMPC) and whole body control (WBC). The
models follow the C++ sources under `src/`. Numbers (dynamics, optimization,
filters) are abstracted. What is modelled is who does what, when and in which
order: two threads that share a solver, a hardware loop with services and a
shutdown, a delay line in the simulator, a schedule of contacts that is cut and
extended at every solve, a stack of quadratic programs, the hand-over of odometry
from a subscriber to the state estimate, the way of a command from a node of its
own to the solver, and a service that signals other nodes' processes.

`PROJECT.json` lists components, runs, mutants, the map from definitions to
source lines, findings, hazards and theorems.

## 1. Inventory

### 1.1 LeggedController (`legged_controllers`)

*State.* `ControllerBase::state_` (a plain int), `controllerRunning_`,
`mpcRunning_` (atomics), `currentObservation_`, the joint handles, the MPC object
and `mpcMrtInterface_` with its own observation, policy buffer, active policy and
a received-ever flag.

*Operations.* `init`, `starting`, `update`, `stopping`, the destructor and the
body of the MPC thread, with its exception handler.

*Interactions.* The hardware loop's thread calls the first four through the
controller manager. The MPC thread calls `advanceMpc()` while `mpcRunning_`; so
does `starting()`, on the loop's thread, until a policy was ever received. Both
threads may call `stopRequest()`.

*Hard.* Nothing locks the solver. Failure of the solver is an exception on either
thread, with different consequences. `updatePolicy()` only tries the buffer's
lock. The destructor joins the MPC thread.

*Correct when* the solver is never entered twice, a running controller has a
policy, policies do not go back in time, stop makes the solver rest, and start
and destruction end.

### 1.2 LeggedHWLoop and the process (`legged_hw`, `legged_unitree_hw`)

*State.* `loopRunning_`, the loop's thread, the controller manager's pending
switch, the joint commands, what the motors were sent last.

*Operations.* `read`, `ControllerManager::update` (update, then a switch: stop,
then start), `write`; the services `switch_controller` and `unload_controller`;
`main` after `waitForShutdown()`: destroy the loop (join), then the controllers.

*Hard.* Services run on three spinner threads at any point of the cycle. The loop
may be inside `starting()` when the process is asked to end. `write()` sends
whatever the handles hold.

*Correct when* motors are driven only in a cycle in which the controller was
enabled at its turn, every other cycle sends pure damping, a stop is served, no
controller is destroyed under a call, and shutdown ends the process.

### 1.3 LeggedHWSim (`legged_gazebo`)

*State.* For each joint a deque of stamped commands; Gazebo's time, the plugin's
time of the last write.

*Operations.* `readSim`, `writeSim` (clear on a restart, drain the expired, push,
apply the back), the plugin's update and reset.

*Hard.* The boundary of the delay; a restart is guessed from the times; the deque
grows at every physics step.

*Correct when* the joint gets the oldest command within the delay, never one from
before a reset, and the deque is bounded.

### 1.4 Gait, reference manager and swing planner (`legged_interface`)

*State.* OCS2's `GaitSchedule` (events, modes, template), the gait received last,
the mode schedule of the solve, `feetHeightTrajectories_`.

*Operations.* A gait command (subscriber thread), and before every solve:
`modifyReferences()` = `getModeSchedule()` around the horizon, then
`SwingTrajectoryPlanner::update()`; then the synchronized `GaitReceiver` inserts a
received gait behind the horizon.

*Hard.* Commands and solves interleave. The past is dropped while feet are in the
air. A swing without lift-off or touch-down throws and ends the MPC thread.

*Correct when* no swing lacks an end, swings span exactly the time in the air, the
horizon already planned stays as it was, and a gait asked for is walked.

### 1.5 WBC and HoQp (`legged_wbc`)

*State.* Per level: its task, stacked tasks, stacked slacks, stacked null space.
`WbcBase` keeps `contactFlag_`, `numContacts_` and `inputLast_`.

*Operations.* `HoQp(task, higherProblem)`, the eight `formulate...` functions,
`HierarchicalWbc::update`, `WeightedWbc::update`.

*Hard.* Rows, slacks and null spaces are stacked in separate functions. Contact
flags are read in four loops.

*Correct when* low priorities do not disturb high ones, every inequality keeps its
own slack, and every foot is treated exactly once in every contact state.

### 1.6 State estimation (`legged_estimation`)

*State.* `KalmanFilterEstimate` keeps the filter's `xHat_`, a `RealtimeBuffer` of
odometry, `topicUpdated_` (a plain bool), the alignment `world2odom_`.

*Operations.* `update()` on the control thread (filter, `updateFromTopic()` when
the flag is set, publish), `callback()` on a subscriber's thread.

*Hard.* The buffer's reader only tries the lock and may hand out the message
before; the flag is set and reset without one; either of two transforms may be
missing; "no alignment yet" is an identity rotation.

*Correct when* the estimate is put only on real messages, in their order, in one
frame, and a stream of messages keeps being used.

### 1.7 Target trajectories (`legged_controllers`)

*State.* `latestObservation_` of the publisher node, its queues of length one, the
reference manager's buffer and active targets, the controller's unwrapped yaw.

*Operations.* `observationCallback`, `goalCallback` (which waits up to 0.2 s for a
transform), `cmdVelCallback`, all on one thread; the controller's `starting`,
`update` and `stopping`; the manager's subscriber and `preSolverRun`.

*Hard.* A start unwraps the yaw from 0 again while observations and commands of the
earlier run are on their way. A goal's yaw lies within one turn, the observation's
does not. The goal callback blocks the thread that receives observations.

*Correct when* the yaw follows the robot over any number of turns, no command asks
to turn faster than it may, a run starts with targets of its own, and those of an
earlier run do not stay.

### 1.8 Kill service (`kill_node_sigint_service.py`)

*State.* None of its own but what a call's handler has found so far.

*Operations.* `handle_kill_request`: the parameter, `lookup_node_uri`,
`get_pid_via_xmlrpc`, `rosnode info` where these fail, the checks, `os.kill`.

*Hard.* Registration, lookup and signal are apart; nodes end, crash and restart, ports
and process ids are used again; the name of the one that answers is not checked; calls
are served at the same time.

*Correct when* a signal strays from the process that is registered only to one that
took over the port of the registered process or the id of the one that answered.

### 1.9 Optimal control problem (`legged_interface`)

*State.* `LeggedRobotPreComputation::eeNormalVelConConfigs_`, per clone.

*Operations.* `request`, `clone`, the terms' `isActive`, `getValue` and
`getLinearApproximation`, the input the cost pulls towards.

*Hard.* A configuration stays until the next request that asks for constraints, a
clone's is empty. Active terms are decided in five classes. The friction cone's
derivatives are written by hand.

*Correct when* at every time each foot has the terms of its contact, configured for
that time; and the cone's approximations are approximations of the cone.

### 1.10 Unitree hardware (`legged_unitree_hw`)

*State.* `jointData_`, `contactState_`, `lowState_`, `lowCmd_`.

*Operations.* `setupJoints`, `setupContactSensor`, `read`, `write`.

*Hard.* The SDK, the foot sensors, the model's joints and the contact flags list the
legs in four orders.

*Correct when* every joint's loop closes over its own motor.

### 1.11 Other parts

| Part | State and operations | Here |
|---|---|---|
| `StateEstimateBase`, `FromTopicEstimate` | `lastPub_`; `publishMsgs`, the estimate of a simulator's topic | left out: for other tools, nothing reads it back |
| `UnitreeHW` beyond joints and feet | UDP, IMU, joystick, power protection | left out: I/O and the SDK |
| `LeggedInterface` settings, visualization, robot descriptions, configuration, SDK headers, qpOASES wrapper | built once, or data | left out |

## 2. Modules

| Module | Models | State |
|---|---|---|
| `MpcMrt` | OCS2's `MPC_MRT_Interface`, as the controller uses it (external) | observation, each caller's copy, buffer, new-policy and received-ever flags, active policy |
| `LeggedController` | the controller and its MPC thread, with an open caller | two program counters `rt` and `mpc`, the flags, the joint command, the life of the object |
| `ControlLoop` | loop thread, controller manager, services, `main` around one controller | `loop`, `loopRunning`, `request`, `main`, `sent` |
| `Actuation` | abstract: what the loop owes the motors | `enabled`, `latched`, `out` |
| `SimCommandBuffer` | `LeggedHWSim`'s deque of one joint | times, phase, deque, applied command, and as history everything written since the restart |
| `GaitSchedule` | OCS2's mode schedule operators (external) | none |
| `SwingTrajectoryPlanner` | the planner as functions of a schedule | none |
| `SwitchedModelReferenceManager` | preparation of a solve, gait commands | schedule, template, received gait, mode schedule, feet |
| `Task`, `HoQp`, `WbcTasks`, `HierarchicalWbc` | rows of tasks, the hierarchy of problems, the tasks of each contact state, the hierarchies made of them | `HoQp`: level, stacked tasks, slacks, null space |
| `KalmanFilterEstimate` | odometry from the subscriber to the filter | buffer, flag, two program counters, message in use, alignment, last correction |
| `OptimalControlProblem` | the terms of a foot, the precomputation, over the manager's schedule and swings | that of `SwitchedModelReferenceManager` |
| `FrictionCone` | the cone's value and derivatives, the WBC's pyramid, for theorems | none |
| `UnitreeHW` | the orders of legs, from motor to controller and back, as functions | none |
| `TargetTrajectories` | publisher, reference manager, and the controller as they see it | heading and yaw, run, publisher's observation, message in each queue, buffer and target |
| `KillNode` | the handler of every call, nodes and master around it | processes, registrations, what a handler knows, who was hit |
| `MC...` | instances for TLC where plain constants do not do | |
| `..._proof` | theorems and proofs about the module they extend | |

**Controller.** A policy is the time stamp of the observation it was computed
from; an observation is its stamp. An action is a step between two accesses to
what the threads share: `starting()` is `StartObserve`, `AwaitPolicy`,
`RtCopyObservation`, `RtSolve`, `RtStorePolicy`, `RunMpc`, `EnableController`;
`update()` is `UpdateObserve`, `LoadPolicy`, `EvaluatePolicy`, then possibly
`SafetyStop`, then `Command`. The solver returns with a policy, without one, or
throws: on the MPC thread the handler runs (`MpcFail`, `MpcStopping`,
`MpcDisable`), on the loop's thread nothing catches it and the process aborts. A
null policy evaluated aborts too. `UpdatePolicy(contended)` does nothing while the
other thread stores, which is what a failed try-lock does. In `LeggedController`
any request may come while the `rt` thread is outside; `ControlLoop` restricts
that and is shown to implement it.

**Loop.** One controller plugin is loaded when the process starts. `request` is
the switch that the controller manager has still to carry out. A controller is
unloaded only when it does not run and the loop's thread is not using the list.
`UnitreeHW::read` leaves position targets and position gains alone and sets the
rest to damping.

**Simulator.** All joints do the same at the same time, so one is modelled.

**Gait and swing.** A mode is the set of legs in contact. Times are counted from
the initial time of the last solve, so an endless walk has finitely many states;
the code adds the same offset to every time. Phases count from 1: an index -1 of
the code is 0. When a plan throws, the MPC thread is at its end
(`LeggedController`'s `MpcFail`), so nothing follows `~planned`.

**WBC.** A matrix is followed by its rows, a slack by the row it relaxes, a null
space by the levels whose equalities it leaves alone. A solution moves inside the
null space handed down, so it may undo any level that is not in it.

**Estimation.** A message is its number and 0 the empty message that the buffer
holds before the first. An alignment is the message it was computed from and
whether it has a rotation. The buffer's mutex is held in `callback = "write"`;
then `readFromRT()` takes nothing over. Transforms may be missing at any time, and
always are for the empty message, which names no frame.

**Targets.** Headings are counted in sectors of a turn; `turn` is the robot's, over
all its turns, of which the imu tells the part within one. An observation is its run
and yaw. Of trajectories there is how far they turn, how long they take and the run
of the observation they start from. Any message of length-one queues is replaced by
the next one. Positions come in only as the time it takes to cover them. A solve may
come after a stop, as the MPC thread may still be inside.

**Kill service.** A process is its number in the order of birth; it has a host, a port
and a process id, free again when it ends. A node's URI is the host and port of the
process that registered it, and is written as that process. Each step of a handler up
to the next answer from outside is an action; the answer may always be a failure, and
is given by whoever has the port then (`Listening`), under whatever name, as
`getPid()` tells no name. `rosnode info` asks the master and the node in two steps.
`os.kill` hits whoever has the process id on this host at that moment. `hits` is
history, forgotten when the next call is accepted.

**Optimal control problem.** A configuration is its rows and the swing it was computed
from. `FootTermsFit` composes the terms with the planner in every state of the gait
run, at every time of the horizon and after every earlier request.

**Friction cone.** Integers stand for the numbers: a coefficient is a quotient, the
derivatives are multiplied by the norm or its cube, and the norm itself is an
argument whose square is the code's. The gripper force is 0, as `LeggedInterface`
leaves it, and the terrain frame is the world's, as its setter throws.

## 3. Runs

| Run | Module | Bounds | Shows |
|---|---|---|---|
| `controller` | `LeggedController` | `MaxTime = 2` | the two threads: mutual exclusion, a policy for every running controller, rest after a stop, policies in order, the first start waits, destructor and start end |
| `control_loop` | `ControlLoop` | `MaxTime = 2` | the process implements the open caller of `LeggedController` and the contract of `Actuation`; stops are served; shutdown completes |
| `start_has_fresh_policy` | `ControlLoop` | `MaxTime = 3` | finding 1 |
| `running_has_mpc_thread` | `ControlLoop` | `MaxTime = 3` | finding 2 |
| `sim_command_buffer` | `SimCommandBuffer` | `Delay = 3`, `MaxStep = 2`, `MaxTime = 8` | the delay is exact, across resets; the deque is bounded |
| `gait_and_swing` | `MCSwitchedModelReferenceManager` | two legs (pairs), three gaits, horizon 3, steps of 1 or 2, transition 1 | swings are defined and span the air, horizon and swings survive, gaits are walked |
| `hierarchical_wbc` | `MCHierarchicalWbc` | four feet in all 16 contact states; every hierarchy of 2 or 3 levels of up to two equalities and two inequalities, with at most one constrained level above the last | priorities, slacks, treatment of the feet |
| `slack_follows_rows` | `MCHierarchicalWbc` | two such levels | finding 3 |
| `topic_fusion` | `KalmanFilterEstimate` | four messages, alignments with a rotation | corrections come from messages, in order, in one frame; a stream is served unless every read meets a write |
| `alignment_is_fixed` | `KalmanFilterEstimate` | alignments with and without a rotation | finding 4 |
| `target_trajectories` | `MCTargetTrajectories` | turns of three sectors, headings -1..3, two runs, one rate, goals near and two units away | the yaw is unwrapped, commands can be followed, runs start with their own targets, which come through stage by stage, and old ones die out |
| `kill_node` | `MCKillNode` | two names, two ports and two process ids per host, three processes, two calls, the parameter true, false and unset; names, calls, ports and ids are symmetric | whom a signal can reach instead of the node asked for |

`gait_and_swing` also checks `FootTermsFit` (each foot's terms, configured for the
time at hand) and `hierarchical_wbc` also `TorquesReachTheirMotors` (the orders of
legs, from the motors to the solved torques and back).

Bounds, and why they are enough:

- `MaxTime` caps the observation's time, which then stays. Three stamps are enough
  for a policy, an older one and none at once, since there is one buffer and one
  active policy. The proofs hold for every bound.
- The delay line's `MaxTime` exceeds `2 * Delay`, so entries expire in steps of
  both lengths; resets start over at any point.
- Trotting feet act in two groups, so two legs tell all pairings apart. The
  flying trot has swings over three phases, so lift-off, middle and touch-down of
  a swing lie in different phases. The horizon spans one to three phases, and
  `since` saturates when everything a command causes must have happened.
- Four messages: one in use, one in each half of the buffer, one still to come.
- Three sectors are the fewest in which left and right differ; headings -1..3 span a
  full turn, so a heading comes back with another yaw. Two runs make an earlier and
  a later one. Three processes are one registered, one that answers in its place and one
  that is hit in that one's; with two ports and two ids a new process may take over
  either, both or none, beside another one that lives.
- Two rows make an order and three levels are the controller's number.

Deadlock is not checked for the controller and the loop, which really stop after
an abort or an exit. Everywhere else it is.

*Fairness.* Weak fairness of the loop's thread, the MPC thread, the destructor's
join and `main`: the operating system schedules threads, and a call of the solver
returns or throws. No service call, no signal and no successful solve is ever
assumed. Hence `ShutdownCompletes` holds, but "a start ends" only with ROS down
(`StartEndsOnShutdown`): a solver that never gives a policy keeps the loop in
`starting()`. `StopIsServed` needs no more than the loop's own progress. In `KalmanFilterEstimate` the
control thread is fair while the controller runs and a subscriber finishes the
callback it began. `StreamIsServed` has messages that keep coming as its premise, and
one way out: nothing in the code keeps the loop from meeting the subscriber in
`callback = "write"` at every single read, and such a read takes nothing over. Without
that way out TLC finds just this cycle. In `TargetTrajectories` a running controller is updated and its solver solves, the
subscribers' threads run, a wait for a transform ends; the publisher's callbacks are
served in the order they came, so an observation is not passed over for ever
(strong fairness, as waits disable it again and again). `StaleTargetsDieOut` has a
controller that keeps running and velocities that keep coming as its premises.
`KillNode` has none: an XML-RPC call has no timeout and a node may never answer. The
gait model has no fairness: `GaitIsWalked` bounds the response in ticks instead.

Every property of a passing run has a mutant: a variant of one modelled definition,
next to it in the module and marked as such, under which the run fails.

## 4. Findings

1. **A restart does not wait for the optimizer.** `starting()` loops on
   `initialPolicyReceived()`, which stays true for good. The second start returns
   at once and the first updates may use a plan of the run before. The comment at
   `LeggedController.cpp:89` says it waits for the optimization to finish. Merely
   clearing the flag would be worse: the MPC thread may still be inside its
   last `advanceMpc()` (that variant is the mutant of `OneAdvanceAtATime`, whose
   proof rests on a start solving only before the first policy ever).
2. **A controller can run without an MPC thread.** After an exception the handler
   asks for a stop once. A start in progress overwrites it, and a later start does
   not look at `controllerRunning_`.
3. **Slacks and rows are stacked in opposite orders** in `HoQp`. With
   inequalities at two levels above a third, the third relaxes rows by slacks of
   others. `HierarchicalWbc` has inequalities only at its first level, for which
   `RelaxedByOwnSlack` holds.
4. **An alignment without a rotation is not recognised.** `updateFromTopic()` takes
   an identity rotation for "first received". Where the camera's world is not
   turned against the odometry frame, every message aligns the frames anew with the
   odom transform of the moment, and corrections are no longer made in one frame.

Findings 1 and 2 each have a theorem that bounds them: the *first* start does wait
(`FirstStartWaits`), and nothing but an exception of the solver leaves a running
controller without a thread (`OnlyExceptionsEndTheThread`).

Noted while modelling, without a run of their own:

- `update()` ignores what `updatePolicy()` returns (`LeggedController.cpp:110`), which
  loads nothing while the MPC thread stores a policy. On the first update after the
  first start none was loaded before, and `evaluatePolicy()` dereferences nothing: in
  `ControlLoop` with `MaxTime = 2`, TLC finds `UpdateEvaluatesPolicy` violated.
  The window is one store, in the first cycle only, and that `updatePolicy()` tries the
  lock rather than waits for it is OCS2's code. `UncontendedUpdatesHavePolicy` proves
  that there is no other way to it.
- A target computed before a stop may arrive after the next start and replace the
  pose to hold. It then stays until another command comes; hence the premise of
  `StaleTargetsDieOut`. Its yaw was unwrapped by the earlier run.
- A goal after full turns asks to undo them, since its yaw lies within one turn. The
  time it is given accounts for that (`TurnIsFeasible`).
- The kill script says that killing is disabled by default (lines 12 and 243); its
  `main` takes `allow_kill` as false where it is unset (line 241), the handler as
  true (line 169). The model follows the handler.
- A fallback may find a process id without a URI or the reverse; both are refused.
- The kill script asks whoever listens at the registered host and port for a process
  id (`get_pid_via_xmlrpc`, lines 57-82) and compares no name. A crashed node stays
  registered, so a process that has its port since answers, and gets the signal.
  `OnlySuccessorsAreHit` counts this among the two ways a signal may stray.
- When `update()` asks for a stop, it still writes the plan of that cycle
  (`LeggedController.cpp:132`). `ContractSpec` allows this, as the controller was enabled
  at its turn; the repository promises nothing else.

## 5. Proofs

TLAPS proves, for every value of the constants:

- `LeggedController_proof`: `Inductive`, and from it `TypeCorrect`,
  `MutualExclusion`, `PolicyAvailable`, `SolverRests`, `PolicyMonotone`; the
  counterparts of the findings, `FirstStartWaits`, `OnlyExceptionsEndTheThread` and
  `UncontendedUpdatesHavePolicy`; and `CallsReturn` and `JoinedThreadEnds`.
- `ControlLoop_proof`: `LoopInductive`, `LoopTypeCorrect`; `LoopImplementsController`
  (so the controller's theorems hold in the process, e.g. `LoopMutualExclusion`);
  `LoopKeepsContract`, the refinement of `Actuation`; `LoopEnds`, `StopsComeNearer`
  and, from `LeggedController`, `LoopJoinsAnEndingThread`.
- `SimCommandBuffer_proof`: `SimInductive`, `TypeCorrect`, `DelayIsExact`,
  `DequeIsBounded`.
- `HoQp_proof`: `HoQpInductive`, `HoQpTypeCorrect`, `PrioritiesHold` and
  `RowsAccumulate` for every set of hierarchies, `SlacksAreOwn` for those with at most
  one constrained level above the last, and `WbcHierarchiesFit`: the hierarchy of every
  contact state is such a one. For any number of feet and any contacts,
  `FeetAreTreated` and `SameProblemAsWeighted`. `TorquesReach`: the four orders of
  legs undo each other.
- `KalmanFilterEstimate_proof`: `EstimateInductive`, `MessageIsStable`,
  `RealMessagesOnly`, `CorrectionsInOrder`, `UncontendedReadIsNewest` for any number of
  messages, and `TurnedAlignmentIsFixed` where every alignment has a rotation.
- `TargetTrajectories_proof`: `TypeCorrect`, `SolvesOwnRun`, `TurnsAreFeasible`,
  `OwnTargetsComeThrough`, and `YawFollows`, for every number of sectors and runs as long as the robot turns less
  than half a turn between updates.
- `KillNode_proof`: `TypeCorrect` and `OnlySuccessorsGetHit`, for any nodes, ports,
  process ids and calls.
- `OptimalControlProblem_proof`: for any legs, gaits, horizon, steps and transition,
  `ManagerInductive`, and from it `ManagerTypeCorrect`, `NoSwingIsUndefined`,
  `SwingsSpanTheAir`, `HorizonStaysPlanned`, `SwingStaysPlanned`, `GaitGetsWalked` and
  `TermsFitThePlan`. `GaitGetsWalked` has the premise `FirstEvent <= Settled`: the
  initial schedule's only event comes at 0.5 s (`reference.info:31` of every robot),
  `Settled` is more than the horizon of 1 s (`task.info:134`).
  Also `LinearizationBoundsCone`, `ConeIsConcave`, `ConeInPyramid`, for all integer
  forces and coefficients; `ConeAssumption` is what the code asserts. With one
  coefficient for both, as in the task files of all robots, what the planner admits
  the whole body controller admits too.

Assumptions: the named `ASSUME`s of the modules (bounds are naturals; the robot's
turns between updates are short; gaits are templates with rising switching times;
the feet are a sequence), which TLC evaluates in the runs.

*Why the invariants are what they are.*

- Mutual exclusion: `policyReceived` is set before the first `mpcRunning_` and
  never cleared, so whenever the MPC thread is inside the solver the start loop of
  a later start is passed over. The invariant says that `mpcRunning`, or an MPC
  thread inside, implies a received policy or that ROS is down, and that the `rt`
  thread enters the solver only without one.
- Availability: a received policy is in the buffer or active, and a swap leaves it
  active.
- Order: every stamp around (copies, buffer, active, observation) is bounded by the
  next one in line.
- Ends: what can still be asked of a thread is a number of its program counter, and
  every step lowers it. `MpcSteps` is at most 7, since a cleared `controllerRunning_`
  leaves no way round its loop. `LoopSteps` adds to the steps of the call
  (`CallSteps`) those of a pending switch and of the cycle; with `loopRunning_`
  cleared the cycle is not begun again, and no service asks for a switch any more.
  For a stop `StopSteps` leads from the cycle under way over the loop's top to the
  next switch. Both need that a switch stops before it starts (`SwitchesInOrder`) and
  that a call returns before the loop goes on (`CallsMatch`).
- First start: the policy received is the one of the start's own `advanceMpc()`, for
  the MPC thread waits for `mpcRunning_`.
- Contract: a command that is not damping is in the handles only between the
  controller's turn and the write of that cycle, since `read()` resets it.
- Delay line: the deque holds, by descending stamps, exactly those writes since the
  restart that a drain has not removed, except between a reset and the next write,
  when it is old and about to be cleared.

- Hierarchy: the null space at a level contains every level so far that has
  equalities, so a later solution moves inside all of them. The stacked slacks and
  the stacked inequality rows agree, row by row, as long as no two levels have
  inequalities: one is then the other with empty sequences around it. The stacks hold
  the rows of all levels so far and no other. Feet: the row counter of the loops over
  the contact flags is an injection of the chosen feet into as many rows, so it is
  onto, and a task has a block for each chosen foot and no more.
- Schedules: every schedule is *framed*, which is to say that its events rise and that
  it begins and ends on all feet. Dropping the past, cutting at an insertion and tiling
  gaits keep that: `getModeSchedule()` overwrites what is left first and last by
  stance. Hence a foot that is up has a contact before and one after in the same
  schedule, which is all `findIndex()` looks for.
- Plans: up to the horizon, the schedule kept by `GaitSchedule` and the one of the
  last solve agree, for a gait received meanwhile is inserted behind it (`PlanIsKept`),
  and after the first solve both reach beyond it (`PlanReaches`). A solve only drops
  what is more than a horizon old, so what was planned is planned again, on
  the new clock. A swing's ends are then fixed by the modes around it, as a foot's
  contacts before and after a time up are unique (`SwingIsUnique`).
- Gaits: `GaitApproaches` says from when on the schedule holds the gait asked for:
  `Settled - since`, which every solve brings nearer by what has passed.

- Estimation: nothing overtakes on the way from the newest message over the two
  halves of the buffer to the last correction; where a read gives up, it stays with
  what was read last. An alignment that was kept came from a real message. Except in
  the middle of a write, the half of the buffer that the next read gets holds the
  newest message.

- Targets: a start puts targets of its own in the buffer, and nothing but a set of
  the same run follows them; until the first solve they are new. Yaw and heading
  differ by full turns: two numbers that do and both lie within half a turn are
  equal, so the step of the yaw is the robot's. Observations do not overtake each
  other, and what is not new in the buffer is the solver's target: hence the stages of
  `OwnTargetsAdvance`.
- Kill service: a process id and a port are each alive once per host. What answered at
  a URI is the process that registered it or has its port since that one ended; what has
  the id it gave is that process or has the id since it ended. Ends are for good, so
  both still hold when the signal is sent.
- Terms: a request keeps what the planner says of its own time, so the three facts
  about schedules and plans are all that `FootTermsFit` needs.
- Cone: Cauchy and Schwarz's inequality for two forces and the regularization,
  proved over squares, since the prover has no roots.

*What replaces induction.* The provers here cannot use an induction principle over the
length of a schedule. Instead `LowerPart` says that a set of numbers up to `n` that is
closed downwards is `1..k`, with `k` its size, which follows from cardinalities alone.
Rising events, the position that `lower_bound` finds, the last contact before a swing
and the first after it are obtained from it.

*What the proofs changed.* `HorizonIsKept` used to be stated without the condition
`t <= LastOf(modeSchedule.eventTimes)`, and `SwingIsKept` without
`before.liftOff >= elapsed' - Horizon`. Neither was true of all constants, and TLC
finds both counterexamples on other instances than the run's. What the *initial*
schedule has after its last event is a stance nobody planned: it is replaced by the
default gait, if that walks, once the event is within reach (with `FirstEvent = 1` and
the flying trot). And of a swing longer than the horizon the modes at its beginning have
been dropped, so that it begins again with the schedule (`Horizon = 2` and the
flying trot). With the robots' settings the first cannot happen, as the default gait is
a stance. The second can, with two of the gaits an operator may choose: a foot's swing
is longer than the horizon of one second in aliengo's `skipping`, and in `pawup`, where
one foot stays up for good. In `WbcTasks` the feet of a
task are now picked by the loops' row counter rather than by a recursive filter. In
`ControlLoop` a stop stays requested until it has returned, as the service that asked
for it waits that long; `StopComesNearer` would not hold of a request that is
forgotten when the stop begins.

- Motors: a motor's index is the handle of its joint, every joint of the model has such
  a motor and the reverse, so measuring and commanding undo each other.

*Only model-checked:* the liveness properties (`StopIsServed`, `ShutdownCompletes`,
`DestructorReturns`, `StartEndsOnShutdown`, `StreamIsServed`, `StaleTargetsDieOut`),
which need fairness and `ENABLED`, out of the prover's reach. The other half of the
argument is proved, for every value of the constants: each step of the fair thread
lowers a number (`CallReturns`, `MpcThreadEnds`, `LoopComesToItsEnd`,
`StopComesNearer`), takes the targets to their next stage while no step takes one back
(`OwnTargetsAdvance`), or takes up the newest message if it reads between two writes
(`UncontendedReadIsNewest`). What is left to TLC is that the fair thread is able to
step, and for `StreamIsServed` that it comes to read.

*Only proved:* the first four of these, and the types of `ControlLoop` and
`SimCommandBuffer`. TLC agrees with them on the instances of the runs, where the
properties they serve are checked instead.

## 6. Plan

Done: the controller, the loop and process, the simulator's delay line, gait and
swing with the terms that depend on them, the WBC's rows, the odometry's way into
the filter, the way of a command to the solver, the orders of legs in the hardware,
the kill service, the friction cone.

Left, in this order: `TargetTrajectories` composed with `LeggedController` rather than
with a controller reduced to its runs; start-up failures of `main` and of the
hardware's `init`.

## 7. Not modelled

- Numbers of the optimizer, the dynamics, the filter, gains and weights; so also the
  first joint acceleration after a restart (`WbcBase.cpp:180`), which is a matter of
  size.
- UDP and the SDK: a lost packet leaves `lowState_` as it was, which the code neither
  detects nor handles (`UnitreeHW.cpp:61`).
- What is published for other tools, visualization, parsing of configurations, robot
  descriptions, and vendored or generated code.
