-------------------------- MODULE LeggedController --------------------------
(***************************************************************************)
(* legged::LeggedController: the ros_control plugin that runs NMPC and WBC.*)
(* Two threads share it.  The real-time thread ("rt") calls starting(),    *)
(* update() and stopping() through ControllerBase; the MPC thread ("mpc"), *)
(* started in setupMrt(), calls advanceMpc() while mpcRunning_ is set.     *)
(* Each action is a step between two accesses to what they share.          *)
(*                                                                         *)
(* The caller is left open here: any ControllerBase request may come when  *)
(* the rt thread is outside the controller.  ControlLoop fixes it.         *)
(***************************************************************************)
EXTENDS MpcMrt

VARIABLES
  life,               \* the object: alive, joining (in the destructor), gone;
                      \* or the process aborted
  rosOk,              \* ros::ok()
  cstate,             \* ControllerBase::state_, a plain int
  controllerRunning,  \* controllerRunning_
  mpcRunning,         \* mpcRunning_
  rt,                 \* where the real-time thread is
  mpc,                \* where the MPC thread is
  time,               \* currentObservation_.time
  joint               \* the joint command behind the HybridJointHandles

ctrlVars == <<life, rosOk, cstate, controllerRunning, mpcRunning, rt, mpc, time, joint>>
controllerVars == <<mrtVars, ctrlVars>>

StartPCs   == {"estimate", "wait", "rtCopy", "rtSolve", "rtStore", "run", "enable"}
UpdatePCs  == {"observe", "policy", "evaluate", "unsafe", "latch", "command"}
StopPCs    == {"halt", "disable"}
RtPCs      == {"idle"} \cup StartPCs \cup UpdatePCs \cup StopPCs
MpcPCs     == {"loop", "gate", "copy", "solve", "store",
               "failed", "halt", "disable", "exited"}
RtAdvance  == {"rtCopy", "rtSolve", "rtStore"}   \* inside advanceMpc()
MpcAdvance == {"copy", "solve", "store"}         \* inside advanceMpc()

\* A joint command: what comes from the plan is told apart from zero, the
\* gains keep their values.
Sources       == {"zero", "plan"}
Gains         == {0, 3}
JointCommands == [posDes : Sources, velDes : Sources, ff : Sources, kp : Gains, kd : Gains]
PlanCommand   == [posDes |-> "plan", velDes |-> "plan", ff |-> "plan", kp |-> 0, kd |-> 3]
NoCommand     == [posDes |-> "zero", velDes |-> "zero", ff |-> "zero", kp |-> 0, kd |-> 0]

ControllerTypeOK ==
  /\ MrtTypeOK
  /\ life \in {"alive", "joining", "gone", "aborted"}
  /\ rosOk \in BOOLEAN
  /\ cstate \in {"initialized", "running", "stopped"}
  /\ controllerRunning \in BOOLEAN
  /\ mpcRunning \in BOOLEAN
  /\ rt \in RtPCs
  /\ mpc \in MpcPCs
  /\ time \in Times
  /\ joint \in JointCommands

\* init() returned: the MPC thread runs, the controller waits to be started.
ControllerInit ==
  /\ MrtInit
  /\ life = "alive"
  /\ rosOk = TRUE
  /\ cstate = "initialized"
  /\ controllerRunning = TRUE
  /\ mpcRunning = FALSE
  /\ rt = "idle"
  /\ mpc = "loop"
  /\ time = 0
  /\ joint = NoCommand

-----------------------------------------------------------------------------
(* The real-time thread.                                                   *)

Tick(t) == IF t < MaxTime THEN t + 1 ELSE t

RtGoto(from, to) ==
  /\ life = "alive"
  /\ rt = from
  /\ rt' = to

\* updateStateEstimation() advances the observation's time, and the
\* observation is handed to the MRT interface.
Observe(from, to) ==
  /\ RtGoto(from, to)
  /\ time' = Tick(time)
  /\ SetObservation(time')
  /\ UNCHANGED <<life, rosOk, cstate, controllerRunning, mpcRunning, mpc, joint>>

\* ControllerBase requests, each the entry of the handler that follows.
UpdateRequest ==
  /\ cstate = "running"
  /\ RtGoto("idle", "observe")
  /\ UNCHANGED <<mrtVars, life, rosOk, cstate, controllerRunning, mpcRunning, mpc, time, joint>>

StartRequest ==
  /\ RtGoto("idle", "estimate")
  /\ UNCHANGED <<mrtVars, life, rosOk, cstate, controllerRunning, mpcRunning, mpc, time, joint>>

StopRequest ==
  /\ RtGoto("idle", "halt")
  /\ UNCHANGED <<mrtVars, life, rosOk, cstate, controllerRunning, mpcRunning, mpc, time, joint>>

\* starting(): set the first observation, then advance the MPC on this
\* thread until a policy was ever received or ROS goes down.
StartObserveForgets ==   \* mutant: ask for a policy of this start
  /\ RtGoto("estimate", "wait")
  /\ time' = Tick(time)
  /\ observation' = time'
  /\ policyReceived' = FALSE
  /\ UNCHANGED <<copied, buffer, newPolicy, active, life, rosOk, cstate,
                 controllerRunning, mpcRunning, mpc, joint>>

StartObserveFromZero ==   \* mutant: zero the time with the state
  /\ RtGoto("estimate", "wait")
  /\ time' = 0
  /\ SetObservation(0)
  /\ UNCHANGED <<life, rosOk, cstate, controllerRunning, mpcRunning, mpc, joint>>

StartObserve == Observe("estimate", "wait")

AwaitPolicyWithoutRos ==   \* mutant: ros::ok() dropped from the loop
  /\ RtGoto("wait", IF ~policyReceived THEN "rtCopy" ELSE "run")
  /\ UNCHANGED <<mrtVars, life, rosOk, cstate, controllerRunning, mpcRunning, mpc, time, joint>>

AwaitPolicy ==
  /\ RtGoto("wait", IF ~policyReceived /\ rosOk THEN "rtCopy" ELSE "run")
  /\ UNCHANGED <<mrtVars, life, rosOk, cstate, controllerRunning, mpcRunning, mpc, time, joint>>

RtCopyObservation ==
  /\ RtGoto("rtCopy", "rtSolve")
  /\ CopyObservation("rt")
  /\ UNCHANGED <<life, rosOk, cstate, controllerRunning, mpcRunning, mpc, time, joint>>

RtSolveOnce ==   \* mutant: one advance instead of a loop
  /\ \E next \in {"rtStore", "run"} : RtGoto("rtSolve", next)
  /\ UNCHANGED <<mrtVars, life, rosOk, cstate, controllerRunning, mpcRunning, mpc, time, joint>>

\* The solver returns with a policy to store, or without one.
RtSolve ==
  /\ \E next \in {"rtStore", "wait"} : RtGoto("rtSolve", next)
  /\ UNCHANGED <<mrtVars, life, rosOk, cstate, controllerRunning, mpcRunning, mpc, time, joint>>

\* The solver throws: nothing on this thread catches it.
RtSolveThrows ==
  /\ RtGoto("rtSolve", "idle")
  /\ life' = "aborted"
  /\ UNCHANGED <<mrtVars, rosOk, cstate, controllerRunning, mpcRunning, mpc, time, joint>>

RtStorePolicy ==
  /\ RtGoto("rtStore", "wait")
  /\ StorePolicy("rt")
  /\ UNCHANGED <<life, rosOk, cstate, controllerRunning, mpcRunning, mpc, time, joint>>

RunMpc ==
  /\ RtGoto("run", "enable")
  /\ mpcRunning' = TRUE
  /\ UNCHANGED <<mrtVars, life, rosOk, cstate, controllerRunning, mpc, time, joint>>

\* startRequest() after starting() returned.
EnableController ==
  /\ RtGoto("enable", "idle")
  /\ cstate' = "running"
  /\ UNCHANGED <<mrtVars, life, rosOk, controllerRunning, mpcRunning, mpc, time, joint>>

\* update(): observe, take the newest policy, evaluate it, check, command.
UpdateObserve == Observe("observe", "policy")

LoadPolicy ==
  /\ RtGoto("policy", "evaluate")
  /\ UpdatePolicy(mpc = "store")
  /\ UNCHANGED <<life, rosOk, cstate, controllerRunning, mpcRunning, mpc, time, joint>>

\* evaluatePolicy(), the WBC and the outcome of the safety check that follows.
EvaluatePolicy ==
  /\ active # NoPolicy
  /\ \E next \in {"command", "unsafe"} : RtGoto("evaluate", next)
  /\ UNCHANGED <<mrtVars, life, rosOk, cstate, controllerRunning, mpcRunning, mpc, time, joint>>

\* evaluatePolicy() dereferences the active solution, null until a first swap.
EvaluateNothing ==
  /\ active = NoPolicy
  /\ RtGoto("evaluate", "idle")
  /\ life' = "aborted"
  /\ UNCHANGED <<mrtVars, rosOk, cstate, controllerRunning, mpcRunning, mpc, time, joint>>

StoppingNothing(from, to) ==   \* mutant: stopping() not overridden
  /\ RtGoto(from, to)
  /\ UNCHANGED <<mrtVars, life, rosOk, cstate, controllerRunning, mpcRunning, mpc, time, joint>>

\* stopping(), as called by stopRequest() ...
Stopping(from, to) ==
  /\ RtGoto(from, to)
  /\ mpcRunning' = FALSE
  /\ UNCHANGED <<mrtVars, life, rosOk, cstate, controllerRunning, mpc, time, joint>>

\* ... which then writes the state.
DisableController(from, to) ==
  /\ RtGoto(from, to)
  /\ cstate' = "stopped"
  /\ UNCHANGED <<mrtVars, life, rosOk, controllerRunning, mpcRunning, mpc, time, joint>>

\* The safety check failed: stopRequest() from inside update(), which goes on.
SafetyStop == Stopping("unsafe", "latch") \/ DisableController("latch", "command")

CommandStiff ==   \* mutant: a position gain in the command
  /\ RtGoto("command", "idle")
  /\ joint' = [PlanCommand EXCEPT !.kp = 100]
  /\ UNCHANGED <<mrtVars, life, rosOk, cstate, controllerRunning, mpcRunning, mpc, time>>

Command ==
  /\ RtGoto("command", "idle")
  /\ joint' = PlanCommand
  /\ UNCHANGED <<mrtVars, life, rosOk, cstate, controllerRunning, mpcRunning, mpc, time>>

\* stopRequest() by the controller manager.
Stop == Stopping("halt", "disable") \/ DisableController("disable", "idle")

RtStep ==
  \/ StartObserve \/ AwaitPolicy \/ RtCopyObservation \/ RtSolve \/ RtSolveThrows
  \/ RtStorePolicy \/ RunMpc \/ EnableController
  \/ UpdateObserve \/ LoadPolicy \/ EvaluatePolicy \/ EvaluateNothing
  \/ SafetyStop \/ Command \/ Stop

-----------------------------------------------------------------------------
(* The MPC thread.                                                         *)

MpcGoto(from, to) ==
  /\ life \in {"alive", "joining"}
  /\ mpc = from
  /\ mpc' = to

MpcLoop ==
  /\ MpcGoto("loop", IF controllerRunning THEN "gate" ELSE "exited")
  /\ UNCHANGED <<mrtVars, life, rosOk, cstate, controllerRunning, mpcRunning, rt, time, joint>>

MpcGate ==
  /\ MpcGoto("gate", IF mpcRunning THEN "copy" ELSE "loop")
  /\ UNCHANGED <<mrtVars, life, rosOk, cstate, controllerRunning, mpcRunning, rt, time, joint>>

MpcCopyObservation ==
  /\ MpcGoto("copy", "solve")
  /\ CopyObservation("mpc")
  /\ UNCHANGED <<life, rosOk, cstate, controllerRunning, mpcRunning, rt, time, joint>>

\* The solver returns with a policy to store, without one, or throws.
MpcSolve ==
  /\ \E next \in {"store", "loop", "failed"} : MpcGoto("solve", next)
  /\ UNCHANGED <<mrtVars, life, rosOk, cstate, controllerRunning, mpcRunning, rt, time, joint>>

MpcStorePolicy ==
  /\ MpcGoto("store", "loop")
  /\ StorePolicy("mpc")
  /\ UNCHANGED <<life, rosOk, cstate, controllerRunning, mpcRunning, rt, time, joint>>

\* The handler: end the loop, then stopRequest() from this thread.
MpcFail ==
  /\ MpcGoto("failed", "halt")
  /\ controllerRunning' = FALSE
  /\ UNCHANGED <<mrtVars, life, rosOk, cstate, mpcRunning, rt, time, joint>>

MpcStopping ==
  /\ MpcGoto("halt", "disable")
  /\ mpcRunning' = FALSE
  /\ UNCHANGED <<mrtVars, life, rosOk, cstate, controllerRunning, rt, time, joint>>

MpcDisable ==
  /\ MpcGoto("disable", "loop")
  /\ cstate' = "stopped"
  /\ UNCHANGED <<mrtVars, life, rosOk, controllerRunning, mpcRunning, rt, time, joint>>

MpcStep ==
  \/ MpcLoop \/ MpcGate \/ MpcCopyObservation \/ MpcSolve \/ MpcStorePolicy
  \/ MpcFail \/ MpcStopping \/ MpcDisable

-----------------------------------------------------------------------------
(* The destructor and the surroundings.                                    *)

BeginDestroyRunning ==   \* mutant: controllerRunning_ left set
  /\ life = "alive"
  /\ life' = "joining"
  /\ UNCHANGED <<mrtVars, rosOk, cstate, controllerRunning, mpcRunning, rt, mpc, time, joint>>

BeginDestroy ==
  /\ life = "alive"
  /\ life' = "joining"
  /\ controllerRunning' = FALSE
  /\ UNCHANGED <<mrtVars, rosOk, cstate, mpcRunning, rt, mpc, time, joint>>

JoinMpcThread ==
  /\ life = "joining" /\ mpc = "exited"
  /\ life' = "gone"
  /\ UNCHANGED <<mrtVars, rosOk, cstate, controllerRunning, mpcRunning, rt, mpc, time, joint>>

HardwareReadKeepsTorque ==   \* mutant: feedforward not reset
  /\ life # "aborted"
  /\ joint' = [joint EXCEPT !.velDes = "zero", !.kd = 3]
  /\ UNCHANGED <<mrtVars, life, rosOk, cstate, controllerRunning, mpcRunning, rt, mpc, time>>

\* The hardware's read() at the start of a cycle: feedforward and velocity
\* to zero, damping on; position and position gain are left as they were.
HardwareRead ==
  /\ life # "aborted"
  /\ joint' = [joint EXCEPT !.ff = "zero", !.velDes = "zero", !.kd = 3]
  /\ UNCHANGED <<mrtVars, life, rosOk, cstate, controllerRunning, mpcRunning, rt, mpc, time>>

RosShutdown ==
  /\ rosOk /\ life # "aborted"
  /\ rosOk' = FALSE
  /\ UNCHANGED <<mrtVars, life, cstate, controllerRunning, mpcRunning, rt, mpc, time, joint>>

\* A caller neither destroys the controller nor touches the joints while its
\* own call is still running.
Caller ==
  \/ UpdateRequest \/ StartRequest \/ StopRequest
  \/ rt = "idle" /\ (BeginDestroy \/ HardwareRead)

ControllerNext == RtStep \/ MpcStep \/ JoinMpcThread \/ Caller \/ RosShutdown

\* Both threads are scheduled and a call of the solver returns; nobody has to
\* call, and ROS need not go down.
ControllerFairness ==
  /\ WF_controllerVars(RtStep)
  /\ WF_controllerVars(MpcStep)
  /\ WF_controllerVars(JoinMpcThread)

ControllerSpec     == ControllerInit /\ [][ControllerNext]_controllerVars
ControllerFairSpec == ControllerSpec /\ ControllerFairness

-----------------------------------------------------------------------------
(* Properties.                                                             *)

\* The newest policy an update can take.
LatestPolicy == IF newPolicy THEN buffer ELSE active

\* The solver and the MPC object have no lock: starting() and the MPC thread
\* are never inside advanceMpc() together.
OneAdvanceAtATime == ~(rt \in RtAdvance /\ mpc \in MpcAdvance)

\* While ROS is up, a running controller has a policy to evaluate, in the
\* buffer or already active: starting() does not return before.
RunningHasPolicy == cstate = "running" /\ rosOk => LatestPolicy # NoPolicy

\* Once stopRequest() is over, the solver is not asked for new policies: a
\* stopped controller with a live MPC thread has mpcRunning_ cleared.
StoppedSolverRests ==
  rt = "idle" /\ cstate = "stopped" /\ controllerRunning => ~mpcRunning

\* Policies reach the control thread in the order of the observations they
\* were computed from: an update never replaces a policy by an older one.
PolicyNeverOlder == [][active' >= active]_active

\* The destructor's join() returns.
DestructorReturns == life = "joining" ~> life = "gone"

\* starting() waits for the optimization to finish: when it returns, the newest
\* policy was computed from the first observation it set, or a later one.
StartHasFreshPolicy == rt = "enable" /\ rosOk => LatestPolicy >= observation

\* While ROS is up, a running controller has a thread that solves the NMPC problem for it.
RunningHasMpcThread == life = "alive" /\ rosOk /\ cstate = "running" => mpc # "exited"

\* The start loop ends once ROS goes down, policy or not.
StartEndsOnShutdown == rt \in StartPCs /\ ~rosOk ~> rt = "idle"

\* The first start does wait for the optimizer: when it returns with ROS up, there
\* is a policy for the observation it set, whatever the MPC thread does by then.
FirstStartIsFresh == cstate = "initialized" => StartHasFreshPolicy

\* update() loads the latest policy and evaluates it, so while ROS is up there is one.
UpdateEvaluatesPolicy == rt = "evaluate" /\ rosOk => active # NoPolicy

\* Steps that a call has still to take, and the MPC thread to its end, if neither
\* goes round its loop again.
CallSteps ==
  [idle |-> 0, enable |-> 1, run |-> 2, wait |-> 3, estimate |-> 4,
   rtStore |-> 4, rtSolve |-> 5, rtCopy |-> 6,
   command |-> 1, latch |-> 2, unsafe |-> 3, evaluate |-> 4, policy |-> 5, observe |-> 6,
   disable |-> 1, halt |-> 2]

MpcSteps ==
  [exited |-> 0, loop |-> 1, store |-> 2, disable |-> 2, halt |-> 3, failed |-> 4,
   solve |-> 5, copy |-> 6, gate |-> 7]

\* No call of the controller can last, except a start that has ROS up and no policy:
\* every step of the rt thread brings it nearer to the end of its call.
CallReturns ==
  [][rt # "idle" /\ ~(rt \in StartPCs /\ rosOk /\ ~policyReceived)
       => CallSteps[rt'] < CallSteps[rt]]_rt

\* What the destructor joins comes to its end, from wherever it was, be it in the
\* solver or in the handler of an exception: the MPC thread takes at most seven steps.
MpcThreadEnds == [][life = "joining" => MpcSteps[mpc'] < MpcSteps[mpc]]_mpc
=============================================================================
