---------------------------- MODULE ControlLoop ----------------------------
(***************************************************************************)
(* legged_unitree_hw: LeggedHWLoop's thread runs read, the controller      *)
(* manager and write in a cycle around one LeggedController; a spinner     *)
(* thread serves the controller manager's switch and unload services; main *)
(* waits for ROS to go down and destroys the loop, then the controllers.   *)
(*                                                                         *)
(* The loop thread is the controller's "rt" thread: while it is inside the *)
(* controller, "loop" says which call it is in.                            *)
(***************************************************************************)
EXTENDS LeggedController

VARIABLES
  loop,         \* where the loop thread is in LeggedHWLoop::update()
  loopRunning,  \* loopRunning_
  request,      \* the switch the controller manager has still to do
  main,         \* where main() is
  sent          \* the last command sent to the motors

loopVars    == <<loop, loopRunning, request, main, sent>>
allVars     == <<controllerVars, loopVars>>
LoopPCs     == {"top", "read", "update", "updating", "switch", "stopping", "starting", "write", "ended"}
Switches    == {{"start"}, {"stop"}, {"start", "stop"}}

LoopTypeOK ==
  /\ loop \in LoopPCs
  /\ loopRunning \in BOOLEAN
  /\ request \in SUBSET {"start", "stop"}
  /\ main \in {"waiting", "joining", "destroying", "exited"}
  /\ sent \in JointCommands

LoopInit ==
  /\ ControllerInit
  /\ loop = "top"
  /\ loopRunning = TRUE
  /\ request = {}
  /\ main = "waiting"
  /\ sent = NoCommand

-----------------------------------------------------------------------------
(* The loop thread.                                                        *)

LoopGoto(from, to) ==
  /\ life # "aborted"
  /\ loop = from
  /\ loop' = to

CheckRunning ==
  /\ LoopGoto("top", IF loopRunning THEN "read" ELSE "ended")
  /\ UNCHANGED <<controllerVars, loopRunning, request, main, sent>>

\* UnitreeHW::read: take the motors' state, make the joint command safe.
Read ==
  /\ LoopGoto("read", "update")
  /\ HardwareRead
  /\ UNCHANGED <<loopRunning, request, main, sent>>

\* ControllerManager::update: updateRequest() of the controller, if it runs ...
Update ==
  /\ LoopGoto("update", "updating")
  /\ UpdateRequest
  /\ UNCHANGED <<loopRunning, request, main, sent>>

SkipUpdate ==
  /\ life # "alive" \/ cstate # "running"
  /\ LoopGoto("update", "switch")
  /\ UNCHANGED <<controllerVars, loopRunning, request, main, sent>>

UpdateSkipsSwitch ==   \* mutant: no switch in a cycle that updated
  /\ rt = "idle"
  /\ LoopGoto("updating", "write")
  /\ UNCHANGED <<controllerVars, loopRunning, request, main, sent>>

UpdateReturns ==
  /\ rt = "idle"
  /\ LoopGoto("updating", "switch")
  /\ UNCHANGED <<controllerVars, loopRunning, request, main, sent>>

\* ... then the requested switch, stop before start.
SwitchStop ==
  /\ "stop" \in request
  /\ LoopGoto("switch", "stopping")
  /\ StopRequest
  /\ UNCHANGED <<loopRunning, request, main, sent>>

SwitchStart ==
  /\ request = {"start"}
  /\ LoopGoto("switch", "starting")
  /\ StartRequest
  /\ UNCHANGED <<loopRunning, request, main, sent>>

StopReturns ==
  /\ rt = "idle"
  /\ LoopGoto("stopping", "switch")
  /\ request' = request \ {"stop"}
  /\ UNCHANGED <<controllerVars, loopRunning, main, sent>>

StartReturns ==
  /\ rt = "idle"
  /\ LoopGoto("starting", "switch")
  /\ request' = {}
  /\ UNCHANGED <<controllerVars, loopRunning, main, sent>>

SwitchDone ==
  /\ request = {}
  /\ LoopGoto("switch", "write")
  /\ UNCHANGED <<controllerVars, loopRunning, request, main, sent>>

\* UnitreeHW::write: every field of the joint command goes to the motors.
Write ==
  /\ LoopGoto("write", "top")
  /\ sent' = joint
  /\ UNCHANGED <<controllerVars, loopRunning, request, main>>

\* The loop thread inside the controller.
InController ==
  /\ RtStep
  /\ UNCHANGED loopVars

LoopThread ==
  \/ CheckRunning \/ Read \/ Update \/ SkipUpdate \/ UpdateReturns
  \/ SwitchStop \/ SwitchStart \/ StopReturns \/ StartReturns \/ SwitchDone
  \/ Write \/ InController

-----------------------------------------------------------------------------
(* The spinner threads and main().                                         *)

\* switch_controller: one service call at a time, each waits for its switch.
\* It compares the lists with the controller's state as it is now.
RequestSwitch(req) ==
  /\ life = "alive" /\ rosOk
  /\ request = {}
  /\ ("stop" \in req) <=> (cstate = "running")
  /\ request' = req
  /\ UNCHANGED <<controllerVars, loop, loopRunning, main, sent>>

\* unload_controller: refused while the controller runs, it waits until the
\* loop thread has left the old controller list.
Unload ==
  /\ rosOk /\ request = {} /\ cstate # "running"
  /\ loop \notin {"updating", "switch", "stopping", "starting"}
  /\ BeginDestroy
  /\ UNCHANGED loopVars

\* ~LeggedHWLoop once waitForShutdown() returned ...
StopLoop ==
  /\ life # "aborted" /\ ~rosOk
  /\ main = "waiting"
  /\ main' = "joining"
  /\ loopRunning' = FALSE
  /\ UNCHANGED <<controllerVars, loop, request, sent>>

LoopNotJoined ==   \* mutant: controllers destroyed without the join
  /\ main = "joining"
  /\ main' = "destroying"
  /\ IF life = "alive" THEN BeginDestroy ELSE UNCHANGED controllerVars
  /\ UNCHANGED <<loop, loopRunning, request, sent>>

\* ... its join, and the controller manager that destroys its controllers.
LoopJoined ==
  /\ main = "joining" /\ loop = "ended"
  /\ main' = "destroying"
  /\ IF life = "alive" THEN BeginDestroy ELSE UNCHANGED controllerVars
  /\ UNCHANGED <<loop, loopRunning, request, sent>>

Exit ==
  /\ main = "destroying" /\ life = "gone"
  /\ main' = "exited"
  /\ UNCHANGED <<controllerVars, loop, loopRunning, request, sent>>

Main == StopLoop \/ LoopJoined \/ Exit

Services == (\E req \in Switches : RequestSwitch(req)) \/ Unload

MpcThread  == MpcStep /\ UNCHANGED loopVars
Destructor == JoinMpcThread /\ UNCHANGED loopVars
Signal     == RosShutdown /\ UNCHANGED loopVars

LoopNext == LoopThread \/ MpcThread \/ Destructor \/ Services \/ Main \/ Signal

\* Every thread is scheduled; nobody has to call a service or send a signal.
LoopFairness ==
  /\ WF_allVars(LoopThread)
  /\ WF_allVars(MpcThread)
  /\ WF_allVars(Destructor)
  /\ WF_allVars(Main)

LoopSpec     == LoopInit /\ [][LoopNext]_allVars
LoopFairSpec == LoopSpec /\ LoopFairness

-----------------------------------------------------------------------------
(* Properties.                                                             *)

\* A command that cannot drive a joint: no feedforward, no velocity target,
\* no position stiffness, only damping.
Damping(c) == c.ff = "zero" /\ c.velDes = "zero" /\ c.kp = 0 /\ c.kd = 3

\* What the loop promises to the motors (see Actuation).
Contract == INSTANCE Actuation WITH
  enabled <- cstate = "running",
  latched <- loop = "updating" \/ ~Damping(joint),
  out     <- IF sent = NoCommand THEN "nothing"
             ELSE IF Damping(sent) THEN "damping"
             ELSE IF sent = PlanCommand THEN "drive" ELSE "other"

ContractSpec == Contract!Spec

\* Shutting ROS down ends the process, whatever the controller is doing.
ShutdownCompletes == ~rosOk ~> main = "exited" \/ life = "aborted"

\* A stop that was asked for is done within the loop's cycles, whatever the MPC
\* thread does to the state meanwhile.
StopIsServed ==
  "stop" \in request ~> cstate = "stopped" \/ life = "aborted" \/ main = "exited"

\* Steps of the loop thread to the end of a pending switch: four for a stop, six for
\* a start.
SwitchSteps ==
  (IF "stop" \in request THEN 4 ELSE 0) + (IF "start" \in request THEN 6 ELSE 0)

\* Steps to the end of the loop thread, once it is told to end.
LoopSteps ==
  CASE loop = "read"     -> SwitchSteps + 12
    [] loop = "update"   -> SwitchSteps + 11
    [] loop = "updating" -> SwitchSteps + 4 + CallSteps[rt]
    [] loop = "switch"   -> SwitchSteps + 3
    [] loop = "stopping" -> SwitchSteps + CallSteps[rt]
    [] loop = "starting" -> 4 + CallSteps[rt]
    [] loop = "write"    -> 2
    [] loop = "top"      -> 1
    [] loop = "ended"    -> 0

\* Steps to the stop of the controller that is asked for: up to the loop's top, then
\* down to the switch of the next cycle.
StopSteps ==
  CASE loop = "write"    -> 14
    [] loop = "top"      -> 13
    [] loop = "read"     -> 12
    [] loop = "update"   -> 11
    [] loop = "updating" -> 4 + CallSteps[rt]
    [] loop = "switch"   -> 3
    [] OTHER             -> CallSteps[rt]

\* Whatever the loop thread does once ~LeggedHWLoop has told it to end, be it in
\* update(), in a start without a policy or before a switch, brings it nearer to its
\* end, and nothing new is asked of it.
LoopComesToItsEnd == [][~loopRunning => LoopSteps' < LoopSteps]_<<loop, rt, request>>

\* A stop that was asked for comes nearer with every step of the loop thread, and is
\* not forgotten before the controller is stopped.
StopComesNearer ==
  [][ "stop" \in request =>
        IF "stop" \in request' THEN StopSteps' < StopSteps ELSE cstate = "stopped"
    ]_<<loop, rt, request>>
=============================================================================
