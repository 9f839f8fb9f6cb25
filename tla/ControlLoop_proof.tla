------------------------- MODULE ControlLoop_proof -------------------------
(***************************************************************************)
(* Proofs about ControlLoop: it calls the controller as LeggedController   *)
(* expects to be called, so whatever is proved of LeggedController holds   *)
(* in the loop, it keeps Actuation's promise to the motors, and each of    *)
(* its steps brings a requested stop, and after shutdown its end, nearer.  *)
(***************************************************************************)
EXTENDS ControlLoop, LeggedController_proof

-----------------------------------------------------------------------------
(* The inductive invariant.                                                *)

\* The loop thread is inside the controller only during the matching call.
CallsMatch ==
  /\ rt \in UpdatePCs => loop = "updating"
  /\ rt \in StartPCs => loop = "starting"
  /\ rt \in StopPCs => loop = "stopping"

\* Nothing ever puts a position gain on a joint, and after read() the joints
\* hold either pure damping or the plan of this cycle.
JointIsSafe ==
  /\ joint.kp = 0
  /\ loop \notin {"top", "read", "ended"} => Damping(joint) \/ joint = PlanCommand

LoopInv ==
  /\ ControllerTypeOK
  /\ LoopTypeOK
  /\ CallsMatch
  /\ JointIsSafe

\* The loop starts outside the controller, with safe joints.
LEMMA LoopInitInv == LoopInit => LoopInv
<1> SUFFICES ASSUME LoopInit PROVE LoopInv
  OBVIOUS
<1>1. ControllerTypeOK
  BY InitType DEF LoopInit
<1>2. LoopTypeOK
  <2>1. sent \in JointCommands
    BY DEF LoopInit, NoCommand, JointCommands, Sources, Gains
  <2>2. loopRunning \in BOOLEAN
    BY Zenon DEF LoopInit
  <2> QED BY <2>1, <2>2 DEF LoopInit, LoopTypeOK, LoopPCs
<1>3. CallsMatch /\ JointIsSafe
  BY DEF LoopInit, ControllerInit, CallsMatch, JointIsSafe, UpdatePCs, StartPCs, StopPCs, NoCommand
<1> QED BY <1>1, <1>2, <1>3 DEF LoopInv

-----------------------------------------------------------------------------
(* Every step of the loop is a step of the controller under its caller, or *)
(* leaves it alone.                                                        *)

\* While the loop is at its own steps, no call of the controller is running.
LEMMA OutsideIsIdle ==
  ASSUME LoopInv, loop \notin {"updating", "starting", "stopping"}
  PROVE  rt = "idle"
BY DEF LoopInv, ControllerTypeOK, RtPCs, CallsMatch

\* A step of the loop, of a service or of main() is a step the controller
\* allows, or none of its business.
LEMMA StepImplementsController ==
  LoopInv /\ [LoopNext]_allVars => [ControllerNext]_controllerVars
<1> SUFFICES ASSUME LoopInv, LoopNext
             PROVE  ControllerNext \/ UNCHANGED controllerVars
  BY DEF allVars
<1>1. CASE LoopThread
  <2>1. CASE Read
    BY <2>1, OutsideIsIdle DEF Read, LoopGoto, ControllerNext, Caller
  <2>2. CASE Update \/ SwitchStop \/ SwitchStart \/ InController
    BY <2>2 DEF Update, SwitchStop, SwitchStart, InController, ControllerNext, Caller
  <2>3. CASE CheckRunning \/ SkipUpdate \/ UpdateReturns \/ StopReturns \/ StartReturns
             \/ SwitchDone \/ Write
    BY <2>3 DEF CheckRunning, SkipUpdate, UpdateReturns, StopReturns, StartReturns,
                SwitchDone, Write
  <2> QED BY <1>1, <2>1, <2>2, <2>3 DEF LoopThread
<1>2. CASE MpcThread \/ Destructor \/ Signal
  BY <1>2 DEF MpcThread, Destructor, Signal, ControllerNext
<1>3. CASE Services
  <2>1. CASE Unload
    BY <2>1, OutsideIsIdle DEF Unload, ControllerNext, Caller
  <2>2. CASE \E req \in Switches : RequestSwitch(req)
    BY <2>2 DEF RequestSwitch
  <2> QED BY <1>3, <2>1, <2>2 DEF Services
<1>4. CASE Main
  <2>1. CASE LoopJoined
    BY <2>1, OutsideIsIdle DEF LoopJoined, ControllerNext, Caller
  <2>2. CASE StopLoop \/ Exit
    BY <2>2 DEF StopLoop, Exit
  <2> QED BY <1>4, <2>1, <2>2 DEF Main
<1> QED BY <1>1, <1>2, <1>3, <1>4 DEF LoopNext

-----------------------------------------------------------------------------
(* The invariant is kept.                                                  *)

\* The loop's own variables keep their types.
LEMMA LoopTypeStep ==
  LoopInv /\ [LoopNext]_allVars => LoopTypeOK'
<1> SUFFICES ASSUME LoopInv, [LoopNext]_allVars PROVE LoopTypeOK'
  OBVIOUS
<1> USE DEF LoopInv, LoopTypeOK, LoopPCs, LoopGoto
<1>1. CASE LoopThread
  <2>1. CASE CheckRunning \/ Read \/ Update \/ SkipUpdate \/ UpdateReturns \/ StopReturns \/ SwitchDone
    BY <2>1 DEF CheckRunning, Read, Update, SkipUpdate, UpdateReturns, StopReturns, SwitchDone
  <2>2. CASE SwitchStop \/ SwitchStart \/ StartReturns
    BY <2>2 DEF SwitchStop, SwitchStart, StartReturns
  <2>3. CASE Write
    BY <2>3 DEF Write, ControllerTypeOK
  <2>4. CASE InController
    BY <2>4 DEF InController, loopVars
  <2> QED BY <1>1, <2>1, <2>2, <2>3, <2>4 DEF LoopThread
<1>2. CASE MpcThread \/ Destructor \/ Signal
  BY <1>2 DEF MpcThread, Destructor, Signal, loopVars
<1>3. CASE Services
  BY <1>3 DEF Services, Unload, RequestSwitch, Switches, loopVars
<1>4. CASE Main
  <2>1. CASE StopLoop
    <3>1. loopRunning' \in BOOLEAN
      BY <2>1, Zenon DEF StopLoop
    <3> QED BY <2>1, <3>1 DEF StopLoop
  <2>2. CASE LoopJoined \/ Exit
    BY <2>2 DEF LoopJoined, Exit
  <2> QED BY <1>4, <2>1, <2>2 DEF Main
<1>5. CASE UNCHANGED allVars
  BY <1>5 DEF allVars, loopVars
<1> QED BY <1>1, <1>2, <1>3, <1>4, <1>5 DEF LoopNext

\* Only the loop thread moves rt, loop and joint.
LEMMA OthersLeaveTheLoop ==
  MpcThread \/ Destructor \/ Signal \/ Services \/ Main
    => UNCHANGED <<rt, loop, joint>>
BY DEF MpcThread, Destructor, Signal, Services, Main, MpcStep, MpcLoop, MpcGate,
       MpcCopyObservation, MpcSolve, MpcStorePolicy, MpcFail, MpcStopping, MpcDisable,
       JoinMpcThread, RosShutdown, RequestSwitch, Unload, BeginDestroy, StopLoop,
       LoopJoined, Exit, loopVars, controllerVars, ctrlVars

\* Inside the controller, each step stays in its call or ends it, and only
\* Command writes the joints.
LEMMA RtStepStays ==
  RtStep => /\ rt \in UpdatePCs => rt' \in UpdatePCs \cup {"idle"}
            /\ rt \in StartPCs => rt' \in StartPCs \cup {"idle"}
            /\ rt \in StopPCs => rt' \in StopPCs \cup {"idle"}
            /\ rt # "idle"
            /\ joint' = joint \/ (rt \in UpdatePCs /\ joint' = PlanCommand)
BY DEF RtStep, StartObserve, AwaitPolicy, RtCopyObservation, RtSolve, RtSolveThrows,
       RtStorePolicy, RunMpc, EnableController, UpdateObserve, LoadPolicy, EvaluatePolicy,
       EvaluateNothing, SafetyStop, Command, Stop, Stopping, DisableController, Observe,
       RtGoto, UpdatePCs, StartPCs, StopPCs

\* Calls stay matched with the loop's place, joints with what a cycle may hold.
LEMMA CallsStep == LoopInv /\ [LoopNext]_allVars => CallsMatch' /\ JointIsSafe'
<1> SUFFICES ASSUME LoopInv, [LoopNext]_allVars PROVE CallsMatch' /\ JointIsSafe'
  OBVIOUS
<1> USE DEF LoopInv, CallsMatch, JointIsSafe, Damping, LoopGoto, UpdatePCs, StartPCs, StopPCs
<1>1. CASE Read
  <2>1. joint' = [joint EXCEPT !.ff = "zero", !.velDes = "zero", !.kd = 3]
    BY <1>1 DEF Read, HardwareRead
  <2>2. Damping(joint')
    BY <2>1 DEF ControllerTypeOK, JointCommands
  <2> QED BY <1>1, <2>2, OutsideIsIdle DEF Read, HardwareRead
<1>2. CASE Update \/ SwitchStop \/ SwitchStart
  BY <1>2, OutsideIsIdle
     DEF Update, SwitchStop, SwitchStart, UpdateRequest, StopRequest, StartRequest, RtGoto
<1>3. CASE CheckRunning \/ SkipUpdate \/ UpdateReturns \/ StopReturns \/ StartReturns
           \/ SwitchDone \/ Write
  BY <1>3, OutsideIsIdle DEF CheckRunning, SkipUpdate, UpdateReturns, StopReturns, StartReturns,
         SwitchDone, Write, controllerVars, ctrlVars
<1>4. CASE InController
  BY <1>4, RtStepStays DEF InController, loopVars, PlanCommand, ControllerTypeOK, RtPCs
<1>5. CASE MpcThread \/ Destructor \/ Signal \/ Services \/ Main
  BY <1>5, OthersLeaveTheLoop
<1>6. CASE UNCHANGED allVars
  BY <1>6 DEF allVars, controllerVars, ctrlVars, loopVars
<1> QED BY <1>1, <1>2, <1>3, <1>4, <1>5, <1>6 DEF LoopNext, LoopThread

\* The loop's invariant is inductive.
LEMMA LoopInvStep == LoopInv /\ [LoopNext]_allVars => LoopInv'
BY StepImplementsController, TypeStep, LoopTypeStep, CallsStep DEF LoopInv

\* The loop's invariant: calls match the loop's place, joints are safe.
THEOREM LoopInductive == LoopSpec => []LoopInv
BY LoopInitInv, LoopInvStep, PTL DEF LoopSpec

\* The places of the loop and of main, the requests and the command sent last stay
\* within their types, whatever the services ask and whenever the process is ended.
THEOREM LoopTypeCorrect == LoopSpec => []LoopTypeOK
<1>1. LoopInv => LoopTypeOK
  BY DEF LoopInv
<1> QED
  BY <1>1, LoopInductive, PTL

\* The loop is a correct caller: LeggedHWLoop, the controller manager's services
\* and main() use the controller only in the ways LeggedController allows.
THEOREM LoopImplementsController == LoopSpec => ControllerSpec
<1>1. LoopInit => ControllerInit
  BY DEF LoopInit
<1> QED
  BY <1>1, LoopInductive, StepImplementsController, PTL DEF LoopSpec, ControllerSpec

\* Hence, in the running program too, starting() and the MPC thread never
\* advance the MPC together.
COROLLARY LoopMutualExclusion == LoopSpec => []OneAdvanceAtATime
BY LoopImplementsController, MutualExclusion, PTL

-----------------------------------------------------------------------------
(* Stops and shutdown come nearer.                                         *)

\* The loop is told to end only after ROS went down, a start is called when nothing
\* else is left of a switch, and a stop is over when the controller is stopped.
SwitchesInOrder ==
  /\ ~loopRunning => ~rosOk
  /\ loop = "starting" => request = {"start"}
  /\ loop = "stopping" => "stop" \in request /\ (rt = "idle" => cstate = "stopped")

\* What is left of a call is a small number.
LEMMA CallStepsType == \A pc \in RtPCs : CallSteps[pc] \in 0..6
BY DEF CallSteps, RtPCs, StartPCs, UpdatePCs, StopPCs

\* Only the rt thread lets the controller run, or ends its own stop, and ROS does not
\* come back.
LEMMA StepLeavesStopped ==
  ASSUME [ControllerNext]_controllerVars
  PROVE  /\ ~rosOk => ~rosOk'
         /\ rt = "idle" /\ rt' = "idle" /\ cstate = "stopped" => cstate' = "stopped"
         /\ rt = "disable" /\ rt' = "idle" => cstate' = "stopped"
<1> USE DEF RtGoto, MpcGoto
<1>1. CASE RtStep
  BY <1>1 DEF RtStep, StartObserve, AwaitPolicy, RtCopyObservation, RtSolve, RtSolveThrows,
              RtStorePolicy, RunMpc, EnableController, UpdateObserve, LoadPolicy, EvaluatePolicy,
              EvaluateNothing, SafetyStop, Command, Stop, Stopping, DisableController, Observe
<1>2. CASE MpcStep
  BY <1>2 DEF MpcStep, MpcLoop, MpcGate, MpcCopyObservation, MpcSolve, MpcStorePolicy, MpcFail,
              MpcStopping, MpcDisable
<1>3. CASE Caller
  BY <1>3 DEF Caller, UpdateRequest, StartRequest, StopRequest, BeginDestroy, HardwareRead
<1>4. CASE JoinMpcThread \/ RosShutdown
  BY <1>4 DEF JoinMpcThread, RosShutdown
<1>5. CASE UNCHANGED controllerVars
  BY <1>5 DEF controllerVars, ctrlVars
<1> QED
  BY <1>1, <1>2, <1>3, <1>4, <1>5 DEF ControllerNext

\* A call of stopRequest() ends with its second step.
LEMMA StopEndsDisabled ==
  ASSUME RtStep, rt \in StopPCs, rt' = "idle"
  PROVE  rt = "disable"
BY DEF RtStep, StartObserve, AwaitPolicy, RtCopyObservation, RtSolve, RtSolveThrows,
       RtStorePolicy, RunMpc, EnableController, UpdateObserve, LoadPolicy, EvaluatePolicy,
       EvaluateNothing, SafetyStop, Command, Stop, Stopping, DisableController, Observe,
       RtGoto, StopPCs

\* Switches stay in order.
LEMMA SwitchesStep ==
  ASSUME LoopInv, SwitchesInOrder, [LoopNext]_allVars
  PROVE  SwitchesInOrder'
<1>1. [ControllerNext]_controllerVars
  BY StepImplementsController
<1> USE DEF LoopInv, SwitchesInOrder, LoopGoto
<1>2. CASE Read \/ Update \/ SkipUpdate \/ UpdateReturns \/ SwitchDone
  BY <1>1, <1>2, StepLeavesStopped DEF Read, Update, SkipUpdate, UpdateReturns, SwitchDone
<1>3. CASE CheckRunning \/ Write
  BY <1>1, <1>3, StepLeavesStopped DEF CheckRunning, Write
<1>4. CASE SwitchStop \/ SwitchStart
  BY <1>1, <1>4, StepLeavesStopped DEF SwitchStop, SwitchStart, StopRequest, StartRequest, RtGoto
<1>5. CASE StopReturns \/ StartReturns
  BY <1>1, <1>5, StepLeavesStopped DEF StopReturns, StartReturns
<1>6. CASE InController
  <2>1. loop' = loop /\ request' = request /\ loopRunning' = loopRunning
    BY <1>6 DEF InController, loopVars
  <2>2. ~loopRunning' => ~rosOk'
    BY <1>1, <2>1, StepLeavesStopped
  <2>3. loop = "stopping" /\ rt' = "idle" => cstate' = "stopped"
    BY <1>1, <1>6, StepLeavesStopped, StopEndsDisabled, RtStepStays
       DEF InController, CallsMatch, ControllerTypeOK, RtPCs, StartPCs, UpdatePCs, StopPCs
  <2> QED BY <2>1, <2>2, <2>3
<1>7. CASE MpcThread \/ Destructor \/ Signal \/ Unload
  <2>1. loop' = loop /\ request' = request /\ loopRunning' = loopRunning /\ rt' = rt
    BY <1>7, OthersLeaveTheLoop DEF MpcThread, Destructor, Signal, Services, Unload, loopVars
  <2> QED BY <1>1, <2>1, StepLeavesStopped
<1>8. CASE \E req \in Switches : RequestSwitch(req)
  BY <1>8 DEF RequestSwitch, controllerVars, ctrlVars
<1>9. CASE Main
  <2>1. loop' = loop /\ request' = request /\ rt' = rt
    BY <1>9, OthersLeaveTheLoop DEF Main, StopLoop, LoopJoined, Exit
  <2>2. ~loopRunning' => ~rosOk'
    BY <1>1, <1>9, StepLeavesStopped DEF Main, StopLoop, LoopJoined, Exit
  <2> QED BY <1>1, <2>1, <2>2, StepLeavesStopped
<1>10. CASE UNCHANGED allVars
  BY <1>10 DEF allVars, controllerVars, ctrlVars, loopVars
<1> QED
  BY <1>2, <1>3, <1>4, <1>5, <1>6, <1>7, <1>8, <1>9, <1>10
     DEF LoopNext, LoopThread, Services

\* The order of switches, in every reachable state.
LEMMA SwitchesHold == LoopSpec => []SwitchesInOrder
<1>1. LoopInit => SwitchesInOrder
  <2> SUFFICES ASSUME LoopInit PROVE SwitchesInOrder
    OBVIOUS
  <2>1. loopRunning
    BY Zenon DEF LoopInit
  <2> QED BY <2>1 DEF LoopInit, SwitchesInOrder
<1>2. LoopInv /\ SwitchesInOrder /\ [LoopNext]_allVars => SwitchesInOrder'
  BY SwitchesStep
<1> QED
  BY <1>1, <1>2, LoopInductive, PTL DEF LoopSpec

\* A step inside the controller leads on, and the loop waits where it called.
LEMMA InControllerReturns ==
  ASSUME LoopInv, InController, rt \notin StartPCs \/ ~rosOk
  PROVE  /\ loop' = loop /\ request' = request
         /\ loop \in {"updating", "starting", "stopping"}
         /\ CallSteps[rt] \in 0..6 /\ CallSteps[rt'] \in Int /\ CallSteps[rt'] < CallSteps[rt]
<1>1. loop' = loop /\ request' = request
  BY DEF InController, loopVars
<1>2. rt # "idle" /\ rt \in RtPCs /\ rt' \in RtPCs
  <2>1. ControllerTypeOK'
    BY StepImplementsController, TypeStep DEF LoopInv, LoopNext, LoopThread
  <2> QED BY <2>1, RtStepStays DEF InController, LoopInv, ControllerTypeOK
<1>3. loop \in {"updating", "starting", "stopping"}
  BY <1>2 DEF LoopInv, CallsMatch, RtPCs
<1>4. CallSteps[rt'] < CallSteps[rt]
  BY RtStepReturns DEF InController
<1> QED
  BY <1>1, <1>2, <1>3, <1>4, CallStepsType

\* Services, main(), the destructor and the MPC thread move neither the loop nor its
\* calls, and only a service asks for a switch.
LEMMA OthersLeaveTheSwitch ==
  ASSUME MpcThread \/ Destructor \/ Signal \/ Unload \/ Main \/ UNCHANGED allVars
  PROVE  UNCHANGED <<loop, rt, request>>
<1>1. CASE MpcThread \/ Destructor \/ Signal \/ Unload
  BY <1>1, OthersLeaveTheLoop DEF MpcThread, Destructor, Signal, Services, Unload, loopVars
<1>2. CASE Main
  BY <1>2, OthersLeaveTheLoop DEF Main, StopLoop, LoopJoined, Exit
<1>3. CASE UNCHANGED allVars
  BY <1>3 DEF allVars, controllerVars, ctrlVars, loopVars
<1> QED
  BY <1>1, <1>2, <1>3

\* A step of the loop thread once it is told to end.
LEMMA LoopStepEnds ==
  ASSUME LoopInv, SwitchesInOrder, [LoopNext]_allVars, ~loopRunning
  PROVE  [LoopSteps' < LoopSteps]_<<loop, rt, request>>
<1> SUFFICES ASSUME ~UNCHANGED <<loop, rt, request>> PROVE LoopSteps' < LoopSteps
  OBVIOUS
<1> USE DEF LoopGoto, LoopSteps, SwitchSteps
<1>1. SwitchSteps \in 0..10 /\ (request' = request => SwitchSteps' = SwitchSteps)
  OBVIOUS
<1>2. CASE CheckRunning
  BY <1>2 DEF CheckRunning
<1>3. CASE Read \/ SkipUpdate \/ SwitchDone \/ Write
  BY <1>1, <1>3 DEF Read, SkipUpdate, SwitchDone, Write
<1>4. CASE Update
  BY <1>1, <1>4 DEF Update, UpdateRequest, RtGoto, CallSteps
<1>5. CASE UpdateReturns
  <2>1. CallSteps[rt] = 0
    BY <1>5 DEF UpdateReturns, CallSteps
  <2> QED BY <1>1, <1>5, <2>1 DEF UpdateReturns
<1>6. CASE SwitchStop
  BY <1>1, <1>6 DEF SwitchStop, StopRequest, RtGoto, CallSteps
<1>7. CASE SwitchStart
  BY <1>7 DEF SwitchStart, StartRequest, RtGoto, CallSteps
<1>8. CASE StopReturns
  <2>1. CallSteps[rt] = 0 /\ "stop" \in request
    BY <1>8 DEF StopReturns, CallSteps, SwitchesInOrder
  <2> QED BY <1>8, <2>1 DEF StopReturns
<1>9. CASE StartReturns
  <2>1. CallSteps[rt] = 0
    BY <1>9 DEF StartReturns, CallSteps
  <2> QED BY <1>9, <2>1 DEF StartReturns
<1>10. CASE InController
  <2>1. /\ loop' = loop /\ request' = request
        /\ loop \in {"updating", "starting", "stopping"}
        /\ CallSteps[rt] \in 0..6 /\ CallSteps[rt'] \in Int /\ CallSteps[rt'] < CallSteps[rt]
    BY <1>10, InControllerReturns DEF SwitchesInOrder
  <2> QED BY <1>1, <2>1
<1>11. CASE \E req \in Switches : RequestSwitch(req)
  BY <1>11 DEF RequestSwitch, SwitchesInOrder
<1> QED
  BY <1>2, <1>3, <1>4, <1>5, <1>6, <1>7, <1>8, <1>9, <1>10, <1>11, OthersLeaveTheSwitch
     DEF LoopNext, LoopThread, Services

\* Told to end, the loop thread is within 22 steps of its end wherever it is, and takes
\* no other: no start, solver or switch keeps ~LeggedHWLoop's join waiting.
THEOREM LoopEnds == LoopSpec => LoopComesToItsEnd
<1>1. LoopInv /\ SwitchesInOrder /\ [LoopNext]_allVars
        => [~loopRunning => LoopSteps' < LoopSteps]_<<loop, rt, request>>
  BY LoopStepEnds
<1> QED
  BY <1>1, LoopInductive, SwitchesHold, PTL DEF LoopSpec, LoopComesToItsEnd

\* A step of the loop thread under a pending stop.
LEMMA LoopStepNearsStop ==
  ASSUME LoopInv, SwitchesInOrder, [LoopNext]_allVars, "stop" \in request,
         ~UNCHANGED <<loop, rt, request>>
  PROVE  IF "stop" \in request' THEN StopSteps' < StopSteps ELSE cstate = "stopped"
<1> USE DEF LoopGoto, StopSteps
<1>1. CASE CheckRunning
  <2>1. rt = "idle" /\ rt' = rt
    BY <1>1, OutsideIsIdle DEF CheckRunning, controllerVars, ctrlVars
  <2> QED BY <1>1, <2>1 DEF CheckRunning, CallSteps
<1>2. CASE Read \/ SkipUpdate \/ Write
  BY <1>2 DEF Read, SkipUpdate, Write
<1>3. CASE Update
  BY <1>3 DEF Update, UpdateRequest, RtGoto, CallSteps
<1>4. CASE UpdateReturns
  BY <1>4 DEF UpdateReturns, CallSteps
<1>5. CASE SwitchStop
  BY <1>5 DEF SwitchStop, StopRequest, RtGoto, CallSteps
<1>6. CASE SwitchStart \/ SwitchDone
  BY <1>6 DEF SwitchStart, SwitchDone
<1>7. CASE StopReturns
  BY <1>7 DEF StopReturns, SwitchesInOrder
<1>8. CASE StartReturns
  BY <1>8 DEF StartReturns, SwitchesInOrder
<1>9. CASE InController
  <2>1. rt \notin StartPCs
    BY DEF LoopInv, CallsMatch, SwitchesInOrder
  <2>2. /\ loop' = loop /\ request' = request
        /\ loop \in {"updating", "starting", "stopping"}
        /\ CallSteps[rt] \in 0..6 /\ CallSteps[rt'] \in Int /\ CallSteps[rt'] < CallSteps[rt]
    BY <1>9, <2>1, InControllerReturns
  <2> QED BY <2>2
<1>10. CASE \E req \in Switches : RequestSwitch(req)
  BY <1>10 DEF RequestSwitch
<1> QED
  BY <1>1, <1>2, <1>3, <1>4, <1>5, <1>6, <1>7, <1>8, <1>9, <1>10, OthersLeaveTheSwitch
     DEF LoopNext, LoopThread, Services

\* A stop that was asked for is within 14 steps of the loop thread, which the MPC
\* thread cannot add to, and is carried out before the request is forgotten.
THEOREM StopsComeNearer == LoopSpec => StopComesNearer
<1>1. LoopInv /\ SwitchesInOrder /\ [LoopNext]_allVars
        => [ "stop" \in request =>
               IF "stop" \in request' THEN StopSteps' < StopSteps ELSE cstate = "stopped"
           ]_<<loop, rt, request>>
  BY LoopStepNearsStop
<1> QED
  BY <1>1, LoopInductive, SwitchesHold, PTL DEF LoopSpec, StopComesNearer

\* In the process, too, what the destructor joins comes to its end.
COROLLARY LoopJoinsAnEndingThread == LoopSpec => MpcThreadEnds
BY LoopImplementsController, JoinedThreadEnds, PTL

-----------------------------------------------------------------------------
(* The promise to the motors.                                              *)

\* A step of the loop is a step of the contract with the motors.
LEMMA StepKeepsContract ==
  LoopInv /\ [LoopNext]_allVars => [Contract!Next]_(Contract!vars)
<1> SUFFICES ASSUME LoopInv, [LoopNext]_allVars
             PROVE  Contract!Next \/ UNCHANGED Contract!vars
  OBVIOUS
<1> DEFINE Driven == loop = "updating" \/ ~Damping(joint)
<1> USE DEF LoopInv, Contract!vars, Contract!Next, LoopGoto
<1>1. CASE Read
  <2>1. joint' = [joint EXCEPT !.ff = "zero", !.velDes = "zero", !.kd = 3]
    BY <1>1 DEF Read, HardwareRead
  <2>2. Damping(joint')
    BY <2>1 DEF ControllerTypeOK, JointCommands, JointIsSafe, Damping
  <2>3. loop' = "update" /\ cstate' = cstate /\ sent' = sent
    BY <1>1 DEF Read, HardwareRead
  <2> QED BY <2>2, <2>3 DEF Contract!NewCycle
<1>2. CASE Update
  BY <1>2 DEF Update, UpdateRequest, Contract!Latch
<1>3. CASE UpdateReturns
  <2>1. loop = "updating" /\ loop' = "switch" /\ cstate' = cstate /\ sent' = sent /\ joint' = joint
    BY <1>3 DEF UpdateReturns, controllerVars, ctrlVars
  <2>2. CASE Damping(joint)
    BY <2>1, <2>2 DEF Contract!NewCycle
  <2>3. CASE ~Damping(joint)
    BY <2>1, <2>3
  <2> QED BY <2>2, <2>3
<1>4. CASE Write
  <2>1. loop = "write" /\ loop' = "top" /\ cstate' = cstate /\ joint' = joint /\ sent' = joint
    BY <1>4 DEF Write, controllerVars, ctrlVars
  <2>2. Damping(joint) \/ joint = PlanCommand
    BY <2>1 DEF JointIsSafe
  <2>3. joint # NoCommand
    BY <2>2 DEF Damping, PlanCommand, NoCommand
  <2>4. ~Damping(PlanCommand)
    BY DEF Damping, PlanCommand
  <2> QED BY <2>1, <2>2, <2>3, <2>4 DEF Contract!Send
<1>5. CASE InController
  <2>1. loop' = loop /\ sent' = sent
    BY <1>5 DEF InController, loopVars
  <2>2. Driven' = Driven
    BY <1>5, <2>1, RtStepStays DEF InController, CallsMatch
  <2>3. cstate' \in {"initialized", "running", "stopped"}
    BY StepImplementsController, TypeStep DEF ControllerTypeOK
  <2> QED BY <2>1, <2>2, <2>3 DEF Contract!Switch
<1>6. CASE MpcThread \/ Destructor \/ Signal \/ Services \/ Main
  <2>1. UNCHANGED <<loop, joint>>
    BY <1>6, OthersLeaveTheLoop
  <2>2. sent' = sent
    BY <1>6 DEF MpcThread, Destructor, Signal, Services, Main, RequestSwitch, Unload,
                StopLoop, LoopJoined, Exit, loopVars
  <2> QED BY <2>1, <2>2 DEF Contract!Switch
<1>7. CASE CheckRunning \/ SkipUpdate \/ StopReturns \/ StartReturns \/ SwitchDone
  BY <1>7 DEF CheckRunning, SkipUpdate, StopReturns, StartReturns, SwitchDone,
              controllerVars, ctrlVars
<1>8. CASE SwitchStop \/ SwitchStart
  BY <1>8 DEF SwitchStop, SwitchStart, StopRequest, StartRequest
<1>9. CASE UNCHANGED allVars
  BY <1>9 DEF allVars, controllerVars, ctrlVars, loopVars
<1> QED
  BY <1>1, <1>2, <1>3, <1>4, <1>5, <1>6, <1>7, <1>8, <1>9 DEF LoopNext, LoopThread

\* A cycle drives the motors only if the controller was enabled at its turn in
\* that cycle; every other cycle sends pure damping.
THEOREM LoopKeepsContract == LoopSpec => ContractSpec
<1>1. LoopInit => Contract!Init
  BY DEF LoopInit, ControllerInit, Contract!Init
<1> QED
  BY <1>1, LoopInductive, StepKeepsContract, PTL DEF LoopSpec, ContractSpec, Contract!Spec
=============================================================================
