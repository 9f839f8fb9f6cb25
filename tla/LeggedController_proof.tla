----------------------- MODULE LeggedController_proof -----------------------
(***************************************************************************)
(* Proofs about LeggedController: type correctness, that the rt and the    *)
(* MPC thread never advance the MPC together, that a running controller    *)
(* has a policy, that a stopped one does not ask for more, and that an     *)
(* update never takes an older policy; then what every call and the MPC    *)
(* thread's end come nearer to at each step; and under which condition     *)
(* three expectations hold that are not met otherwise.                     *)
(***************************************************************************)
EXTENDS LeggedController, TLAPS

-----------------------------------------------------------------------------
(* The inductive invariant.                                                *)

\* starting() advances the MPC only before the first policy ever, when the MPC
\* thread has not been let loose.
StartAdvancesAlone ==
  rt \in RtAdvance => ~policyReceived /\ ~mpcRunning /\ mpc \notin MpcAdvance

\* The MPC thread is let loose, and the controller runs, only after a first
\* policy, or after ROS went down.
PolicyCameFirst ==
  mpcRunning \/ mpc \in MpcAdvance \/ cstate = "running" \/ rt \in {"run", "enable"}
    => policyReceived \/ ~rosOk

\* A policy that was received is in the buffer or active.
PolicyIsKept ==
  /\ policyReceived => LatestPolicy # NoPolicy
  /\ newPolicy => buffer # NoPolicy

\* mpcRunning_ is set for a running controller, except while starting() has
\* not returned to startRequest(), or after the MPC thread gave up.
SolverServesRunning ==
  /\ controllerRunning /\ mpcRunning => cstate = "running" \/ rt = "enable"
  /\ rt \in {"disable", "latch"} => ~mpcRunning
  /\ mpc \in {"halt", "disable"} => ~controllerRunning

\* Stamps: nothing is newer than the observation, and what a thread works on
\* is not older than the newest policy.
StampsInOrder ==
  /\ time = observation
  /\ \A th \in Threads : copied[th] <= observation
  /\ LatestPolicy <= observation
  /\ newPolicy => active <= buffer
  /\ rt \in {"rtSolve", "rtStore"} => LatestPolicy <= copied["rt"]
  /\ mpc \in {"solve", "store"} => LatestPolicy <= copied["mpc"]

ControllerInv ==
  /\ ControllerTypeOK
  /\ StartAdvancesAlone
  /\ PolicyCameFirst
  /\ PolicyIsKept
  /\ SolverServesRunning
  /\ StampsInOrder

-----------------------------------------------------------------------------
(* The initial states satisfy it.                                          *)

\* After init() every variable has its type.
LEMMA InitType == ControllerInit => ControllerTypeOK
<1> SUFFICES ASSUME ControllerInit PROVE ControllerTypeOK
  OBVIOUS
<1>1. controllerRunning \in BOOLEAN /\ mpcRunning \in BOOLEAN /\ rosOk \in BOOLEAN
  BY Zenon DEF ControllerInit
<1>2. newPolicy \in BOOLEAN /\ policyReceived \in BOOLEAN
  BY Zenon DEF ControllerInit, MrtInit
<1>3. MrtTypeOK
  BY <1>2, MaxTimeAssumption DEF ControllerInit, MrtInit, MrtTypeOK, Threads, Times, Policies, NoPolicy
<1>4. joint \in JointCommands
  BY DEF ControllerInit, NoCommand, JointCommands, Sources, Gains
<1> QED
  BY <1>1, <1>3, <1>4, MaxTimeAssumption
     DEF ControllerInit, ControllerTypeOK, RtPCs, MpcPCs, Times

\* After init() the whole invariant holds: both threads are outside the solver.
LEMMA InitInv == ControllerInit => ControllerInv
<1> SUFFICES ASSUME ControllerInit PROVE ControllerInv
  OBVIOUS
<1>1. ControllerTypeOK
  BY InitType
<1>2. ~mpcRunning /\ ~newPolicy /\ ~policyReceived
  BY Zenon DEF ControllerInit, MrtInit
<1>3. StartAdvancesAlone /\ PolicyCameFirst /\ SolverServesRunning
  BY <1>2 DEF ControllerInit, StartAdvancesAlone, PolicyCameFirst, SolverServesRunning,
              RtAdvance, MpcAdvance
<1>4. PolicyIsKept /\ StampsInOrder
  BY <1>2 DEF ControllerInit, MrtInit, PolicyIsKept, StampsInOrder, LatestPolicy, Threads,
              NoPolicy
<1> QED BY <1>1, <1>3, <1>4 DEF ControllerInv

-----------------------------------------------------------------------------
(* Every step preserves it.                                                *)

\* No step of either thread, of a caller or of the surroundings leaves the types.
LEMMA TypeStep ==
  ControllerTypeOK /\ [ControllerNext]_controllerVars => ControllerTypeOK'
<1> SUFFICES ASSUME ControllerTypeOK, [ControllerNext]_controllerVars
             PROVE  ControllerTypeOK'
  OBVIOUS
<1> USE MaxTimeAssumption DEF ControllerTypeOK, MrtTypeOK, Threads, Times, Policies, NoPolicy,
        RtPCs, MpcPCs, StartPCs, UpdatePCs, StopPCs, JointCommands, Sources, Gains
<1>1. CASE RtStep
  <2>1. CASE StartObserve
    BY <2>1 DEF StartObserve, Observe, RtGoto, Tick, SetObservation
  <2>2. CASE AwaitPolicy
    BY <2>2 DEF AwaitPolicy, RtGoto, mrtVars
  <2>3. CASE RtCopyObservation
    BY <2>3 DEF RtCopyObservation, RtGoto, CopyObservation
  <2>4. CASE RtSolve
    BY <2>4 DEF RtSolve, RtGoto, mrtVars
  <2>5. CASE RtSolveThrows
    BY <2>5 DEF RtSolveThrows, RtGoto, mrtVars
  <2>6. CASE RtStorePolicy
    BY <2>6 DEF RtStorePolicy, RtGoto, StorePolicy
  <2>7. CASE RunMpc
    BY <2>7 DEF RunMpc, RtGoto, mrtVars
  <2>8. CASE EnableController
    BY <2>8 DEF EnableController, RtGoto, mrtVars
  <2>9. CASE UpdateObserve
    BY <2>9 DEF UpdateObserve, Observe, RtGoto, Tick, SetObservation
  <2>10. CASE LoadPolicy
    <3>1. newPolicy' \in BOOLEAN
      BY <2>10, ZenonT(30) DEF LoadPolicy, UpdatePolicy, mrtVars
    <3> QED BY <2>10, <3>1 DEF LoadPolicy, RtGoto, UpdatePolicy, mrtVars
  <2>11. CASE EvaluatePolicy
    BY <2>11 DEF EvaluatePolicy, RtGoto, mrtVars
  <2>12. CASE EvaluateNothing
    BY <2>12 DEF EvaluateNothing, RtGoto, mrtVars
  <2>13. CASE SafetyStop
    <3>1. mpcRunning' \in BOOLEAN
      BY <2>13, ZenonT(30) DEF SafetyStop, Stopping, DisableController
    <3> QED BY <2>13, <3>1 DEF SafetyStop, Stopping, DisableController, RtGoto, mrtVars
  <2>14. CASE Command
    BY <2>14 DEF Command, RtGoto, mrtVars, PlanCommand
  <2>15. CASE Stop
    <3>1. mpcRunning' \in BOOLEAN
      BY <2>15, ZenonT(30) DEF Stop, Stopping, DisableController
    <3> QED BY <2>15, <3>1 DEF Stop, Stopping, DisableController, RtGoto, mrtVars
  <2> QED BY <1>1, <2>1, <2>2, <2>3, <2>4, <2>5, <2>6, <2>7, <2>8, <2>9, <2>10, <2>11, <2>12, <2>13, <2>14, <2>15 DEF RtStep
<1>2. CASE MpcStep
  <2>1. CASE MpcLoop
    BY <2>1 DEF MpcLoop, MpcGoto, mrtVars
  <2>2. CASE MpcGate
    BY <2>2 DEF MpcGate, MpcGoto, mrtVars
  <2>3. CASE MpcCopyObservation
    BY <2>3 DEF MpcCopyObservation, MpcGoto, CopyObservation
  <2>4. CASE MpcSolve
    BY <2>4 DEF MpcSolve, MpcGoto, mrtVars
  <2>5. CASE MpcStorePolicy
    BY <2>5 DEF MpcStorePolicy, MpcGoto, StorePolicy
  <2>6. CASE MpcFail
    <3>1. controllerRunning' \in BOOLEAN
      BY <2>6, ZenonT(30) DEF MpcFail
    <3> QED BY <2>6, <3>1 DEF MpcFail, MpcGoto, mrtVars
  <2>7. CASE MpcStopping
    <3>1. mpcRunning' \in BOOLEAN
      BY <2>7, ZenonT(30) DEF MpcStopping
    <3> QED BY <2>7, <3>1 DEF MpcStopping, MpcGoto, mrtVars
  <2>8. CASE MpcDisable
    BY <2>8 DEF MpcDisable, MpcGoto, mrtVars
  <2> QED BY <1>2, <2>1, <2>2, <2>3, <2>4, <2>5, <2>6, <2>7, <2>8 DEF MpcStep
<1>3. CASE Caller
  <2>1. CASE UpdateRequest
    BY <2>1 DEF UpdateRequest, RtGoto, mrtVars
  <2>2. CASE StartRequest
    BY <2>2 DEF StartRequest, RtGoto, mrtVars
  <2>3. CASE StopRequest
    BY <2>3 DEF StopRequest, RtGoto, mrtVars
  <2>4. CASE BeginDestroy
    <3>1. controllerRunning' \in BOOLEAN
      BY <2>4, ZenonT(30) DEF BeginDestroy
    <3> QED BY <2>4, <3>1 DEF BeginDestroy, mrtVars
  <2>5. CASE HardwareRead
    <3>1. joint' \in JointCommands
      BY <2>5 DEF HardwareRead
    <3> QED BY <2>5, <3>1 DEF HardwareRead, mrtVars
  <2> QED BY <1>3, <2>1, <2>2, <2>3, <2>4, <2>5 DEF Caller
<1>4. CASE JoinMpcThread
  BY <1>4 DEF JoinMpcThread, mrtVars
<1>5. CASE RosShutdown
  <2>1. rosOk' \in BOOLEAN
    BY <1>5, ZenonT(30) DEF RosShutdown
  <2> QED BY <1>5, <2>1 DEF RosShutdown, mrtVars
<1>6. CASE UNCHANGED controllerVars
  BY <1>6 DEF controllerVars, ctrlVars, mrtVars
<1> QED BY <1>1, <1>2, <1>3, <1>4, <1>5, <1>6 DEF ControllerNext

\* The part of the invariant that relates the two threads is kept: who is
\* inside advanceMpc(), and what the flags say while they are there.
LEMMA ThreadsStep ==
  /\ ControllerTypeOK /\ ControllerTypeOK'
  /\ StartAdvancesAlone /\ PolicyCameFirst /\ SolverServesRunning
  /\ [ControllerNext]_controllerVars
  => StartAdvancesAlone' /\ PolicyCameFirst' /\ SolverServesRunning'
<1> SUFFICES ASSUME ControllerTypeOK, ControllerTypeOK',
                    StartAdvancesAlone, PolicyCameFirst, SolverServesRunning,
                    [ControllerNext]_controllerVars
             PROVE  StartAdvancesAlone' /\ PolicyCameFirst' /\ SolverServesRunning'
  OBVIOUS
<1> USE DEF ControllerTypeOK, MrtTypeOK, StartAdvancesAlone, PolicyCameFirst, SolverServesRunning,
        RtAdvance, MpcAdvance
<1>1. CASE RtStep
  <2>1. CASE StartObserve
    BY <2>1 DEF StartObserve, Observe, RtGoto, Tick, SetObservation
  <2>2. CASE AwaitPolicy
    BY <2>2 DEF AwaitPolicy, RtGoto, mrtVars
  <2>3. CASE RtCopyObservation
    BY <2>3 DEF RtCopyObservation, RtGoto, CopyObservation
  <2>4. CASE RtSolve
    BY <2>4 DEF RtSolve, RtGoto, mrtVars
  <2>5. CASE RtSolveThrows
    BY <2>5 DEF RtSolveThrows, RtGoto, mrtVars
  <2>6. CASE RtStorePolicy
    BY <2>6 DEF RtStorePolicy, RtGoto, StorePolicy
  <2>7. CASE RunMpc
    BY <2>7 DEF RunMpc, RtGoto, mrtVars
  <2>8. CASE EnableController
    BY <2>8 DEF EnableController, RtGoto, mrtVars
  <2>9. CASE UpdateObserve
    BY <2>9 DEF UpdateObserve, Observe, RtGoto, Tick, SetObservation
  <2>10. CASE LoadPolicy
    BY <2>10 DEF LoadPolicy, RtGoto, UpdatePolicy, mrtVars
  <2>11. CASE EvaluatePolicy
    BY <2>11 DEF EvaluatePolicy, RtGoto, mrtVars
  <2>12. CASE EvaluateNothing
    BY <2>12 DEF EvaluateNothing, RtGoto, mrtVars
  <2>13. CASE SafetyStop
    BY <2>13 DEF SafetyStop, Stopping, DisableController, RtGoto, mrtVars
  <2>14. CASE Command
    BY <2>14 DEF Command, RtGoto, mrtVars, PlanCommand
  <2>15. CASE Stop
    BY <2>15 DEF Stop, Stopping, DisableController, RtGoto, mrtVars
  <2> QED BY <1>1, <2>1, <2>2, <2>3, <2>4, <2>5, <2>6, <2>7, <2>8, <2>9, <2>10, <2>11, <2>12, <2>13, <2>14, <2>15 DEF RtStep
<1>2. CASE MpcStep
  <2>1. CASE MpcLoop
    BY <2>1 DEF MpcLoop, MpcGoto, mrtVars
  <2>2. CASE MpcGate
    BY <2>2 DEF MpcGate, MpcGoto, mrtVars
  <2>3. CASE MpcCopyObservation
    BY <2>3 DEF MpcCopyObservation, MpcGoto, CopyObservation
  <2>4. CASE MpcSolve
    BY <2>4 DEF MpcSolve, MpcGoto, mrtVars
  <2>5. CASE MpcStorePolicy
    BY <2>5 DEF MpcStorePolicy, MpcGoto, StorePolicy
  <2>6. CASE MpcFail
    BY <2>6 DEF MpcFail, MpcGoto, mrtVars
  <2>7. CASE MpcStopping
    BY <2>7 DEF MpcStopping, MpcGoto, mrtVars
  <2>8. CASE MpcDisable
    BY <2>8 DEF MpcDisable, MpcGoto, mrtVars
  <2> QED BY <1>2, <2>1, <2>2, <2>3, <2>4, <2>5, <2>6, <2>7, <2>8 DEF MpcStep
<1>3. CASE Caller
  <2>1. CASE UpdateRequest
    BY <2>1 DEF UpdateRequest, RtGoto, mrtVars
  <2>2. CASE StartRequest
    BY <2>2 DEF StartRequest, RtGoto, mrtVars
  <2>3. CASE StopRequest
    BY <2>3 DEF StopRequest, RtGoto, mrtVars
  <2>4. CASE BeginDestroy
    BY <2>4 DEF BeginDestroy, mrtVars
  <2>5. CASE HardwareRead
    BY <2>5 DEF HardwareRead, mrtVars
  <2> QED BY <1>3, <2>1, <2>2, <2>3, <2>4, <2>5 DEF Caller
<1>4. CASE JoinMpcThread
  BY <1>4 DEF JoinMpcThread, mrtVars
<1>5. CASE RosShutdown
  BY <1>5 DEF RosShutdown, mrtVars
<1>6. CASE UNCHANGED controllerVars
  BY <1>6 DEF controllerVars, ctrlVars, mrtVars
<1> QED BY <1>1, <1>2, <1>3, <1>4, <1>5, <1>6 DEF ControllerNext

\* The part about policies is kept: stamps in the hand-over never run ahead
\* of the observation, and the buffer never falls behind the active policy.
LEMMA PolicyStep ==
  /\ ControllerTypeOK /\ ControllerTypeOK'
  /\ StartAdvancesAlone /\ PolicyIsKept /\ StampsInOrder
  /\ [ControllerNext]_controllerVars
  => PolicyIsKept' /\ StampsInOrder'
<1> SUFFICES ASSUME ControllerTypeOK, ControllerTypeOK',
                    StartAdvancesAlone, PolicyIsKept, StampsInOrder,
                    [ControllerNext]_controllerVars
             PROVE  PolicyIsKept' /\ StampsInOrder'
  OBVIOUS
<1> USE MaxTimeAssumption DEF ControllerTypeOK, MrtTypeOK, StartAdvancesAlone, PolicyIsKept, StampsInOrder,
        LatestPolicy, Threads, Times, Policies, NoPolicy, RtAdvance, MpcAdvance
<1>1. CASE RtStep
  <2>1. CASE StartObserve
    BY <2>1 DEF StartObserve, Observe, RtGoto, Tick, SetObservation
  <2>2. CASE AwaitPolicy
    BY <2>2 DEF AwaitPolicy, RtGoto, mrtVars
  <2>3. CASE RtCopyObservation
    BY <2>3 DEF RtCopyObservation, RtGoto, CopyObservation
  <2>4. CASE RtSolve
    BY <2>4 DEF RtSolve, RtGoto, mrtVars
  <2>5. CASE RtSolveThrows
    BY <2>5 DEF RtSolveThrows, RtGoto, mrtVars
  <2>6. CASE RtStorePolicy
    BY <2>6 DEF RtStorePolicy, RtGoto, StorePolicy
  <2>7. CASE RunMpc
    BY <2>7 DEF RunMpc, RtGoto, mrtVars
  <2>8. CASE EnableController
    BY <2>8 DEF EnableController, RtGoto, mrtVars
  <2>9. CASE UpdateObserve
    BY <2>9 DEF UpdateObserve, Observe, RtGoto, Tick, SetObservation
  <2>10. CASE LoadPolicy
    BY <2>10 DEF LoadPolicy, RtGoto, UpdatePolicy, mrtVars
  <2>11. CASE EvaluatePolicy
    BY <2>11 DEF EvaluatePolicy, RtGoto, mrtVars
  <2>12. CASE EvaluateNothing
    BY <2>12 DEF EvaluateNothing, RtGoto, mrtVars
  <2>13. CASE SafetyStop
    BY <2>13 DEF SafetyStop, Stopping, DisableController, RtGoto, mrtVars
  <2>14. CASE Command
    BY <2>14 DEF Command, RtGoto, mrtVars, PlanCommand
  <2>15. CASE Stop
    BY <2>15 DEF Stop, Stopping, DisableController, RtGoto, mrtVars
  <2> QED BY <1>1, <2>1, <2>2, <2>3, <2>4, <2>5, <2>6, <2>7, <2>8, <2>9, <2>10, <2>11, <2>12, <2>13, <2>14, <2>15 DEF RtStep
<1>2. CASE MpcStep
  <2>1. CASE MpcLoop
    BY <2>1 DEF MpcLoop, MpcGoto, mrtVars
  <2>2. CASE MpcGate
    BY <2>2 DEF MpcGate, MpcGoto, mrtVars
  <2>3. CASE MpcCopyObservation
    BY <2>3 DEF MpcCopyObservation, MpcGoto, CopyObservation
  <2>4. CASE MpcSolve
    BY <2>4 DEF MpcSolve, MpcGoto, mrtVars
  <2>5. CASE MpcStorePolicy
    BY <2>5 DEF MpcStorePolicy, MpcGoto, StorePolicy
  <2>6. CASE MpcFail
    BY <2>6 DEF MpcFail, MpcGoto, mrtVars
  <2>7. CASE MpcStopping
    BY <2>7 DEF MpcStopping, MpcGoto, mrtVars
  <2>8. CASE MpcDisable
    BY <2>8 DEF MpcDisable, MpcGoto, mrtVars
  <2> QED BY <1>2, <2>1, <2>2, <2>3, <2>4, <2>5, <2>6, <2>7, <2>8 DEF MpcStep
<1>3. CASE Caller
  <2>1. CASE UpdateRequest
    BY <2>1 DEF UpdateRequest, RtGoto, mrtVars
  <2>2. CASE StartRequest
    BY <2>2 DEF StartRequest, RtGoto, mrtVars
  <2>3. CASE StopRequest
    BY <2>3 DEF StopRequest, RtGoto, mrtVars
  <2>4. CASE BeginDestroy
    BY <2>4 DEF BeginDestroy, mrtVars
  <2>5. CASE HardwareRead
    BY <2>5 DEF HardwareRead, mrtVars
  <2> QED BY <1>3, <2>1, <2>2, <2>3, <2>4, <2>5 DEF Caller
<1>4. CASE JoinMpcThread
  BY <1>4 DEF JoinMpcThread, mrtVars
<1>5. CASE RosShutdown
  BY <1>5 DEF RosShutdown, mrtVars
<1>6. CASE UNCHANGED controllerVars
  BY <1>6 DEF controllerVars, ctrlVars, mrtVars
<1> QED BY <1>1, <1>2, <1>3, <1>4, <1>5, <1>6 DEF ControllerNext

\* The invariant is inductive.
LEMMA InvStep == ControllerInv /\ [ControllerNext]_controllerVars => ControllerInv'
BY TypeStep, ThreadsStep, PolicyStep DEF ControllerInv

-----------------------------------------------------------------------------
(* What follows.                                                           *)

\* The inductive invariant holds in every reachable state.
THEOREM Inductive == ControllerSpec => []ControllerInv
BY InitInv, InvStep, PTL DEF ControllerSpec

\* Every variable keeps to its type, with one owner of each program counter
\* and stamps within the bound.
THEOREM TypeCorrect == ControllerSpec => []ControllerTypeOK
<1>1. ControllerInv => ControllerTypeOK
  BY DEF ControllerInv
<1> QED BY <1>1, Inductive, PTL

\* starting() on the real-time thread and the MPC thread are never both inside
\* advanceMpc(), however requests, failures and shutdown interleave.
THEOREM MutualExclusion == ControllerSpec => []OneAdvanceAtATime
<1>1. ControllerInv => OneAdvanceAtATime
  BY DEF ControllerInv, StartAdvancesAlone, OneAdvanceAtATime
<1> QED BY <1>1, Inductive, PTL

\* A controller that runs while ROS is up has a policy to evaluate.
THEOREM PolicyAvailable == ControllerSpec => []RunningHasPolicy
<1>1. ControllerInv => RunningHasPolicy
  BY DEF ControllerInv, PolicyCameFirst, PolicyIsKept, RunningHasPolicy
<1> QED BY <1>1, Inductive, PTL

\* A stopped controller whose MPC thread lives has the solver switched off.
THEOREM SolverRests == ControllerSpec => []StoppedSolverRests
<1>1. ControllerInv => StoppedSolverRests
  BY DEF ControllerInv, SolverServesRunning, StoppedSolverRests
<1> QED BY <1>1, Inductive, PTL

\* update() never goes back to an older policy.
THEOREM PolicyMonotone == ControllerSpec => PolicyNeverOlder
<1>1. ControllerInv /\ [ControllerNext]_controllerVars => [active' >= active]_active
  <2> SUFFICES ASSUME ControllerInv, [ControllerNext]_controllerVars, active' # active
               PROVE  active' >= active
    OBVIOUS
  <2>1. LoadPolicy
    BY DEF ControllerNext, controllerVars, mrtVars, RtStep, MpcStep, Caller,
           StartObserve, AwaitPolicy, RtCopyObservation, RtSolve, RtSolveThrows, RtStorePolicy,
           RunMpc, EnableController, UpdateObserve, EvaluatePolicy, EvaluateNothing,
           SafetyStop, Command, Stop, Stopping, DisableController, Observe,
           MpcLoop, MpcGate, MpcCopyObservation, MpcSolve, MpcStorePolicy, MpcFail,
           MpcStopping, MpcDisable, JoinMpcThread, UpdateRequest, StartRequest, StopRequest,
           BeginDestroy, HardwareRead, RosShutdown, SetObservation, CopyObservation, StorePolicy
  <2>2. newPolicy /\ active' = buffer
    BY <2>1 DEF LoadPolicy, UpdatePolicy, mrtVars
  <2> QED
    BY <2>2, MaxTimeAssumption
       DEF ControllerInv, ControllerTypeOK, MrtTypeOK, Policies, NoPolicy, Times, StampsInOrder
<1> QED BY <1>1, Inductive, PTL DEF ControllerSpec, PolicyNeverOlder
-----------------------------------------------------------------------------
(* Calls and threads come to their ends.                                   *)

\* Every step of the rt thread inside a call leads on towards its end, unless it goes
\* round the start loop once more.
LEMMA RtStepReturns ==
  ASSUME RtStep, ~(rt \in StartPCs /\ rosOk /\ ~policyReceived)
  PROVE  CallSteps[rt'] < CallSteps[rt]
<1> USE DEF RtGoto, CallSteps
<1>1. CASE StartObserve \/ UpdateObserve
  BY <1>1 DEF StartObserve, UpdateObserve, Observe
<1>2. CASE AwaitPolicy
  <2>1. rt = "wait" /\ rt' = "run"
    BY <1>2 DEF AwaitPolicy, StartPCs
  <2> QED BY <2>1
<1>3. CASE RtCopyObservation \/ RtStorePolicy \/ RunMpc \/ EnableController
  BY <1>3 DEF RtCopyObservation, RtStorePolicy, RunMpc, EnableController
<1>4. CASE RtSolve \/ RtSolveThrows
  BY <1>4 DEF RtSolve, RtSolveThrows
<1>5. CASE LoadPolicy \/ EvaluatePolicy \/ EvaluateNothing \/ Command
  BY <1>5 DEF LoadPolicy, EvaluatePolicy, EvaluateNothing, Command
<1>6. CASE SafetyStop \/ Stop
  BY <1>6 DEF SafetyStop, Stop, Stopping, DisableController
<1> QED
  BY <1>1, <1>2, <1>3, <1>4, <1>5, <1>6 DEF RtStep

\* Nobody but the rt thread moves it out of a call.
LEMMA OthersLeaveTheCall ==
  ASSUME [ControllerNext]_controllerVars, rt # "idle", ~RtStep
  PROVE  rt' = rt
BY DEF ControllerNext, controllerVars, ctrlVars, MpcStep, Caller, MpcLoop, MpcGate,
       MpcCopyObservation, MpcSolve, MpcStorePolicy, MpcFail, MpcStopping, MpcDisable,
       JoinMpcThread, UpdateRequest, StartRequest, StopRequest, RtGoto, RosShutdown

\* However long the MPC thread is away in its solver, no call of the controller lasts
\* for more than its own steps, but for a start that waits for a first policy.
THEOREM CallsReturn == ControllerSpec => CallReturns
<1>1. [ControllerNext]_controllerVars =>
        [rt # "idle" /\ ~(rt \in StartPCs /\ rosOk /\ ~policyReceived)
           => CallSteps[rt'] < CallSteps[rt]]_rt
  BY RtStepReturns, OthersLeaveTheCall
<1> QED
  BY <1>1, PTL DEF ControllerSpec, CallReturns

\* A step of the MPC thread leads on towards its end once its loop is told to end.
LEMMA MpcStepEnds ==
  ASSUME MpcStep, ~controllerRunning
  PROVE  MpcSteps[mpc'] < MpcSteps[mpc]
<1> USE DEF MpcGoto, MpcSteps
<1>1. CASE MpcLoop \/ MpcCopyObservation \/ MpcStorePolicy
  BY <1>1 DEF MpcLoop, MpcCopyObservation, MpcStorePolicy
<1>2. CASE MpcGate
  BY <1>2 DEF MpcGate
<1>3. CASE MpcSolve
  BY <1>3 DEF MpcSolve
<1>4. CASE MpcFail \/ MpcStopping \/ MpcDisable
  BY <1>4 DEF MpcFail, MpcStopping, MpcDisable
<1> QED
  BY <1>1, <1>2, <1>3, <1>4 DEF MpcStep

\* The destructor joins a thread whose loop it has told to end.
JoinsAnEndingThread == life = "joining" => ~controllerRunning

\* Nothing sets controllerRunning_ again, and nothing brings the object back.
LEMMA JoinStep ==
  ASSUME JoinsAnEndingThread, [ControllerNext]_controllerVars
  PROVE  JoinsAnEndingThread' /\ (mpc' = mpc \/ MpcStep)
<1> USE DEF JoinsAnEndingThread
<1>1. CASE RtStep
  BY <1>1 DEF RtStep, StartObserve, AwaitPolicy, RtCopyObservation, RtSolve, RtSolveThrows,
              RtStorePolicy, RunMpc, EnableController, UpdateObserve, LoadPolicy, EvaluatePolicy,
              EvaluateNothing, SafetyStop, Command, Stop, Stopping, DisableController, Observe,
              RtGoto
<1>2. CASE MpcStep
  <2>1. life' = life /\ (controllerRunning' = controllerRunning \/ ~controllerRunning')
    BY <1>2 DEF MpcStep, MpcLoop, MpcGate, MpcCopyObservation, MpcSolve, MpcStorePolicy, MpcFail,
                MpcStopping, MpcDisable
  <2> QED BY <1>2, <2>1
<1>3. CASE Caller
  <2>1. CASE BeginDestroy
    BY <2>1 DEF BeginDestroy
  <2>2. CASE UpdateRequest \/ StartRequest \/ StopRequest \/ HardwareRead
    BY <2>2 DEF UpdateRequest, StartRequest, StopRequest, HardwareRead
  <2> QED BY <1>3, <2>1, <2>2 DEF Caller
<1>4. CASE JoinMpcThread \/ RosShutdown
  BY <1>4 DEF JoinMpcThread, RosShutdown
<1>5. CASE UNCHANGED controllerVars
  BY <1>5 DEF controllerVars, ctrlVars
<1> QED
  BY <1>1, <1>2, <1>3, <1>4, <1>5 DEF ControllerNext

\* From the destructor's look at the MPC thread on, that thread goes only towards its
\* exit: no solution, exception or flag sends it round its loop again.
THEOREM JoinedThreadEnds == ControllerSpec => MpcThreadEnds
<1>1. ControllerInit => JoinsAnEndingThread
  BY DEF ControllerInit, JoinsAnEndingThread
<1>2. JoinsAnEndingThread /\ [ControllerNext]_controllerVars => JoinsAnEndingThread'
  BY JoinStep
<1>3. JoinsAnEndingThread /\ [ControllerNext]_controllerVars =>
        [life = "joining" => MpcSteps[mpc'] < MpcSteps[mpc]]_mpc
  <2> SUFFICES ASSUME JoinsAnEndingThread, [ControllerNext]_controllerVars,
                      mpc' # mpc, life = "joining"
               PROVE  MpcSteps[mpc'] < MpcSteps[mpc]
    OBVIOUS
  <2>1. MpcStep
    BY JoinStep
  <2> QED BY <2>1, MpcStepEnds DEF JoinsAnEndingThread
<1> QED
  BY <1>1, <1>2, <1>3, PTL DEF ControllerSpec, MpcThreadEnds
-----------------------------------------------------------------------------
(* The first start.                                                        *)

\* Before the controller first runs nobody updates it, nobody but starting() advances
\* the MPC until it has returned, and what it stores is for the observation it set.
FirstStart ==
  cstate = "initialized" =>
    /\ rt \notin UpdatePCs
    /\ mpcRunning \/ mpc \notin {"loop", "gate", "exited"} => rt = "enable"
    /\ rt \in {"run", "enable"} => policyReceived \/ ~rosOk
    /\ policyReceived => rt \in {"wait", "run", "enable"} /\ LatestPolicy >= observation
    /\ rt \in {"rtSolve", "rtStore"} => copied["rt"] >= observation
    /\ mpc \in {"solve", "store"} => copied["mpc"] >= observation

\* Every step keeps that, or ends the first start.
LEMMA FirstStartStep ==
  ASSUME ControllerTypeOK, ControllerTypeOK', FirstStart, [ControllerNext]_controllerVars
  PROVE  FirstStart'
<1> USE MaxTimeAssumption DEF ControllerTypeOK, MrtTypeOK, FirstStart, LatestPolicy, Threads, Times,
        Policies, NoPolicy, UpdatePCs, RtGoto, MpcGoto
<1>1. CASE RtStep
  <2>1. CASE StartObserve \/ UpdateObserve
    BY <2>1 DEF StartObserve, UpdateObserve, Observe, SetObservation
  <2>2. CASE AwaitPolicy
    BY <2>2 DEF AwaitPolicy, mrtVars
  <2>3. CASE RtCopyObservation
    BY <2>3 DEF RtCopyObservation, CopyObservation
  <2>4. CASE RtSolve \/ RtSolveThrows
    BY <2>4 DEF RtSolve, RtSolveThrows, mrtVars
  <2>5. CASE RtStorePolicy
    BY <2>5 DEF RtStorePolicy, StorePolicy
  <2>6. CASE RunMpc
    BY <2>6 DEF RunMpc, mrtVars
  <2>7. CASE EnableController
    BY <2>7 DEF EnableController
  <2>8. CASE LoadPolicy
    BY <2>8 DEF LoadPolicy
  <2>9. CASE EvaluatePolicy \/ EvaluateNothing \/ Command
    BY <2>9 DEF EvaluatePolicy, EvaluateNothing, Command
  <2>10. CASE SafetyStop \/ Stop
    BY <2>10 DEF SafetyStop, Stop, Stopping, DisableController, mrtVars
  <2> QED BY <1>1, <2>1, <2>2, <2>3, <2>4, <2>5, <2>6, <2>7, <2>8, <2>9, <2>10 DEF RtStep
<1>2. CASE MpcStep
  <2>1. CASE MpcLoop \/ MpcGate
    BY <2>1 DEF MpcLoop, MpcGate, mrtVars
  <2>2. CASE MpcCopyObservation
    BY <2>2 DEF MpcCopyObservation, CopyObservation
  <2>3. CASE MpcSolve
    BY <2>3 DEF MpcSolve, mrtVars
  <2>4. CASE MpcStorePolicy
    BY <2>4 DEF MpcStorePolicy, StorePolicy
  <2>5. CASE MpcFail
    BY <2>5 DEF MpcFail, mrtVars
  <2>6. CASE MpcStopping \/ MpcDisable
    BY <2>6 DEF MpcStopping, MpcDisable, mrtVars
  <2> QED BY <1>2, <2>1, <2>2, <2>3, <2>4, <2>5, <2>6 DEF MpcStep
<1>3. CASE Caller
  <2>1. CASE UpdateRequest \/ StartRequest \/ StopRequest
    BY <2>1 DEF UpdateRequest, StartRequest, StopRequest, mrtVars
  <2>2. CASE rt = "idle" /\ (BeginDestroy \/ HardwareRead)
    BY <2>2 DEF BeginDestroy, HardwareRead, mrtVars
  <2> QED BY <1>3, <2>1, <2>2 DEF Caller
<1>4. CASE JoinMpcThread \/ RosShutdown
  BY <1>4 DEF JoinMpcThread, RosShutdown, mrtVars
<1>5. CASE UNCHANGED controllerVars
  BY <1>5 DEF controllerVars, ctrlVars, mrtVars
<1> QED
  BY <1>1, <1>2, <1>3, <1>4, <1>5 DEF ControllerNext

\* When the first start returns with ROS up, the newest policy was computed for the
\* observation it set: what a later start may skip, the first one does.
THEOREM FirstStartWaits == ControllerSpec => []FirstStartIsFresh
<1>1. ControllerInit => FirstStart
  <2> SUFFICES ASSUME ControllerInit PROVE FirstStart
    OBVIOUS
  <2>1. ~mpcRunning /\ ~policyReceived
    BY Zenon DEF ControllerInit, MrtInit
  <2> QED BY <2>1 DEF ControllerInit, FirstStart, UpdatePCs
<1>2. ControllerInv /\ ControllerInv' /\ FirstStart /\ [ControllerNext]_controllerVars => FirstStart'
  BY FirstStartStep DEF ControllerInv
<1>3. FirstStart => FirstStartIsFresh
  BY DEF FirstStart, FirstStartIsFresh, StartHasFreshPolicy
<1> QED
  BY <1>1, <1>2, <1>3, Inductive, PTL DEF ControllerSpec

-----------------------------------------------------------------------------
(* What would have to be ruled out.                                        *)

\* update() has a policy to evaluate, or ROS is down.
UpdateHasPolicy ==
  /\ rt \in UpdatePCs => policyReceived \/ ~rosOk
  /\ UpdateEvaluatesPolicy

\* It has one after every step but a load that meets the MPC thread's store.
LEMMA UpdateHasPolicyStep ==
  ASSUME ControllerInv, UpdateHasPolicy, [ControllerNext]_controllerVars,
         LoadPolicy => mpc # "store"
  PROVE  UpdateHasPolicy'
<1> USE DEF ControllerInv, ControllerTypeOK, MrtTypeOK, UpdateHasPolicy, UpdateEvaluatesPolicy,
        UpdatePCs, RtGoto, MpcGoto
<1>1. CASE RtStep
  <2>1. CASE StartObserve \/ UpdateObserve
    BY <2>1 DEF StartObserve, UpdateObserve, Observe, SetObservation
  <2>2. CASE AwaitPolicy \/ RtCopyObservation \/ RtSolve \/ RtSolveThrows \/ RtStorePolicy
             \/ RunMpc \/ EnableController
    BY <2>2 DEF AwaitPolicy, RtCopyObservation, RtSolve, RtSolveThrows, RtStorePolicy, RunMpc,
                EnableController
  <2>3. CASE LoadPolicy
    <3>1. CASE newPolicy
      BY <2>3, <3>1 DEF LoadPolicy, UpdatePolicy, PolicyIsKept
    <3>2. CASE ~newPolicy
      <4>1. UNCHANGED mrtVars
        BY <2>3, <3>2 DEF LoadPolicy, UpdatePolicy
      <4> QED BY <2>3, <3>2, <4>1 DEF LoadPolicy, mrtVars, PolicyIsKept, LatestPolicy
    <3> QED BY <3>1, <3>2
  <2>4. CASE EvaluatePolicy \/ EvaluateNothing \/ Command
    BY <2>4 DEF EvaluatePolicy, EvaluateNothing, Command, mrtVars
  <2>5. CASE SafetyStop \/ Stop
    BY <2>5 DEF SafetyStop, Stop, Stopping, DisableController, mrtVars
  <2> QED BY <1>1, <2>1, <2>2, <2>3, <2>4, <2>5 DEF RtStep
<1>2. CASE MpcStep
  <2>1. CASE MpcStorePolicy
    BY <2>1 DEF MpcStorePolicy, StorePolicy
  <2>2. CASE MpcCopyObservation
    BY <2>2 DEF MpcCopyObservation, CopyObservation
  <2>3. CASE MpcLoop \/ MpcGate \/ MpcSolve \/ MpcFail \/ MpcStopping \/ MpcDisable
    BY <2>3 DEF MpcLoop, MpcGate, MpcSolve, MpcFail, MpcStopping, MpcDisable, mrtVars
  <2> QED BY <1>2, <2>1, <2>2, <2>3 DEF MpcStep
<1>3. CASE Caller
  <2>1. CASE UpdateRequest
    BY <2>1 DEF UpdateRequest, PolicyCameFirst, mrtVars
  <2>2. CASE StartRequest \/ StopRequest
    BY <2>2 DEF StartRequest, StopRequest
  <2>3. CASE rt = "idle" /\ (BeginDestroy \/ HardwareRead)
    BY <2>3 DEF BeginDestroy, HardwareRead
  <2> QED BY <1>3, <2>1, <2>2, <2>3 DEF Caller
<1>4. CASE JoinMpcThread \/ RosShutdown
  BY <1>4 DEF JoinMpcThread, RosShutdown, mrtVars
<1>5. CASE UNCHANGED controllerVars
  BY <1>5 DEF controllerVars, ctrlVars, mrtVars
<1> QED
  BY <1>1, <1>2, <1>3, <1>4, <1>5 DEF ControllerNext

\* If no load meets a store of the MPC thread, no update finds itself without a policy
\* while ROS is up: a load that gave up, with nothing active yet, is the only way there.
THEOREM UncontendedUpdatesHavePolicy ==
  ControllerSpec /\ [][LoadPolicy => mpc # "store"]_controllerVars => []UpdateEvaluatesPolicy
<1>1. ControllerInit => UpdateHasPolicy
  BY DEF ControllerInit, UpdateHasPolicy, UpdateEvaluatesPolicy, UpdatePCs
<1>2. ControllerInv /\ UpdateHasPolicy /\ [ControllerNext]_controllerVars
        /\ [LoadPolicy => mpc # "store"]_controllerVars => UpdateHasPolicy'
  <2>1. UNCHANGED controllerVars /\ LoadPolicy => FALSE
    BY DEF LoadPolicy, RtGoto, controllerVars, ctrlVars
  <2> QED BY <2>1, UpdateHasPolicyStep
<1>3. UpdateHasPolicy => UpdateEvaluatesPolicy
  BY DEF UpdateHasPolicy
<1> QED
  BY <1>1, <1>2, <1>3, Inductive, PTL DEF ControllerSpec

\* As long as the solver does not throw on its thread, only the destructor ends that.
ThreadServesLife ==
  /\ mpc \notin {"halt", "disable"}
  /\ mpc = "exited" => ~controllerRunning
  /\ ~controllerRunning => life # "alive"

\* So it stays with every step that does not come from an exception.
LEMMA ThreadServesLifeStep ==
  ASSUME ControllerTypeOK, ControllerTypeOK', ThreadServesLife, mpc # "failed",
         [ControllerNext]_controllerVars
  PROVE  ThreadServesLife'
<1> USE DEF ControllerTypeOK, ThreadServesLife, RtGoto, MpcGoto
<1>1. CASE RtStep
  BY <1>1 DEF RtStep, StartObserve, AwaitPolicy, RtCopyObservation, RtSolve, RtSolveThrows,
              RtStorePolicy, RunMpc, EnableController, UpdateObserve, LoadPolicy, EvaluatePolicy,
              EvaluateNothing, SafetyStop, Command, Stop, Stopping, DisableController, Observe
<1>2. CASE MpcStep
  BY <1>2 DEF MpcStep, MpcLoop, MpcGate, MpcCopyObservation, MpcSolve, MpcStorePolicy, MpcFail,
              MpcStopping, MpcDisable
<1>3. CASE Caller
  BY <1>3 DEF Caller, UpdateRequest, StartRequest, StopRequest, BeginDestroy, HardwareRead
<1>4. CASE JoinMpcThread \/ RosShutdown
  BY <1>4 DEF JoinMpcThread, RosShutdown
<1>5. CASE UNCHANGED controllerVars
  BY <1>5 DEF controllerVars, ctrlVars
<1> QED
  BY <1>1, <1>2, <1>3, <1>4, <1>5 DEF ControllerNext

\* A controller that runs without a thread to solve for it has had an exception on
\* that thread: without one, it has its thread as long as it lives.
THEOREM OnlyExceptionsEndTheThread ==
  ControllerSpec /\ [](mpc # "failed") => []RunningHasMpcThread
<1>1. ControllerInit => ThreadServesLife
  <2> SUFFICES ASSUME ControllerInit PROVE ThreadServesLife
    OBVIOUS
  <2>1. controllerRunning
    BY Zenon DEF ControllerInit
  <2> QED BY <2>1 DEF ControllerInit, ThreadServesLife
<1>2. ControllerInv /\ ControllerInv' /\ ThreadServesLife /\ mpc # "failed"
        /\ [ControllerNext]_controllerVars => ThreadServesLife'
  BY ThreadServesLifeStep DEF ControllerInv
<1>3. ThreadServesLife => RunningHasMpcThread
  BY DEF ThreadServesLife, RunningHasMpcThread
<1> QED
  BY <1>1, <1>2, <1>3, Inductive, PTL DEF ControllerSpec
=============================================================================
