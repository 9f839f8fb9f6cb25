------------------------------- MODULE MpcMrt -------------------------------
(***************************************************************************)
(* The MPC/MRT hand-over that legged_controllers drives: OCS2's            *)
(* MPC_MRT_Interface, a library outside this repository, modelled from its *)
(* use in LeggedController.  The control thread sets the observation and   *)
(* takes the newest policy; whoever calls advanceMpc copies the            *)
(* observation, solves and leaves a policy in the buffer.                  *)
(*                                                                         *)
(* An observation is its time stamp, a policy the stamp of the observation *)
(* it was computed from.                                                   *)
(***************************************************************************)
EXTENDS Integers

CONSTANT MaxTime            \* bound: observation time saturates here
ASSUME MaxTimeAssumption == MaxTime \in Nat

Times    == 0..MaxTime
NoPolicy == -1              \* the null active solution before the first swap
Policies == Times \cup {NoPolicy}
Threads  == {"rt", "mpc"}   \* the two threads that may call advanceMpc

VARIABLES
  observation,      \* the observation the next advanceMpc copies
  copied,           \* per thread, the observation its advanceMpc works on
  buffer,           \* the policy in the exchange buffer
  newPolicy,        \* newPolicyInBuffer_
  policyReceived,   \* policyReceivedEver_: initialPolicyReceived()
  active            \* the policy evaluatePolicy() uses

mrtVars == <<observation, copied, buffer, newPolicy, policyReceived, active>>

MrtTypeOK ==
  /\ observation \in Times
  /\ copied \in [Threads -> Times]
  /\ buffer \in Policies
  /\ newPolicy \in BOOLEAN
  /\ policyReceived \in BOOLEAN
  /\ active \in Policies

MrtInit ==
  /\ observation = 0
  /\ copied = [t \in Threads |-> 0]
  /\ buffer = NoPolicy
  /\ newPolicy = FALSE
  /\ policyReceived = FALSE
  /\ active = NoPolicy

SetObservation(t) ==
  /\ observation' = t
  /\ UNCHANGED <<copied, buffer, newPolicy, policyReceived, active>>

\* First step of advanceMpc: the observation is copied under its mutex.
CopyObservation(th) ==
  /\ copied' = [copied EXCEPT ![th] = observation]
  /\ UNCHANGED <<observation, buffer, newPolicy, policyReceived, active>>

\* Last step of a successful advanceMpc: the solution moves to the buffer.
StorePolicy(th) ==
  /\ buffer' = copied[th]
  /\ newPolicy' = TRUE
  /\ policyReceived' = TRUE
  /\ UNCHANGED <<observation, copied, active>>

\* updatePolicy: swap a new policy in.  It gives up when the other thread
\* holds the buffer's mutex, which the caller does not look at.
UpdatePolicy(contended) ==
  IF newPolicy /\ ~contended
  THEN /\ active' = buffer
       /\ buffer' = active
       /\ newPolicy' = FALSE
       /\ UNCHANGED <<observation, copied, policyReceived>>
  ELSE UNCHANGED mrtVars
=============================================================================
