-------------------- MODULE KalmanFilterEstimate_proof --------------------
(***************************************************************************)
(* Proofs about KalmanFilterEstimate, for any number of messages: whatever *)
(* the subscriber and the control thread do to the buffer and the flag,    *)
(* corrections come from real messages, in their order, in one frame.      *)
(***************************************************************************)
EXTENDS KalmanFilterEstimate, TLAPS

-----------------------------------------------------------------------------
(* The inductive invariant.                                                *)

\* Along the way of a message through the buffer into the estimate nothing
\* overtakes: what is behind was there before.
NothingOvertakes ==
  /\ nonRtData <= newest /\ rtData <= newest
  /\ newData => rtData <= nonRtData
  /\ corrected <= rtData
  /\ world2odom.from <= newest

EstimateInv ==
  /\ TypeOK
  /\ NothingOvertakes
  /\ CorrectedFromMessages

USE MessageAssumption DEF Messages, NoMessage

\* An empty buffer and an identity alignment satisfy the invariant.
LEMMA InitInv == Init => EstimateInv
<1> SUFFICES ASSUME Init PROVE EstimateInv
  OBVIOUS
<1>1. ~newData /\ newData \in BOOLEAN /\ topicUpdated \in BOOLEAN
  BY DEF Init
<1>2. /\ newest = 0 /\ nonRtData = 0 /\ rtData = 0 /\ msg = 0 /\ corrected = 0
      /\ callback = "idle" /\ update = "filter"
      /\ world2odom = [rotation |-> "identity", from |-> 0]
  BY DEF Init
<1> QED BY <1>1, <1>2 DEF EstimateInv, TypeOK, NothingOvertakes, CorrectedFromMessages

\* The subscriber's steps only add to what is newest and to the half of the
\* buffer that nobody reads.
LEMMA SubscriberKeepsInv ==
  ASSUME EstimateInv, Subscriber PROVE EstimateInv'
<1>1. CASE Arrive
  BY <1>1 DEF Arrive, buffer, EstimateInv, TypeOK, NothingOvertakes, CorrectedFromMessages
<1>2. CASE WriteBuffer
  BY <1>2 DEF WriteBuffer, EstimateInv, TypeOK, NothingOvertakes, CorrectedFromMessages
<1>3. CASE SetUpdated
  BY <1>3 DEF SetUpdated, buffer, EstimateInv, TypeOK, NothingOvertakes, CorrectedFromMessages
<1> QED BY <1>1, <1>2, <1>3 DEF Subscriber

\* Reading takes over what was written last, or stays with what was read last.
LEMMA ReadKeepsInv ==
  ASSUME EstimateInv, ReadBuffer PROVE EstimateInv'
<1>1. CASE newData /\ callback # "write"
  <2>1. ~newData' /\ newData' \in BOOLEAN
    BY <1>1 DEF ReadBuffer
  <2>2. /\ rtData' = nonRtData /\ nonRtData' = rtData /\ msg' = nonRtData
        /\ update = "read" /\ update' = "align"
        /\ UNCHANGED <<newest, topicUpdated, callback, world2odom, corrected>>
    BY <1>1 DEF ReadBuffer, UpdateGoto
  <2> QED BY <1>1, <2>1, <2>2 DEF EstimateInv, TypeOK, NothingOvertakes, CorrectedFromMessages
<1>2. CASE ~(newData /\ callback # "write")
  BY <1>2 DEF ReadBuffer, UpdateGoto, buffer, EstimateInv, TypeOK, NothingOvertakes,
     CorrectedFromMessages
<1> QED BY <1>1, <1>2

\* A new alignment comes from a message that names a frame.
LEMMA AlignKeepsInv ==
  ASSUME EstimateInv, Align PROVE EstimateInv'
<1> PICK r \in Rotations : world2odom' = [rotation |-> r, from |-> msg]
  BY DEF Align
<1>1. r \in {"identity", "turned"}
  OBVIOUS
<1>2. msg = rtData /\ msg \in 1..newest
  BY DEF Align, CanResolve, UpdateGoto, EstimateInv, TypeOK, NothingOvertakes
<1> QED
  BY <1>1, <1>2 DEF Align, UpdateGoto, buffer, EstimateInv, TypeOK, NothingOvertakes,
     CorrectedFromMessages

\* The estimate is put on the message in use, which is no older than the last.
LEMMA CorrectKeepsInv ==
  ASSUME EstimateInv, Correct PROVE EstimateInv' /\ corrected' >= corrected
  BY DEF Correct, CanResolve, UpdateGoto, buffer, EstimateInv, TypeOK, NothingOvertakes,
     CorrectedFromMessages

\* Every step of the control thread.
LEMMA ControlKeepsInv ==
  ASSUME EstimateInv, ControlThread PROVE EstimateInv'
<1> USE DEF UpdateGoto, buffer, EstimateInv, TypeOK, NothingOvertakes, CorrectedFromMessages
<1>1. CASE Filter
  BY <1>1 DEF Filter
<1>2. CASE KeepAlignment
  BY <1>2 DEF KeepAlignment, FirstReceived
<1>3. CASE NoOdomTransform \/ NoBaseTransform
  BY <1>3 DEF NoOdomTransform, NoBaseTransform
<1>4. CASE ResetUpdated
  <2>1. topicUpdated' \in BOOLEAN
    BY <1>4 DEF ResetUpdated
  <2>2. /\ update = "reset" /\ update' = "output"
        /\ UNCHANGED <<newest, buffer, callback, msg, world2odom, corrected>>
    BY <1>4 DEF ResetUpdated
  <2> QED BY <2>1, <2>2
<1>5. CASE Output
  BY <1>5 DEF Output
<1> QED
  BY <1>1, <1>2, <1>3, <1>4, <1>5, ReadKeepsInv, AlignKeepsInv, CorrectKeepsInv
     DEF ControlThread, UpdateFromTopic

LEMMA NextKeepsInv == EstimateInv /\ [Next]_vars => EstimateInv'
<1> SUFFICES ASSUME EstimateInv, [Next]_vars PROVE EstimateInv'
  OBVIOUS
<1>1. CASE UNCHANGED vars
  BY <1>1 DEF vars, buffer, EstimateInv, TypeOK, NothingOvertakes, CorrectedFromMessages
<1> QED BY <1>1, SubscriberKeepsInv, ControlKeepsInv DEF Next

\* The invariant holds throughout, for any number of messages.
THEOREM EstimateInductive == Spec => []EstimateInv
  BY InitInv, NextKeepsInv, PTL DEF Spec

-----------------------------------------------------------------------------
(* What follows from it.                                                   *)

\* The message in use stays what it is while the subscriber writes the next.
THEOREM MessageIsStable == Spec => []TypeOK
<1>1. EstimateInv => TypeOK
  BY DEF EstimateInv
<1> QED BY <1>1, EstimateInductive, PTL

\* The estimate is never put on the buffer's empty message, nor with an
\* alignment that no message gave.
THEOREM RealMessagesOnly == Spec => []CorrectedFromMessages
<1>1. EstimateInv => CorrectedFromMessages
  BY DEF EstimateInv
<1> QED BY <1>1, EstimateInductive, PTL

\* Corrections come in the order of the messages, although readFromRT() may
\* hand out an old one.
THEOREM CorrectionsInOrder == Spec => CorrectedInOrder
<1>1. EstimateInv /\ [Next]_vars => [corrected' >= corrected]_corrected
  <2> SUFFICES ASSUME EstimateInv, [Next]_vars, corrected' # corrected
               PROVE  corrected' >= corrected
    OBVIOUS
  <2>1. Correct
    BY DEF Next, vars, Subscriber, Arrive, WriteBuffer, SetUpdated, ControlThread, Filter,
       UpdateFromTopic, ReadBuffer, KeepAlignment, Align, NoOdomTransform, NoBaseTransform,
       ResetUpdated, Output
  <2> QED BY <2>1, CorrectKeepsInv
<1> QED BY <1>1, EstimateInductive, PTL DEF Spec, CorrectedInOrder

-----------------------------------------------------------------------------
(* The alignment.                                                          *)

\* Where an alignment always has a rotation, having one is having been aligned.
AlignedIsTurned == world2odom.from # NoMessage => world2odom.rotation = "turned"

\* If the camera's world is turned against the odometry frame, the frames are
\* aligned once: the test for the first message in updateFromTopic() is then
\* what it says.
THEOREM TurnedAlignmentIsFixed ==
  ASSUME "identity" \notin Rotations
  PROVE  Spec => AlignmentIsFixed
<1>1. Init => AlignedIsTurned
  BY DEF Init, AlignedIsTurned
<1>2. ASSUME [Next]_vars, world2odom' # world2odom
      PROVE  Align
  BY <1>2 DEF Next, vars, Subscriber, Arrive, WriteBuffer, SetUpdated, ControlThread, Filter,
     UpdateFromTopic, ReadBuffer, KeepAlignment, Correct, NoOdomTransform, NoBaseTransform,
     ResetUpdated, Output
<1>3. AlignedIsTurned /\ [Next]_vars => AlignedIsTurned'
  <2>1. CASE world2odom' = world2odom
    BY <2>1 DEF AlignedIsTurned
  <2>2. ASSUME Align PROVE AlignedIsTurned'
    BY <2>2 DEF Align, AlignedIsTurned
  <2> QED BY <1>2, <2>1, <2>2
<1>4. AlignedIsTurned /\ [Next]_vars
        => [world2odom.from # NoMessage => world2odom' = world2odom]_world2odom
  <2>1. ASSUME Align, AlignedIsTurned PROVE world2odom.from = NoMessage
    BY <2>1 DEF Align, FirstReceived, AlignedIsTurned
  <2> QED BY <1>2, <2>1
<1> QED BY <1>1, <1>3, <1>4, PTL DEF Spec, AlignmentIsFixed

-----------------------------------------------------------------------------
(* What a read takes up: the half of StreamIsServed that needs no fairness. *)

\* Between two writes the buffer holds the newest message, in the half that the
\* next read is to get.
BufferHoldsNewest ==
  callback # "write" => newest = (IF newData THEN nonRtData ELSE rtData)

\* A read that does not meet the subscriber's write takes up the newest message of
\* all, whatever was lost by the reset of topicUpdated_; one that does keeps to the
\* message it had.
ReadTakesNewest ==
  [][ReadBuffer => msg' = IF callback = "write" THEN rtData ELSE newest]_vars

LEMMA NextKeepsBuffer == BufferHoldsNewest /\ [Next]_vars => BufferHoldsNewest'
<1> SUFFICES ASSUME BufferHoldsNewest, [Next]_vars PROVE BufferHoldsNewest'
  OBVIOUS
<1>1. CASE Arrive
  BY <1>1 DEF Arrive, BufferHoldsNewest
<1>2. CASE WriteBuffer
  BY <1>2 DEF WriteBuffer, BufferHoldsNewest
<1>3. CASE ReadBuffer
  BY <1>3 DEF ReadBuffer, buffer, BufferHoldsNewest
<1>4. CASE UNCHANGED <<newest, buffer, callback>>
  BY <1>4 DEF buffer, BufferHoldsNewest
<1>5. CASE SetUpdated
  BY <1>5 DEF SetUpdated, buffer, BufferHoldsNewest
<1> QED
  BY <1>1, <1>2, <1>3, <1>4, <1>5 DEF Next, vars, Subscriber, ControlThread, Filter,
     UpdateFromTopic, KeepAlignment, Align, NoOdomTransform, NoBaseTransform, Correct,
     ResetUpdated, Output

\* For any number of messages, whatever the threads do in between.
THEOREM UncontendedReadIsNewest == Spec => ReadTakesNewest
<1>1. Init => BufferHoldsNewest
  BY DEF Init, BufferHoldsNewest
<1>2. BufferHoldsNewest /\ [Next]_vars =>
        [ReadBuffer => msg' = IF callback = "write" THEN rtData ELSE newest]_vars
  BY DEF BufferHoldsNewest, ReadBuffer, buffer
<1> QED BY <1>1, <1>2, NextKeepsBuffer, PTL DEF Spec, ReadTakesNewest
=============================================================================
