------------------------ MODULE KalmanFilterEstimate ------------------------
(***************************************************************************)
(* legged_estimation's KalmanFilterEstimate: the control thread runs the   *)
(* filter in every update(); a subscriber's thread leaves the tracking     *)
(* camera's odometry in a RealtimeBuffer and sets topicUpdated_, upon      *)
(* which update() aligns the camera's world with the odometry frame and    *)
(* puts the filter's position on the camera's.                             *)
(*                                                                         *)
(* A message is its number; 0 is the empty message the buffer holds at     *)
(* first.  Frames are told apart by the message they were computed from,   *)
(* rotations by whether they are the identity.  The filter's numbers and   *)
(* the published messages are left out.                                    *)
(***************************************************************************)
EXTENDS Integers

CONSTANTS
  MaxMessages,  \* bound: numbers of messages saturate here
  Rotations     \* what the rotation of the camera's world may turn out to be

ASSUME MessageAssumption ==
  MaxMessages \in Nat \ {0} /\ Rotations \subseteq {"identity", "turned"}

Messages  == 0..MaxMessages
NoMessage == 0

VARIABLES
  newest,        \* history: the last message that arrived
  nonRtData,     \* RealtimeBuffer: where the subscriber writes
  rtData,        \* RealtimeBuffer: what the control thread reads
  newData,       \* RealtimeBuffer: new_data_available_
  topicUpdated,  \* topicUpdated_, a plain bool
  callback,      \* where the subscriber's thread is
  update,        \* where the control thread is
  msg,           \* updateFromTopic()'s message
  world2odom,    \* world2odom_, and the message it was computed from
  corrected      \* the message xHat_ was last put on

buffer == <<nonRtData, rtData, newData>>
vars   == <<newest, buffer, topicUpdated, callback, update, msg, world2odom, corrected>>

Init ==
  /\ newest = NoMessage
  /\ nonRtData = NoMessage /\ rtData = NoMessage /\ newData = FALSE
  /\ topicUpdated = FALSE
  /\ callback = "idle"
  /\ update = "filter"
  /\ msg = NoMessage
  /\ world2odom = [rotation |-> "identity", from |-> NoMessage]
  /\ corrected = NoMessage

-----------------------------------------------------------------------------
(* callback(), on the subscriber's thread.                                 *)

\* A message arrives: writeFromNonRT() takes the buffer's mutex ...
Arrive ==
  /\ callback = "idle"
  /\ callback' = "write"
  /\ newest' = (IF newest < MaxMessages THEN newest + 1 ELSE newest)
  /\ UNCHANGED <<buffer, topicUpdated, update, msg, world2odom, corrected>>

WriteInPlace ==   \* mutant: one copy for both threads
  /\ callback = "write"
  /\ callback' = "flag"
  /\ rtData' = newest /\ newData' = TRUE
  /\ UNCHANGED <<newest, nonRtData, topicUpdated, update, msg, world2odom, corrected>>

\* ... writes and releases it.
WriteBuffer ==
  /\ callback = "write"
  /\ callback' = "flag"
  /\ nonRtData' = newest /\ newData' = TRUE
  /\ UNCHANGED <<newest, rtData, topicUpdated, update, msg, world2odom, corrected>>

SetUpdated ==
  /\ callback = "flag"
  /\ callback' = "idle"
  /\ topicUpdated' = TRUE
  /\ UNCHANGED <<newest, buffer, update, msg, world2odom, corrected>>

Subscriber == Arrive \/ WriteBuffer \/ SetUpdated

-----------------------------------------------------------------------------
(* update(), on the control thread.                                        *)

UpdateGoto(from, to) ==
  /\ update = from
  /\ update' = to

FilterAndReset ==   \* mutant: topicUpdated_ reset whether it was set or not
  /\ UpdateGoto("filter", IF topicUpdated THEN "read" ELSE "reset")
  /\ UNCHANGED <<newest, buffer, topicUpdated, callback, msg, world2odom, corrected>>

\* The filter's own step, and the look at topicUpdated_.
Filter ==
  /\ UpdateGoto("filter", IF topicUpdated THEN "read" ELSE "output")
  /\ UNCHANGED <<newest, buffer, topicUpdated, callback, msg, world2odom, corrected>>

ReadSwapsAlways ==   \* mutant: new_data_available_ not looked at
  /\ UpdateGoto("read", "align")
  /\ IF callback # "write"
     THEN rtData' = nonRtData /\ nonRtData' = rtData /\ newData' = FALSE
     ELSE UNCHANGED buffer
  /\ msg' = rtData'
  /\ UNCHANGED <<newest, topicUpdated, callback, world2odom, corrected>>

\* readFromRT(): takes new data over, unless the subscriber holds the mutex.
ReadBuffer ==
  /\ UpdateGoto("read", "align")
  /\ IF newData /\ callback # "write"
     THEN rtData' = nonRtData /\ nonRtData' = rtData /\ newData' = FALSE
     ELSE UNCHANGED buffer
  /\ msg' = rtData'
  /\ UNCHANGED <<newest, topicUpdated, callback, world2odom, corrected>>

NeverReceived == TRUE   \* mutant: the alignment is made anew for every message

FirstReceived == world2odom.rotation = "identity"

\* lookupTransform() has no frame of an empty name.
MayResolve(m) == TRUE   \* mutant: of any name

CanResolve(m) == m # NoMessage

\* updateFromTopic(): the alignment, once it has a rotation, is kept.
KeepAlignment ==
  /\ ~FirstReceived
  /\ UpdateGoto("align", "base")
  /\ UNCHANGED <<newest, buffer, topicUpdated, callback, msg, world2odom, corrected>>

Align ==
  /\ FirstReceived /\ CanResolve(msg)
  /\ UpdateGoto("align", "base")
  /\ \E r \in Rotations : world2odom' = [rotation |-> r, from |-> msg]
  /\ UNCHANGED <<newest, buffer, topicUpdated, callback, msg, corrected>>

\* The sensor's frame at the message's time is not known: give up.
NoOdomTransform ==
  /\ FirstReceived
  /\ UpdateGoto("align", "reset")
  /\ UNCHANGED <<newest, buffer, topicUpdated, callback, msg, world2odom, corrected>>

NoBaseTransform ==
  /\ UpdateGoto("base", "reset")
  /\ UNCHANGED <<newest, buffer, topicUpdated, callback, msg, world2odom, corrected>>

\* Position and feet of xHat_ from the message.
Correct ==
  /\ CanResolve(msg)
  /\ UpdateGoto("base", "reset")
  /\ corrected' = msg
  /\ UNCHANGED <<newest, buffer, topicUpdated, callback, msg, world2odom>>

ResetUpdated ==
  /\ UpdateGoto("reset", "output")
  /\ topicUpdated' = FALSE
  /\ UNCHANGED <<newest, buffer, callback, msg, world2odom, corrected>>

\* updateLinear() and the return; the next cycle of the loop.
Output ==
  /\ UpdateGoto("output", "filter")
  /\ UNCHANGED <<newest, buffer, topicUpdated, callback, msg, world2odom, corrected>>

UpdateFromTopic ==
  ReadBuffer \/ KeepAlignment \/ Align \/ NoOdomTransform \/ NoBaseTransform \/ Correct

ControlThread == Filter \/ UpdateFromTopic \/ ResetUpdated \/ Output

Next == Subscriber \/ ControlThread

\* The controller runs and its loop is scheduled; messages need not come, but a
\* callback that began is finished.
Fairness == WF_vars(ControlThread) /\ WF_vars(WriteBuffer) /\ WF_vars(SetUpdated)

Spec     == Init /\ [][Next]_vars
FairSpec == Spec /\ Fairness

-----------------------------------------------------------------------------
(* Properties.                                                             *)

\* Types, and that the message in use stays what it is while the subscriber
\* writes the next one.
TypeOK ==
  /\ newest \in Messages /\ nonRtData \in Messages /\ rtData \in Messages
  /\ newData \in BOOLEAN /\ topicUpdated \in BOOLEAN
  /\ callback \in {"idle", "write", "flag"}
  /\ update \in {"filter", "read", "align", "base", "reset", "output"}
  /\ world2odom \in [rotation : {"identity", "turned"}, from : Messages]
  /\ msg \in Messages /\ corrected \in Messages
  /\ update \in {"align", "base"} => msg = rtData

\* The estimate is corrected in the order of the messages, although the buffer
\* may hand out an old one while a new one is written.
CorrectedInOrder == [][corrected' >= corrected]_corrected

\* The estimate is never put on the empty message, nor with an alignment that
\* was not computed from a real one, although update() may get to see it.
CorrectedFromMessages ==
  /\ world2odom.rotation = "turned" => world2odom.from # NoMessage
  /\ update = "base" => world2odom.from # NoMessage
  /\ corrected # NoMessage => world2odom.from \in 1..newest

\* The frames are aligned upon the first message received, and no more: all
\* later corrections are made in the same frame.
AlignmentIsFixed ==
  [][world2odom.from # NoMessage => world2odom' = world2odom]_world2odom

\* The reset of topicUpdated_ may lose the message that arrived in between, but
\* as long as messages keep coming, every one is taken up by update(), itself or
\* in a later one's place: unless, from some time on, update() meets the
\* subscriber in the middle of a write whenever it reads.
StreamIsServed ==
  []<><<SetUpdated>>_vars =>
     \/ \A n \in Messages : newest >= n ~> msg >= n
     \/ []<><<ReadBuffer>>_vars /\ <>[][ReadBuffer => callback = "write"]_vars
=============================================================================
