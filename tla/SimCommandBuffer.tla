-------------------------- MODULE SimCommandBuffer --------------------------
(***************************************************************************)
(* legged::LeggedHWSim: in simulation a joint command reaches the joint    *)
(* after a configured delay, through a deque that writeSim() fills at the  *)
(* front and drains at the back.  All joints do the same at the same time, *)
(* so one of them is modelled.                                             *)
(*                                                                         *)
(* gazebo_ros_control (external) calls readSim() and the controllers when  *)
(* a control period is over, writeSim() after every physics step with the  *)
(* time since its last call, and starts both clocks over when the world is *)
(* reset.                                                                  *)
(***************************************************************************)
EXTENDS Integers, Sequences

CONSTANTS
  Delay,     \* delay_, in ticks of simulation time
  MaxStep,   \* bound: a physics step takes 1..MaxStep ticks
  MaxTime    \* bound: simulation time

ASSUME SimAssumption == Delay \in Nat /\ MaxStep \in Nat \ {0} /\ MaxTime \in Nat

VARIABLES
  now,        \* simulation time
  lastWrite,  \* time of the last writeSim() since the world's (re)start
  phase,      \* next: a physics step, the controllers, writeSim() or its drain
  command,    \* what the joint handle holds: nothing, or a controller's command
  buffer,     \* cmdBuffer_ of the joint, front first
  applied,    \* the command the joint got last, and when
  written     \* history: every command buffered since the world's (re)start

vars == <<now, lastWrite, phase, command, buffer, applied, written>>

Commands == {"zero", "plan"}
Entries  == [stamp : 0..MaxTime, command : Commands]
None     == [stamp |-> 0, command |-> "zero", at |-> 0]

TypeOK ==
  /\ now \in 0..MaxTime
  /\ lastWrite \in 0..MaxTime
  /\ phase \in {"step", "control", "write", "drain"}
  /\ command \in Commands
  /\ buffer \in Seq(Entries)
  /\ applied \in [stamp : 0..MaxTime, command : Commands, at : 0..MaxTime]
  /\ written \subseteq Entries

Init ==
  /\ now = 0 /\ lastWrite = 0
  /\ phase = "step"
  /\ command = "zero"
  /\ buffer = <<>>
  /\ applied = None
  /\ written = {}

\* Physics advances; the controllers' period is over, or not yet.
Step ==
  /\ phase = "step"
  /\ \E d \in 1..MaxStep : now + d <= MaxTime /\ now' = now + d
  /\ phase' \in {"control", "write"}
  /\ UNCHANGED <<lastWrite, command, buffer, applied, written>>

\* readSim() zeroes the command; a running controller then sets its own.
Control ==
  /\ phase = "control"
  /\ command' \in Commands
  /\ phase' = "write"
  /\ UNCHANGED <<now, lastWrite, buffer, applied, written>>

\* writeSim() sees a restart when the time since its last call is all the time
\* there is.
Restarted == now = now - lastWrite

NotCleared == FALSE   \* mutant: no clear() on a restart

MustClear == Restarted

ClearOnRestart ==
  /\ phase = "write"
  /\ buffer' = (IF MustClear THEN <<>> ELSE buffer)
  /\ phase' = "drain"
  /\ UNCHANGED <<now, lastWrite, command, applied, written>>

\* Entries leave at the back while they are older than the delay.
ExpiredEarly(e) == e.stamp + Delay <= now   \* mutant: <= for <

NeverExpired(e) == FALSE                    \* mutant: nothing leaves

Expired(e) == e.stamp + Delay < now

Back == buffer[Len(buffer)]

PopExpired ==
  /\ phase = "drain"
  /\ buffer # <<>> /\ Expired(Back)
  /\ buffer' = SubSeq(buffer, 1, Len(buffer) - 1)
  /\ UNCHANGED <<now, lastWrite, phase, command, applied, written>>

\* Then the joint's command enters at the front and the back is applied.
Stamp == now

PushAndApply ==
  /\ phase = "drain"
  /\ buffer # <<>> => ~Expired(Back)
  /\ LET entry == [stamp |-> Stamp, command |-> command]
         due   == IF buffer = <<>> THEN entry ELSE Back
     IN  /\ buffer' = <<entry>> \o buffer
         /\ applied' = [stamp |-> due.stamp, command |-> due.command, at |-> now]
         /\ written' = written \cup {entry}
  /\ lastWrite' = now
  /\ phase' = "step"
  /\ UNCHANGED <<now, command>>

\* The world is reset between two physics steps: both clocks start over.
Reset ==
  /\ phase = "step"
  /\ now' = 0 /\ lastWrite' = 0
  /\ applied' = None
  /\ written' = {}
  /\ UNCHANGED <<phase, command, buffer>>

Next == Step \/ Control \/ ClearOnRestart \/ PopExpired \/ PushAndApply \/ Reset

Spec == Init /\ [][Next]_vars

-----------------------------------------------------------------------------
(* Properties.                                                             *)

\* After a writeSim(), the joint got the oldest command of this run of the
\* world that is no older than the delay: never one from before a reset, and
\* no younger one while an older one is still due.
AppliesDelayedCommand ==
  applied.at > 0 =>
    /\ [stamp |-> applied.stamp, command |-> applied.command] \in written
    /\ applied.stamp + Delay >= applied.at
    /\ \A w \in written : w.stamp + Delay >= applied.at => applied.stamp <= w.stamp

\* The deque does not grow with the length of the simulation: it never holds
\* more than the writes that fit in the delay, and the newest.
BufferBounded == Len(buffer) <= Delay + 1
=============================================================================
