---------------------- MODULE SimCommandBuffer_proof ----------------------
(***************************************************************************)
(* Proofs about SimCommandBuffer, for every delay and step: the deque      *)
(* applies the command the delay asks for, and stays bounded by it.        *)
(***************************************************************************)
EXTENDS SimCommandBuffer, SequenceTheorems, TLAPS

-----------------------------------------------------------------------------
(* The inductive invariant.                                                *)

\* Between two steps of physics exactly one writeSim() catches up with time.
ClocksInStep ==
  /\ phase = "step" => now = lastWrite
  /\ phase # "step" => lastWrite < now
  /\ applied.at = lastWrite

\* Nothing of the previous run of the world is left when the drain begins.
FreshStart ==
  lastWrite = 0 => written = {} /\ (phase = "drain" => buffer = <<>>)

\* What the deque holds was written in this run, newest first, at most one
\* entry per tick.
Ordered ==
  lastWrite > 0 =>
    /\ \A i \in 1..Len(buffer) : buffer[i] \in written
    /\ \A i \in 1..Len(buffer) : buffer[i].stamp + (i - 1) <= lastWrite
    /\ \A i, j \in 1..Len(buffer) : i < j => buffer[j].stamp < buffer[i].stamp

\* What was written in this run and is gone from the deque is past its time.
OnlyExpiredLeave ==
  lastWrite > 0 =>
    \A w \in written :
      /\ w.stamp <= lastWrite
      /\ \/ \E i \in 1..Len(buffer) : buffer[i] = w
         \/ w.stamp + Delay < now

SimInv ==
  /\ TypeOK
  /\ ClocksInStep
  /\ FreshStart
  /\ Ordered
  /\ OnlyExpiredLeave
  /\ AppliesDelayedCommand
  /\ BufferBounded

\* An empty deque before the first writeSim() satisfies the invariant.
LEMMA InitInv == Init => SimInv
<1> SUFFICES ASSUME Init PROVE SimInv
  OBVIOUS
<1> USE SimAssumption DEF Init
<1>1. buffer \in Seq(Entries) /\ Len(buffer) = 0
  OBVIOUS
<1>2. TypeOK
  BY <1>1 DEF TypeOK, Commands, Entries, None
<1> QED
  BY <1>1, <1>2 DEF SimInv, ClocksInStep, FreshStart, Ordered, OnlyExpiredLeave,
         AppliesDelayedCommand, BufferBounded, None

-----------------------------------------------------------------------------
(* The two steps that change the deque.                                    *)

\* Popping an expired back keeps order, and loses nothing that is still due.
LEMMA PopKeepsInv ==
  ASSUME SimInv, PopExpired PROVE SimInv'
<1> DEFINE n == Len(buffer)
<1>1. n \in Nat /\ n > 0 /\ buffer[n] \in Entries
  BY DEF SimInv, TypeOK, PopExpired
<1>2. /\ buffer' \in Seq(Entries)
      /\ Len(buffer') = n - 1
      /\ \A i \in 1..(n - 1) : buffer'[i] = buffer[i]
  <2>1. \A i \in 1..(n - 1) : buffer[i] \in Entries
    BY <1>1 DEF SimInv, TypeOK
  <2> DEFINE front == SubSeq(buffer, 1, n - 1)
  <2>2. /\ front \in Seq(Entries)
        /\ Len(front) = IF 1 <= n - 1 THEN (n - 1) - 1 + 1 ELSE 0
        /\ \A i \in 1..((n - 1) - 1 + 1) : front[i] = buffer[1 + i - 1]
    <3>1. n - 1 \in Int /\ 1 \in Int
      BY <1>1
    <3> QED BY <2>1, <3>1, SubSeqProperties
  <2>3. buffer' = front
    BY DEF PopExpired
  <2> HIDE DEF front
  <2> QED BY <1>1, <2>2, <2>3
<1>3. UNCHANGED <<now, lastWrite, phase, command, applied, written>> /\ phase = "drain"
  BY DEF PopExpired
<1>4. TypeOK'
  BY <1>2, <1>3 DEF SimInv, TypeOK
<1>5. lastWrite > 0
  BY <1>1, <1>3 DEF SimInv, TypeOK, FreshStart
<1>6. Ordered'
  <2> HIDE DEF n
  <2>1. 1..(n - 1) \subseteq 1..n
    BY <1>1
  <2>2. /\ \A i \in 1..n : buffer[i] \in written
        /\ \A i \in 1..n : buffer[i].stamp + (i - 1) <= lastWrite
        /\ \A i, j \in 1..n : i < j => buffer[j].stamp < buffer[i].stamp
    BY <1>5 DEF SimInv, Ordered, n
  <2>3. \A i \in 1..(n - 1) : buffer'[i] \in written
    BY <1>2, <2>1, <2>2
  <2>4. \A i \in 1..(n - 1) : buffer'[i].stamp + (i - 1) <= lastWrite
    BY <1>2, <2>1, <2>2
  <2>5. \A i, j \in 1..(n - 1) : i < j => buffer'[j].stamp < buffer'[i].stamp
    BY <1>2, <2>1, <2>2
  <2> QED BY <1>2, <1>3, <2>3, <2>4, <2>5 DEF Ordered
<1>7. OnlyExpiredLeave'
  <2> SUFFICES ASSUME NEW w \in written
               PROVE  /\ w.stamp <= lastWrite
                      /\ \/ \E i \in 1..(n - 1) : buffer'[i] = w
                         \/ w.stamp + Delay < now
    BY <1>2, <1>3 DEF OnlyExpiredLeave
  <2>1. CASE w = buffer[n]
    BY <1>5, <2>1 DEF SimInv, OnlyExpiredLeave, PopExpired, Expired, Back
  <2>2. CASE w # buffer[n]
    BY <1>1, <1>2, <1>5, <2>2 DEF SimInv, OnlyExpiredLeave
  <2> QED BY <2>1, <2>2
<1>8. ClocksInStep' /\ FreshStart' /\ AppliesDelayedCommand'
  BY <1>3, <1>5 DEF SimInv, ClocksInStep, FreshStart, AppliesDelayedCommand, TypeOK
<1>9. BufferBounded'
  BY <1>1, <1>2, SimAssumption DEF SimInv, BufferBounded
<1> QED BY <1>4, <1>6, <1>7, <1>8, <1>9 DEF SimInv

\* Pushing the newest command keeps order, and the back is the one to apply.
LEMMA PushKeepsInv ==
  ASSUME SimInv, PushAndApply PROVE SimInv'
<1> DEFINE n     == Len(buffer)
           entry == [stamp |-> now, command |-> command]
           due   == IF buffer = <<>> THEN entry ELSE buffer[n]
<1>1. /\ buffer' = <<entry>> \o buffer
      /\ applied' = [stamp |-> due.stamp, command |-> due.command, at |-> now]
      /\ written' = written \cup {entry}
      /\ lastWrite' = now /\ phase' = "step" /\ UNCHANGED <<now, command>>
  BY DEF PushAndApply, Back, Stamp
<1>2. /\ entry \in Entries /\ n \in Nat /\ buffer \in Seq(Entries)
      /\ now \in Nat /\ lastWrite \in Nat /\ lastWrite < now /\ phase = "drain"
      /\ Delay \in Nat
  BY SimAssumption DEF SimInv, TypeOK, Entries, ClocksInStep, PushAndApply
<1>3. /\ buffer' \in Seq(Entries)
      /\ Len(buffer') = n + 1
      /\ buffer'[1] = entry
      /\ \A i \in 2..(n + 1) : buffer'[i] = buffer[i - 1]
  <2> DEFINE one == <<entry>>
  <2>1. one \in Seq(Entries) /\ Len(one) = 1 /\ one[1] = entry
    BY <1>2
  <2>2. buffer' = one \o buffer
    BY <1>1
  <2> HIDE DEF one, entry
  <2>3. /\ one \o buffer \in Seq(Entries)
        /\ Len(one \o buffer) = Len(one) + n
        /\ \A i \in 1..(Len(one) + n) :
             (one \o buffer)[i] = IF i <= Len(one) THEN one[i] ELSE buffer[i - Len(one)]
    BY <1>2, <2>1, ConcatProperties
  <2> HIDE DEF n
  <2>4. /\ buffer' \in Seq(Entries)
        /\ Len(buffer') = 1 + n
        /\ \A i \in 1..(1 + n) : buffer'[i] = IF i <= 1 THEN one[i] ELSE buffer[i - 1]
    BY <2>1, <2>2, <2>3
  <2> QED BY <1>2, <2>1, <2>4
<1> HIDE DEF entry
<1>4. \A i \in 1..n : buffer[i] \in Entries /\ buffer[i].stamp \in Nat
  <2>1. \A i \in 1..n : buffer[i] \in Entries
    BY <1>2
  <2>2. \A e \in Entries : e.stamp \in Nat
    BY SimAssumption DEF Entries
  <2> QED BY <2>1, <2>2
<1>5. entry.stamp = now /\ entry.command = command
  BY DEF entry
<1>6. buffer = <<>> \/ (n \in 1..n /\ n > 0 /\ buffer[n].stamp + Delay >= now)
  BY <1>2, <1>4 DEF PushAndApply, Expired, Back
<1>7. lastWrite = 0 => buffer = <<>> /\ n = 0 /\ written = {}
  BY <1>2 DEF SimInv, FreshStart
<1>8. due \in Entries /\ due \in written'
  BY <1>1, <1>2, <1>4, <1>6, <1>7 DEF SimInv, Ordered
<1>9. TypeOK'
  BY <1>1, <1>2, <1>3, <1>8 DEF SimInv, TypeOK, Entries
<1>10. ClocksInStep' /\ FreshStart'
  BY <1>1, <1>2 DEF ClocksInStep, FreshStart
<1>11. Ordered'
  <2>1. \A i \in 1..(n + 1) : buffer'[i] \in written'
    BY <1>1, <1>2, <1>3, <1>7 DEF SimInv, Ordered
  <2>2. \A i \in 1..(n + 1) : buffer'[i].stamp + (i - 1) <= now
    BY <1>2, <1>3, <1>4, <1>5, <1>7 DEF SimInv, Ordered
  <2>3. \A i \in 1..n : buffer[i].stamp < now
    BY <1>2, <1>4, <1>7 DEF SimInv, Ordered
  <2>4. ASSUME NEW i \in 1..(n + 1), NEW j \in 1..(n + 1), i < j
        PROVE  buffer'[j].stamp < buffer'[i].stamp
    <3>1. j \in 2..(n + 1) /\ j - 1 \in 1..n /\ buffer'[j] = buffer[j - 1]
      BY <1>2, <1>3, <2>4
    <3>2. CASE i = 1
      BY <1>3, <1>5, <2>3, <3>1, <3>2
    <3>3. CASE i # 1
      <4>1. i \in 2..(n + 1) /\ i - 1 \in 1..n /\ buffer'[i] = buffer[i - 1] /\ i - 1 < j - 1
        BY <1>2, <1>3, <2>4, <3>3
      <4>2. lastWrite > 0
        BY <1>2, <1>7, <3>1
      <4> QED BY <3>1, <4>1, <4>2 DEF SimInv, Ordered
    <3> QED BY <3>2, <3>3
  <2> QED BY <1>1, <1>3, <2>1, <2>2, <2>4 DEF Ordered
<1>12. OnlyExpiredLeave'
  <2> SUFFICES ASSUME NEW w \in written'
               PROVE  /\ w.stamp <= now
                      /\ \/ \E i \in 1..(n + 1) : buffer'[i] = w
                         \/ w.stamp + Delay < now
    BY <1>1, <1>3 DEF OnlyExpiredLeave
  <2>1. CASE w = entry
    BY <1>2, <1>3, <1>5, <2>1
  <2>2. CASE w \in written
    <3>1. lastWrite > 0 /\ w.stamp \in Nat /\ w.stamp <= lastWrite
      BY <1>2, <1>7, <2>2 DEF SimInv, OnlyExpiredLeave, TypeOK, Entries
    <3>2. CASE w.stamp + Delay < now
      BY <1>2, <3>1, <3>2
    <3>3. CASE \E i \in 1..n : buffer[i] = w
      <4>1. PICK i \in 1..n : buffer[i] = w
        BY <3>3
      <4>2. i + 1 \in 2..(n + 1) /\ buffer'[i + 1] = w
        BY <1>2, <1>3, <4>1
      <4> QED BY <1>2, <3>1, <4>2
    <3> QED BY <2>2, <3>1, <3>2, <3>3 DEF SimInv, OnlyExpiredLeave
  <2> QED BY <1>1, <2>1, <2>2
<1>13. AppliesDelayedCommand'
  <2>1. applied'.stamp = due.stamp /\ applied'.command = due.command /\ applied'.at = now
    BY <1>1
  <2>2. due = [stamp |-> due.stamp, command |-> due.command]
    BY <1>8 DEF Entries
  <2>3. due.stamp + Delay >= now
    BY <1>2, <1>5, <1>6
  <2>4. ASSUME NEW w \in written', w.stamp + Delay >= now
        PROVE  due.stamp <= w.stamp
    <3>1. CASE w = entry
      BY <1>2, <1>4, <1>5, <1>6, <1>7, <3>1 DEF SimInv, Ordered
    <3>2. CASE w \in written
      <4>1. lastWrite > 0 /\ w.stamp \in Nat
        BY <1>2, <1>7, <3>2 DEF SimInv, TypeOK, Entries
      <4>2. PICK i \in 1..n : buffer[i] = w
        BY <1>2, <2>4, <3>2, <4>1 DEF SimInv, OnlyExpiredLeave
      <4>3. buffer # <<>>
        BY <4>2
      <4> QED BY <1>2, <1>4, <1>6, <4>1, <4>2, <4>3 DEF SimInv, Ordered
    <3> QED BY <1>1, <2>4, <3>1, <3>2
  <2> QED BY <1>8, <2>1, <2>2, <2>3, <2>4 DEF AppliesDelayedCommand
<1>14. BufferBounded'
  <2>1. CASE buffer = <<>>
    BY <1>2, <1>3, <2>1 DEF BufferBounded
  <2>2. CASE buffer # <<>>
    BY <1>2, <1>3, <1>4, <1>6, <1>7, <2>2 DEF SimInv, Ordered, BufferBounded
  <2> QED BY <2>1, <2>2
<1> QED BY <1>9, <1>10, <1>11, <1>12, <1>13, <1>14 DEF SimInv

-----------------------------------------------------------------------------
\* The invariant is inductive.
LEMMA SimStep == SimInv /\ [Next]_vars => SimInv'
<1> SUFFICES ASSUME SimInv, [Next]_vars PROVE SimInv'
  OBVIOUS
<1> USE SimAssumption DEF SimInv, TypeOK, ClocksInStep, FreshStart, Ordered, OnlyExpiredLeave,
        AppliesDelayedCommand, BufferBounded
<1>1. CASE Step
  <2>1. /\ phase = "step" /\ phase' \in {"control", "write"}
        /\ now' \in 0..MaxTime /\ now' > now
        /\ UNCHANGED <<lastWrite, command, buffer, applied, written>>
    BY <1>1 DEF Step
  <2>2. TypeOK' /\ ClocksInStep' /\ FreshStart' /\ Ordered' /\ AppliesDelayedCommand' /\ BufferBounded'
    BY <2>1
  <2>3. OnlyExpiredLeave'
    <3> SUFFICES ASSUME lastWrite > 0, NEW w \in written
                 PROVE  /\ w.stamp <= lastWrite
                        /\ \/ \E i \in 1..Len(buffer) : buffer[i] = w
                           \/ w.stamp + Delay < now'
      BY <2>1
    <3>1. w.stamp \in Nat
      BY DEF Entries
    <3> QED BY <2>1, <3>1
  <2> QED BY <2>2, <2>3
<1>2. CASE Control
  BY <1>2 DEF Control
<1>3. CASE ClearOnRestart
  <2>1. MustClear <=> lastWrite = 0
    BY DEF MustClear, Restarted
  <2>2. CASE lastWrite = 0
    <3>1. buffer' = <<>> /\ buffer' \in Seq(Entries) /\ Len(buffer') = 0
      BY <1>3, <2>1, <2>2 DEF ClearOnRestart
    <3> QED BY <1>3, <2>2, <3>1 DEF ClearOnRestart
  <2>3. CASE lastWrite # 0
    <3>1. buffer' = buffer
      BY <1>3, <2>1, <2>3 DEF ClearOnRestart
    <3> QED BY <1>3, <2>3, <3>1 DEF ClearOnRestart
  <2> QED BY <2>2, <2>3
<1>4. CASE PopExpired
  BY <1>4, PopKeepsInv
<1>5. CASE PushAndApply
  BY <1>5, PushKeepsInv
<1>6. CASE Reset
  BY <1>6 DEF Reset, None, Commands
<1>7. CASE UNCHANGED vars
  BY <1>7 DEF vars
<1> QED BY <1>1, <1>2, <1>3, <1>4, <1>5, <1>6, <1>7 DEF Next

\* The invariant holds in every reachable state.
THEOREM SimInductive == Spec => []SimInv
BY InitInv, SimStep, PTL DEF Spec

\* Entries of the deque and what the joint got are commands with a stamp, in
\* every phase of a physics step.
THEOREM TypeCorrect == Spec => []TypeOK
<1>1. SimInv => TypeOK
  BY DEF SimInv
<1> QED BY <1>1, SimInductive, PTL

\* The joint gets the oldest command of this run of the world that is within
\* the delay, for every delay, step size and pattern of resets.
THEOREM DelayIsExact == Spec => []AppliesDelayedCommand
<1>1. SimInv => AppliesDelayedCommand
  BY DEF SimInv
<1> QED BY <1>1, SimInductive, PTL

\* The deque holds at most one command per tick of the delay and the newest.
THEOREM DequeIsBounded == Spec => []BufferBounded
<1>1. SimInv => BufferBounded
  BY DEF SimInv
<1> QED BY <1>1, SimInductive, PTL
=============================================================================
