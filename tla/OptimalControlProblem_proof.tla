------------------- MODULE OptimalControlProblem_proof -------------------
(***************************************************************************)
(* Proofs about the gait schedule, the swing planner and the reference     *)
(* manager, for every gait, horizon and step of the MPC: schedules begin   *)
(* and end on all feet, so every swing has its lift-off and touch-down,    *)
(* and a solve keeps what the last one planned.  What OptimalControlProblem*)
(* asks of the feet follows, and the friction cone is what it should be.   *)
(***************************************************************************)
EXTENDS OptimalControlProblem, FrictionCone, SequenceTheorems, FiniteSetTheorems, TLAPS

-----------------------------------------------------------------------------
(* Sets of indices.                                                        *)

\* A set of the numbers up to n that has every number below its members is
\* 1..k.  This is what replaces induction over the length of a schedule.
LEMMA LowerPart ==
  ASSUME NEW n \in Nat, NEW S \in SUBSET (1..n), \A i \in S : \A j \in 1..i : j \in S
  PROVE  \E k \in 0..n : k = Cardinality(S) /\ \A i \in 1..n : i \in S <=> i <= k
<1> DEFINE k == Cardinality(S)
<1>1. IsFiniteSet(1..n) /\ Cardinality(1..n) = n
  BY FS_Interval
<1>2. IsFiniteSet(S) /\ k <= n
  BY <1>1, FS_Subset, ZenonT(30)
<1>3. k \in Nat
  BY <1>2, FS_CardinalityType
<1>4. \A i \in S : i <= k
  <2> SUFFICES ASSUME NEW i \in S PROVE i <= k
    OBVIOUS
  <2>1. i \in Nat /\ i >= 1 /\ 1..i \subseteq S
    OBVIOUS
  <2>2. Cardinality(1..i) = i
    BY <2>1, FS_Interval
  <2>3. Cardinality(1..i) <= k
    BY <1>2, <2>1, FS_Subset
  <2> QED BY <2>2, <2>3
<1>5. S \subseteq 1..k
  BY <1>3, <1>4
<1>6. IsFiniteSet(1..k) /\ Cardinality(1..k) = k
  BY <1>3, FS_Interval
<1>7. S = 1..k
  BY <1>5, <1>6, FS_Subset
<1>8. \A i \in 1..n : i \in S <=> i <= k
  BY <1>3, <1>7
<1> QED BY <1>2, <1>3, <1>8

\* A set of natural numbers up to n has a largest member.
LEMMA MaxOf ==
  ASSUME NEW n \in Nat, NEW S \in SUBSET (0..n), S # {}
  PROVE  Max(S) \in S /\ \A x \in S : x <= Max(S)
<1> DEFINE D == {x \in 1..n : \E y \in S : x <= y}
<1>1. D \in SUBSET (1..n) /\ \A i \in D : \A j \in 1..i : j \in D
  OBVIOUS
<1> HIDE DEF D
<1>2. PICK k \in 0..n : \A i \in 1..n : i \in D <=> i <= k
  BY <1>1, LowerPart, Zenon
<1>3. \A y \in S : y <= k
  <2> SUFFICES ASSUME NEW y \in S, y > k PROVE FALSE
    OBVIOUS
  <2>1. y \in D /\ y \in 1..n
    BY DEF D
  <2> QED BY <1>2, <2>1
<1>4. k \in S
  <2>1. CASE k = 0
    <3>1. PICK y \in S : TRUE
      OBVIOUS
    <3> QED BY <1>3, <2>1, <3>1
  <2>2. CASE k > 0
    <3>1. k \in D
      BY <1>2, <2>2
    <3>2. PICK y \in S : k <= y
      BY <3>1 DEF D
    <3> QED BY <1>3, <3>2
  <2> QED BY <2>1, <2>2
<1>5. k \in S /\ \A x \in S : k >= x
  BY <1>3, <1>4
<1> QED BY <1>5 DEF Max

\* And a smallest.
LEMMA MinOf ==
  ASSUME NEW n \in Nat, NEW S \in SUBSET (0..n), S # {}
  PROVE  Min(S) \in S /\ \A x \in S : Min(S) <= x
<1> DEFINE D == {x \in 1..n : \A y \in S : x <= y}
<1>1. D \in SUBSET (1..n) /\ \A i \in D : \A j \in 1..i : j \in D
  OBVIOUS
<1> HIDE DEF D
<1>2. PICK k \in 0..n : \A i \in 1..n : i \in D <=> i <= k
  BY <1>1, LowerPart, Zenon
<1>3. \A y \in S : k <= y
  <2>1. CASE k = 0
    BY <2>1
  <2>2. CASE k > 0
    <3>1. k \in D
      BY <1>2, <2>2
    <3> QED BY <3>1 DEF D
  <2> QED BY <2>1, <2>2
<1>4. k \in S
  <2> SUFFICES ASSUME k \notin S PROVE FALSE
    OBVIOUS
  <2>1. \A y \in S : k + 1 <= y
    BY <1>3
  <2>2. k + 1 <= n
    <3>1. PICK y \in S : TRUE
      OBVIOUS
    <3> QED BY <2>1, <3>1
  <2>3. k + 1 \in 1..n /\ ~(k + 1 <= k)
    BY <2>2
  <2>4. k + 1 \in D
    BY <2>1, <2>3 DEF D
  <2> QED BY <1>2, <2>3, <2>4
<1>5. k \in S /\ \A x \in S : k <= x
  BY <1>3, <1>4
<1> QED BY <1>5 DEF Min

-----------------------------------------------------------------------------
(* Event times.                                                            *)

Increasing(events) ==
  \A i, j \in 1..Len(events) : i < j => events[i] < events[j]

\* A sequence that rises from each entry to the next rises from each entry to
\* every later one.
LEMMA StepwiseIncreasing ==
  ASSUME NEW s \in Seq(Int), \A i \in 1..(Len(s) - 1) : s[i] < s[i + 1]
  PROVE  Increasing(s)
<1> SUFFICES ASSUME NEW i \in 1..Len(s), NEW j \in 1..Len(s), i < j
             PROVE  s[i] < s[j]
  BY DEF Increasing
<1>0. Len(s) \in Nat /\ \A l \in 1..Len(s) : s[l] \in Int
  OBVIOUS
<1> DEFINE n == Len(s) - i
           D == {l \in 1..n : \A m \in 1..n : m <= l => s[i] < s[i + m]}
<1>1. n \in Nat
  BY <1>0
<1> HIDE DEF n
<1>2. D \in SUBSET (1..n) /\ \A l \in D : \A m \in 1..l : m \in D
  <2> SUFFICES ASSUME NEW l \in D, NEW m \in 1..l PROVE m \in D
    OBVIOUS
  <2>1. m \in 1..n
    BY <1>1
  <2>2. \A h \in 1..n : h <= m => h <= l
    BY <1>1
  <2> QED BY <2>1, <2>2
<1>3. PICK k \in 0..n : \A l \in 1..n : l \in D <=> l <= k
  BY <1>1, <1>2, LowerPart
<1>4. k = n
  <2> SUFFICES ASSUME k < n PROVE FALSE
    BY <1>1, <1>3
  <2>1. i + k \in 1..(Len(s) - 1) /\ i + (k + 1) = (i + k) + 1
    BY <1>0 DEF n
  <2>2. s[i + k] < s[i + (k + 1)]
    BY <2>1
  <2>3. s[i] \in Int /\ s[i + k] \in Int /\ s[i + (k + 1)] \in Int
    BY <1>0, <2>1
  <2>4. \A m \in 1..n : m <= k => s[i] < s[i + m]
    <3>1. CASE k = 0
      BY <3>1
    <3>2. CASE k > 0
      <4>1. k \in D
        BY <1>3, <3>2
      <4> QED BY <4>1
    <3> QED BY <3>1, <3>2
  <2>5. s[i] < s[i + (k + 1)]
    <3>1. CASE k = 0
      BY <2>1, <2>2, <3>1
    <3>2. CASE k > 0
      <4>1. k \in 1..n
        BY <3>2
      <4>2. s[i] < s[i + k]
        BY <2>4, <4>1
      <4> QED BY <2>2, <2>3, <4>2, SMTT(30)
    <3> QED BY <3>1, <3>2
  <2>6. \A m \in 1..n : m <= k + 1 => s[i] < s[i + m]
    <3> SUFFICES ASSUME NEW m \in 1..n, m <= k + 1 PROVE s[i] < s[i + m]
      OBVIOUS
    <3>1. m <= k \/ m = k + 1
      OBVIOUS
    <3> QED BY <2>4, <2>5, <3>1
  <2>7. k + 1 \in 1..n
    BY <1>1
  <2>8. k + 1 \in D
    BY <2>6, <2>7
  <2> QED BY <1>3, <2>7, <2>8
<1>5. j - i \in 1..n /\ j - i <= k /\ i + (j - i) = j
  BY <1>0, <1>4 DEF n
<1>6. j - i \in D
  BY <1>3, <1>5
<1> QED BY <1>5, <1>6

\* std::lower_bound: the events before t are the first ones.
LEMMA EventsBeforeIs ==
  ASSUME NEW events \in Seq(Int), Increasing(events), NEW t \in Int
  PROVE  /\ EventsBefore(events, t) \in 0..Len(events)
         /\ \A i \in 1..Len(events) : i <= EventsBefore(events, t) <=> events[i] < t
<1> DEFINE S == {i \in 1..Len(events) : events[i] < t}
<1>1. /\ Len(events) \in Nat /\ DOMAIN events = 1..Len(events)
      /\ \A i \in 1..Len(events) : events[i] \in Int
  OBVIOUS
<1>2. EventsBefore(events, t) = Cardinality(S)
  BY <1>1 DEF EventsBefore
<1>3. \A i \in S : \A j \in 1..i : j \in S
  <2> SUFFICES ASSUME NEW i \in S, NEW j \in 1..i, j # i PROVE j \in S
    BY <1>1
  <2>1. j \in 1..Len(events) /\ j < i
    BY <1>1
  <2>2. events[j] < events[i] /\ events[i] < t
    BY <2>1 DEF Increasing
  <2> QED BY <1>1, <2>1, <2>2
<1>4. PICK k \in 0..Len(events) : k = Cardinality(S) /\ \A i \in 1..Len(events) : i \in S <=> i <= k
  BY <1>1, <1>3, LowerPart
<1> QED BY <1>2, <1>4

\* Their number, from its two neighbours.
LEMMA EventsBeforeAt ==
  ASSUME NEW events \in Seq(Int), Increasing(events), NEW t \in Int, NEW k \in 0..Len(events),
         k > 0 => events[k] < t, k < Len(events) => t <= events[k + 1]
  PROVE  EventsBefore(events, t) = k
<1> DEFINE n == EventsBefore(events, t)
<1>1. /\ n \in 0..Len(events)
      /\ \A i \in 1..Len(events) : i <= n <=> events[i] < t
  BY EventsBeforeIs
<1> HIDE DEF n
<1>2. Len(events) \in Nat /\ \A i \in 1..Len(events) : events[i] \in Int
  OBVIOUS
<1>3. k <= n
  BY <1>1, <1>2
<1>4. n <= k
  <2> SUFFICES ASSUME n > k PROVE FALSE
    BY <1>1, <1>2
  <2>1. k + 1 \in 1..Len(events) /\ k + 1 <= n
    BY <1>1, <1>2
  <2>2. events[k + 1] < t /\ t <= events[k + 1] /\ events[k + 1] \in Int
    BY <1>1, <1>2, <2>1
  <2> QED BY <2>2
<1> QED BY <1>1, <1>3, <1>4 DEF n

-----------------------------------------------------------------------------
(* Mode schedules.                                                         *)

Schedules == [eventTimes : Seq(Int), modeSequence : Seq(SUBSET Legs)]

\* A schedule that begins and ends on all feet.
Framed(sched) ==
  /\ sched \in Schedules
  /\ Len(sched.eventTimes) >= 1
  /\ Len(sched.modeSequence) = Len(sched.eventTimes) + 1
  /\ Increasing(sched.eventTimes)
  /\ sched.modeSequence[1] = STANCE
  /\ LastOf(sched.modeSequence) = STANCE

\* The same as facts about its two sequences.
LEMMA FramedParts ==
  ASSUME NEW sched, Framed(sched)
  PROVE  /\ sched.eventTimes \in Seq(Int) /\ sched.modeSequence \in Seq(SUBSET Legs)
         /\ Len(sched.eventTimes) \in Nat \ {0}
         /\ Len(sched.modeSequence) = Len(sched.eventTimes) + 1
         /\ DOMAIN sched.eventTimes = 1..Len(sched.eventTimes)
         /\ DOMAIN sched.modeSequence = 1..Len(sched.modeSequence)
         /\ \A i \in 1..Len(sched.eventTimes) : sched.eventTimes[i] \in Int
         /\ \A p \in 1..Len(sched.modeSequence) : sched.modeSequence[p] \in SUBSET Legs
         /\ Increasing(sched.eventTimes)
         /\ sched.modeSequence[1] = STANCE
         /\ sched.modeSequence[Len(sched.eventTimes) + 1] = STANCE
<1>1. sched.eventTimes \in Seq(Int) /\ sched.modeSequence \in Seq(SUBSET Legs)
  BY DEF Framed, Schedules
<1>2. Len(sched.eventTimes) \in Nat /\ Len(sched.eventTimes) >= 1
  BY <1>1 DEF Framed
<1> QED
  BY <1>1, <1>2, LenProperties, ElementOfSeq DEF Framed, LastOf

\* Framed schedules are well-formed.
LEMMA FramedIsSchedule ==
  ASSUME NEW sched, Framed(sched)
  PROVE  IsSchedule(sched)
<1>1. \A p \in DOMAIN sched.modeSequence : sched.modeSequence[p] \subseteq Legs
  BY FramedParts
<1>2. \A i, j \in DOMAIN sched.eventTimes : i < j => sched.eventTimes[i] < sched.eventTimes[j]
  BY FramedParts DEF Increasing
<1> QED
  BY <1>1, <1>2, FramedParts DEF IsSchedule

\* Every time has its phase, and a mode.
LEMMA PhaseInSchedule ==
  ASSUME NEW sched, Framed(sched), NEW t \in Int
  PROVE  /\ PhaseAt(sched.eventTimes, t) \in 1..Len(sched.modeSequence)
         /\ ModeAt(sched, t) \in SUBSET Legs
         /\ \A i \in 1..Len(sched.eventTimes) :
              i < PhaseAt(sched.eventTimes, t) <=> sched.eventTimes[i] < t
<1> DEFINE e == sched.eventTimes
           n == EventsBefore(e, t)
<1>1. /\ e \in Seq(Int) /\ Increasing(e) /\ Len(e) \in Nat
      /\ Len(sched.modeSequence) = Len(e) + 1
  BY FramedParts
<1> HIDE DEF e
<1>2. n \in 0..Len(e) /\ \A i \in 1..Len(e) : i <= n <=> e[i] < t
  BY <1>1, EventsBeforeIs
<1> HIDE DEF n
<1>3. n + 1 \in 1..Len(sched.modeSequence) /\ \A i \in 1..Len(e) : i < n + 1 <=> i <= n
  BY <1>1, <1>2
<1>4. PhaseAt(e, t) = n + 1
  BY DEF PhaseAt, n
<1>5. ModeAt(sched, t) = sched.modeSequence[n + 1]
  BY <1>4 DEF ModeAt, e
<1>6. sched.modeSequence[n + 1] \in SUBSET Legs
  BY <1>3, FramedParts
<1> QED
  BY <1>2, <1>3, <1>4, <1>5, <1>6 DEF e

\* A mode is found from the events next to its time.
LEMMA ModeAtIs ==
  ASSUME NEW sched, Framed(sched), NEW t \in Int, NEW k \in 0..Len(sched.eventTimes),
         k > 0 => sched.eventTimes[k] < t,
         k < Len(sched.eventTimes) => t <= sched.eventTimes[k + 1]
  PROVE  ModeAt(sched, t) = sched.modeSequence[k + 1]
<1>1. EventsBefore(sched.eventTimes, t) = k
  BY FramedParts, EventsBeforeAt
<1> QED BY <1>1 DEF ModeAt, PhaseAt

\* A part of a sequence.
LEMMA SliceIs ==
  ASSUME NEW T, NEW s \in Seq(T), NEW a \in 1..(Len(s) + 1), NEW b \in (a - 1)..Len(s)
  PROVE  /\ SubSeq(s, a, b) \in Seq(T) /\ Len(SubSeq(s, a, b)) = b - a + 1
         /\ \A i \in 1..(b - a + 1) : SubSeq(s, a, b)[i] = s[a + i - 1]
<1>1. Len(s) \in Nat /\ a \in Int /\ b \in Int
  BY LenProperties
<1>2. \A i \in a..b : s[i] \in T
  BY <1>1, ElementOfSeq
<1>3. /\ SubSeq(s, a, b) \in Seq(T)
      /\ Len(SubSeq(s, a, b)) = IF a <= b THEN b - a + 1 ELSE 0
      /\ \A i \in 1..(b - a + 1) : SubSeq(s, a, b)[i] = s[a + i - 1]
  BY <1>1, <1>2, SubSeqProperties
<1> QED BY <1>1, <1>3

\* All of a sequence but its last entry.
LEMMA ButLastIs ==
  ASSUME NEW T, NEW s \in Seq(T), Len(s) \in Nat \ {0}
  PROVE  /\ ButLast(s) \in Seq(T) /\ Len(ButLast(s)) = Len(s) - 1
         /\ \A i \in 1..(Len(s) - 1) : ButLast(s)[i] = s[i]
<1> DEFINE b == Len(s) - 1
<1>1. 1 \in 1..(Len(s) + 1) /\ b \in (1 - 1)..Len(s)
  OBVIOUS
<1>2. b - 1 + 1 = b /\ \A i \in 1..b : 1 + i - 1 = i
  OBVIOUS
<1> HIDE DEF b
<1>3. /\ SubSeq(s, 1, b) \in Seq(T) /\ Len(SubSeq(s, 1, b)) = b - 1 + 1
      /\ \A i \in 1..(b - 1 + 1) : SubSeq(s, 1, b)[i] = s[1 + i - 1]
  BY <1>1, SliceIs
<1> QED BY <1>2, <1>3 DEF ButLast, b

-----------------------------------------------------------------------------
(* What the operators of GaitSchedule make of a schedule.                  *)

\* The clock changes, the modes do not.
LEMMA ShiftKeeps ==
  ASSUME NEW sched, Framed(sched), NEW d \in Int
  PROVE  /\ Framed(Shift(sched, d))
         /\ LastOf(Shift(sched, d).eventTimes) = LastOf(sched.eventTimes) - d
         /\ \A t \in Int : ModeAt(Shift(sched, d), t) = ModeAt(sched, t + d)
<1> DEFINE e == sched.eventTimes
           f == [i \in 1..Len(e) |-> e[i] - d]
           new == Shift(sched, d)
<1>1. /\ e \in Seq(Int) /\ Len(e) \in Nat \ {0} /\ DOMAIN e = 1..Len(e)
      /\ \A i \in 1..Len(e) : e[i] \in Int
      /\ Increasing(e)
  BY FramedParts
<1>2. f \in Seq(Int) /\ Len(f) = Len(e) /\ \A i \in 1..Len(e) : f[i] = e[i] - d
  BY <1>1
<1>3. new.eventTimes = f /\ new.modeSequence = sched.modeSequence /\ new \in Schedules
  BY <1>1, <1>2 DEF Shift, Framed, Schedules
<1> HIDE DEF f, new
<1>4. Increasing(f)
  <2> SUFFICES ASSUME NEW i \in 1..Len(e), NEW j \in 1..Len(e), i < j PROVE f[i] < f[j]
    BY <1>2 DEF Increasing
  <2>1. e[i] < e[j] /\ e[i] \in Int /\ e[j] \in Int
    BY <1>1 DEF Increasing
  <2> QED BY <1>2, <2>1, SMTT(30)
<1>5. Framed(new)
  <2>1. Len(f) >= 1 /\ Len(sched.modeSequence) = Len(f) + 1
    BY <1>1, <1>2 DEF Framed
  <2> QED BY <1>3, <1>4, <2>1 DEF Framed
<1>6. LastOf(f) = LastOf(e) - d
  BY <1>1, <1>2, SMTT(30) DEF LastOf
<1>7. ASSUME NEW t \in Int PROVE ModeAt(new, t) = ModeAt(sched, t + d)
  <2> DEFINE k == EventsBefore(e, t + d)
  <2>0. t + d \in Int
    OBVIOUS
  <2>1. k \in 0..Len(e) /\ \A i \in 1..Len(e) : i <= k <=> e[i] < t + d
    BY <1>1, <2>0, EventsBeforeIs
  <2>2. ModeAt(sched, t + d) = sched.modeSequence[k + 1]
    BY DEF ModeAt, PhaseAt
  <2> HIDE DEF k
  <2>3. k > 0 => f[k] < t
    <3> SUFFICES ASSUME k > 0 PROVE f[k] < t
      OBVIOUS
    <3>1. k \in 1..Len(e) /\ k <= k
      BY <2>1
    <3>2. e[k] < t + d /\ e[k] \in Int /\ f[k] = e[k] - d
      BY <1>1, <1>2, <2>1, <3>1
    <3> QED BY <3>2
  <2>4. k < Len(e) => t <= f[k + 1]
    <3> SUFFICES ASSUME k < Len(e) PROVE t <= f[k + 1]
      OBVIOUS
    <3>1. k + 1 \in 1..Len(e) /\ ~(k + 1 <= k)
      BY <1>1, <2>1
    <3>2. ~(e[k + 1] < t + d) /\ e[k + 1] \in Int /\ f[k + 1] = e[k + 1] - d
      BY <1>1, <1>2, <2>1, <3>1
    <3> QED BY <3>2
  <2>5. ModeAt(new, t) = new.modeSequence[k + 1]
    BY <1>2, <1>3, <1>5, <2>1, <2>3, <2>4, ModeAtIs
  <2> QED BY <1>3, <2>2, <2>5
<1> QED BY <1>3, <1>5, <1>6, <1>7 DEF new

\* From lower on nothing is forgotten.
LEMMA DropPastKeeps ==
  ASSUME NEW sched, Framed(sched), NEW lower \in Int
  PROVE  /\ Framed(DropPast(sched, lower))
         /\ LastOf(DropPast(sched, lower).eventTimes) = LastOf(sched.eventTimes)
         /\ \A t \in Int : t >= lower => ModeAt(DropPast(sched, lower), t) = ModeAt(sched, t)
<1> DEFINE e == sched.eventTimes
           m == sched.modeSequence
           n == EventsBefore(e, lower)
           f == SubSeq(e, n, Len(e))
           q == <<STANCE>> \o SubSeq(m, n + 1, Len(m))
           new == DropPast(sched, lower)
<1>1. /\ e \in Seq(Int) /\ Len(e) \in Nat \ {0} /\ DOMAIN e = 1..Len(e)
      /\ m \in Seq(SUBSET Legs) /\ Len(m) = Len(e) + 1 /\ m[Len(e) + 1] = STANCE
      /\ \A i \in 1..Len(e) : e[i] \in Int
      /\ Increasing(e)
  BY FramedParts
<1>2. n \in 0..Len(e) /\ \A i \in 1..Len(e) : i <= n <=> e[i] < lower
  BY <1>1, EventsBeforeIs
<1>3. CASE n = 0
  BY <1>3 DEF DropPast
<1>4. CASE n # 0
  <2>1. new = [eventTimes |-> f, modeSequence |-> q]
    BY <1>4 DEF DropPast
  <2> HIDE DEF e, m, n, new
  <2>2. n \in 1..(Len(e) + 1) /\ Len(e) \in (n - 1)..Len(e)
    BY <1>1, <1>2, <1>4
  <2>3. /\ f \in Seq(Int) /\ Len(f) = Len(e) - n + 1
        /\ \A i \in 1..(Len(e) - n + 1) : f[i] = e[n + i - 1]
    BY <1>1, <2>2, SliceIs
  <2>4. n + 1 \in 1..(Len(m) + 1) /\ Len(m) \in ((n + 1) - 1)..Len(m)
    BY <1>1, <1>2
  <2> DEFINE r == SubSeq(m, n + 1, Len(m))
  <2>5. /\ r \in Seq(SUBSET Legs) /\ Len(r) = Len(m) - (n + 1) + 1
        /\ \A i \in 1..(Len(m) - (n + 1) + 1) : r[i] = m[(n + 1) + i - 1]
    BY <1>1, <2>4, SliceIs, ZenonT(30)
  <2>6. <<STANCE>> \in Seq(SUBSET Legs) /\ Len(<<STANCE>>) = 1 /\ <<STANCE>>[1] = STANCE
    BY DEF STANCE
  <2>7. /\ q \in Seq(SUBSET Legs) /\ Len(q) = 1 + Len(r)
        /\ \A i \in 1..(1 + Len(r)) : q[i] = IF i <= 1 THEN <<STANCE>>[i] ELSE r[i - 1]
    <3> DEFINE one == <<STANCE>>
    <3>1. q = one \o r /\ Len(one) = 1 /\ one \in Seq(SUBSET Legs)
      BY <2>6
    <3> HIDE DEF r, q, one
    <3>2. /\ one \o r \in Seq(SUBSET Legs) /\ Len(one \o r) = Len(one) + Len(r)
          /\ \A i \in 1..(Len(one) + Len(r)) :
               (one \o r)[i] = IF i <= Len(one) THEN one[i] ELSE r[i - Len(one)]
      BY <2>5, <3>1, ConcatProperties
    <3>3. /\ q \in Seq(SUBSET Legs) /\ Len(q) = 1 + Len(r)
          /\ \A i \in 1..(1 + Len(r)) : q[i] = IF i <= 1 THEN one[i] ELSE r[i - 1]
      BY <3>1, <3>2, Zenon
    <3> QED BY <3>3 DEF one
  <2> HIDE DEF f, q, r
  <2>8. Len(q) = Len(e) - n + 2 /\ q[1] = STANCE
        /\ \A i \in 2..(Len(e) - n + 2) : q[i] = m[n + i - 1]
    <3>1. Len(r) = Len(e) - n + 1 /\ Len(r) \in Nat
      BY <1>1, <1>2, <2>5
    <3>2. q[1] = STANCE
      BY <2>6, <2>7, <3>1
    <3>3. ASSUME NEW i \in 2..(Len(e) - n + 2) PROVE q[i] = m[n + i - 1]
      <4>1. i \in 1..(1 + Len(r)) /\ ~(i <= 1) /\ i - 1 \in 1..(Len(m) - (n + 1) + 1)
            /\ (n + 1) + (i - 1) - 1 = n + i - 1
        BY <1>1, <1>2, <3>1
      <4>2. q[i] = r[i - 1]
        BY <2>7, <4>1
      <4>3. r[i - 1] = m[(n + 1) + (i - 1) - 1]
        BY <2>5, <4>1
      <4> QED BY <4>1, <4>2, <4>3
    <3> QED BY <2>7, <3>1, <3>2, <3>3, <1>1, <1>2
  <2>9. Increasing(f)
    <3> SUFFICES ASSUME NEW i \in 1..Len(f), NEW j \in 1..Len(f), i < j PROVE f[i] < f[j]
      BY DEF Increasing
    <3>1. /\ n + i - 1 \in 1..Len(e) /\ n + j - 1 \in 1..Len(e) /\ n + i - 1 < n + j - 1
          /\ i \in 1..(Len(e) - n + 1) /\ j \in 1..(Len(e) - n + 1)
      BY <1>1, <1>2, <1>4, <2>3
    <3>2. e[n + i - 1] < e[n + j - 1]
      BY <1>1, <3>1 DEF Increasing
    <3> QED BY <2>3, <3>1, <3>2
  <2>10. Len(f) \in Nat \ {0} /\ Len(q) = Len(f) + 1 /\ Len(f) = Len(e) - n + 1
    BY <1>1, <1>2, <2>3, <2>8
  <2>11. LastOf(f) = LastOf(e)
    <3>1. Len(f) \in 1..(Len(e) - n + 1) /\ n + Len(f) - 1 = Len(e)
      BY <1>1, <1>2, <2>10
    <3> QED BY <2>3, <3>1 DEF LastOf
  <2>12. LastOf(q) = STANCE
    <3>1. Len(q) \in 2..(Len(e) - n + 2) /\ n + Len(q) - 1 = Len(e) + 1
      BY <1>1, <1>2, <2>10
    <3> QED BY <1>1, <2>8, <3>1 DEF LastOf
  <2>13. new.eventTimes = f /\ new.modeSequence = q /\ new \in Schedules
    BY <2>1, <2>3, <2>7 DEF Schedules
  <2>14. Framed(new)
    BY <2>8, <2>9, <2>10, <2>12, <2>13 DEF Framed
  <2>15. ASSUME NEW t \in Int, t >= lower PROVE ModeAt(new, t) = ModeAt(sched, t)
    <3> DEFINE k == EventsBefore(e, t)
               l == k - n + 1
    <3>1. k \in 0..Len(e) /\ \A i \in 1..Len(e) : i <= k <=> e[i] < t
      BY <1>1, EventsBeforeIs
    <3>2. ModeAt(sched, t) = m[k + 1]
      BY DEF ModeAt, PhaseAt, e, m
    <3> HIDE DEF k
    <3>3. n \in 1..Len(e) /\ e[n] < lower /\ e[n] \in Int
      BY <1>1, <1>2, <1>4
    <3>4. e[n] < t
      BY <2>15, <3>3
    <3>5. n <= k
      BY <3>1, <3>3, <3>4
    <3>6. l \in 0..Len(f) /\ l > 0 /\ n + l - 1 = k
      BY <1>1, <2>10, <3>1, <3>3, <3>5
    <3>7. f[l] < t
      <4>1. l \in 1..(Len(e) - n + 1) /\ k \in 1..Len(e) /\ k <= k
        BY <2>10, <3>1, <3>3, <3>5, <3>6
      <4> QED BY <2>3, <3>1, <3>6, <4>1
    <3>8. l < Len(f) => t <= f[l + 1]
      <4> SUFFICES ASSUME l < Len(f) PROVE t <= f[l + 1]
        OBVIOUS
      <4>1. /\ l + 1 \in 1..(Len(e) - n + 1) /\ n + (l + 1) - 1 = k + 1 /\ k + 1 \in 1..Len(e)
            /\ ~(k + 1 <= k)
        BY <2>10, <3>1, <3>3, <3>5, <3>6
      <4>2. f[l + 1] = e[k + 1]
        BY <2>3, <4>1
      <4>3. ~(e[k + 1] < t) /\ e[k + 1] \in Int
        BY <1>1, <3>1, <4>1
      <4> QED BY <4>2, <4>3
    <3>9. l + 1 \in 2..(Len(e) - n + 2) /\ n + (l + 1) - 1 = k + 1
      BY <2>10, <3>1, <3>3, <3>5, <3>6
    <3> HIDE DEF l
    <3>10. ModeAt(new, t) = q[l + 1]
      BY <2>13, <2>14, <3>6, <3>7, <3>8, ModeAtIs
    <3> QED BY <2>8, <3>2, <3>9, <3>10
  <2> QED BY <2>11, <2>13, <2>14, <2>15 DEF e, new
<1> QED BY <1>3, <1>4

\* Sequences put together, by their entries.
LEMMA TwoParts ==
  ASSUME NEW T, NEW a \in Seq(T), NEW b \in Seq(T)
  PROVE  /\ a \o b \in Seq(T) /\ Len(a \o b) = Len(a) + Len(b)
         /\ \A i \in 1..Len(a) : (a \o b)[i] = a[i]
         /\ \A i \in 1..Len(b) : (a \o b)[Len(a) + i] = b[i]
<1>1. Len(a) \in Nat /\ Len(b) \in Nat
  BY LenProperties
<1> DEFINE c == a \o b
<1>2. /\ c \in Seq(T) /\ Len(c) = Len(a) + Len(b)
      /\ \A i \in 1..(Len(a) + Len(b)) : c[i] = IF i <= Len(a) THEN a[i] ELSE b[i - Len(a)]
  BY ConcatProperties
<1> HIDE DEF c
<1>3. ASSUME NEW i \in 1..Len(a) PROVE c[i] = a[i]
  <2>1. i \in 1..(Len(a) + Len(b)) /\ i <= Len(a)
    BY <1>1
  <2> QED BY <1>2, <2>1
<1>4. ASSUME NEW i \in 1..Len(b) PROVE c[Len(a) + i] = b[i]
  <2>1. Len(a) + i \in 1..(Len(a) + Len(b)) /\ ~(Len(a) + i <= Len(a)) /\ (Len(a) + i) - Len(a) = i
    BY <1>1
  <2>2. c[Len(a) + i] = b[(Len(a) + i) - Len(a)]
    BY <1>2, <2>1
  <2> QED BY <2>1, <2>2
<1> QED BY <1>2, <1>3, <1>4 DEF c

\* The same for three.
LEMMA ThreeParts ==
  ASSUME NEW T, NEW a \in Seq(T), NEW b \in Seq(T), NEW c \in Seq(T)
  PROVE  /\ a \o b \o c \in Seq(T) /\ Len(a \o b \o c) = Len(a) + Len(b) + Len(c)
         /\ \A i \in 1..Len(a) : (a \o b \o c)[i] = a[i]
         /\ \A i \in 1..Len(b) : (a \o b \o c)[Len(a) + i] = b[i]
         /\ \A i \in 1..Len(c) : (a \o b \o c)[Len(a) + Len(b) + i] = c[i]
<1> DEFINE ab == a \o b
           s == ab \o c
<1>1. Len(a) \in Nat /\ Len(b) \in Nat
  BY LenProperties
<1>2. /\ ab \in Seq(T) /\ Len(ab) = Len(a) + Len(b)
      /\ \A i \in 1..Len(a) : ab[i] = a[i]
      /\ \A i \in 1..Len(b) : ab[Len(a) + i] = b[i]
  BY TwoParts
<1> HIDE DEF ab
<1>3. /\ ab \o c \in Seq(T) /\ Len(ab \o c) = Len(ab) + Len(c)
      /\ \A i \in 1..Len(ab) : (ab \o c)[i] = ab[i]
      /\ \A i \in 1..Len(c) : (ab \o c)[Len(ab) + i] = c[i]
  <2>1. ab \in Seq(T)
    BY <1>2
  <2> QED BY <2>1, TwoParts
<1>4. s = ab \o c
  OBVIOUS
<1> HIDE DEF s
<1>5. ASSUME NEW i \in 1..Len(a) PROVE s[i] = a[i]
  <2>1. i \in 1..Len(ab)
    BY <1>1, <1>2
  <2> QED BY <1>2, <1>3, <1>4, <2>1
<1>6. ASSUME NEW i \in 1..Len(b) PROVE s[Len(a) + i] = b[i]
  <2>1. Len(a) + i \in 1..Len(ab)
    BY <1>1, <1>2
  <2> QED BY <1>2, <1>3, <1>4, <2>1
<1>7. \A i \in 1..Len(c) : s[Len(a) + Len(b) + i] = c[i]
  BY <1>2, <1>3, <1>4
<1>8. Len(s) = Len(a) + Len(b) + Len(c)
  BY <1>2, <1>3, <1>4
<1> QED BY <1>3, <1>4, <1>5, <1>6, <1>7, <1>8 DEF s, ab

-----------------------------------------------------------------------------
(* Copies of a gait.                                                       *)

\* Division with a remainder, of natural numbers.
LEMMA DivMod ==
  ASSUME NEW a \in Nat, NEW b \in Nat \ {0}
  PROVE  /\ a \div b \in Nat /\ a % b \in 0..(b - 1)
         /\ a = b * (a \div b) + (a % b)
<1>1. a \div b \in Nat /\ a % b \in Nat /\ a % b < b
  BY SMT
<1>2. ASSUME NEW q \in Int, q = a \div b, NEW r \in Int, r = a % b PROVE a = b * q + r
  BY <1>2, SMT
<1> QED BY <1>1, <1>2

\* The template's phases follow each other and fill its duration.
LEMMA TemplateParts ==
  ASSUME NEW g, IsTemplate(g)
  PROVE  /\ g.modeSequence \in Seq(SUBSET Legs) /\ Len(g.modeSequence) \in Nat \ {0}
         /\ DOMAIN g.modeSequence = 1..Len(g.modeSequence)
         /\ g.switchingTimes \in Seq(Int)
         /\ Len(g.switchingTimes) = Len(g.modeSequence) + 1
         /\ Increasing(g.switchingTimes)
         /\ Duration(g) = g.switchingTimes[Len(g.modeSequence) + 1]
         /\ Duration(g) \in Nat \ {0}
         /\ \A i \in 2..(Len(g.modeSequence) + 1) :
              /\ g.switchingTimes[i] \in Nat \ {0}
              /\ g.switchingTimes[i] <= Duration(g)
<1> DEFINE w == g.switchingTimes
           m == g.modeSequence
<1>1. /\ m \in Seq(SUBSET Legs) /\ m # <<>> /\ w \in Seq(Nat)
      /\ Len(w) = Len(m) + 1 /\ w[1] = 0
      /\ \A i \in 1..Len(m) : w[i] < w[i + 1]
  BY DEF IsTemplate
<1>2. Duration(g) = w[Len(w)]
  BY DEF Duration
<1>3. Len(m) \in Nat \ {0} /\ DOMAIN m = 1..Len(m)
  BY <1>1, EmptySeq, LenProperties
<1> HIDE DEF w, m
<1>4. w \in Seq(Int)
  BY <1>1
<1>5. Increasing(w)
  <2>1. Len(m) = Len(w) - 1
    BY <1>1, <1>3
  <2> QED BY <1>1, <1>4, <2>1, StepwiseIncreasing
<1>6. ASSUME NEW i \in 2..Len(w) PROVE w[i] \in Nat \ {0} /\ w[i] <= w[Len(w)]
  <2>1. Len(w) \in Nat /\ 1 \in 1..Len(w) /\ i \in 1..Len(w) /\ Len(w) \in 1..Len(w) /\ 1 < i
    BY <1>1, <1>3
  <2>2. w[1] < w[i] /\ w[i] \in Nat /\ w[Len(w)] \in Nat
    BY <1>1, <1>5, <2>1 DEF Increasing
  <2>3. i # Len(w) => w[i] < w[Len(w)]
    BY <1>5, <2>1 DEF Increasing
  <2> QED BY <1>1, <2>2, <2>3
<1>7. Len(w) \in 2..Len(w)
  BY <1>1, <1>3
<1>8. w[Len(w)] \in Nat \ {0}
  BY <1>6, <1>7
<1> QED BY <1>1, <1>2, <1>3, <1>4, <1>5, <1>6, <1>8 DEF w, m

\* When the phase at place i of a row of copies ends.
EndOf(g, i) == ((i - 1) \div Len(g.modeSequence)) * Duration(g)
                 + g.switchingTimes[((i - 1) % Len(g.modeSequence)) + 2]

\* One copy more takes its duration.
LEMMA ProductRises ==
  ASSUME NEW a \in Nat, NEW b \in Nat, NEW c \in Nat, a < b
  PROVE  a * c + c <= b * c /\ a * c \in Nat /\ b * c \in Nat
<1>1. (b - (a + 1)) * c \in Nat
  BY SMT
<1>2. (b - (a + 1)) * c = b * c - (a * c + c)
  BY SMT
<1> QED BY <1>1, <1>2, SMT

\* The ends of the phases of a row of copies rise.
LEMMA CopiesRise ==
  ASSUME NEW g, IsTemplate(g), NEW i \in Nat \ {0}, NEW j \in Nat \ {0}, i < j
  PROVE  EndOf(g, i) \in Nat \ {0} /\ EndOf(g, i) < EndOf(g, j)
<1> DEFINE M == Len(g.modeSequence)
           w == g.switchingTimes
           D == Duration(g)
           qi == (i - 1) \div M
           ri == (i - 1) % M
           qj == (j - 1) \div M
           rj == (j - 1) % M
<1>1. /\ M \in Nat \ {0} /\ D \in Nat \ {0} /\ w \in Seq(Int) /\ Len(w) = M + 1
      /\ Increasing(w)
      /\ \A l \in 2..(M + 1) : w[l] \in Nat \ {0} /\ w[l] <= D
  BY TemplateParts
<1>2. EndOf(g, i) = qi * D + w[ri + 2] /\ EndOf(g, j) = qj * D + w[rj + 2]
  BY DEF EndOf
<1> HIDE DEF M, w, D
<1>3. i - 1 \in Nat /\ j - 1 \in Nat
  OBVIOUS
<1>4. /\ qi \in Nat /\ ri \in 0..(M - 1) /\ i - 1 = M * qi + ri
      /\ qj \in Nat /\ rj \in 0..(M - 1) /\ j - 1 = M * qj + rj
  BY <1>1, <1>3, DivMod
<1> HIDE DEF qi, ri, qj, rj
<1>5. ri + 2 \in 2..(M + 1) /\ rj + 2 \in 2..(M + 1)
  BY <1>1, <1>4
<1>6. /\ w[ri + 2] \in Nat \ {0} /\ w[ri + 2] <= D
      /\ w[rj + 2] \in Nat \ {0} /\ w[rj + 2] <= D
  BY <1>1, <1>5
<1>7. qi * D \in Nat /\ qj * D \in Nat
  BY <1>1, <1>4, SMT
<1>8. CASE qi = qj
  <2>0. M * qi = M * qj /\ M * qj \in Nat
    BY <1>1, <1>4, <1>8, SMT
  <2>1. ri < rj
    BY <1>3, <1>4, <2>0
  <2>2. w[ri + 2] < w[rj + 2]
    BY <1>1, <1>4, <1>5, <2>1 DEF Increasing
  <2> QED BY <1>2, <1>6, <1>7, <1>8, <2>2
<1>9. CASE qi < qj
  <2>1. qi * D + D <= qj * D
    BY <1>1, <1>4, <1>9, ProductRises
  <2>2. qi * D + w[ri + 2] < qj * D + w[rj + 2]
    BY <1>1, <1>6, <1>7, <2>1, SMTT(30)
  <2> QED BY <1>2, <1>6, <1>7, <2>2
<1>10. CASE qj < qi
  <2>1. qj * M + M <= qi * M
    BY <1>1, <1>4, <1>10, ProductRises
  <2>2. qj * M = M * qj /\ qi * M = M * qi /\ M * qj \in Nat /\ M * qi \in Nat
    BY <1>1, <1>4, SMT
  <2>3. j - 1 < i - 1
    BY <1>1, <1>4, <2>1, <2>2
  <2> QED BY <2>3
<1> QED BY <1>4, <1>8, <1>9, <1>10

\* n copies last n times the duration.
LEMMA CopiesEnd ==
  ASSUME NEW g, IsTemplate(g), NEW n \in Nat \ {0}
  PROVE  EndOf(g, n * Len(g.modeSequence)) = n * Duration(g)
<1> DEFINE M == Len(g.modeSequence)
           D == Duration(g)
           q == (n * M - 1) \div M
           r == (n * M - 1) % M
<1>1. M \in Nat \ {0} /\ D \in Nat \ {0} /\ g.switchingTimes[M + 1] = D
  BY TemplateParts
<1>2. EndOf(g, n * M) = q * D + g.switchingTimes[r + 2]
  BY DEF EndOf
<1> HIDE DEF M, D
<1>3. n * M - 1 \in Nat
  BY <1>1, SMT
<1>4. q \in Nat /\ r \in 0..(M - 1) /\ n * M - 1 = M * q + r
  BY <1>1, <1>3, DivMod
<1> HIDE DEF q, r
<1>5. n * M \in Nat /\ M * q = q * M /\ q * M \in Nat
  BY <1>1, <1>4, SMT
<1>6. ~(q >= n)
  <2> SUFFICES ASSUME q >= n PROVE FALSE
    OBVIOUS
  <2>1. n < q + 1 /\ q + 1 \in Nat
    BY <1>4
  <2>2. n * M + M <= (q + 1) * M
    BY <1>1, <2>1, ProductRises
  <2>3. (q + 1) * M = q * M + M
    BY <1>1, <1>4, SMT
  <2> QED BY <1>1, <1>4, <1>5, <2>2, <2>3
<1>7. ~(q < n - 1)
  <2> SUFFICES ASSUME q < n - 1 PROVE FALSE
    OBVIOUS
  <2>1. q + 1 < n /\ q + 1 \in Nat
    BY <1>4
  <2>2. (q + 1) * M + M <= n * M
    BY <1>1, <2>1, ProductRises
  <2>3. (q + 1) * M = q * M + M
    BY <1>1, <1>4, SMT
  <2> QED BY <1>1, <1>4, <1>5, <2>2, <2>3
<1>8. q = n - 1
  BY <1>4, <1>6, <1>7
<1>9. q * M = n * M - M
  BY <1>1, <1>8, SMT
<1>10. r + 2 = M + 1
  BY <1>1, <1>4, <1>5, <1>9
<1>11. q * D + D = n * D
  BY <1>1, <1>8, SMT
<1> QED BY <1>1, <1>2, <1>10, <1>11 DEF M, D

\* As many copies as tileModeSequenceTemplate() takes reach the final time.
LEMMA CopiesReach ==
  ASSUME NEW d \in Nat \ {0}, NEW gap \in Nat \ {0}
  PROVE  /\ (gap + d - 1) \div d \in Nat \ {0}
         /\ ((gap + d - 1) \div d) * d >= gap
<1> DEFINE a == gap + d - 1
           q == a \div d
<1>1. a \in Nat
  OBVIOUS
<1>2. q \in Nat /\ a % d \in 0..(d - 1) /\ a = d * q + (a % d)
  BY <1>1, DivMod
<1>3. d * q = q * d /\ q * d \in Nat
  BY <1>2, SMT
<1>4. q * d >= gap
  BY <1>2, <1>3
<1>5. q # 0
  BY <1>2, <1>4, SMT
<1> QED BY <1>2, <1>4, <1>5

\* The final stance makes way for copies of the gait, up to upper; what was
\* there before it stays.
LEMMA TileKeeps ==
  ASSUME NEW sched, Framed(sched), NEW g, IsTemplate(g), NEW upper \in Int,
         NEW new,
         new = Tile([eventTimes   |-> ButLast(sched.eventTimes),
                     modeSequence |-> ButLast(sched.modeSequence)],
                    g, LastOf(sched.eventTimes), upper)
  PROVE  /\ Framed(new)
         /\ LastOf(new.eventTimes) >= upper
         /\ LastOf(new.eventTimes) >= LastOf(sched.eventTimes)
         /\ \A t \in Int : t <= LastOf(sched.eventTimes) => ModeAt(new, t) = ModeAt(sched, t)
         /\ \A t \in Int : LastOf(sched.eventTimes) < t /\ t <= LastOf(new.eventTimes) =>
              \E p \in DOMAIN g.modeSequence : ModeAt(new, t) = g.modeSequence[p]
<1> DEFINE e == sched.eventTimes
           m == sched.modeSequence
           n == Len(e)
           start == LastOf(e)
           M == Len(g.modeSequence)
           D == Duration(g)
           copies == IF start < upper THEN (upper - start + D - 1) \div D ELSE 0
           K == copies * M
           mode == [i \in 1..K |-> g.modeSequence[((i - 1) % M) + 1]]
           end == [i \in 1..K |-> start + ((i - 1) \div M) * D
                                    + g.switchingTimes[((i - 1) % M) + 2]]
           f == ButLast(e) \o <<start>> \o end
           q == ButLast(m) \o mode \o <<STANCE>>
<1>1. new = [eventTimes |-> f, modeSequence |-> q]
  BY DEF Tile
<1>2. /\ e \in Seq(Int) /\ n \in Nat \ {0} /\ m \in Seq(SUBSET Legs) /\ Len(m) = n + 1
      /\ \A i \in 1..n : e[i] \in Int
      /\ Increasing(e) /\ m[1] = STANCE
  BY FramedParts
<1>3. start = e[n] /\ start \in Int
  BY <1>2 DEF LastOf
<1>4. /\ M \in Nat \ {0} /\ D \in Nat \ {0}
      /\ g.modeSequence \in Seq(SUBSET Legs) /\ DOMAIN g.modeSequence = 1..M
      /\ g.switchingTimes \in Seq(Int) /\ Len(g.switchingTimes) = M + 1
  BY TemplateParts
<1>5. copies \in Nat /\ (start < upper => copies # 0 /\ copies * D >= upper - start)
  <2>1. CASE start < upper
    <3>1. upper - start \in Nat \ {0}
      BY <1>3, <2>1
    <3>2. copies = (upper - start + D - 1) \div D
      BY <2>1
    <3> QED BY <1>4, <3>1, <3>2, CopiesReach
  <2>2. CASE ~(start < upper)
    BY <2>2
  <2> QED BY <2>1, <2>2
<1> HIDE DEF copies, start, M, D, n, e, m
<1>6. K \in Nat
  BY <1>4, <1>5, SMT
<1>7. \A i \in 1..K : (i - 1) % M \in 0..(M - 1)
  <2> SUFFICES ASSUME NEW i \in 1..K PROVE (i - 1) % M \in 0..(M - 1)
    OBVIOUS
  <2>1. i - 1 \in Nat
    BY <1>6
  <2> QED BY <1>4, <2>1, DivMod
<1> HIDE DEF K
<1>8. mode \in Seq(SUBSET Legs) /\ Len(mode) = K
      /\ \A i \in 1..K : \E p \in 1..M : mode[i] = g.modeSequence[p]
  <2>1. \A i \in 1..K : ((i - 1) % M) + 1 \in 1..M
    BY <1>4, <1>7
  <2>2. \A p \in 1..M : g.modeSequence[p] \in SUBSET Legs
    BY <1>4 DEF M
  <2>3. mode \in [1..K -> SUBSET Legs]
    BY <2>1, <2>2
  <2> QED BY <1>6, <2>1, <2>3
<1>9. end \in Seq(Int) /\ Len(end) = K /\ \A i \in 1..K : end[i] = start + EndOf(g, i)
  <2>1. ASSUME NEW i \in 1..K PROVE end[i] = start + EndOf(g, i) /\ end[i] \in Int
    <3>1. i \in Nat \ {0} /\ i + 1 \in Nat \ {0} /\ i < i + 1
      BY <1>6
    <3>2. EndOf(g, i) \in Nat
      BY <3>1, CopiesRise
    <3>3. EndOf(g, i) = ((i - 1) \div M) * D + g.switchingTimes[((i - 1) % M) + 2]
      BY DEF EndOf, M, D
    <3>4. ((i - 1) \div M) * D \in Int
      <4>1. i - 1 \in Nat
        BY <3>1
      <4>2. (i - 1) \div M \in Nat
        BY <1>4, <4>1, DivMod
      <4> HIDE DEF end
      <4> QED BY <1>4, <4>2, SMT
    <3>5. g.switchingTimes[((i - 1) % M) + 2] \in Int
      <4>1. ((i - 1) % M) + 2 \in 1..(M + 1)
        BY <1>4, <1>7
      <4> QED BY <1>4, <4>1, ElementOfSeq
    <3> QED BY <1>3, <3>2, <3>3, <3>4, <3>5
  <2>2. end \in [1..K -> Int]
    BY <2>1
  <2> HIDE DEF end
  <2> QED BY <1>6, <2>1, <2>2
<1>10. ButLast(e) \in Seq(Int) /\ Len(ButLast(e)) = n - 1 /\ \A i \in 1..(n - 1) : ButLast(e)[i] = e[i]
  <2>1. e \in Seq(Int) /\ Len(e) \in Nat \ {0}
    BY <1>2 DEF n
  <2> HIDE DEF e
  <2> QED BY <2>1, ButLastIs DEF n
<1>11. ButLast(m) \in Seq(SUBSET Legs) /\ Len(ButLast(m)) = n /\ \A i \in 1..n : ButLast(m)[i] = m[i]
  <2>1. Len(m) \in Nat \ {0} /\ Len(m) - 1 = n
    BY <1>2
  <2>2. /\ ButLast(m) \in Seq(SUBSET Legs) /\ Len(ButLast(m)) = Len(m) - 1
        /\ \A i \in 1..(Len(m) - 1) : ButLast(m)[i] = m[i]
    <3> HIDE DEF m, n
    <3> QED BY <1>2, <2>1, ButLastIs
  <2> QED BY <2>1, <2>2
<1> HIDE DEF mode, end
<1>12. /\ f \in Seq(Int) /\ Len(f) = n + K
       /\ \A i \in 1..n : f[i] = e[i]
       /\ \A i \in 1..K : f[n + i] = start + EndOf(g, i)
  <2> DEFINE a == ButLast(e)
             b == <<start>>
  <2>1. b \in Seq(Int) /\ Len(b) = 1 /\ b[1] = start
    BY <1>3
  <2>2. a \in Seq(Int) /\ Len(a) = n - 1 /\ \A i \in 1..(n - 1) : a[i] = e[i]
    BY <1>10
  <2>3. f = a \o b \o end
    OBVIOUS
  <2> HIDE DEF a, b, f
  <2>4. /\ f \in Seq(Int) /\ Len(f) = Len(a) + Len(b) + Len(end)
        /\ \A i \in 1..Len(a) : f[i] = a[i]
        /\ \A i \in 1..Len(b) : f[Len(a) + i] = b[i]
        /\ \A i \in 1..Len(end) : f[Len(a) + Len(b) + i] = end[i]
    <3>1. a \in Seq(Int) /\ b \in Seq(Int) /\ end \in Seq(Int)
      BY <1>9, <2>1, <2>2
    <3>2. /\ a \o b \o end \in Seq(Int) /\ Len(a \o b \o end) = Len(a) + Len(b) + Len(end)
          /\ \A i \in 1..Len(a) : (a \o b \o end)[i] = a[i]
          /\ \A i \in 1..Len(b) : (a \o b \o end)[Len(a) + i] = b[i]
          /\ \A i \in 1..Len(end) : (a \o b \o end)[Len(a) + Len(b) + i] = end[i]
      BY <3>1, ThreeParts
    <3> QED BY <2>3, <3>2
  <2>5. Len(a) + Len(b) = n /\ Len(a) + 1 = n
    BY <1>2, <2>1, <2>2
  <2>6. f[n] = e[n]
    <3>1. 1 \in 1..Len(b)
      BY <2>1
    <3> QED BY <1>3, <2>1, <2>4, <2>5, <3>1
  <2>7. \A i \in 1..n : i = n \/ i \in 1..(n - 1)
    BY <1>2
  <2>8. \A i \in 1..n : f[i] = e[i]
    BY <2>2, <2>4, <2>6, <2>7
  <2>9. \A i \in 1..K : f[n + i] = start + EndOf(g, i)
    BY <1>9, <2>4, <2>5
  <2>10. Len(f) = n + K
    BY <1>9, <2>4, <2>5
  <2> QED BY <2>4, <2>8, <2>9, <2>10
<1>13. /\ q \in Seq(SUBSET Legs) /\ Len(q) = n + K + 1
       /\ \A i \in 1..n : q[i] = m[i]
       /\ \A i \in 1..K : \E p \in 1..M : q[n + i] = g.modeSequence[p]
       /\ q[n + K + 1] = STANCE
  <2> DEFINE a == ButLast(m)
             b == <<STANCE>>
  <2>1. b \in Seq(SUBSET Legs) /\ Len(b) = 1 /\ b[1] = STANCE
    BY DEF STANCE
  <2>2. a \in Seq(SUBSET Legs) /\ Len(a) = n /\ \A i \in 1..n : a[i] = m[i]
    BY <1>11
  <2>3. q = a \o mode \o b
    OBVIOUS
  <2> HIDE DEF a, b, q
  <2>4. /\ q \in Seq(SUBSET Legs) /\ Len(q) = Len(a) + Len(mode) + Len(b)
        /\ \A i \in 1..Len(a) : q[i] = a[i]
        /\ \A i \in 1..Len(mode) : q[Len(a) + i] = mode[i]
        /\ \A i \in 1..Len(b) : q[Len(a) + Len(mode) + i] = b[i]
    <3>1. a \in Seq(SUBSET Legs) /\ mode \in Seq(SUBSET Legs) /\ b \in Seq(SUBSET Legs)
      BY <1>8, <2>1, <2>2
    <3>2. /\ a \o mode \o b \in Seq(SUBSET Legs) /\ Len(a \o mode \o b) = Len(a) + Len(mode) + Len(b)
          /\ \A i \in 1..Len(a) : (a \o mode \o b)[i] = a[i]
          /\ \A i \in 1..Len(mode) : (a \o mode \o b)[Len(a) + i] = mode[i]
          /\ \A i \in 1..Len(b) : (a \o mode \o b)[Len(a) + Len(mode) + i] = b[i]
      BY <3>1, ThreeParts
    <3> QED BY <2>3, <3>2
  <2>5. 1 \in 1..Len(b)
    BY <2>1
  <2>6. Len(q) = n + K + 1 /\ \A i \in 1..n : q[i] = m[i]
    BY <1>8, <2>1, <2>2, <2>4
  <2>7. \A i \in 1..K : q[n + i] = mode[i]
    BY <1>8, <2>2, <2>4
  <2>8. q[n + K + 1] = STANCE
    BY <1>8, <2>1, <2>2, <2>4, <2>5
  <2> QED BY <1>8, <2>4, <2>6, <2>7, <2>8
<1> HIDE DEF f, q
<1>14. new.eventTimes = f /\ new.modeSequence = q /\ new \in Schedules
  BY <1>1, <1>12, <1>13 DEF Schedules
<1>15. ASSUME NEW i \in 1..(n + K), NEW j \in 1..(n + K), i < j PROVE f[i] < f[j]
  <2>1. CASE j <= n
    <3>1. i \in 1..n /\ j \in 1..n
      BY <1>2, <1>6, <2>1, <1>15
    <3>2. e[i] < e[j]
      BY <1>2, <1>15, <3>1 DEF Increasing, n
    <3> QED BY <1>12, <3>1, <3>2
  <2>2. CASE i <= n /\ ~(j <= n)
    <3>1. i \in 1..n /\ n \in 1..n /\ j - n \in 1..K /\ n + (j - n) = j /\ j - n \in Nat \ {0}
          /\ (j - n) + 1 \in Nat \ {0} /\ j - n < (j - n) + 1
      BY <1>2, <1>6, <2>2
    <3>2. e[i] <= e[n]
      <4>1. i = n \/ i < n
        BY <3>1
      <4>2. e[i] \in Int /\ e[n] \in Int
        BY <1>2, <3>1
      <4>3. i < n => e[i] < e[n]
        BY <1>2, <3>1 DEF Increasing, n
      <4> QED BY <4>1, <4>2, <4>3
    <3>3. EndOf(g, j - n) \in Nat \ {0}
      BY <3>1, CopiesRise
    <3>4. f[j] = start + EndOf(g, j - n) /\ f[i] = e[i]
      <4>1. f[n + (j - n)] = start + EndOf(g, j - n)
        BY <1>12, <3>1
      <4> QED BY <1>12, <3>1, <4>1
    <3>5. e[i] \in Int /\ e[i] <= start
      BY <1>2, <1>3, <3>1, <3>2 DEF n
    <3> QED BY <1>3, <3>3, <3>4, <3>5
  <2>3. CASE ~(i <= n)
    <3>1. /\ i - n \in 1..K /\ n + (i - n) = i /\ i - n \in Nat \ {0}
          /\ j - n \in 1..K /\ n + (j - n) = j /\ j - n \in Nat \ {0}
          /\ i - n < j - n
          /\ (j - n) + 1 \in Nat \ {0} /\ j - n < (j - n) + 1
      BY <1>2, <1>6, <1>15, <2>3
    <3>2. EndOf(g, i - n) \in Nat /\ EndOf(g, j - n) \in Nat /\ EndOf(g, i - n) < EndOf(g, j - n)
      BY <3>1, CopiesRise
    <3>3. f[n + (i - n)] = start + EndOf(g, i - n) /\ f[n + (j - n)] = start + EndOf(g, j - n)
      BY <1>12, <3>1
    <3>4. f[i] = start + EndOf(g, i - n) /\ f[j] = start + EndOf(g, j - n)
      BY <3>1, <3>3
    <3> QED BY <1>3, <3>2, <3>4
  <2> QED BY <2>1, <2>2, <2>3
<1>16. Increasing(f)
  BY <1>12, <1>15 DEF Increasing
<1>17. Framed(new)
  <2>1. Len(f) >= 1 /\ Len(q) = Len(f) + 1
    BY <1>2, <1>6, <1>12, <1>13
  <2>2. q[1] = STANCE
    BY <1>2, <1>13
  <2>3. LastOf(q) = STANCE
    BY <1>13 DEF LastOf
  <2> QED BY <1>14, <1>16, <2>1, <2>2, <2>3 DEF Framed
<1>18. LastOf(f) = start + copies * D
  <2>1. CASE copies = 0
    <3>1. K = 0 /\ copies * D = 0
      BY <1>4, <2>1, SMT DEF K
    <3>2. Len(f) = n /\ n \in 1..n
      BY <1>2, <1>12, <3>1
    <3> QED BY <1>3, <1>12, <3>1, <3>2 DEF LastOf
  <2>2. CASE copies # 0
    <3>1. copies \in Nat \ {0} /\ K = copies * M
      BY <1>5, <2>2 DEF K
    <3>2. EndOf(g, K) = copies * D
      BY <3>1, CopiesEnd DEF M, D
    <3>3. K # 0
      BY <1>4, <3>1, SMT
    <3>4. K \in 1..K
      BY <1>6, <3>3
    <3> QED BY <1>12, <3>2, <3>4 DEF LastOf
  <2> QED BY <2>1, <2>2
<1>19. LastOf(f) >= upper /\ LastOf(f) >= start
  <2>1. copies * D \in Nat
    BY <1>4, <1>5, SMT
  <2>2. CASE start < upper
    BY <1>3, <1>5, <1>18, <2>1, <2>2
  <2>3. CASE ~(start < upper)
    BY <1>3, <1>18, <2>1, <2>3
  <2> QED BY <2>2, <2>3
<1>20. ASSUME NEW t \in Int, t <= start PROVE ModeAt(new, t) = ModeAt(sched, t)
  <2> DEFINE k == EventsBefore(e, t)
  <2>1. k \in 0..n /\ \A i \in 1..n : i <= k <=> e[i] < t
    BY <1>2, EventsBeforeIs DEF n
  <2>2. ModeAt(sched, t) = m[k + 1]
    BY DEF ModeAt, PhaseAt, e, m
  <2> HIDE DEF k
  <2>3. k < n
    <3> SUFFICES ASSUME k = n PROVE FALSE
      BY <1>2, <2>1
    <3>1. n \in 1..n /\ n <= k
      BY <1>2
    <3>2. e[n] < t
      BY <2>1, <3>1
    <3> QED BY <1>3, <1>20, <3>2
  <2>4. k \in 0..Len(f) /\ k + 1 \in 1..n
    BY <1>2, <1>6, <1>12, <2>1, <2>3
  <2>5. k > 0 => f[k] < t
    <3> SUFFICES ASSUME k > 0 PROVE f[k] < t
      OBVIOUS
    <3>1. k \in 1..n /\ k <= k
      BY <2>1
    <3> QED BY <1>12, <2>1, <3>1
  <2>6. k < Len(f) => t <= f[k + 1]
    <3>1. ~(k + 1 <= k)
      BY <2>1
    <3>2. f[k + 1] = e[k + 1] /\ ~(e[k + 1] < t) /\ e[k + 1] \in Int
      BY <1>2, <1>12, <2>1, <2>4, <3>1
    <3> QED BY <3>2
  <2>7. ModeAt(new, t) = q[k + 1]
    BY <1>14, <1>17, <2>4, <2>5, <2>6, ModeAtIs
  <2> QED BY <1>13, <2>2, <2>4, <2>7
<1>21. ASSUME NEW t \in Int, start < t, t <= LastOf(f)
       PROVE  \E p \in DOMAIN g.modeSequence : ModeAt(new, t) = g.modeSequence[p]
  <2> DEFINE k == EventsBefore(f, t)
  <2>1. k \in 0..(n + K) /\ \A i \in 1..(n + K) : i <= k <=> f[i] < t
    BY <1>12, <1>16, EventsBeforeIs
  <2>2. ModeAt(new, t) = q[k + 1]
    BY <1>14 DEF ModeAt, PhaseAt
  <2> HIDE DEF k
  <2>3. n <= k
    <3>1. n \in 1..n /\ n \in 1..(n + K)
      BY <1>2, <1>6
    <3>2. f[n] < t
      BY <1>3, <1>12, <1>21, <3>1
    <3> QED BY <2>1, <3>1, <3>2
  <2>4. k < n + K
    <3> SUFFICES ASSUME k = n + K PROVE FALSE
      BY <1>2, <1>6, <2>1
    <3>1. n + K \in 1..(n + K) /\ n + K <= k
      BY <1>2, <1>6
    <3>2. f[n + K] < t /\ LastOf(f) = f[n + K]
      BY <1>12, <2>1, <3>1 DEF LastOf
    <3>3. f[n + K] \in Int
      BY <1>12, <3>1
    <3> QED BY <1>21, <3>2, <3>3
  <2>5. (k - n) + 1 \in 1..K /\ n + ((k - n) + 1) = k + 1
    BY <1>2, <1>6, <2>1, <2>3, <2>4
  <2>6. PICK p \in 1..M : q[n + ((k - n) + 1)] = g.modeSequence[p]
    BY <1>13, <2>5
  <2> QED BY <1>4, <2>2, <2>5, <2>6
<1> QED BY <1>14, <1>17, <1>19, <1>20, <1>21 DEF start, e

\* getModeSchedule(): the modes from lower up to the schedule's last event stay,
\* and behind them the gait is walked, beyond upper.
LEMMA GetModeScheduleKeeps ==
  ASSUME NEW sched, Framed(sched), NEW g, IsTemplate(g), NEW lower \in Int, NEW upper \in Int,
         NEW new, new = GetModeSchedule(sched, g, lower, upper)
  PROVE  /\ Framed(new)
         /\ LastOf(new.eventTimes) >= upper
         /\ LastOf(new.eventTimes) >= LastOf(sched.eventTimes)
         /\ \A t \in Int : lower <= t /\ t <= LastOf(sched.eventTimes) =>
              ModeAt(new, t) = ModeAt(sched, t)
         /\ \A t \in Int : LastOf(sched.eventTimes) < t /\ t <= LastOf(new.eventTimes) =>
              \E p \in DOMAIN g.modeSequence : ModeAt(new, t) = g.modeSequence[p]
<1> DEFINE kept == DropPast(sched, lower)
<1>1. /\ Framed(kept) /\ LastOf(kept.eventTimes) = LastOf(sched.eventTimes)
      /\ \A t \in Int : t >= lower => ModeAt(kept, t) = ModeAt(sched, t)
  BY DropPastKeeps
<1>2. new = Tile([eventTimes   |-> ButLast(kept.eventTimes),
                  modeSequence |-> ButLast(kept.modeSequence)],
                 g, LastOf(kept.eventTimes), upper)
  BY DEF GetModeSchedule
<1> HIDE DEF kept
<1>3. /\ Framed(new)
      /\ LastOf(new.eventTimes) >= upper
      /\ LastOf(new.eventTimes) >= LastOf(kept.eventTimes)
      /\ \A t \in Int : t <= LastOf(kept.eventTimes) => ModeAt(new, t) = ModeAt(kept, t)
      /\ \A t \in Int : LastOf(kept.eventTimes) < t /\ t <= LastOf(new.eventTimes) =>
           \E p \in DOMAIN g.modeSequence : ModeAt(new, t) = g.modeSequence[p]
  BY <1>1, <1>2, TileKeeps
<1> QED BY <1>1, <1>3

\* insertModeSequenceTemplate(): up to start nothing changes; the schedule ends
\* there, or after the leading stance.
LEMMA InsertGaitKeeps ==
  ASSUME NEW sched, Framed(sched), NEW start \in Int,
         NEW new, new = InsertGait(sched, start)
  PROVE  /\ Framed(new)
         /\ start <= LastOf(new.eventTimes) /\ LastOf(new.eventTimes) <= start + Transition
         /\ \A t \in Int : t <= start => ModeAt(new, t) = ModeAt(sched, t)
<1> DEFINE e == sched.eventTimes
           m == sched.modeSequence
           n == EventsBefore(e, start)
           a == SubSeq(e, 1, n)
           b == SubSeq(m, 1, n + 1)
           lead == IF LastOf(b) = STANCE \/ Transition = 0
                   THEN <<start>> ELSE <<start, start + Transition>>
           rest == [i \in DOMAIN lead |-> STANCE]
           f == a \o lead
           q == b \o rest
<1>1. new = [eventTimes |-> f, modeSequence |-> q]
  BY DEF InsertGait
<1>2. /\ e \in Seq(Int) /\ Len(e) \in Nat \ {0} /\ m \in Seq(SUBSET Legs) /\ Len(m) = Len(e) + 1
      /\ \A i \in 1..Len(e) : e[i] \in Int
      /\ Increasing(e) /\ m[1] = STANCE
  BY FramedParts
<1>3. n \in 0..Len(e) /\ \A i \in 1..Len(e) : i <= n <=> e[i] < start
  BY <1>2, EventsBeforeIs
<1> HIDE DEF e, m, n
<1>4. a \in Seq(Int) /\ Len(a) = n /\ \A i \in 1..n : a[i] = e[i]
  <2>1. 1 \in 1..(Len(e) + 1) /\ n \in (1 - 1)..Len(e)
    BY <1>2, <1>3
  <2>2. a \in Seq(Int) /\ Len(a) = n - 1 + 1 /\ \A i \in 1..(n - 1 + 1) : a[i] = e[1 + i - 1]
    BY <1>2, <2>1, SliceIs
  <2> HIDE DEF a
  <2> QED BY <1>3, <2>2
<1>5. b \in Seq(SUBSET Legs) /\ Len(b) = n + 1 /\ \A i \in 1..(n + 1) : b[i] = m[i]
  <2>1. 1 \in 1..(Len(m) + 1) /\ n + 1 \in (1 - 1)..Len(m)
    BY <1>2, <1>3
  <2>2. /\ b \in Seq(SUBSET Legs) /\ Len(b) = (n + 1) - 1 + 1
        /\ \A i \in 1..((n + 1) - 1 + 1) : b[i] = m[1 + i - 1]
    BY <1>2, <2>1, SliceIs, SMTT(30)
  <2> HIDE DEF b
  <2> QED BY <1>3, <2>2
<1> HIDE DEF a, b
<1>6. Transition \in Nat
  BY GaitAssumption
<1>7. /\ lead \in Seq(Int) /\ Len(lead) \in 1..2 /\ DOMAIN lead = 1..Len(lead)
      /\ lead[1] = start /\ \A i \in 1..Len(lead) : start <= lead[i] /\ lead[i] <= start + Transition
      /\ Len(lead) = 2 => lead[1] < lead[2]
  <2>1. CASE LastOf(b) = STANCE \/ Transition = 0
    <3>1. lead = <<start>>
      BY <2>1
    <3> HIDE DEF lead
    <3> QED BY <1>6, <3>1
  <2>2. CASE ~(LastOf(b) = STANCE \/ Transition = 0)
    <3>1. lead = <<start, start + Transition>> /\ Transition # 0
      BY <2>2
    <3> HIDE DEF lead
    <3>2. lead \in Seq(Int) /\ Len(lead) = 2 /\ lead[1] = start /\ lead[2] = start + Transition
      BY <1>6, <3>1
    <3>3. \A i \in 1..Len(lead) : i = 1 \/ i = 2
      BY <3>2
    <3> QED BY <1>6, <3>1, <3>2, <3>3
  <2> QED BY <2>1, <2>2
<1> HIDE DEF lead
<1> DEFINE L == Len(lead)
<1>8. rest \in Seq(SUBSET Legs) /\ Len(rest) = L /\ \A i \in 1..L : rest[i] = STANCE
  <2>1. rest = [i \in 1..L |-> STANCE] /\ L \in Nat
    BY <1>7
  <2>2. rest \in [1..L -> SUBSET Legs]
    BY <2>1 DEF STANCE
  <2> QED BY <2>1, <2>2
<1> HIDE DEF rest
<1>9. /\ f \in Seq(Int) /\ Len(f) = n + L
      /\ \A i \in 1..n : f[i] = e[i]
      /\ \A i \in 1..L : f[n + i] = lead[i]
  <2>1. /\ a \o lead \in Seq(Int) /\ Len(a \o lead) = Len(a) + Len(lead)
        /\ \A i \in 1..Len(a) : (a \o lead)[i] = a[i]
        /\ \A i \in 1..Len(lead) : (a \o lead)[Len(a) + i] = lead[i]
    <3>1. a \in Seq(Int) /\ lead \in Seq(Int)
      BY <1>4, <1>7
    <3> QED BY <3>1, TwoParts
  <2> QED BY <1>4, <2>1
<1>10. /\ q \in Seq(SUBSET Legs) /\ Len(q) = n + 1 + L
       /\ \A i \in 1..(n + 1) : q[i] = m[i]
       /\ \A i \in 1..L : q[n + 1 + i] = STANCE
  <2>1. /\ b \o rest \in Seq(SUBSET Legs) /\ Len(b \o rest) = Len(b) + Len(rest)
        /\ \A i \in 1..Len(b) : (b \o rest)[i] = b[i]
        /\ \A i \in 1..Len(rest) : (b \o rest)[Len(b) + i] = rest[i]
    <3>1. b \in Seq(SUBSET Legs) /\ rest \in Seq(SUBSET Legs)
      BY <1>5, <1>8
    <3> QED BY <3>1, TwoParts
  <2> QED BY <1>5, <1>8, <2>1
<1> HIDE DEF f, q, L
<1>11. new.eventTimes = f /\ new.modeSequence = q /\ new \in Schedules
  BY <1>1, <1>9, <1>10 DEF Schedules
<1>12. L \in 1..2 /\ 1 \in 1..L /\ L \in 1..L
  BY <1>7 DEF L
<1>13. Increasing(f)
  <2> SUFFICES ASSUME NEW i \in 1..(n + L), NEW j \in 1..(n + L), i < j PROVE f[i] < f[j]
    BY <1>9 DEF Increasing
  <2>1. CASE j <= n
    <3>1. i \in 1..n /\ j \in 1..n /\ i \in 1..Len(e) /\ j \in 1..Len(e)
      BY <1>2, <1>3, <2>1
    <3>2. e[i] < e[j]
      BY <1>2, <3>1 DEF Increasing
    <3> QED BY <1>9, <3>1, <3>2
  <2>2. CASE i <= n /\ ~(j <= n)
    <3>1. i \in 1..n /\ i \in 1..Len(e) /\ j - n \in 1..L /\ n + (j - n) = j
      BY <1>2, <1>3, <1>12, <2>2
    <3>2. e[i] < start /\ e[i] \in Int
      BY <1>2, <1>3, <2>2, <3>1
    <3>3. f[n + (j - n)] = lead[j - n] /\ start <= lead[j - n]
      BY <1>7, <1>9, <3>1 DEF L
    <3>4. lead[j - n] \in Int
      BY <1>7, <3>1, ElementOfSeq DEF L
    <3>5. f[j] = lead[j - n] /\ f[i] = e[i]
      BY <1>9, <3>1, <3>3
    <3> QED BY <3>2, <3>3, <3>4, <3>5
  <2>3. CASE ~(i <= n)
    <3>1. i - n = 1 /\ j - n = 2 /\ L = 2 /\ n + 1 = i /\ n + 2 = j
      BY <1>3, <1>12, <2>3
    <3>2. f[n + 1] = lead[1] /\ f[n + 2] = lead[2]
      BY <1>9, <3>1
    <3> QED BY <1>7, <3>1, <3>2 DEF L
  <2> QED BY <2>1, <2>2, <2>3
<1>14. Framed(new)
  <2>1. Len(f) >= 1 /\ Len(q) = Len(f) + 1
    BY <1>3, <1>9, <1>10, <1>12
  <2>2. q[1] = STANCE
    BY <1>2, <1>3, <1>10
  <2>3. LastOf(q) = STANCE
    <3>1. Len(q) = n + 1 + L
      BY <1>10
    <3> QED BY <1>10, <1>12, <3>1 DEF LastOf
  <2> QED BY <1>11, <1>13, <2>1, <2>2, <2>3 DEF Framed
<1>15. start <= LastOf(f) /\ LastOf(f) <= start + Transition
  <2>1. LastOf(f) = lead[L]
    BY <1>9, <1>12 DEF LastOf
  <2> QED BY <1>7, <1>12, <2>1 DEF L
<1>16. ASSUME NEW t \in Int, t <= start PROVE ModeAt(new, t) = ModeAt(sched, t)
  <2> DEFINE k == EventsBefore(e, t)
  <2>1. k \in 0..Len(e) /\ \A i \in 1..Len(e) : i <= k <=> e[i] < t
    BY <1>2, EventsBeforeIs
  <2>2. ModeAt(sched, t) = m[k + 1]
    BY DEF ModeAt, PhaseAt, e, m
  <2> HIDE DEF k
  <2>3. k <= n
    <3> SUFFICES ASSUME k > n PROVE FALSE
      BY <1>3, <2>1
    <3>1. k \in 1..Len(e) /\ k <= k /\ ~(k <= n)
      BY <1>3, <2>1
    <3>2. e[k] < t /\ ~(e[k] < start) /\ e[k] \in Int
      BY <1>2, <1>3, <2>1, <3>1
    <3> QED BY <1>16, <3>2
  <2>4. k \in 0..Len(f) /\ k + 1 \in 1..(n + 1)
    BY <1>3, <1>9, <1>12, <2>1, <2>3
  <2>5. k > 0 => f[k] < t
    <3> SUFFICES ASSUME k > 0 PROVE f[k] < t
      OBVIOUS
    <3>1. k \in 1..n /\ k \in 1..Len(e) /\ k <= k
      BY <1>3, <2>1, <2>3
    <3> QED BY <1>9, <2>1, <3>1
  <2>6. t <= f[k + 1]
    <3>1. CASE k = n
      <4>1. f[n + 1] = start
        BY <1>7, <1>9, <1>12
      <4> QED BY <1>16, <3>1, <4>1
    <3>2. CASE k # n
      <4>1. k + 1 \in 1..n /\ k + 1 \in 1..Len(e) /\ ~(k + 1 <= k)
        BY <1>3, <2>1, <2>3, <3>2
      <4>2. f[k + 1] = e[k + 1] /\ ~(e[k + 1] < t) /\ e[k + 1] \in Int
        BY <1>2, <1>9, <2>1, <4>1
      <4> QED BY <4>2
    <3> QED BY <3>1, <3>2
  <2>7. ModeAt(new, t) = q[k + 1]
    BY <1>11, <1>14, <2>4, <2>5, <2>6, ModeAtIs
  <2> QED BY <1>10, <2>2, <2>4, <2>7
<1> QED BY <1>11, <1>14, <1>15, <1>16

-----------------------------------------------------------------------------
(* The swing planner on a schedule that begins and ends on all feet.       *)

\* The contacts of a leg: a Boolean per phase, true at both ends.
LEMMA ContactFlagsAre ==
  ASSUME NEW sched, Framed(sched), NEW leg \in Legs, NEW flags,
         flags = ContactFlags(sched.modeSequence, leg)
  PROVE  /\ DOMAIN flags = 1..Len(sched.modeSequence)
         /\ Len(flags) = Len(sched.modeSequence)
         /\ \A p \in 1..Len(sched.modeSequence) : flags[p] = (leg \in sched.modeSequence[p])
         /\ flags[1] /\ flags[Len(sched.modeSequence)]
<1> DEFINE m == sched.modeSequence
<1>1. /\ DOMAIN m = 1..Len(m) /\ Len(m) \in Nat /\ Len(m) >= 2
      /\ m[1] = STANCE /\ m[Len(m)] = STANCE
  BY FramedParts
<1> HIDE DEF m
<1>2. flags = [p \in 1..Len(m) |-> leg \in m[p]]
  BY <1>1 DEF ContactFlags, m
<1>3. flags \in [1..Len(m) -> BOOLEAN]
  BY <1>2
<1>4. Len(flags) = Len(m) /\ DOMAIN flags = 1..Len(m)
  BY <1>1, <1>3
<1>5. \A p \in 1..Len(m) : flags[p] = (leg \in m[p])
  BY <1>2
<1>6. 1 \in 1..Len(m) /\ Len(m) \in 1..Len(m)
  BY <1>1
<1>7. leg \in m[1] /\ leg \in m[Len(m)]
  BY <1>1 DEF STANCE
<1>8. flags[1] /\ flags[Len(m)]
  BY <1>5, <1>6, <1>7
<1> QED BY <1>4, <1>5, <1>8 DEF m

\* A leg in the air has its last contact before the phase.
LEMMA LiftOffIs ==
  ASSUME NEW n \in Nat, NEW flags, NEW p \in 2..n, flags[1]
  PROVE  /\ LiftOff(flags, p) \in 1..(p - 1)
         /\ flags[LiftOff(flags, p)]
         /\ \A i \in (LiftOff(flags, p) + 1)..(p - 1) : ~flags[i]
<1> DEFINE S == {0} \cup {i \in 1..(p - 1) : flags[i]}
<1>1. S \in SUBSET (0..n) /\ S # {}
  OBVIOUS
<1>2. Max(S) \in S /\ \A x \in S : x <= Max(S)
  BY <1>1, MaxOf
<1>3. LiftOff(flags, p) = Max(S)
  BY DEF LiftOff
<1> DEFINE l == Max(S)
<1> HIDE DEF l
<1>4. l \in S /\ \A x \in S : x <= l
  BY <1>2 DEF l
<1>5. 1 \in S
  OBVIOUS
<1>6. l \in 1..(p - 1) /\ flags[l]
  BY <1>4, <1>5
<1>7. \A i \in (l + 1)..(p - 1) : ~flags[i]
  <2> SUFFICES ASSUME NEW i \in (l + 1)..(p - 1), flags[i] PROVE FALSE
    OBVIOUS
  <2>1. i \in 1..(p - 1)
    BY <1>6
  <2>2. i \in S
    BY <2>1
  <2> QED BY <1>4, <1>6, <2>2
<1> QED BY <1>3, <1>6, <1>7 DEF l

\* And its next contact after the phase.
LEMMA TouchDownIs ==
  ASSUME NEW flags, Len(flags) \in Nat, NEW p \in 1..(Len(flags) - 1), flags[Len(flags)]
  PROVE  /\ TouchDown(flags, p) \in p..(Len(flags) - 1)
         /\ flags[TouchDown(flags, p) + 1]
         /\ \A i \in (p + 1)..TouchDown(flags, p) : ~flags[i]
<1> DEFINE n == Len(flags)
           S == {n + 1} \cup {i \in (p + 1)..n : flags[i]}
<1> HIDE DEF n
<1>0. n \in Nat /\ p \in 1..(n - 1) /\ flags[n]
  BY DEF n
<1>1. S \in SUBSET (0..(n + 1)) /\ S # {} /\ n + 1 \in Nat
  BY <1>0
<1>2. Min(S) \in S /\ \A x \in S : Min(S) <= x
  BY <1>1, MinOf
<1>3. TouchDown(flags, p) = Min(S) - 1
  BY DEF TouchDown, n
<1> DEFINE l == Min(S)
<1> HIDE DEF l
<1>4. l \in S /\ \A x \in S : l <= x
  BY <1>2 DEF l
<1>5. n \in S
  BY <1>0
<1>6. l \in (p + 1)..n /\ flags[l]
  BY <1>0, <1>4, <1>5
<1>7. \A i \in (p + 1)..(l - 1) : ~flags[i]
  <2> SUFFICES ASSUME NEW i \in (p + 1)..(l - 1), flags[i] PROVE FALSE
    OBVIOUS
  <2>1. i \in (p + 1)..n
    BY <1>0, <1>6
  <2>2. i \in S
    BY <2>1
  <2> QED BY <1>4, <1>6, <2>2
<1>8. l - 1 \in p..(n - 1) /\ (l - 1) + 1 = l
  BY <1>0, <1>6
<1> QED BY <1>3, <1>6, <1>7, <1>8 DEF l, n

\* What update() lays out for a leg in a phase.
LEMMA UpdateIs ==
  ASSUME NEW sched, Framed(sched), NEW leg \in Legs, NEW p \in 1..Len(sched.modeSequence)
  PROVE  /\ leg \in sched.modeSequence[p] => Update(sched)[leg][p] = Stance
         /\ leg \notin sched.modeSequence[p] =>
              \E a \in 1..(p - 1), b \in p..Len(sched.eventTimes) :
                /\ Update(sched)[leg][p] = Swing(sched.eventTimes[a], sched.eventTimes[b])
                /\ leg \in sched.modeSequence[a] /\ leg \in sched.modeSequence[b + 1]
                /\ \A i \in (a + 1)..b : leg \notin sched.modeSequence[i]
                /\ FindIndex(p, ContactFlags(sched.modeSequence, leg)) = [start |-> a, final |-> b]
<1> DEFINE m == sched.modeSequence
           e == sched.eventTimes
           flags == ContactFlags(m, leg)
           foot == Update(sched)[leg][p]
<1>1. Len(e) \in Nat \ {0} /\ Len(m) = Len(e) + 1 /\ p \in 1..Len(m)
  BY FramedParts
<1>2. /\ DOMAIN flags = 1..Len(m) /\ Len(flags) = Len(m)
      /\ \A i \in 1..Len(m) : flags[i] = (leg \in m[i])
      /\ flags[1] /\ flags[Len(m)]
  BY ContactFlagsAre
<1>3. foot = IF flags[p] THEN Stance
             ELSE Swing(e[FindIndex(p, flags).start], e[FindIndex(p, flags).final])
  BY <1>1, <1>2 DEF Update, UpdateFootSchedule
<1> HIDE DEF m, e, flags, foot
<1>4. CASE leg \in m[p]
  <2>1. flags[p]
    BY <1>1, <1>2, <1>4
  <2> QED BY <1>3, <1>4, <2>1 DEF m, foot
<1>5. CASE leg \notin m[p]
  <2>1. ~flags[p]
    BY <1>1, <1>2, <1>5
  <2>2. p \in 2..Len(m) /\ p \in 1..(Len(flags) - 1) /\ Len(flags) \in Nat /\ Len(m) \in Nat
    <3>1. p # 1 /\ p # Len(m)
      BY <1>2, <2>1
    <3>2. Len(m) \in Nat
      BY <1>1
    <3> QED BY <1>1, <1>2, <3>1, <3>2
  <2> DEFINE a == LiftOff(flags, p)
             b == TouchDown(flags, p)
  <2>3. a \in 1..(p - 1) /\ flags[a] /\ \A i \in (a + 1)..(p - 1) : ~flags[i]
    BY <1>2, <2>2, LiftOffIs
  <2>4. b \in p..(Len(flags) - 1) /\ flags[b + 1] /\ \A i \in (p + 1)..b : ~flags[i]
    BY <1>2, <2>2, TouchDownIs
  <2>5. FindIndex(p, flags) = [start |-> a, final |-> b]
    BY <2>1 DEF FindIndex
  <2> HIDE DEF a, b
  <2>6. foot = Swing(e[a], e[b])
    BY <1>3, <2>1, <2>5
  <2>7. b \in p..Len(e) /\ a \in 1..Len(m) /\ b + 1 \in 1..Len(m)
    BY <1>1, <1>2, <2>2, <2>3, <2>4
  <2>8. leg \in m[a] /\ leg \in m[b + 1]
    BY <1>2, <2>3, <2>4, <2>7
  <2>9. \A i \in (a + 1)..b : leg \notin m[i]
    <3> SUFFICES ASSUME NEW i \in (a + 1)..b PROVE leg \notin m[i]
      OBVIOUS
    <3>1. i \in 1..Len(m) /\ (i \in (a + 1)..(p - 1) \/ i = p \/ i \in (p + 1)..b)
      BY <1>1, <2>3, <2>7
    <3>2. ~flags[i]
      BY <2>1, <2>3, <2>4, <3>1
    <3> QED BY <1>2, <3>1, <3>2
  <2> QED BY <1>5, <2>3, <2>5, <2>6, <2>7, <2>8, <2>9 DEF m, e, flags, foot
<1> QED BY <1>4, <1>5

\* The indices of a swing name a phase before it and an event after it.
LEMMA SwingIndicesAre ==
  ASSUME NEW sched, Framed(sched), NEW leg \in Legs, NEW p \in 1..Len(sched.modeSequence),
         leg \notin sched.modeSequence[p]
  PROVE  \E a \in 1..(p - 1), b \in p..Len(sched.eventTimes) :
           FindIndex(p, ContactFlags(sched.modeSequence, leg)) = [start |-> a, final |-> b]
<1>1. \E a \in 1..(p - 1), b \in p..Len(sched.eventTimes) :
        /\ Update(sched)[leg][p] = Swing(sched.eventTimes[a], sched.eventTimes[b])
        /\ leg \in sched.modeSequence[a] /\ leg \in sched.modeSequence[b + 1]
        /\ \A i \in (a + 1)..b : leg \notin sched.modeSequence[i]
        /\ FindIndex(p, ContactFlags(sched.modeSequence, leg)) = [start |-> a, final |-> b]
  BY UpdateIs
<1> QED BY <1>1

\* No swing lacks its lift-off or its touch-down: update() does not throw.
LEMMA UpdateReturns ==
  ASSUME NEW sched, Framed(sched)
  PROVE  UpdateSucceeds(sched)
<1> DEFINE m == sched.modeSequence
           e == sched.eventTimes
<1> SUFFICES ASSUME NEW leg \in Legs, NEW p \in DOMAIN ContactFlags(m, leg),
                    ~ContactFlags(m, leg)[p]
             PROVE  IndicesAreValid(UpdateFootSchedule(ContactFlags(m, leg))[p], m)
  BY DEF UpdateSucceeds
<1> DEFINE flags == ContactFlags(m, leg)
<1>1. Len(e) \in Nat \ {0} /\ Len(m) = Len(e) + 1
  BY FramedParts
<1>2. /\ DOMAIN flags = 1..Len(m)
      /\ \A i \in 1..Len(m) : flags[i] = (leg \in m[i])
  BY ContactFlagsAre
<1>3. p \in 1..Len(m) /\ leg \notin m[p]
  BY <1>2
<1>4. FindIndex(p, flags).start >= 1 /\ FindIndex(p, flags).final < Len(m)
  <2> HIDE DEF flags
  <2>1. PICK a \in 1..(p - 1), b \in p..Len(e) :
          FindIndex(p, ContactFlags(m, leg)) = [start |-> a, final |-> b]
    <3>1. p \in 1..Len(sched.modeSequence) /\ leg \notin sched.modeSequence[p]
      BY <1>3
    <3>2. \E a \in 1..(p - 1), b \in p..Len(sched.eventTimes) :
            FindIndex(p, ContactFlags(sched.modeSequence, leg)) = [start |-> a, final |-> b]
      BY <3>1, SwingIndicesAre
    <3> QED BY <3>2
  <2>2. a >= 1 /\ b < Len(m)
    BY <1>1
  <2> QED BY <2>1, <2>2 DEF flags
<1>5. UpdateFootSchedule(flags)[p] = FindIndex(p, flags)
  BY <1>2, <1>3 DEF UpdateFootSchedule
<1> QED BY <1>3, <1>4, <1>5 DEF IndicesAreValid

\* What the planner says of a leg at a time: a swing while the leg is up, from
\* the end of its last contact to the start of its next.
Spans(foot, sched, leg, t) ==
  IF leg \in ModeAt(sched, t) THEN ~foot.swings
  ELSE /\ foot.swings
       /\ foot.liftOff < t /\ t <= foot.touchDown
       /\ leg \in ModeAt(sched, foot.liftOff)
       /\ leg \in ModeAt(sched, foot.touchDown + 1)
       /\ \A s \in (foot.liftOff + 1)..foot.touchDown : leg \notin ModeAt(sched, s)

\* Every swing that update() lays out does so.
LEMMA UpdateSpans ==
  ASSUME NEW sched, Framed(sched), NEW leg \in Legs, NEW t \in Int
  PROVE  LET foot == Update(sched)[leg][PhaseAt(sched.eventTimes, t)]
         IN  /\ Spans(foot, sched, leg, t)
             /\ foot = Stance \/ \E from, to \in Int : /\ foot = Swing(from, to)
                                                       /\ to <= LastOf(sched.eventTimes)
<1> DEFINE m == sched.modeSequence
           e == sched.eventTimes
           p == PhaseAt(e, t)
           foot == Update(sched)[leg][p]
<1>1. /\ Len(e) \in Nat \ {0} /\ Len(m) = Len(e) + 1
      /\ \A i \in 1..Len(e) : e[i] \in Int
      /\ Increasing(e)
  BY FramedParts
<1>2. p \in 1..Len(m) /\ \A i \in 1..Len(e) : i < p <=> e[i] < t
  BY PhaseInSchedule
<1>3. ModeAt(sched, t) = m[p]
  BY DEF ModeAt
<1> HIDE DEF p
<1>4. CASE leg \in m[p]
  <2>1. foot = Stance
    BY <1>2, <1>4, UpdateIs
  <2>2. ~foot.swings
    BY <2>1 DEF Stance
  <2> QED BY <1>3, <1>4, <2>1, <2>2 DEF Spans, p
<1>5. CASE leg \notin m[p]
  <2>1. PICK a \in 1..(p - 1), b \in p..Len(e) :
          /\ foot = Swing(e[a], e[b])
          /\ leg \in m[a] /\ leg \in m[b + 1]
          /\ \A i \in (a + 1)..b : leg \notin m[i]
    BY <1>2, <1>5, UpdateIs, ZenonT(30)
  <2>2. a \in 1..Len(e) /\ b \in 1..Len(e) /\ a < p /\ ~(b < p) /\ a < b
    BY <1>1, <1>2
  <2>3. e[a] < t /\ t <= e[b] /\ e[a] \in Int /\ e[b] \in Int
    BY <1>1, <1>2, <2>2
  <2>4. foot.swings /\ foot.liftOff = e[a] /\ foot.touchDown = e[b]
    BY <2>1 DEF Swing
  <2> HIDE DEF foot, e, m
  <2>5. \A s \in Int : /\ PhaseAt(e, s) \in 1..Len(m)
                       /\ \A i \in 1..Len(e) : i < PhaseAt(e, s) <=> e[i] < s
    BY PhaseInSchedule DEF e, m
  <2>6. \A s \in Int : ModeAt(sched, s) = m[PhaseAt(e, s)]
    BY DEF ModeAt, e, m
  <2>7. leg \in ModeAt(sched, e[a])
    <3> DEFINE k == PhaseAt(e, e[a])
    <3>1. k \in 1..Len(m) /\ \A i \in 1..Len(e) : i < k <=> e[i] < e[a]
      BY <2>3, <2>5
    <3> HIDE DEF k
    <3>2. ~(a < k)
      BY <2>2, <2>3, <3>1
    <3>3. ~(k < a)
      <4> SUFFICES ASSUME k < a PROVE FALSE
        OBVIOUS
      <4>1. k \in 1..Len(e) /\ ~(k < k)
        BY <1>1, <2>2, <3>1
      <4>2. e[k] < e[a]
        BY <1>1, <2>2, <4>1 DEF Increasing
      <4> QED BY <3>1, <4>1, <4>2
    <3>4. k = a
      BY <2>2, <3>1, <3>2, <3>3
    <3> QED BY <2>1, <2>3, <2>6, <3>4 DEF k
  <2>8. leg \in ModeAt(sched, e[b] + 1)
    <3> DEFINE k == PhaseAt(e, e[b] + 1)
    <3>0. e[b] + 1 \in Int
      BY <2>3
    <3>1. k \in 1..Len(m) /\ \A i \in 1..Len(e) : i < k <=> e[i] < e[b] + 1
      BY <2>5, <3>0
    <3> HIDE DEF k
    <3>2. b < k
      BY <2>2, <2>3, <3>1
    <3>3. ~(b + 1 < k)
      <4> SUFFICES ASSUME b + 1 < k PROVE FALSE
        OBVIOUS
      <4>1. b + 1 \in 1..Len(e)
        BY <1>1, <2>2, <3>1
      <4>2. e[b] < e[b + 1] /\ e[b + 1] \in Int
        BY <1>1, <2>2, <4>1 DEF Increasing
      <4>3. e[b + 1] < e[b] + 1
        BY <3>1, <4>1
      <4> QED BY <2>3, <4>2, <4>3
    <3>4. k = b + 1
      BY <2>2, <3>1, <3>2, <3>3
    <3> QED BY <2>1, <2>6, <3>0, <3>4 DEF k
  <2>9. ASSUME NEW s \in (e[a] + 1)..e[b] PROVE leg \notin ModeAt(sched, s)
    <3> DEFINE k == PhaseAt(e, s)
    <3>0. s \in Int
      BY <2>3
    <3>1. k \in 1..Len(m) /\ \A i \in 1..Len(e) : i < k <=> e[i] < s
      BY <2>5, <3>0
    <3> HIDE DEF k
    <3>2. a < k /\ ~(b < k)
      BY <2>2, <2>3, <3>1
    <3>3. k \in (a + 1)..b
      BY <2>2, <3>1, <3>2
    <3> QED BY <2>1, <2>6, <3>0, <3>3 DEF k
  <2>10. Spans(foot, sched, leg, t)
    BY <1>3, <1>5, <2>3, <2>4, <2>7, <2>8, <2>9 DEF Spans
  <2>11. e[b] <= LastOf(e)
    <3>1. Len(e) \in 1..Len(e) /\ (b = Len(e) \/ b < Len(e))
      BY <1>1, <2>2
    <3>2. b < Len(e) => e[b] < e[Len(e)]
      BY <1>1, <2>2, <3>1 DEF Increasing
    <3>3. e[Len(e)] \in Int
      BY <1>1, <3>1
    <3> QED BY <2>3, <3>1, <3>2, <3>3 DEF LastOf
  <2> QED BY <2>1, <2>3, <2>10, <2>11 DEF foot, p, e
<1> QED BY <1>2, <1>4, <1>5

-----------------------------------------------------------------------------
(* The inductive invariant of the reference manager.                       *)

\* The gait schedule has kept what the last solve planned in its horizon.
PlanIsKept ==
  \A t \in Int : t <= Horizon => ModeAt(gaitSchedule, t) = ModeAt(modeSchedule, t)

\* After the first solve the plan reaches beyond the horizon.
PlanReaches ==
  \/ /\ modeSchedule = InitialSchedule /\ gaitSchedule = InitialSchedule
     /\ since = 0
  \/ /\ LastOf(modeSchedule.eventTimes) >= Upper
     /\ LastOf(gaitSchedule.eventTimes) >= Horizon

ManagerInv ==
  /\ Framed(gaitSchedule) /\ Framed(modeSchedule)
  /\ template \in Gaits /\ receivedGait \in Gaits /\ gaitUpdated \in BOOLEAN
  /\ elapsed \in 0..MaxStep /\ since \in 0..Settled
  /\ planned = TRUE
  /\ feet = Update(modeSchedule)
  /\ PlanIsKept
  /\ PlanReaches

\* What the configuration's constants are.
LEMMA ConstantsAre ==
  /\ Horizon \in Nat \ {0} /\ MaxStep \in Nat \ {0} /\ FirstEvent \in Nat /\ Transition \in Nat
  /\ DefaultGait \in Gaits /\ \A g \in Gaits : IsTemplate(g)
  /\ Settled \in Nat \ {0} /\ MaxStep < Settled /\ Lower \in Int /\ Upper \in Nat /\ Lower < 0
  /\ Horizon < Upper
BY GaitAssumption, ManagerAssumption DEF Settled, Lower, Upper

\* The initial schedule is two stances.
LEMMA InitialIsFramed ==
  /\ Framed(InitialSchedule)
  /\ LastOf(InitialSchedule.eventTimes) = FirstEvent
  /\ \A p \in 1..Len(InitialSchedule.modeSequence) : InitialSchedule.modeSequence[p] = STANCE
<1> DEFINE e == <<FirstEvent>>
           m == <<STANCE, STANCE>>
<1>1. InitialSchedule = [eventTimes |-> e, modeSequence |-> m]
  BY DEF InitialSchedule
<1>2. e \in Seq(Int) /\ Len(e) = 1 /\ e[1] = FirstEvent
  BY ConstantsAre
<1>3. m \in Seq(SUBSET Legs) /\ Len(m) = 2 /\ m[1] = STANCE /\ m[2] = STANCE
  BY DEF STANCE
<1> HIDE DEF e, m
<1>4. InitialSchedule \in Schedules /\ InitialSchedule.eventTimes = e /\ InitialSchedule.modeSequence = m
  BY <1>1, <1>2, <1>3 DEF Schedules
<1>5. Increasing(e)
  BY <1>2 DEF Increasing
<1>6. LastOf(e) = FirstEvent /\ LastOf(m) = STANCE
  BY <1>2, <1>3 DEF LastOf
<1>7. \A p \in 1..Len(m) : p = 1 \/ p = 2
  BY <1>3
<1>8. \A p \in 1..Len(m) : m[p] = STANCE
  BY <1>3, <1>7
<1>9. Len(e) >= 1 /\ Len(m) = Len(e) + 1
  BY <1>2, <1>3
<1>10. Framed(InitialSchedule)
  BY <1>3, <1>4, <1>5, <1>6, <1>9 DEF Framed
<1> QED BY <1>4, <1>6, <1>8, <1>10

\* The times solved since a command, counted up to Settled.
LEMMA SinceIs ==
  ASSUME NEW s \in 0..Settled, NEW d \in 1..MaxStep
  PROVE  /\ Min({s + d, Settled}) \in 1..Settled
         /\ Min({s + d, Settled}) <= s + d
         /\ Min({s + d, Settled}) = s + d \/ Min({s + d, Settled}) = Settled
<1> DEFINE S == {s + d, Settled}
<1>0. Settled \in Nat \ {0} /\ MaxStep \in Nat
  BY ConstantsAre
<1>1. s + d + Settled \in Nat /\ S \in SUBSET (0..(s + d + Settled)) /\ S # {}
  BY <1>0
<1>2. Min(S) \in S /\ \A x \in S : Min(S) <= x
  BY <1>1, MinOf
<1>3. Min(S) = s + d \/ Min(S) = Settled
  BY <1>2
<1>4. Min(S) <= s + d /\ Min(S) <= Settled
  BY <1>2
<1> HIDE DEF S
<1>5. Min(S) \in 1..Settled
  BY <1>0, <1>3, <1>4
<1> QED BY <1>3, <1>4, <1>5 DEF S

\* Before the first solve the plan is two stances.
LEMMA ManagerInitInv == Init => ManagerInv
<1> SUFFICES ASSUME Init PROVE ManagerInv
  OBVIOUS
<1>1. gaitSchedule = InitialSchedule /\ modeSchedule = InitialSchedule
  BY DEF Init
<1>2. Framed(gaitSchedule) /\ Framed(modeSchedule)
  BY <1>1, InitialIsFramed
<1>3. elapsed \in 0..MaxStep /\ since \in 0..Settled /\ since = 0
  BY ConstantsAre DEF Init
<1>4. PlanIsKept /\ PlanReaches
  BY <1>1, <1>3 DEF PlanIsKept, PlanReaches
<1>5. template \in Gaits /\ receivedGait \in Gaits /\ gaitUpdated \in BOOLEAN /\ planned = TRUE
  BY ConstantsAre DEF Init
<1>6. feet = Update(modeSchedule)
  BY <1>1 DEF Init
<1> QED BY <1>2, <1>3, <1>4, <1>5, <1>6 DEF ManagerInv

\* All that a solve does, as far as the proofs below need it.
LEMMA SolveDoes ==
  ASSUME ManagerInv, NEW d \in 1..MaxStep, PreSolverRun(d)
  PROVE  /\ elapsed' = d /\ since' = Min({since + d, Settled})
         /\ receivedGait' = receivedGait /\ gaitUpdated' = FALSE
         /\ template' = (IF gaitUpdated THEN receivedGait ELSE template)
         /\ planned' = TRUE /\ feet' = Update(modeSchedule')
         /\ Framed(modeSchedule') /\ Framed(gaitSchedule')
         /\ LastOf(modeSchedule'.eventTimes) >= Upper
         /\ LastOf(modeSchedule'.eventTimes) >= LastOf(gaitSchedule.eventTimes) - d
         /\ \A t \in Int : Lower <= t /\ t <= LastOf(gaitSchedule.eventTimes) - d =>
              ModeAt(modeSchedule', t) = ModeAt(gaitSchedule, t + d)
         /\ \A t \in Int :
              LastOf(gaitSchedule.eventTimes) - d < t /\ t <= LastOf(modeSchedule'.eventTimes) =>
              \E p \in DOMAIN template.modeSequence :
                ModeAt(modeSchedule', t) = template.modeSequence[p]
         /\ ~gaitUpdated => gaitSchedule' = modeSchedule'
         /\ gaitUpdated =>
              /\ Horizon <= LastOf(gaitSchedule'.eventTimes)
              /\ LastOf(gaitSchedule'.eventTimes) <= Horizon + Transition
              /\ \A t \in Int : t <= Horizon => ModeAt(gaitSchedule', t) = ModeAt(modeSchedule', t)
<1> DEFINE shifted == Shift(gaitSchedule, d)
           new == modeSchedule'
<1>1. /\ elapsed' = d /\ since' = Min({since + d, Settled})
      /\ new = GetModeSchedule(shifted, template, Lower, Upper)
      /\ planned' = UpdateSucceeds(new)
      /\ feet' = (IF planned' THEN Update(new) ELSE feet)
      /\ IF planned' THEN InsertReceived
         ELSE gaitSchedule' = new /\ UNCHANGED <<template, gaitUpdated>>
      /\ receivedGait' = receivedGait
  BY DEF PreSolverRun, ModifyReferences
<1>2. d \in Int /\ Framed(gaitSchedule)
  BY ConstantsAre DEF ManagerInv
<1>3. /\ Framed(shifted)
      /\ LastOf(shifted.eventTimes) = LastOf(gaitSchedule.eventTimes) - d
      /\ \A t \in Int : ModeAt(shifted, t) = ModeAt(gaitSchedule, t + d)
  BY <1>2, ShiftKeeps
<1>4. IsTemplate(template) /\ Lower \in Int /\ Upper \in Int /\ Horizon \in Int
  BY ConstantsAre DEF ManagerInv
<1> HIDE DEF shifted, new
<1>5. /\ Framed(new)
      /\ LastOf(new.eventTimes) >= Upper
      /\ LastOf(new.eventTimes) >= LastOf(shifted.eventTimes)
      /\ \A t \in Int : Lower <= t /\ t <= LastOf(shifted.eventTimes) =>
           ModeAt(new, t) = ModeAt(shifted, t)
      /\ \A t \in Int : LastOf(shifted.eventTimes) < t /\ t <= LastOf(new.eventTimes) =>
           \E p \in DOMAIN template.modeSequence : ModeAt(new, t) = template.modeSequence[p]
  BY <1>1, <1>3, <1>4, GetModeScheduleKeeps
<1>6. planned' = TRUE
  <2>1. UpdateSucceeds(new)
    BY <1>5, UpdateReturns
  <2>2. UpdateSucceeds(new) \in BOOLEAN
    BY Zenon DEF UpdateSucceeds
  <2> QED BY <1>1, <2>1, <2>2
<1>7. feet' = Update(new)
  BY <1>1, <1>6
<1>8. /\ template' = (IF gaitUpdated THEN receivedGait ELSE template)
      /\ gaitSchedule' = (IF gaitUpdated THEN InsertGait(new, Horizon) ELSE new)
      /\ gaitUpdated' = FALSE
  BY <1>1, <1>6 DEF InsertReceived, new
<1>9. ASSUME gaitUpdated
      PROVE  /\ Framed(gaitSchedule')
             /\ Horizon <= LastOf(gaitSchedule'.eventTimes)
             /\ LastOf(gaitSchedule'.eventTimes) <= Horizon + Transition
             /\ \A t \in Int : t <= Horizon => ModeAt(gaitSchedule', t) = ModeAt(new, t)
  <2>1. gaitSchedule' = InsertGait(new, Horizon)
    BY <1>8, <1>9
  <2> QED BY <1>4, <1>5, <2>1, InsertGaitKeeps, SMTT(30)
<1>10. Framed(gaitSchedule')
  BY <1>5, <1>8, <1>9
<1>11. ~gaitUpdated => gaitSchedule' = new
  BY <1>8
<1>12. /\ LastOf(new.eventTimes) >= LastOf(gaitSchedule.eventTimes) - d
       /\ \A t \in Int : Lower <= t /\ t <= LastOf(gaitSchedule.eventTimes) - d =>
            ModeAt(new, t) = ModeAt(gaitSchedule, t + d)
       /\ \A t \in Int : LastOf(gaitSchedule.eventTimes) - d < t /\ t <= LastOf(new.eventTimes) =>
            \E p \in DOMAIN template.modeSequence : ModeAt(new, t) = template.modeSequence[p]
  BY <1>3, <1>5, Zenon
<1> QED BY <1>1, <1>5, <1>6, <1>7, <1>8, <1>9, <1>10, <1>11, <1>12, Zenon DEF new

\* A solve keeps the invariant.
LEMMA SolveKeepsInv ==
  ASSUME ManagerInv, NEW d \in 1..MaxStep, PreSolverRun(d)
  PROVE  ManagerInv'
<1>1. /\ elapsed' = d /\ since' = Min({since + d, Settled})
      /\ receivedGait' = receivedGait /\ gaitUpdated' = FALSE
      /\ template' = (IF gaitUpdated THEN receivedGait ELSE template)
      /\ planned' = TRUE /\ feet' = Update(modeSchedule')
      /\ Framed(modeSchedule') /\ Framed(gaitSchedule')
      /\ LastOf(modeSchedule'.eventTimes) >= Upper
      /\ ~gaitUpdated => gaitSchedule' = modeSchedule'
      /\ gaitUpdated =>
           /\ Horizon <= LastOf(gaitSchedule'.eventTimes)
           /\ \A t \in Int : t <= Horizon => ModeAt(gaitSchedule', t) = ModeAt(modeSchedule', t)
  BY SolveDoes, Zenon
<1>2. elapsed' \in 0..MaxStep /\ since' \in 0..Settled
  <2>1. since \in 0..Settled /\ MaxStep \in Nat /\ Settled \in Nat
    BY ConstantsAre DEF ManagerInv
  <2>2. Min({since + d, Settled}) \in 1..Settled
    BY <2>1, SinceIs
  <2> QED BY <1>1, <2>1, <2>2
<1>3. template' \in Gaits /\ receivedGait' \in Gaits /\ gaitUpdated' \in BOOLEAN
  BY <1>1 DEF ManagerInv
<1>4. PlanIsKept'
  BY <1>1, Zenon DEF PlanIsKept
<1>5. PlanReaches'
  <2>1. Upper \in Int /\ Horizon \in Int /\ Horizon < Upper
    BY ConstantsAre
  <2>2. LastOf(modeSchedule'.eventTimes) \in Int
    <3>1. LastOf(modeSchedule'.eventTimes) = modeSchedule'.eventTimes[Len(modeSchedule'.eventTimes)]
      BY DEF LastOf
    <3>2. /\ Len(modeSchedule'.eventTimes) \in Nat \ {0}
          /\ \A i \in 1..Len(modeSchedule'.eventTimes) : modeSchedule'.eventTimes[i] \in Int
      BY <1>1, FramedParts
    <3> QED BY <3>1, <3>2
  <2>3. LastOf(gaitSchedule'.eventTimes) >= Horizon
    <3>1. CASE gaitUpdated
      <4>1. Horizon <= LastOf(gaitSchedule'.eventTimes)
        BY <1>1, <3>1
      <4> QED BY <4>1
    <3>2. CASE ~gaitUpdated
      <4>1. LastOf(gaitSchedule'.eventTimes) = LastOf(modeSchedule'.eventTimes)
        BY <1>1, <3>2
      <4> QED BY <1>1, <2>1, <2>2, <4>1
    <3> QED BY <3>1, <3>2
  <2>4. Upper' = Upper
    BY DEF Upper
  <2> QED BY <1>1, <2>3, <2>4 DEF PlanReaches
<1> QED BY <1>1, <1>2, <1>3, <1>4, <1>5, Zenon DEF ManagerInv

\* So does a command.
LEMMA ReceiveKeepsInv ==
  ASSUME ManagerInv, NEW g \in Gaits, ReceiveGait(g)
  PROVE  ManagerInv'
<1>1. /\ receivedGait' = g /\ gaitUpdated' = TRUE /\ elapsed' = 0 /\ since' = 0
      /\ gaitSchedule' = gaitSchedule /\ template' = template /\ modeSchedule' = modeSchedule
      /\ feet' = feet /\ planned' = planned
  BY DEF ReceiveGait
<1>2. elapsed' \in 0..MaxStep /\ since' \in 0..Settled
  BY <1>1, ConstantsAre
<1>3. PlanIsKept' /\ PlanReaches'
  BY <1>1 DEF ManagerInv, PlanIsKept, PlanReaches, Upper, InitialSchedule
<1> QED BY <1>1, <1>2, <1>3 DEF ManagerInv

\* And so does every step.
LEMMA ManagerStep == ManagerInv /\ [Next]_vars => ManagerInv'
<1> SUFFICES ASSUME ManagerInv, [Next]_vars PROVE ManagerInv'
  OBVIOUS
<1>1. CASE Solve
  BY <1>1, SolveKeepsInv DEF Solve
<1>2. CASE \E g \in Gaits : ReceiveGait(g)
  BY <1>2, ReceiveKeepsInv
<1>3. CASE UNCHANGED vars
  BY <1>3 DEF vars, ManagerInv, PlanIsKept, PlanReaches
<1> QED BY <1>1, <1>2, <1>3 DEF Next

\* The invariant holds in every reachable state.
THEOREM ManagerInductive == Spec => []ManagerInv
BY ManagerInitInv, ManagerStep, PTL DEF Spec

-----------------------------------------------------------------------------
(* Safety.                                                                 *)

\* Types: schedules stay well-formed whatever is cut off, tiled and inserted.
THEOREM ManagerTypeCorrect == Spec => []TypeOK
<1>1. ManagerInv => TypeOK
  <2> SUFFICES ASSUME ManagerInv PROVE TypeOK
    OBVIOUS
  <2>1. IsSchedule(gaitSchedule) /\ IsSchedule(modeSchedule)
    BY FramedIsSchedule DEF ManagerInv
  <2>2. ASSUME NEW leg \in Legs PROVE Len(feet[leg]) = Len(modeSchedule.modeSequence)
    <3> DEFINE m == modeSchedule.modeSequence
               flags == ContactFlags(m, leg)
               foot == feet[leg]
    <3>1. Framed(modeSchedule) /\ feet = Update(modeSchedule)
      BY DEF ManagerInv
    <3>2. DOMAIN flags = 1..Len(m) /\ Len(m) \in Nat
      BY <3>1, FramedParts, ContactFlagsAre
    <3>3. foot = [p \in DOMAIN flags |->
                    IF flags[p] THEN Stance
                    ELSE Swing(modeSchedule.eventTimes[UpdateFootSchedule(flags)[p].start],
                               modeSchedule.eventTimes[UpdateFootSchedule(flags)[p].final])]
      BY <3>1 DEF Update
    <3>4. DOMAIN foot = 1..Len(m)
      BY <3>2, <3>3
    <3> DEFINE R == {foot[p] : p \in 1..Len(m)}
    <3>5. foot = [p \in 1..Len(m) |-> foot[p]]
      BY <3>2, <3>3
    <3> HIDE DEF m, flags, foot
    <3>6. foot \in [1..Len(m) -> R]
      BY <3>5
    <3>7. Len(foot) = Len(m)
      BY <3>2, <3>6
    <3> QED BY <3>7 DEF m, foot
  <2>3. planned \in BOOLEAN
    BY DEF ManagerInv
  <2> QED BY <2>1, <2>2, <2>3 DEF ManagerInv, TypeOK
<1> QED BY <1>1, ManagerInductive, PTL

\* No gait, and no change of gait at any time, makes update() throw.
THEOREM NoSwingIsUndefined == Spec => []EverySwingIsDefined
<1>1. ManagerInv => EverySwingIsDefined
  BY DEF ManagerInv, EverySwingIsDefined
<1> QED BY <1>1, ManagerInductive, PTL

\* What a foot does at a time follows the modes around that time.
LEMMA FootSpans ==
  ASSUME ManagerInv, NEW leg \in Legs, NEW t \in Int
  PROVE  /\ Spans(FootAt(leg, t), modeSchedule, leg, t)
         /\ \/ FootAt(leg, t) = Stance
            \/ \E from, to \in Int : /\ FootAt(leg, t) = Swing(from, to)
                                     /\ to <= LastOf(modeSchedule.eventTimes)
<1>1. Framed(modeSchedule) /\ feet = Update(modeSchedule)
  BY DEF ManagerInv
<1> QED BY <1>1, UpdateSpans DEF FootAt

\* At every time of the horizon a leg swings exactly while it is up, from the
\* end of its last contact to the start of its next.
THEOREM SwingsSpanTheAir == Spec => []SwingSpansTheAir
<1>1. ManagerInv => SwingSpansTheAir
  <2> SUFFICES ASSUME ManagerInv, NEW leg \in Legs, NEW t \in 0..Horizon
               PROVE  Spans(FootAt(leg, t), modeSchedule, leg, t)
    BY DEF SwingSpansTheAir, Spans
  <2>1. t \in Int
    BY ConstantsAre
  <2> QED BY <2>1, FootSpans
<1> QED BY <1>1, ManagerInductive, PTL

-----------------------------------------------------------------------------
(* From one solve to the next.                                             *)

\* The modes of the next plan, on its own clock, from the margin behind its
\* initial time to the end of the last horizon.
LEMMA PlanCarriesOver ==
  ASSUME ManagerInv, NEW d \in 1..MaxStep, PreSolverRun(d), NEW t \in Int,
         Lower + d <= t, t <= Horizon, t <= LastOf(modeSchedule.eventTimes)
  PROVE  ModeAt(modeSchedule', t - d) = ModeAt(modeSchedule, t)
<1>1. d \in Int /\ t - d \in Int /\ (t - d) + d = t /\ Lower <= t - d /\ Horizon \in Int
  BY ConstantsAre
<1>2. ModeAt(gaitSchedule, t) = ModeAt(modeSchedule, t)
  BY DEF ManagerInv, PlanIsKept
<1>3. /\ LastOf(gaitSchedule.eventTimes) \in Int
      /\ LastOf(modeSchedule.eventTimes) \in Int
  BY FramedParts, SMTT(30) DEF ManagerInv, LastOf
<1>4. t <= LastOf(gaitSchedule.eventTimes)
  <2>1. CASE modeSchedule = InitialSchedule /\ gaitSchedule = InitialSchedule
    BY <2>1
  <2>2. CASE LastOf(gaitSchedule.eventTimes) >= Horizon
    BY <1>1, <1>3, <2>2
  <2> QED BY <2>1, <2>2 DEF ManagerInv, PlanReaches
<1>5. t - d <= LastOf(gaitSchedule.eventTimes) - d
  BY <1>1, <1>3, <1>4
<1>6. \A s \in Int : Lower <= s /\ s <= LastOf(gaitSchedule.eventTimes) - d =>
        ModeAt(modeSchedule', s) = ModeAt(gaitSchedule, s + d)
  BY SolveDoes, Zenon
<1>7. ModeAt(modeSchedule', t - d) = ModeAt(gaitSchedule, (t - d) + d)
  BY <1>1, <1>5, <1>6
<1> QED BY <1>1, <1>2, <1>7

\* The steps that carry a plan over are those of the solver.
LEMMA OnlySolvesElapse ==
  ASSUME ManagerInv, [Next]_vars, elapsed' > 0
  PROVE  (\E d \in 1..MaxStep : PreSolverRun(d) /\ elapsed' = d) \/ UNCHANGED vars
<1>1. CASE Solve
  BY <1>1 DEF Solve, PreSolverRun
<1>2. CASE \E g \in Gaits : ReceiveGait(g)
  BY <1>2 DEF ReceiveGait
<1>3. CASE UNCHANGED vars
  BY <1>3
<1> QED BY <1>1, <1>2, <1>3 DEF Next

\* No contact planned within the horizon is taken back by a later solve, and no
\* gait command reaches into it.
THEOREM HorizonStaysPlanned == Spec => HorizonIsKept
<1> DEFINE Kept == elapsed' > 0 =>
                     \A t \in elapsed'..Horizon :
                       t <= LastOf(modeSchedule.eventTimes) =>
                         ModeAt(modeSchedule', t - elapsed') = ModeAt(modeSchedule, t)
<1>1. ManagerInv /\ [Next]_vars => [Kept]_vars
  <2> SUFFICES ASSUME ManagerInv, [Next]_vars, ~UNCHANGED vars,
                      elapsed' > 0, NEW t \in elapsed'..Horizon,
                      t <= LastOf(modeSchedule.eventTimes)
               PROVE  ModeAt(modeSchedule', t - elapsed') = ModeAt(modeSchedule, t)
    OBVIOUS
  <2>1. PICK d \in 1..MaxStep : PreSolverRun(d) /\ elapsed' = d
    BY OnlySolvesElapse
  <2>2. t \in Int /\ Lower + d <= t /\ t <= Horizon
    BY <2>1, ConstantsAre
  <2> QED BY <2>1, <2>2, PlanCarriesOver
<1> QED BY <1>1, ManagerInductive, PTL DEF Spec, HorizonIsKept

\* Between two contacts there is one swing.
LEMMA SwingIsUnique ==
  ASSUME NEW C, NEW t \in Int, NEW a \in Int, NEW b \in Int, NEW c \in Int, NEW d \in Int,
         a < t, t <= b, a \in C, b + 1 \in C, \A s \in (a + 1)..b : s \notin C,
         c < t, t <= d, c \in C, d + 1 \in C, \A s \in (c + 1)..d : s \notin C
  PROVE  a = c /\ b = d
<1>1. ~(a < c) /\ ~(c < a)
  <2>1. a < c => c \in (a + 1)..b
    OBVIOUS
  <2>2. c < a => a \in (c + 1)..d
    OBVIOUS
  <2> QED BY <2>1, <2>2
<1>2. ~(b < d) /\ ~(d < b)
  <2>1. b < d => b + 1 \in (c + 1)..d
    OBVIOUS
  <2>2. d < b => d + 1 \in (a + 1)..b
    OBVIOUS
  <2> QED BY <2>1, <2>2
<1> QED BY <1>1, <1>2

\* Before the first solve no leg is in the air.
LEMMA SwingsAreReached ==
  ASSUME ManagerInv, NEW leg \in Legs, NEW t \in Int, leg \notin ModeAt(modeSchedule, t)
  PROVE  LastOf(modeSchedule.eventTimes) >= Upper
<1>1. modeSchedule # InitialSchedule
  <2> SUFFICES ASSUME modeSchedule = InitialSchedule PROVE FALSE
    OBVIOUS
  <2> DEFINE p == PhaseAt(InitialSchedule.eventTimes, t)
  <2>1. p \in 1..Len(InitialSchedule.modeSequence)
    BY InitialIsFramed, PhaseInSchedule
  <2>2. ModeAt(InitialSchedule, t) = InitialSchedule.modeSequence[p]
    BY DEF ModeAt
  <2> HIDE DEF p
  <2>3. ModeAt(InitialSchedule, t) = Legs
    BY <2>1, <2>2, InitialIsFramed DEF STANCE
  <2> QED BY <2>3
<1> QED BY <1>1 DEF ManagerInv, PlanReaches

\* A swing that is going on, on the clock of the next solve.
LEMMA SwingCarriesOver ==
  ASSUME ManagerInv, ManagerInv', NEW d \in 1..MaxStep, PreSolverRun(d), NEW leg \in Legs,
         NEW before, before = FootAt(leg, d),
         before.swings, before.liftOff >= d + Lower, before.touchDown < Horizon
  PROVE  feet'[leg][PhaseAt(modeSchedule'.eventTimes, 0)]
           = Swing(before.liftOff - d, before.touchDown - d)
<1> DEFINE after == feet'[leg][PhaseAt(modeSchedule'.eventTimes, 0)]
           C == {s \in Int : leg \in ModeAt(modeSchedule', s)}
<1>1. d \in Int /\ 0 \in Int /\ Lower \in Int /\ Horizon \in Int /\ Upper \in Int /\ Horizon < Upper
  BY ConstantsAre
<1>2. /\ Spans(before, modeSchedule, leg, d)
      /\ \/ before = Stance
         \/ \E from, to \in Int : before = Swing(from, to)
  BY <1>1, FootSpans
<1>3. leg \notin ModeAt(modeSchedule, d)
  BY <1>2 DEF Spans
<1>4. PICK from, to \in Int : before = Swing(from, to)
  BY <1>2 DEF Stance
<1>5. before.liftOff = from /\ before.touchDown = to
  BY <1>4 DEF Swing
<1>6. /\ from < d /\ d <= to
      /\ leg \in ModeAt(modeSchedule, from) /\ leg \in ModeAt(modeSchedule, to + 1)
      /\ \A s \in (from + 1)..to : leg \notin ModeAt(modeSchedule, s)
  BY <1>2, <1>3, <1>5, Zenon DEF Spans
<1>7. LastOf(modeSchedule.eventTimes) >= Upper /\ LastOf(modeSchedule.eventTimes) \in Int
  <2>1. LastOf(modeSchedule.eventTimes) \in Int
    BY FramedParts DEF ManagerInv, LastOf
  <2> QED BY <1>1, <1>3, <2>1, SwingsAreReached
<1>8. ASSUME NEW s \in from..(to + 1)
      PROVE  ModeAt(modeSchedule', s - d) = ModeAt(modeSchedule, s)
  <2>1. s \in Int /\ Lower + d <= s /\ s <= Horizon /\ s <= LastOf(modeSchedule.eventTimes)
    BY <1>1, <1>5, <1>7
  <2> QED BY <2>1, PlanCarriesOver
<1>9. Framed(modeSchedule') /\ feet' = Update(modeSchedule')
  BY DEF ManagerInv
<1>10. /\ Spans(after, modeSchedule', leg, 0)
       /\ after = Stance \/ \E x, y \in Int : after = Swing(x, y)
  BY <1>1, <1>9, UpdateSpans
<1>11. leg \notin ModeAt(modeSchedule', 0)
  <2>1. d \in from..(to + 1) /\ d - d = 0
    BY <1>1, <1>6
  <2> QED BY <1>3, <1>8, <2>1
<1> HIDE DEF after
<1>12. after # Stance
  BY <1>10, <1>11 DEF Spans, Stance
<1>13. PICK x, y \in Int : after = Swing(x, y)
  BY <1>10, <1>12
<1>14. after.liftOff = x /\ after.touchDown = y
  BY <1>13 DEF Swing
<1>15. /\ x < 0 /\ 0 <= y
       /\ leg \in ModeAt(modeSchedule', x) /\ leg \in ModeAt(modeSchedule', y + 1)
       /\ \A s \in (x + 1)..y : leg \notin ModeAt(modeSchedule', s)
  BY <1>10, <1>11, <1>14, Zenon DEF Spans
<1>16. /\ x \in C /\ y + 1 \in C /\ \A s \in (x + 1)..y : s \notin C
  BY <1>15
<1>17. /\ from - d \in C /\ (to - d) + 1 \in C
       /\ \A s \in ((from - d) + 1)..(to - d) : s \notin C
  <2>1. from - d \in C
    <3>1. from \in from..(to + 1) /\ from - d \in Int
      BY <1>1, <1>6
    <3> QED BY <1>6, <1>8, <3>1
  <2>2. (to - d) + 1 \in C
    <3>1. to + 1 \in from..(to + 1) /\ (to - d) + 1 \in Int /\ (to + 1) - d = (to - d) + 1
      BY <1>1, <1>6
    <3>2. ModeAt(modeSchedule', (to + 1) - d) = ModeAt(modeSchedule, to + 1)
      BY <1>8, <3>1
    <3> QED BY <1>6, <3>1, <3>2
  <2>3. ASSUME NEW s \in ((from - d) + 1)..(to - d) PROVE s \notin C
    <3>1. s + d \in from..(to + 1) /\ s + d \in (from + 1)..to /\ (s + d) - d = s
      BY <1>1, <1>6
    <3>2. ModeAt(modeSchedule', (s + d) - d) = ModeAt(modeSchedule, s + d)
      BY <1>8, <3>1
    <3> QED BY <1>6, <3>1, <3>2
  <2> QED BY <2>1, <2>2, <2>3
<1> HIDE DEF C
<1>18. from - d \in Int /\ to - d \in Int /\ from - d < 0 /\ 0 <= to - d
  BY <1>1, <1>6
<1>19. x = from - d /\ y = to - d
  BY <1>1, <1>15, <1>16, <1>17, <1>18, SwingIsUnique
<1> QED BY <1>5, <1>13, <1>19 DEF after

\* A foot that is in the air when a solve begins is led on as it was: no later
\* plan moves its lift-off or a touch-down that was within the horizon.
THEOREM SwingStaysPlanned == Spec => SwingIsKept
<1> DEFINE Kept ==
      elapsed' > 0 =>
        \A leg \in Legs :
          LET before == feet[leg][PhaseAt(modeSchedule.eventTimes, elapsed')]
              after  == feet'[leg][PhaseAt(modeSchedule'.eventTimes, 0)]
          IN  /\ before.swings
              /\ before.liftOff >= elapsed' - Horizon
              /\ before.touchDown < Horizon
              => after = Swing(before.liftOff - elapsed', before.touchDown - elapsed')
<1>1. ManagerInv /\ ManagerInv' /\ [Next]_vars => [Kept]_vars
  <2> SUFFICES ASSUME ManagerInv, ManagerInv', [Next]_vars, ~UNCHANGED vars,
                      elapsed' > 0, NEW leg \in Legs, NEW before,
                      before = FootAt(leg, elapsed'),
                      before.swings, before.liftOff >= elapsed' - Horizon,
                      before.touchDown < Horizon
               PROVE  feet'[leg][PhaseAt(modeSchedule'.eventTimes, 0)]
                        = Swing(before.liftOff - elapsed', before.touchDown - elapsed')
    BY Zenon DEF FootAt
  <2>1. PICK d \in 1..MaxStep : PreSolverRun(d) /\ elapsed' = d
    BY OnlySolvesElapse
  <2>2. d - Horizon = d + Lower
    BY ManagerAssumption DEF Lower
  <2>3. before.liftOff >= d + Lower
    BY <2>1, <2>2
  <2> QED BY <2>1, <2>3, SwingCarriesOver
<1> QED BY <1>1, ManagerInductive, PTL DEF Spec, SwingIsKept

-----------------------------------------------------------------------------
(* A gait that was asked for is walked.                                    *)

IsWalked(mode, g) == \E p \in DOMAIN g.modeSequence : mode = g.modeSequence[p]

\* The new gait has been inserted a solve after the command, behind the horizon
\* of that solve and the leading stance, and comes nearer from then on.
GaitApproaches ==
  /\ gaitUpdated => since = 0
  /\ since > MaxStep => gaitSchedule = modeSchedule
  /\ ~gaitUpdated =>
       /\ template = receivedGait
       /\ \A t \in Int : Settled - since < t /\ t <= LastOf(gaitSchedule.eventTimes) =>
            IsWalked(ModeAt(gaitSchedule, t), receivedGait)

\* A solve brings the gait nearer by the time that has passed.
LEMMA SolveBringsGaitNearer ==
  ASSUME ManagerInv, ManagerInv', GaitApproaches, NEW d \in 1..MaxStep, PreSolverRun(d)
  PROVE  GaitApproaches'
<1>1. /\ since' = Min({since + d, Settled})
      /\ receivedGait' = receivedGait /\ gaitUpdated' = FALSE
      /\ template' = (IF gaitUpdated THEN receivedGait ELSE template)
      /\ \A t \in Int : Lower <= t /\ t <= LastOf(gaitSchedule.eventTimes) - d =>
           ModeAt(modeSchedule', t) = ModeAt(gaitSchedule, t + d)
      /\ \A t \in Int :
           LastOf(gaitSchedule.eventTimes) - d < t /\ t <= LastOf(modeSchedule'.eventTimes) =>
           \E p \in DOMAIN template.modeSequence :
             ModeAt(modeSchedule', t) = template.modeSequence[p]
      /\ ~gaitUpdated => gaitSchedule' = modeSchedule'
      /\ gaitUpdated => LastOf(gaitSchedule'.eventTimes) <= Horizon + Transition
  BY SolveDoes, Zenon
<1>2. /\ MaxStep \in Nat /\ Settled \in Nat /\ Settled = MaxStep + Horizon + Transition
      /\ Horizon \in Nat /\ Transition \in Nat /\ Lower \in Int /\ Lower < 0 /\ MaxStep < Settled
      /\ since \in 0..Settled
  BY ConstantsAre DEF Settled, ManagerInv
<1>3. /\ since' \in 1..Settled /\ since' <= since + d
      /\ since' = since + d \/ since' = Settled
  BY <1>1, <1>2, SinceIs
<1>4. LastOf(gaitSchedule.eventTimes) \in Int /\ LastOf(gaitSchedule'.eventTimes) \in Int
  <2>1. Framed(gaitSchedule) /\ Framed(gaitSchedule')
    BY DEF ManagerInv
  <2> QED BY <2>1, FramedParts DEF LastOf
<1>5. CASE gaitUpdated
  <2>1. since = 0 /\ since' <= MaxStep
    BY <1>2, <1>3, <1>5 DEF GaitApproaches
  <2>2. template' = receivedGait'
    BY <1>1, <1>5
  <2>3. ASSUME NEW t \in Int, Settled - since' < t, t <= LastOf(gaitSchedule'.eventTimes)
        PROVE  FALSE
    BY <1>1, <1>2, <1>3, <1>4, <1>5, <2>1, <2>3
  <2>4. ~(since' > MaxStep)
    BY <1>2, <1>3, <2>1
  <2>5. Settled' = Settled
    BY DEF Settled
  <2> QED BY <1>1, <2>2, <2>3, <2>4, <2>5 DEF GaitApproaches
<1>6. CASE ~gaitUpdated
  <2>1. gaitSchedule' = modeSchedule' /\ template' = template /\ template = receivedGait
    BY <1>1, <1>6 DEF GaitApproaches
  <2>2. ASSUME NEW t \in Int, Settled - since' < t, t <= LastOf(gaitSchedule'.eventTimes)
        PROVE  IsWalked(ModeAt(gaitSchedule', t), receivedGait)
    <3>1. CASE t <= LastOf(gaitSchedule.eventTimes) - d
      <4>1. /\ Lower <= t /\ t + d \in Int /\ Settled - since < t + d
            /\ t + d <= LastOf(gaitSchedule.eventTimes)
        <5>1. d \in Int /\ since \in Int /\ since' \in Int
          BY <1>2, <1>3
        <5>2. Settled - since' < t
          BY <2>2
        <5>3. Settled \in Int /\ Lower \in Int /\ Lower < 0 /\ since' <= Settled /\ since' <= since + d
          BY <1>2, <1>3
        <5>4. \A s, m, n, l, u, v \in Int :
                s - n < u /\ n <= s /\ n <= m + v /\ l < 0 => s - m < u + v /\ l <= u
          OBVIOUS
        <5>5. Settled - since < t + d /\ Lower <= t
          BY <5>1, <5>2, <5>3, <5>4
        <5> QED BY <1>4, <3>1, <5>1, <5>5
      <4>2. ModeAt(gaitSchedule', t) = ModeAt(gaitSchedule, t + d)
        BY <1>1, <2>1, <3>1, <4>1
      <4>3. IsWalked(ModeAt(gaitSchedule, t + d), receivedGait)
        BY <1>6, <4>1 DEF GaitApproaches
      <4> QED BY <4>2, <4>3
    <3>2. CASE ~(t <= LastOf(gaitSchedule.eventTimes) - d)
      <4>1. LastOf(gaitSchedule.eventTimes) - d < t /\ t <= LastOf(modeSchedule'.eventTimes)
        BY <1>2, <1>4, <2>1, <2>2, <3>2
      <4>2. \E p \in DOMAIN template.modeSequence :
              ModeAt(modeSchedule', t) = template.modeSequence[p]
        BY <1>1, <4>1
      <4> QED BY <2>1, <4>2 DEF IsWalked
    <3> QED BY <3>1, <3>2
  <2>3. Settled' = Settled /\ receivedGait' = receivedGait
    BY <1>1 DEF Settled
  <2>4. since' > MaxStep => gaitSchedule' = modeSchedule'
    BY <2>1
  <2>5. \A t \in Int : Settled' - since' < t /\ t <= LastOf(gaitSchedule'.eventTimes) =>
          IsWalked(ModeAt(gaitSchedule', t), receivedGait')
    BY <2>2, <2>3
  <2> QED BY <1>1, <2>1, <2>3, <2>4, <2>5 DEF GaitApproaches
<1> QED BY <1>5, <1>6

\* Whatever solves and commands come before: once the last command is as old as
\* a step of the MPC, a horizon and the leading stance, the robot stands on the
\* feet of a phase of the gait that was asked for.  The initial schedule has to
\* end by then, as that of reference.info does.
THEOREM GaitGetsWalked == FirstEvent <= Settled => (Spec => []GaitIsWalked)
<1> SUFFICES ASSUME FirstEvent <= Settled PROVE Spec => []GaitIsWalked
  OBVIOUS
<1>1. Init => GaitApproaches
  <2> SUFFICES ASSUME Init PROVE GaitApproaches
    OBVIOUS
  <2>1. LastOf(gaitSchedule.eventTimes) = FirstEvent /\ since = 0 /\ gaitSchedule = modeSchedule
    BY InitialIsFramed DEF Init
  <2>2. ASSUME NEW t \in Int, Settled - since < t, t <= LastOf(gaitSchedule.eventTimes)
        PROVE  FALSE
    BY <2>1, <2>2, ConstantsAre
  <2> QED BY <2>1, <2>2 DEF Init, GaitApproaches
<1>2. ManagerInv /\ ManagerInv' /\ GaitApproaches /\ [Next]_vars => GaitApproaches'
  <2> SUFFICES ASSUME ManagerInv, ManagerInv', GaitApproaches, [Next]_vars PROVE GaitApproaches'
    OBVIOUS
  <2>1. CASE Solve
    BY <2>1, SolveBringsGaitNearer DEF Solve
  <2>2. CASE \E g \in Gaits : ReceiveGait(g)
    <3>1. gaitUpdated' = TRUE /\ since' = 0
      BY <2>2 DEF ReceiveGait
    <3>2. ~(since' > MaxStep)
      BY <3>1, ConstantsAre
    <3> QED BY <3>1, <3>2 DEF GaitApproaches
  <2>3. CASE UNCHANGED vars
    BY <2>3 DEF vars, GaitApproaches, Settled
  <2> QED BY <2>1, <2>2, <2>3 DEF Next
<1>3. ManagerInv /\ GaitApproaches => GaitIsWalked
  <2> SUFFICES ASSUME ManagerInv, GaitApproaches, since = Settled
               PROVE  IsWalked(ModeAt(modeSchedule, 1), receivedGait)
    BY DEF GaitIsWalked, IsWalked
  <2>1. since # 0 /\ since > MaxStep /\ Settled - since < 1
    BY ConstantsAre
  <2>2. ~gaitUpdated /\ gaitSchedule = modeSchedule
    BY <2>1 DEF GaitApproaches, ManagerInv
  <2>3. LastOf(modeSchedule.eventTimes) >= Upper
    BY <2>1 DEF ManagerInv, PlanReaches
  <2>4. LastOf(modeSchedule.eventTimes) \in Int
    BY FramedParts DEF ManagerInv, LastOf
  <2>5. 1 <= LastOf(gaitSchedule.eventTimes)
    BY <2>2, <2>3, <2>4, ConstantsAre
  <2> QED BY <2>1, <2>2, <2>5 DEF GaitApproaches
<1> QED BY <1>1, <1>2, <1>3, ManagerInductive, PTL DEF Spec

-----------------------------------------------------------------------------
(* The optimal control problem.                                            *)

\* At every time of the horizon and whatever was evaluated before, the terms of
\* every foot agree with the planned contacts: forces and the ground under the
\* feet that stand, the swing of that very time for those that do not.
THEOREM TermsFitThePlan == Spec => []FootTermsFit
<1>1. ManagerInv => FootTermsFit
  <2> SUFFICES ASSUME ManagerInv, NEW t \in 0..Horizon, NEW earlier \in EarlierConfigs,
                      NEW leg \in Legs
               PROVE  LET configs == Request(Everything, t, earlier)
                          active  == {term \in Terms : IsActive(term, leg, t)}
                          swing   == configs[leg].foot
                      IN  /\ \A term \in active : Fits(term, leg, configs)
                          /\ \/ /\ active = {"zeroForce", "normalVelocity"}
                                /\ swing.swings /\ swing.liftOff < t /\ t <= swing.touchDown
                                /\ leg \notin NominalForces(t)
                             \/ /\ active = {"frictionCone", "zeroVelocity"}
                                /\ ~swing.swings
                                /\ leg \in NominalForces(t)
    BY DEF FootTermsFit
  <2> DEFINE configs == Request(Everything, t, earlier)
             active  == {term \in Terms : IsActive(term, leg, t)}
  <2>1. configs[leg] = NormalVelocityConfig(leg, t)
    BY DEF Request, Everything
  <2>2. configs[leg].rows = 1 /\ configs[leg].foot = FootAt(leg, t)
    BY <2>1 DEF NormalVelocityConfig
  <2>3. Spans(FootAt(leg, t), modeSchedule, leg, t)
    <3>1. t \in Int
      BY ConstantsAre
    <3> QED BY <3>1, FootSpans
  <2> HIDE DEF configs
  <2>4. \A term \in active : Fits(term, leg, configs)
    BY <2>2 DEF Fits, ConfigOf, ZeroVelocityConfig, NumConstraints, Terms
  <2>5. CASE leg \in ModeAt(modeSchedule, t)
    <3>1. active = {"frictionCone", "zeroVelocity"}
      BY <2>5 DEF IsActive, GetContactFlags, Terms
    <3>2. ~FootAt(leg, t).swings
      BY <2>3, <2>5 DEF Spans
    <3> QED BY <2>2, <2>4, <2>5, <3>1, <3>2 DEF NominalForces, GetContactFlags, configs
  <2>6. CASE leg \notin ModeAt(modeSchedule, t)
    <3>1. active = {"zeroForce", "normalVelocity"}
      BY <2>6 DEF IsActive, GetContactFlags, Terms
    <3>2. FootAt(leg, t).swings /\ FootAt(leg, t).liftOff < t /\ t <= FootAt(leg, t).touchDown
      BY <2>3, <2>6 DEF Spans
    <3> QED BY <2>2, <2>4, <2>6, <3>1, <3>2 DEF NominalForces, GetContactFlags, configs
  <2> QED BY <2>5, <2>6
<1> QED BY <1>1, ManagerInductive, PTL

-----------------------------------------------------------------------------
(* The friction cone.                                                      *)

\* A square is natural.
LEMMA SquareIsNatural == ASSUME NEW a \in Int PROVE a * a \in Nat
<1>1. CASE a >= 0
  BY <1>1, SMT
<1>2. CASE a < 0
  <2>1. a * a = (-a) * (-a)
    BY SMT
  <2>2. -a \in Nat
    BY <1>2, SMT
  <2> QED BY <2>1, <2>2, SMT
<1> QED BY <1>1, <1>2, SMT

\* A number is at most another, natural one if their squares are so.
LEMMA RootMonotone ==
  ASSUME NEW a \in Int, NEW b \in Nat, a * a <= b * b
  PROVE  a <= b
<1> SUFFICES ASSUME a > b PROVE FALSE
  BY SMT
<1>1. a * a > b * b
  BY SMT
<1> QED BY <1>1, SMT

\* Cauchy and Schwarz, for two forces and the root of the regularization.
LEMMA NormsBoundProduct ==
  ASSUME NEW x \in Int, NEW y \in Int, NEW u \in Int, NEW v \in Int, NEW r \in Nat,
         NEW n \in Nat, NEW m \in Nat,
         n * n = x * x + y * y + r, m * m = u * u + v * v + r
  PROVE  x * u + y * v + r <= n * m
<1> DEFINE p == x * u + y * v + r
           q == x * v - y * u
           a == x - u
           b == y - v
<1>1. p \in Int /\ q \in Int /\ a \in Int /\ b \in Int /\ n * m \in Nat
  BY SMT
<1>2. (n * m) * (n * m) = (n * n) * (m * m)
  BY SMT
<1>3. (x * x + y * y + r) * (u * u + v * v + r) = p * p + q * q + r * (a * a + b * b)
  BY SMT
<1>4. q * q \in Nat /\ a * a \in Nat /\ b * b \in Nat
  BY <1>1, SquareIsNatural
<1>5. r * (a * a + b * b) \in Nat
  BY <1>4, SMT
<1>6. (n * m) * (n * m) = p * p + q * q + r * (a * a + b * b)
  BY <1>2, <1>3, Zenon
<1> HIDE DEF p, q, a, b
<1>7. p * p <= (n * m) * (n * m)
  <2> DEFINE s == r * (a * a + b * b)
             t == (n * m) * (n * m)
  <2>1. t = p * p + q * q + s /\ s \in Nat
    BY <1>5, <1>6
  <2> HIDE DEF s, t
  <2>2. p * p <= t
    BY <2>1, <1>1, <1>4, SMT
  <2> QED BY <2>2 DEF t
<1>8. p <= n * m
  BY <1>1, <1>7, RootMonotone
<1> QED BY <1>8 DEF p

\* The first derivative is a supergradient: no force is valued higher by the
\* constraint than by its linear approximation around another force, so a force
\* that satisfies the constraint satisfies every linearization of it.
THEOREM LinearizationBoundsCone ==
  ASSUME ConeAssumption, NEW F \in ContactForce, NEW G \in ContactForce, NEW n, NEW m,
         IsTangentNorm(n, F), IsTangentNorm(m, G)
  PROVE  n * ConeConstraint(G, m) <= n * ConeConstraint(F, n) + Along(DCone(F, n), F, G)
<1>1. /\ F.x \in Int /\ F.y \in Int /\ F.z \in Int
      /\ G.x \in Int /\ G.y \in Int /\ G.z \in Int
  BY DEF ContactForce
<1>2. /\ n \in Nat /\ m \in Nat /\ Mu \in Nat /\ Scale \in Nat /\ Regularization \in Nat
      /\ n * n = F.x * F.x + F.y * F.y + Regularization
      /\ m * m = G.x * G.x + G.y * G.y + Regularization
  BY DEF IsTangentNorm, TangentSquare, ConeAssumption
<1> DEFINE p == F.x * G.x + F.y * G.y + Regularization
<1>3. p <= n * m
  BY <1>1, <1>2, NormsBoundProduct
<1>4. Scale * p <= Scale * (n * m)
  BY <1>1, <1>2, <1>3, SMT
<1>5. n * ConeConstraint(G, m) = n * Mu * G.z - Scale * (n * m)
  BY <1>1, <1>2, SMT DEF ConeConstraint
<1>6. n * ConeConstraint(F, n) = n * Mu * F.z - Scale * (n * n)
  BY <1>1, <1>2, SMT DEF ConeConstraint
<1>7. Along(DCone(F, n), F, G)
        = Scale * (F.x * F.x + F.y * F.y - F.x * G.x - F.y * G.y) + n * Mu * G.z - n * Mu * F.z
  BY <1>1, <1>2, SMT DEF Along, DCone
<1>8. n * ConeConstraint(F, n) + Along(DCone(F, n), F, G) = n * Mu * G.z - Scale * p
  <2>1. Scale * (n * n) = Scale * (F.x * F.x + F.y * F.y + Regularization)
    BY <1>2, Zenon
  <2>2. n * Mu * F.z - Scale * (F.x * F.x + F.y * F.y + Regularization)
          + (Scale * (F.x * F.x + F.y * F.y - F.x * G.x - F.y * G.y) + n * Mu * G.z - n * Mu * F.z)
        = n * Mu * G.z - Scale * p
    BY <1>1, <1>2, SMT
  <2> QED BY <1>6, <1>7, <2>1, <2>2, Zenon
<1> HIDE DEF p
<1>9. n * Mu * G.z \in Int /\ Scale * p \in Int /\ Scale * (n * m) \in Int
  BY <1>1, <1>2, SMT DEF p
<1> QED BY <1>4, <1>5, <1>8, <1>9, SMT

\* The shifted second derivative is negative along every direction: the quadratic
\* approximation that the solver gets is strictly concave at every force.
THEOREM ConeIsConcave ==
  ASSUME ConeAssumption, NEW F \in ContactForce, NEW v \in ContactForce, NEW shift \in Nat \ {0},
         v.x # 0 \/ v.y # 0 \/ v.z # 0
  PROVE  Curvature(F, v, shift) < 0
<1> DEFINE q == F.y * v.x - F.x * v.y
           w == v.x * v.x + v.y * v.y + v.z * v.z
<1>1. /\ F.x \in Int /\ F.y \in Int /\ F.z \in Int
      /\ v.x \in Int /\ v.y \in Int /\ v.z \in Int
      /\ Regularization \in Nat /\ shift \in Nat
  BY DEF ContactForce, ConeAssumption
<1>2. Curvature(F, v, shift)
        = -(q * q + Regularization * (v.x * v.x + v.y * v.y) + shift * w)
  BY <1>1, SMT DEF Curvature, D2Cone
<1>3. /\ v.x * v.x \in Nat /\ v.y * v.y \in Nat /\ v.z * v.z \in Nat
      /\ q \in Int
  BY <1>1, SquareIsNatural, SMT
<1>4. q * q \in Nat
  BY <1>3, SquareIsNatural
<1>5. Regularization * (v.x * v.x + v.y * v.y) \in Nat
  BY <1>1, <1>3, SMT
<1>6. w \in Nat \ {0}
  <2>1. v.x # 0 => v.x * v.x # 0
    BY <1>1, SMT
  <2>2. v.y # 0 => v.y * v.y # 0
    BY <1>1, SMT
  <2>3. v.z # 0 => v.z * v.z # 0
    BY <1>1, SMT
  <2>4. \A a, b, c \in Nat : a # 0 \/ b # 0 \/ c # 0 => a + b + c \in Nat \ {0}
    BY SMT
  <2> QED BY <1>3, <2>1, <2>2, <2>3, <2>4, Zenon
<1> HIDE DEF q, w
<1>7. shift * w \in Nat \ {0}
  BY <1>6, SMT
<1> QED BY <1>2, <1>4, <1>5, <1>7, SMT

\* What the optimal control problem allows a standing foot, the whole body
\* controller with the same coefficient of friction allows it too: the cone lies
\* in the pyramid, and the planned forces can be tracked as far as they go.
THEOREM ConeInPyramid ==
  ASSUME ConeAssumption, NEW F \in ContactForce, NEW n, IsTangentNorm(n, F),
         ConeConstraint(F, n) >= 0
  PROVE  InPyramid(F)
<1>1. /\ F.x \in Int /\ F.y \in Int /\ F.z \in Int
      /\ n \in Nat /\ n # 0 /\ Mu \in Nat /\ Mu # 0 /\ Scale \in Nat /\ Scale # 0
      /\ Regularization \in Nat
      /\ n * n = F.x * F.x + F.y * F.y + Regularization
  BY DEF ContactForce, IsTangentNorm, TangentSquare, ConeAssumption
<1>2. F.x * F.x \in Nat /\ F.y * F.y \in Nat
  BY <1>1, SquareIsNatural
<1>3. F.x * F.x <= n * n /\ F.y * F.y <= n * n
  BY <1>1, <1>2, SMT
<1>4. F.x <= n /\ F.y <= n
  BY <1>1, <1>3, RootMonotone
<1>5. -F.x <= n /\ -F.y <= n
  <2>1. (-F.x) * (-F.x) <= n * n /\ (-F.y) * (-F.y) <= n * n
    BY <1>1, <1>3, SMT
  <2>2. -F.x \in Int /\ -F.y \in Int
    BY <1>1, SMT
  <2> QED BY <1>1, <2>1, <2>2, RootMonotone
<1>6. Scale * n <= Mu * F.z
  BY <1>1, SMT DEF ConeConstraint
<1>7. F.z >= 0
  <2> SUFFICES ASSUME F.z < 0 PROVE FALSE
    BY <1>1, SMT
  <2>1. Mu * F.z < 0
    BY <1>1, SMT
  <2>2. Scale * n >= 0
    BY <1>1, SMT
  <2> QED BY <1>1, <1>6, <2>1, <2>2, SMT
<1>8. /\ Scale * F.x <= Scale * n /\ Scale * F.y <= Scale * n
      /\ -Scale * F.x <= Scale * n /\ -Scale * F.y <= Scale * n
  BY <1>1, <1>4, <1>5, SMT
<1>9. /\ Scale * F.x \in Int /\ Scale * F.y \in Int /\ -Scale * F.x \in Int
      /\ -Scale * F.y \in Int /\ Scale * n \in Int /\ Mu * F.z \in Int
  BY <1>1, SMT
<1>10. \A a, b, c \in Int : a <= b /\ b <= c => a - c <= 0
  BY SMT
<1>11. -F.z <= 0
  BY <1>1, <1>7, SMT
<1> QED BY <1>6, <1>8, <1>9, <1>10, <1>11, Zenon DEF InPyramid
=============================================================================
