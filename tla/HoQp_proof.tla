----------------------------- MODULE HoQp_proof -----------------------------
(***************************************************************************)
(* Proofs about HoQp, for every hierarchy: priorities hold, the sizes fit, *)
(* and, when at most one level above the last is constrained, every kept   *)
(* inequality has its own slack.  HierarchicalWbc's hierarchies are such,  *)
(* for any feet; they treat every foot and pose what WeightedWbc poses.    *)
(* And what they solve for reaches the motors it was computed for.         *)
(***************************************************************************)
EXTENDS HierarchicalWbc, SequenceTheorems, FiniteSetTheorems, TLAPS

Row  == Nat \X Names
Tasks == [a : Seq(Names), d : Seq(Names)]

-----------------------------------------------------------------------------
(* The inductive invariant.                                                *)

StackTypeOK ==
  /\ stackedTasks \in [a : Seq(Row), d : Seq(Row)]
  /\ stackedSlack \in Seq(Row)

\* Whatever a level has to leave alone is out of reach of its null space.
NullSpaceProtects ==
  \A k \in 1..level : HasEqConstraints(tasks[k]) => k \in stackedZ

HoQpInv ==
  /\ HoQpTypeOK
  /\ StackTypeOK
  /\ NullSpaceProtects
  /\ HigherIsUndisturbed

\* The rows of a task at its level are rows, as many as the task has.
LEMMA AtLevelType ==
  ASSUME NEW task \in Tasks, NEW k \in Nat
  PROVE  /\ AtLevel(task, k) \in [a : Seq(Row), d : Seq(Row)]
         /\ Len(AtLevel(task, k).d) = Len(task.d)
         /\ \A i \in 1..Len(task.d) : AtLevel(task, k).d[i] = <<k, task.d[i]>>
<1>1. ASSUME NEW names \in Seq(Names)
      PROVE  /\ [i \in DOMAIN names |-> <<k, names[i]>>] \in Seq(Row)
             /\ Len([i \in DOMAIN names |-> <<k, names[i]>>]) = Len(names)
             /\ \A i \in 1..Len(names) : [j \in DOMAIN names |-> <<k, names[j]>>][i] = <<k, names[i]>>
  <2> DEFINE rows == [i \in 1..Len(names) |-> <<k, names[i]>>]
  <2>1. DOMAIN names = 1..Len(names) /\ Len(names) \in Nat /\ \A i \in 1..Len(names) : names[i] \in Names
    OBVIOUS
  <2>2. rows \in [1..Len(names) -> Row]
    BY <2>1 DEF Row
  <2>3. rows \in Seq(Row) /\ Len(rows) = Len(names)
    BY <2>1, <2>2
  <2> QED
    BY <2>1, <2>3
<1>2. task.a \in Seq(Names) /\ task.d \in Seq(Names)
  BY DEF Tasks
<1> QED
  BY <1>1, <1>2 DEF AtLevel

\* The task of a level is a task, and the level a natural number.
LEMMA TaskOfLevel ==
  ASSUME tasks \in Hierarchies, level \in 0..Len(tasks)
  PROVE  /\ Len(tasks) \in Nat /\ level \in Nat
         /\ \A k \in 1..Len(tasks) : tasks[k] \in Tasks
<1>1. tasks \in Seq(Tasks)
  BY HierarchyAssumption DEF Tasks
<1> QED
  BY <1>1

\* Before the first level there is nothing to disturb.
LEMMA HoQpInitInv == Init => HoQpInv
<1> SUFFICES ASSUME Init PROVE HoQpInv
  OBVIOUS
<1>1. Len(tasks) \in Nat
  BY HierarchyAssumption DEF Init
<1>2. <<>> \in Seq(Row) /\ Len(<<>>) = 0
  BY EmptySeq
<1>3. StackTypeOK
  BY <1>2 DEF Init, StackTypeOK, NoTask
<1>4. Len(stackedSlack) = Len(stackedTasks.d)
  BY DEF Init, NoTask
<1> QED
  BY <1>1, <1>3, <1>4 DEF Init, HoQpInv, HoQpTypeOK, NullSpaceProtects, HigherIsUndisturbed

\* Solving a level keeps the invariant: its null space is inside the one above.
LEMMA SolveLevelKeepsInv == HoQpInv /\ SolveLevel => HoQpInv'
<1> SUFFICES ASSUME HoQpInv, SolveLevel PROVE HoQpInv'
  OBVIOUS
<1> DEFINE k == level + 1
           here == AtLevel(tasks[k], k)
<1>1. /\ tasks' = tasks /\ level' = k
      /\ stackedTasks' = Plus(here, stackedTasks)
      /\ achieved' = (achieved \cap stackedZ) \cup {j \in {k} : HasEqConstraints(tasks[k])}
      /\ stackedZ' = BuildZ(stackedZ, tasks[k], k)
      /\ stackedSlack' = StackSlack(stackedSlack, here.d)
  BY DEF SolveLevel
<1>2. k \in 1..Len(tasks) /\ level \in Nat /\ tasks[k] \in Tasks
  BY TaskOfLevel DEF HoQpInv, HoQpTypeOK, SolveLevel
<1>3. here \in [a : Seq(Row), d : Seq(Row)]
  BY <1>2, AtLevelType
<1>4. stackedTasks \in [a : Seq(Row), d : Seq(Row)] /\ stackedSlack \in Seq(Row)
  BY DEF HoQpInv, StackTypeOK
<1> HIDE DEF here
<1>5. StackTypeOK' /\ Len(stackedSlack') = Len(stackedTasks'.d)
  <2>1. here.a \in Seq(Row) /\ here.d \in Seq(Row) /\ stackedTasks.a \in Seq(Row) /\ stackedTasks.d \in Seq(Row)
    BY <1>3, <1>4
  <2>2. stackedTasks' = [a |-> here.a \o stackedTasks.a, d |-> here.d \o stackedTasks.d]
    BY <1>1 DEF Plus
  <2>3. stackedSlack' = stackedSlack \o here.d
    BY <1>1 DEF StackSlack
  <2>4. /\ here.a \o stackedTasks.a \in Seq(Row)
        /\ here.d \o stackedTasks.d \in Seq(Row) /\ Len(here.d \o stackedTasks.d) = Len(here.d) + Len(stackedTasks.d)
        /\ stackedSlack \o here.d \in Seq(Row) /\ Len(stackedSlack \o here.d) = Len(stackedSlack) + Len(here.d)
    BY <2>1, <1>4, ConcatProperties
  <2>5. Len(stackedSlack) = Len(stackedTasks.d) /\ Len(here.d) \in Nat /\ Len(stackedSlack) \in Nat
    BY <2>1, <1>4, LenProperties DEF HoQpInv, HoQpTypeOK
  <2>6. Len(stackedSlack') = Len(stackedTasks'.d)
    <3>1. stackedTasks'.d = here.d \o stackedTasks.d
      BY <2>2
    <3>2. Len(stackedTasks'.d) = Len(here.d) + Len(stackedSlack)
      BY <3>1, <2>4, <2>5
    <3>3. Len(stackedSlack') = Len(stackedSlack) + Len(here.d)
      BY <2>3, <2>4
    <3>4. \A m, n \in Nat : m + n = n + m
      OBVIOUS
    <3>5. Len(here.d) + Len(stackedSlack) = Len(stackedSlack) + Len(here.d)
      BY <3>4, <2>5, Zenon
    <3> QED
      BY <3>2, <3>3, <3>5, Zenon
  <2>7. stackedTasks' \in [a : Seq(Row), d : Seq(Row)] /\ stackedSlack' \in Seq(Row)
    BY <2>2, <2>3, <2>4
  <2> QED
    BY <2>6, <2>7 DEF StackTypeOK
<1>6. HoQpTypeOK'
  <2>1. tasks' \in Hierarchies /\ level' \in 0..Len(tasks')
    BY <1>1, <1>2 DEF HoQpInv, HoQpTypeOK
  <2>2. stackedZ \subseteq 1..k /\ achieved \subseteq 1..k /\ k \in 1..k
    BY <1>2 DEF HoQpInv, HoQpTypeOK
  <2>3. stackedZ' \subseteq 1..k /\ achieved' \subseteq 1..k
    BY <1>1, <2>2 DEF BuildZ
  <2> QED
    BY <1>1, <1>5, <2>1, <2>3 DEF HoQpTypeOK
<1>7. NullSpaceProtects'
  BY <1>1, <1>2 DEF HoQpInv, NullSpaceProtects, BuildZ
<1>8. HigherIsUndisturbed'
  BY <1>1, <1>2 DEF HoQpInv, NullSpaceProtects, HigherIsUndisturbed
<1> QED
  BY <1>5, <1>6, <1>7, <1>8 DEF HoQpInv

\* A new cycle starts over.
LEMMA NextCycleKeepsInv == NextCycle => HoQpInv'
<1> SUFFICES ASSUME NextCycle PROVE HoQpInv'
  OBVIOUS
<1>1. Len(tasks') \in Nat
  BY HierarchyAssumption DEF NextCycle
<1>2. <<>> \in Seq(Row) /\ Len(<<>>) = 0
  BY EmptySeq
<1>3. StackTypeOK'
  BY <1>2 DEF NextCycle, StackTypeOK, NoTask
<1>4. Len(stackedSlack') = Len(stackedTasks'.d)
  BY DEF NextCycle, NoTask
<1> QED
  BY <1>1, <1>3, <1>4 DEF NextCycle, HoQpInv, HoQpTypeOK, NullSpaceProtects, HigherIsUndisturbed

\* The invariant of the stacks holds for every hierarchy.
THEOREM HoQpInductive == Spec => []HoQpInv
<1>1. HoQpInv /\ UNCHANGED vars => HoQpInv'
  BY DEF HoQpInv, HoQpTypeOK, StackTypeOK, NullSpaceProtects, HigherIsUndisturbed, vars
<1>2. HoQpInv /\ [Next]_vars => HoQpInv'
  BY <1>1, SolveLevelKeepsInv, NextCycleKeepsInv DEF Next
<1> QED
  BY <1>2, HoQpInitInv, PTL DEF Spec

\* The sizes of the stacks fit, and null spaces and achievements are of levels
\* already solved.
THEOREM HoQpTypeCorrect == Spec => []HoQpTypeOK
<1>1. HoQpInv => HoQpTypeOK
  BY DEF HoQpInv
<1> QED
  BY <1>1, HoQpInductive, PTL

\* A lower priority never gives up what a higher one achieved, in any
\* hierarchy.
THEOREM PrioritiesHold == Spec => []HigherIsUndisturbed
<1>1. HoQpInv => HigherIsUndisturbed
  BY DEF HoQpInv
<1> QED
  BY <1>1, HoQpInductive, PTL

-----------------------------------------------------------------------------
(* Slacks: the stacks agree while at most one level is constrained.        *)

Constrained(h, k) == Len(h[k].d) > 0

AtMostOneConstrained(h, n) ==
  \A i, j \in 1..n : Constrained(h, i) /\ Constrained(h, j) => i = j

\* At most one level above the last is constrained.
OneConstrained(h) == AtMostOneConstrained(h, Len(h) - 1)

RowsAreStacked ==
  \A k \in 1..level : \A i \in 1..Len(tasks[k].d) :
    \E n \in 1..Len(stackedTasks.d) : stackedTasks.d[n] = <<k, tasks[k].d[i]>>

NothingStacked ==
  (\A k \in 1..level : ~Constrained(tasks, k)) => stackedTasks.d = <<>>

StacksAgree == AtMostOneConstrained(tasks, level) => stackedSlack = stackedTasks.d

SlackInv ==
  /\ RowsAreStacked
  /\ NothingStacked
  /\ StacksAgree
  /\ RelaxedByOwnSlack

\* Without levels there are neither rows nor slacks.
LEMMA EmptyStacks ==
  level = 0 /\ stackedTasks = NoTask /\ stackedSlack = <<>> /\ relaxed = {} => SlackInv
<1> SUFFICES ASSUME level = 0, stackedTasks = NoTask, stackedSlack = <<>>, relaxed = {}
             PROVE  SlackInv
  OBVIOUS
<1>1. 1..level = {} /\ 1..(level - 1) = {}
  OBVIOUS
<1>2. stackedTasks.d = <<>>
  BY DEF NoTask
<1>3. RelaxedByOwnSlack
  BY <1>1 DEF RelaxedByOwnSlack
<1> QED
  BY <1>1, <1>2, <1>3 DEF SlackInv, RowsAreStacked, NothingStacked, StacksAgree

\* The same after a step.
LEMMA EmptyStacksNext ==
  level' = 0 /\ stackedTasks' = NoTask /\ stackedSlack' = <<>> /\ relaxed' = {} => SlackInv'
<1> SUFFICES ASSUME level' = 0, stackedTasks' = NoTask, stackedSlack' = <<>>, relaxed' = {}
             PROVE  SlackInv'
  OBVIOUS
<1>1. 1..(level') = {} /\ 1..(level' - 1) = {}
  OBVIOUS
<1>2. stackedTasks'.d = <<>>
  BY DEF NoTask
<1>3. RelaxedByOwnSlack'
  BY <1>1 DEF RelaxedByOwnSlack
<1> QED
  BY <1>1, <1>2, <1>3 DEF SlackInv, RowsAreStacked, NothingStacked, StacksAgree

\* What a level does to the two stacks of rows and slacks.
LEMMA StacksOfLevel ==
  ASSUME HoQpInv, SolveLevel
  PROVE  \E own \in Seq(Row) :
           /\ level + 1 \in 1..Len(tasks) /\ level \in Nat
           /\ tasks' = tasks /\ level' = level + 1
           /\ stackedTasks.d \in Seq(Row) /\ stackedSlack \in Seq(Row)
           /\ Len(stackedSlack) = Len(stackedTasks.d)
           /\ Len(own) = Len(tasks[level + 1].d) /\ Len(tasks[level + 1].d) \in Nat
           /\ \A i \in 1..Len(own) : own[i] = <<level + 1, tasks[level + 1].d[i]>>
           /\ stackedTasks'.d = own \o stackedTasks.d
           /\ stackedSlack' = stackedSlack \o own
           /\ relaxed' = KeptRows(stackedTasks, stackedSlack)
<1> DEFINE k == level + 1
           own == AtLevel(tasks[k], k).d
<1>1. k \in 1..Len(tasks) /\ level \in Nat /\ tasks[k] \in Tasks /\ k \in Nat
  BY TaskOfLevel DEF HoQpInv, HoQpTypeOK, SolveLevel
<1>2. /\ own \in Seq(Row) /\ Len(own) = Len(tasks[k].d)
      /\ \A i \in 1..Len(tasks[k].d) : own[i] = <<k, tasks[k].d[i]>>
  BY <1>1, AtLevelType
<1>3. Len(tasks[k].d) \in Nat
  BY <1>1 DEF Tasks
<1>4. stackedTasks.d \in Seq(Row) /\ stackedSlack \in Seq(Row) /\ Len(stackedSlack) = Len(stackedTasks.d)
  BY DEF HoQpInv, HoQpTypeOK, StackTypeOK
<1>5. /\ tasks' = tasks /\ level' = k
      /\ stackedTasks'.d = own \o stackedTasks.d
      /\ stackedSlack' = stackedSlack \o own
      /\ relaxed' = KeptRows(stackedTasks, stackedSlack)
  BY DEF SolveLevel, Plus, StackSlack
<1> QED
  BY <1>1, <1>2, <1>3, <1>4, <1>5

\* Solving a level of such a hierarchy keeps the stacks in agreement.
LEMMA SolveLevelKeepsSlack ==
  ASSUME HoQpInv, SlackInv, OneConstrained(tasks), SolveLevel
  PROVE  SlackInv'
<1> DEFINE k == level + 1
<1>1. PICK own \in Seq(Row) :
        /\ k \in 1..Len(tasks) /\ level \in Nat
        /\ tasks' = tasks /\ level' = k
        /\ stackedTasks.d \in Seq(Row) /\ stackedSlack \in Seq(Row)
        /\ Len(stackedSlack) = Len(stackedTasks.d)
        /\ Len(own) = Len(tasks[k].d) /\ Len(tasks[k].d) \in Nat
        /\ \A i \in 1..Len(own) : own[i] = <<k, tasks[k].d[i]>>
        /\ stackedTasks'.d = own \o stackedTasks.d
        /\ stackedSlack' = stackedSlack \o own
        /\ relaxed' = KeptRows(stackedTasks, stackedSlack)
  BY StacksOfLevel
<1>2. Len(tasks) \in Nat
  BY TaskOfLevel DEF HoQpInv, HoQpTypeOK
<1> DEFINE d == stackedTasks.d
<1>3. /\ own \o d \in Seq(Row) /\ Len(own \o d) = Len(own) + Len(d)
      /\ \A i \in 1..(Len(own) + Len(d)) :
           (own \o d)[i] = IF i <= Len(own) THEN own[i] ELSE d[i - Len(own)]
      /\ Len(own) \in Nat /\ Len(d) \in Nat
  <2>1. d \in Seq(Row)
    BY <1>1
  <2> HIDE DEF d
  <2>2. /\ own \o d \in Seq(Row) /\ Len(own \o d) = Len(own) + Len(d)
        /\ \A i \in 1..(Len(own) + Len(d)) :
             (own \o d)[i] = IF i <= Len(own) THEN own[i] ELSE d[i - Len(own)]
    BY <2>1, ConcatProperties, Zenon
  <2>3. Len(own) \in Nat /\ Len(d) \in Nat
    BY <2>1, LenProperties, Zenon
  <2> QED BY <2>2, <2>3, Zenon
<1>4. own \o <<>> = own /\ <<>> \o own = own /\ <<>> \o d = d /\ stackedSlack \o <<>> = stackedSlack
  BY <1>1, ConcatEmptySeq
<1>5. /\ Len(own) = 0 => own = <<>>
      /\ Len(stackedSlack) = 0 => stackedSlack = <<>>
      /\ Len(<<>>) = 0
  BY <1>1, EmptySeq
<1>6. 1..level \subseteq 1..(Len(tasks) - 1) /\ 1..level \subseteq 1..k /\ k \in 1..k /\ k \notin 1..level
  BY <1>1, <1>2
<1>7. 1..k = 1..level \cup {k}
  BY <1>1, SMTT(30)
<1>8. stackedSlack = d
  BY <1>6 DEF SlackInv, StacksAgree, OneConstrained, AtMostOneConstrained
<1>9. RowsAreStacked'
  <2> SUFFICES ASSUME NEW j \in 1..level', NEW i \in 1..Len(tasks'[j].d)
               PROVE  \E n \in 1..Len(stackedTasks'.d) : stackedTasks'.d[n] = <<j, tasks'[j].d[i]>>
    BY DEF RowsAreStacked
  <2>3. j \in 1..k /\ i \in 1..Len(tasks[j].d)
    BY <1>1
  <2> SUFFICES \E n \in 1..Len(own \o d) : (own \o d)[n] = <<j, tasks[j].d[i]>>
    BY <1>1
  <2>1. CASE j = k
    <3>1. i \in 1..(Len(own) + Len(d)) /\ i <= Len(own) /\ i \in 1..Len(own)
      <4>1. Len(tasks[j].d) = Len(own) /\ Len(own) \in Nat /\ Len(d) \in Nat
        BY <1>1, <1>3, <2>1
      <4>2. i \in 1..Len(own)
        BY <2>3, <4>1
      <4> QED
        BY <4>1, <4>2
    <3>2. (own \o d)[i] = <<j, tasks[j].d[i]>>
      BY <1>1, <1>3, <2>1, <3>1
    <3> QED
      BY <1>3, <3>1, <3>2
  <2>2. CASE j # k
    <3>1. j \in 1..level
      BY <1>7, <2>2, <2>3
    <3>2. PICK n \in 1..Len(d) : d[n] = <<j, tasks[j].d[i]>>
      BY <2>3, <3>1 DEF SlackInv, RowsAreStacked
    <3>3. /\ n + Len(own) \in 1..(Len(own) + Len(d)) /\ ~(n + Len(own) <= Len(own))
          /\ (n + Len(own)) - Len(own) = n
      BY <1>3
    <3>4. (own \o d)[n + Len(own)] = d[n]
      BY <1>3, <3>3
    <3> QED
      BY <1>3, <3>2, <3>3, <3>4
  <2> QED
    BY <2>1, <2>2
<1>10. NothingStacked'
  <2> SUFFICES ASSUME \A j \in 1..k : ~Constrained(tasks, j)
               PROVE  own \o d = <<>>
    BY <1>1 DEF NothingStacked, Constrained
  <2>1. Len(own) = 0
    BY <1>1, <1>6 DEF Constrained
  <2>2. d = <<>>
    BY <1>6 DEF SlackInv, NothingStacked
  <2> QED
    BY <1>4, <1>5, <2>1, <2>2
<1>11. StacksAgree'
  <2> SUFFICES ASSUME AtMostOneConstrained(tasks, k)
               PROVE  stackedSlack \o own = own \o d
    BY <1>1 DEF StacksAgree, AtMostOneConstrained, Constrained
  <2>1. CASE Len(own) = 0
    BY <1>4, <1>5, <1>8, <2>1
  <2>2. CASE Len(own) # 0
    <3>1. Constrained(tasks, k)
      BY <1>1, <2>2 DEF Constrained
    <3>2. \A j \in 1..level : ~Constrained(tasks, j)
      BY <1>6, <3>1 DEF AtMostOneConstrained
    <3>3. d = <<>>
      BY <3>2 DEF SlackInv, NothingStacked
    <3> QED
      BY <1>4, <1>8, <3>3
  <2> QED
    BY <2>1, <2>2
<1>12. RelaxedByOwnSlack'
  <2>1. DOMAIN d = 1..Len(d)
    BY <1>1
  <2>2. relaxed' = {<<d[i], d[i]>> : i \in 1..Len(d)}
    BY <1>1, <1>8, <2>1 DEF KeptRows
  <2>3. \A pair \in relaxed' : pair[1] = pair[2]
    BY <2>2
  <2>4. ASSUME NEW j \in 1..level
        PROVE  RowsOf(tasks[j].d, j) \subseteq {pair[1] : pair \in relaxed'}
    <3>1. SUFFICES ASSUME NEW i \in DOMAIN tasks[j].d
                   PROVE  <<j, tasks[j].d[i]>> \in {pair[1] : pair \in relaxed'}
      BY DEF RowsOf
    <3>2. i \in 1..Len(tasks[j].d)
      <4>1. tasks[j] \in Tasks
        BY <1>1, <1>2, <1>6, TaskOfLevel DEF HoQpInv, HoQpTypeOK
      <4> QED
        BY <4>1 DEF Tasks
    <3>3. PICK n \in 1..Len(d) : d[n] = <<j, tasks[j].d[i]>>
      BY <3>2 DEF SlackInv, RowsAreStacked
    <3>4. <<d[n], d[n]>> \in relaxed' /\ <<d[n], d[n]>>[1] = d[n]
      BY <2>2
    <3> QED
      BY <3>3, <3>4
  <2>5. level' - 1 = level
    BY <1>1
  <2> QED
    BY <1>1, <2>3, <2>4, <2>5 DEF RelaxedByOwnSlack
<1> QED
  BY <1>9, <1>10, <1>11, <1>12 DEF SlackInv

\* In every hierarchy with at most one constrained level above the last, a
\* level keeps all inequalities from above, each relaxed by its own slack.
THEOREM SlacksAreOwn ==
  (\A h \in Hierarchies : OneConstrained(h)) => (Spec => []RelaxedByOwnSlack)
<1> SUFFICES ASSUME \A h \in Hierarchies : OneConstrained(h)
             PROVE  Spec => []RelaxedByOwnSlack
  OBVIOUS
<1>1. Init => SlackInv
  BY EmptyStacks DEF Init
<1>2. HoQpInv /\ SlackInv /\ [Next]_vars => SlackInv'
  <2> SUFFICES ASSUME HoQpInv, SlackInv, [Next]_vars PROVE SlackInv'
    OBVIOUS
  <2>1. CASE SolveLevel
    BY <2>1, SolveLevelKeepsSlack DEF HoQpInv, HoQpTypeOK
  <2>2. CASE NextCycle
    <3>1. level' = 0 /\ stackedTasks' = NoTask /\ stackedSlack' = <<>> /\ relaxed' = {}
      BY <2>2 DEF NextCycle
    <3> QED
      BY <3>1, EmptyStacksNext
  <2>3. CASE UNCHANGED vars
    BY <2>3 DEF vars, SlackInv, RowsAreStacked, NothingStacked, StacksAgree, RelaxedByOwnSlack
  <2> QED
    BY <2>1, <2>2, <2>3 DEF Next
<1>3. SlackInv => RelaxedByOwnSlack
  BY DEF SlackInv
<1> QED
  BY <1>1, <1>2, <1>3, HoQpInductive, PTL DEF Spec

\* The controller's hierarchies are of that kind, whatever the contacts: only
\* its first priority has inequalities.
THEOREM WbcHierarchiesFit == \A contacts : OneConstrained(Priorities(contacts))
<1> SUFFICES ASSUME NEW contacts PROVE OneConstrained(Priorities(contacts))
  OBVIOUS
<1> DEFINE h == Priorities(contacts)
<1>1. Len(h) = 3
  BY DEF Priorities
<1>2. h[2].d = <<>>
  BY DEF Priorities, Plus, BaseAccelTask, SwingLegTask, Equalities
<1>3. ~Constrained(h, 2)
  BY <1>2 DEF Constrained
<1> HIDE DEF h
<1>4. 1..(Len(h) - 1) = {1, 2}
  BY <1>1
<1> QED
  BY <1>3, <1>4 DEF OneConstrained, AtMostOneConstrained, h

-----------------------------------------------------------------------------
(* The rows of the controller's tasks.                                     *)

\* The row counter of a loop over the feet numbers the chosen feet, each with
\* a number of its own and without gaps.
LEMMA RowOfIsBijective ==
  ASSUME NEW n \in Nat, NEW S \in SUBSET (1..n)
  PROVE  /\ Cardinality(S) \in Nat
         /\ \A i \in S : RowOf(i, S) \in 1..Cardinality(S)
         /\ \A i \in S, j \in S : RowOf(i, S) = RowOf(j, S) => i = j
         /\ \A k \in 1..Cardinality(S) : \E i \in S : RowOf(i, S) = k
<1> DEFINE UpTo(i) == {j \in S : j <= i}
           N       == Cardinality(S)
           rank    == [i \in S |-> RowOf(i, S)]
<1>1. IsFiniteSet(S) /\ N \in Nat
  <2>1. IsFiniteSet(1..n)
    BY FS_Interval
  <2>2. IsFiniteSet(S)
    BY <2>1, FS_Subset
  <2> QED BY <2>2, FS_CardinalityType
<1>2. \A i : IsFiniteSet(UpTo(i)) /\ Cardinality(UpTo(i)) \in Nat /\ Cardinality(UpTo(i)) <= N
  <2> TAKE i
  <2>1. UpTo(i) \in SUBSET S
    OBVIOUS
  <2> HIDE DEF UpTo
  <2> QED BY <1>1, <2>1, FS_Subset, FS_CardinalityType
<1>3. ASSUME NEW i \in S, NEW j \in S, i < j
      PROVE  Cardinality(UpTo(i)) # Cardinality(UpTo(j))
  <2>1. i \in Nat /\ j \in Nat /\ \A m \in S : m \in Nat
    OBVIOUS
  <2>2. j \in UpTo(j) /\ j \notin UpTo(i) /\ \A m \in S : m <= i => m <= j
    BY <1>3, <2>1
  <2>3. UpTo(i) \in SUBSET UpTo(j)
    BY <2>2
  <2> HIDE DEF UpTo
  <2> QED BY <1>2, <2>2, <2>3, FS_Subset
<1>4. ASSUME NEW i \in S PROVE RowOf(i, S) \in 1..N
  <2>1. UpTo(i) # {} /\ RowOf(i, S) = Cardinality(UpTo(i))
    BY DEF RowOf
  <2> HIDE DEF UpTo, N
  <2>2. Cardinality(UpTo(i)) # 0
    BY <1>2, <2>1, FS_EmptySet
  <2> QED BY <1>1, <1>2, <2>1, <2>2
<1>5. ASSUME NEW i \in S, NEW j \in S, RowOf(i, S) = RowOf(j, S) PROVE i = j
  <2>1. i \in Nat /\ j \in Nat /\ (i < j \/ j < i \/ i = j)
    OBVIOUS
  <2> QED BY <1>3, <1>5, <2>1 DEF RowOf
<1>6. rank \in Injection(S, 1..N)
  <2>1. rank \in [S -> 1..N]
    BY <1>4
  <2>2. \A i \in S, j \in S : rank[i] = rank[j] => i = j
    BY <1>5
  <2> HIDE DEF rank
  <2> QED BY <2>1, <2>2 DEF Injection, IsInjective
<1>7. rank \in Surjection(S, 1..N)
  <2>1. IsFiniteSet(1..N) /\ Cardinality(1..N) = N
    BY <1>1, FS_Interval
  <2> HIDE DEF rank
  <2> QED BY <1>6, <2>1, FS_Injection
<1>8. \A k \in 1..N : \E i \in S : RowOf(i, S) = k
  BY <1>7 DEF Surjection
<1> QED BY <1>1, <1>4, <1>5, <1>8

\* The names of blocks of rows, with a foot or without.
FootNames == {"motion", "noForce", "cone", "blank", "swing", "force"}

BlockNames ==
  {<<"eom">>, <<"torque">>, <<"baseAccel">>}
    \cup {<<name, f>> : name \in FootNames, f \in ToSet(Feet)}

\* A constraint on some feet has a block for each of them and no other.
LEMMA BlocksAre ==
  ASSUME NEW name \in FootNames, NEW feet
  PROVE  /\ Blocks(name, feet) \in Seq(BlockNames)
         /\ Posed(Blocks(name, feet)) = {<<name, f>> : f \in ToSet(Feet) \cap feet}
<1> DEFINE n      == Len(Feet)
           chosen == {i \in DOMAIN Feet : Feet[i] \in feet}
           N      == Cardinality(chosen)
           Nth(k) == CHOOSE i \in chosen : RowOf(i, chosen) = k
<1>1. n \in Nat /\ DOMAIN Feet = 1..n
  BY FeetAssumption
<1>2. chosen \in SUBSET (1..n)
  BY <1>1
<1>3. /\ N \in Nat
      /\ \A i \in chosen : RowOf(i, chosen) \in 1..N
      /\ \A i \in chosen, j \in chosen : RowOf(i, chosen) = RowOf(j, chosen) => i = j
      /\ \A k \in 1..N : \E i \in chosen : RowOf(i, chosen) = k
  <2> HIDE DEF chosen, n
  <2> QED BY <1>1, <1>2, RowOfIsBijective
<1>4. Blocks(name, feet) = [k \in 1..N |-> <<name, Feet[Nth(k)]>>]
  BY DEF Blocks
<1>5. \A i \in chosen : i \in DOMAIN Feet /\ Feet[i] \in ToSet(Feet) \cap feet
  BY DEF ToSet
<1>6. \A f \in ToSet(Feet) \cap feet : \E i \in chosen : f = Feet[i]
  BY DEF ToSet
<1> HIDE DEF chosen, N
<1>7. \A k \in 1..N : Nth(k) \in chosen
  BY <1>3
<1>8. \A i \in chosen : Nth(RowOf(i, chosen)) = i
  BY <1>3
<1> HIDE DEF Nth
<1>9. \A k \in 1..N : <<name, Feet[Nth(k)]>> \in BlockNames
  BY <1>5, <1>7 DEF BlockNames, FootNames
<1>10. Blocks(name, feet) \in Seq(BlockNames)
  BY <1>3, <1>4, <1>9
<1>11. Posed(Blocks(name, feet)) = {<<name, Feet[Nth(k)]>> : k \in 1..N}
  BY <1>4 DEF Posed
<1>12. {<<name, Feet[Nth(k)]>> : k \in 1..N} = {<<name, f>> : f \in ToSet(Feet) \cap feet}
  BY <1>3, <1>5, <1>6, <1>7, <1>8
<1> QED BY <1>10, <1>11, <1>12

\* Stacking two sequences poses what either poses.
LEMMA PosedConcat ==
  ASSUME NEW S, NEW s \in Seq(S), NEW t \in Seq(S)
  PROVE  s \o t \in Seq(S) /\ Posed(s \o t) = Posed(s) \cup Posed(t)
<1>1. /\ s \o t \in Seq(S) /\ Len(s \o t) = Len(s) + Len(t)
      /\ Len(s) \in Nat /\ Len(t) \in Nat
      /\ \A i \in 1..(Len(s) + Len(t)) :
           (s \o t)[i] = IF i <= Len(s) THEN s[i] ELSE t[i - Len(s)]
  BY ConcatProperties, LenProperties
<1>2. DOMAIN s = 1..Len(s) /\ DOMAIN t = 1..Len(t) /\ DOMAIN (s \o t) = 1..(Len(s) + Len(t))
  BY <1>1
<1> DEFINE u == s \o t
<1> HIDE DEF u
<1>3. Posed(u) \subseteq Posed(s) \cup Posed(t)
  <2> SUFFICES ASSUME NEW i \in 1..(Len(s) + Len(t)) PROVE u[i] \in Posed(s) \cup Posed(t)
    BY <1>2 DEF Posed, u
  <2>1. CASE i <= Len(s)
    <3>1. i \in 1..Len(s) /\ u[i] = s[i]
      BY <1>1, <2>1 DEF u
    <3> QED BY <1>2, <3>1 DEF Posed
  <2>2. CASE ~(i <= Len(s))
    <3>1. i - Len(s) \in 1..Len(t) /\ u[i] = t[i - Len(s)]
      BY <1>1, <2>2 DEF u
    <3> QED BY <1>2, <3>1 DEF Posed
  <2> QED BY <2>1, <2>2
<1>4. Posed(s) \subseteq Posed(u)
  <2> SUFFICES ASSUME NEW i \in 1..Len(s) PROVE s[i] \in Posed(u)
    BY <1>2 DEF Posed
  <2>1. i \in 1..(Len(s) + Len(t)) /\ i <= Len(s)
    BY <1>1
  <2>2. u[i] = s[i]
    BY <1>1, <2>1 DEF u
  <2>3. i \in DOMAIN u
    BY <1>2, <2>1 DEF u
  <2> QED BY <2>2, <2>3 DEF Posed
<1>5. Posed(t) \subseteq Posed(u)
  <2> SUFFICES ASSUME NEW i \in 1..Len(t) PROVE t[i] \in Posed(u)
    BY <1>2 DEF Posed
  <2>1. /\ i + Len(s) \in 1..(Len(s) + Len(t)) /\ ~(i + Len(s) <= Len(s))
        /\ (i + Len(s)) - Len(s) = i
    BY <1>1
  <2>2. u[i + Len(s)] = t[i]
    BY <1>1, <2>1 DEF u
  <2>3. i + Len(s) \in DOMAIN u
    BY <1>2, <2>1 DEF u
  <2> QED BY <2>2, <2>3 DEF Posed
<1> QED BY <1>1, <1>3, <1>4, <1>5 DEF u

\* Nothing is posed by no rows, and one thing by one row.
LEMMA PosedFew ==
  /\ <<>> \in Seq(BlockNames) /\ Posed(<<>>) = {}
  /\ \A b \in BlockNames : <<b>> \in Seq(BlockNames) /\ Posed(<<b>>) = {b}
<1>1. <<>> \in Seq(BlockNames) /\ Posed(<<>>) = {}
  BY EmptySeq DEF Posed
<1>2. ASSUME NEW b \in BlockNames PROVE <<b>> \in Seq(BlockNames) /\ Posed(<<b>>) = {b}
  <2>1. DOMAIN <<b>> = {1} /\ <<b>>[1] = b
    BY SMT
  <2> QED BY <2>1 DEF Posed
<1> QED BY <1>1, <1>2

BlockTasks == [a : Seq(BlockNames), d : Seq(BlockNames)]
Each(name, feet) == {<<name, f>> : f \in feet}

Poses(task, equalities, inequalities) ==
  task \in BlockTasks /\ Posed(task.a) = equalities /\ Posed(task.d) = inequalities

\* The sum of two tasks poses what either poses.
LEMMA PlusPoses ==
  ASSUME NEW t, NEW A, NEW D, Poses(t, A, D), NEW rhs, NEW B, NEW E, Poses(rhs, B, E)
  PROVE  Poses(Plus(t, rhs), A \cup B, D \cup E)
<1>1. /\ t.a \in Seq(BlockNames) /\ t.d \in Seq(BlockNames)
      /\ rhs.a \in Seq(BlockNames) /\ rhs.d \in Seq(BlockNames)
  BY DEF BlockTasks, Poses
<1>2. /\ t.a \o rhs.a \in Seq(BlockNames) /\ Posed(t.a \o rhs.a) = Posed(t.a) \cup Posed(rhs.a)
      /\ t.d \o rhs.d \in Seq(BlockNames) /\ Posed(t.d \o rhs.d) = Posed(t.d) \cup Posed(rhs.d)
  BY <1>1, PosedConcat
<1>3. Plus(t, rhs) = [a |-> t.a \o rhs.a, d |-> t.d \o rhs.d]
  BY DEF Plus
<1> QED BY <1>2, <1>3 DEF BlockTasks, Poses

\* What each of the controller's tasks poses.
LEMMA TasksPose ==
  ASSUME NEW contacts \in SUBSET ToSet(Feet)
  PROVE  LET swings == ToSet(Feet) \ contacts
         IN  /\ Poses(FloatingBaseEomTask, {<<"eom">>}, {})
             /\ Poses(TorqueLimitsTask, {}, {<<"torque">>})
             /\ Poses(FrictionConeTask(contacts), Each("noForce", swings),
                      Each("cone", contacts) \cup Each("blank", swings))
             /\ Poses(NoContactMotionTask(contacts), Each("motion", contacts), {})
             /\ Poses(BaseAccelTask, {<<"baseAccel">>}, {})
             /\ Poses(SwingLegTask(contacts), Each("swing", swings), {})
             /\ Poses(ContactForceTask, Each("force", ToSet(Feet)), {})
<1> DEFINE swings == ToSet(Feet) \ contacts
<1>1. InSwing(contacts) = swings /\ InContact(contacts) = contacts
  BY DEF InSwing, InContact, ToSet
<1>2. ASSUME NEW name \in FootNames, NEW feet \in SUBSET ToSet(Feet)
      PROVE  Blocks(name, feet) \in Seq(BlockNames) /\ Posed(Blocks(name, feet)) = Each(name, feet)
  <2>1. ToSet(Feet) \cap feet = feet
    OBVIOUS
  <2> QED BY <2>1, BlocksAre DEF Each
<1>3. swings \in SUBSET ToSet(Feet) /\ ToSet(Feet) \in SUBSET ToSet(Feet)
  OBVIOUS
<1> HIDE DEF swings
<1>4. {<<"eom">>, <<"torque">>, <<"baseAccel">>} \subseteq BlockNames
  BY DEF BlockNames
<1>5. /\ FloatingBaseEomTask \in BlockTasks
      /\ Posed(FloatingBaseEomTask.a) = {<<"eom">>} /\ Posed(FloatingBaseEomTask.d) = {}
  BY <1>4, PosedFew DEF FloatingBaseEomTask, Equalities, BlockTasks
<1>6. /\ TorqueLimitsTask \in BlockTasks
      /\ Posed(TorqueLimitsTask.a) = {} /\ Posed(TorqueLimitsTask.d) = {<<"torque">>}
  BY <1>4, PosedFew DEF TorqueLimitsTask, Inequalities, BlockTasks
<1>7. /\ BaseAccelTask \in BlockTasks
      /\ Posed(BaseAccelTask.a) = {<<"baseAccel">>} /\ Posed(BaseAccelTask.d) = {}
  BY <1>4, PosedFew DEF BaseAccelTask, Equalities, BlockTasks
<1>8. /\ NoContactMotionTask(contacts) \in BlockTasks
      /\ Posed(NoContactMotionTask(contacts).a) = Each("motion", contacts)
      /\ Posed(NoContactMotionTask(contacts).d) = {}
  BY <1>1, <1>2, PosedFew DEF NoContactMotionTask, Equalities, BlockTasks, FootNames
<1>9. /\ SwingLegTask(contacts) \in BlockTasks
      /\ Posed(SwingLegTask(contacts).a) = Each("swing", swings)
      /\ Posed(SwingLegTask(contacts).d) = {}
  BY <1>1, <1>2, <1>3, PosedFew DEF SwingLegTask, Equalities, BlockTasks, FootNames
<1>10. /\ ContactForceTask \in BlockTasks
       /\ Posed(ContactForceTask.a) = Each("force", ToSet(Feet))
       /\ Posed(ContactForceTask.d) = {}
  BY <1>2, <1>3, PosedFew DEF ContactForceTask, Equalities, BlockTasks, FootNames
<1>11. /\ FrictionConeTask(contacts) \in BlockTasks
       /\ Posed(FrictionConeTask(contacts).a) = Each("noForce", swings)
       /\ Posed(FrictionConeTask(contacts).d) = Each("cone", contacts) \cup Each("blank", swings)
  <2> DEFINE none == Blocks("noForce", swings)
             cone == Blocks("cone", contacts)
             rest == Blocks("blank", swings)
  <2>1. /\ none \in Seq(BlockNames) /\ Posed(none) = Each("noForce", swings)
        /\ cone \in Seq(BlockNames) /\ Posed(cone) = Each("cone", contacts)
        /\ rest \in Seq(BlockNames) /\ Posed(rest) = Each("blank", swings)
    BY <1>2, <1>3 DEF FootNames
  <2>2. cone \o rest \in Seq(BlockNames) /\ Posed(cone \o rest) = Posed(cone) \cup Posed(rest)
    BY <2>1, PosedConcat
  <2>3. FrictionConeTask(contacts) = [a |-> none, d |-> cone \o rest]
    BY <1>1 DEF FrictionConeTask
  <2> HIDE DEF none, cone, rest
  <2> QED BY <2>1, <2>2, <2>3 DEF BlockTasks
<1> QED BY <1>5, <1>6, <1>7, <1>8, <1>9, <1>10, <1>11 DEF swings, Poses

\* The rows of the three priorities, and of the weighted problem.
LEMMA PrioritiesPose ==
  ASSUME NEW contacts \in SUBSET ToSet(Feet)
  PROVE  LET swings == ToSet(Feet) \ contacts
             first  == {<<"eom">>} \cup Each("noForce", swings) \cup Each("motion", contacts)
             second == {<<"baseAccel">>} \cup Each("swing", swings)
             third  == Each("force", ToSet(Feet))
             kept   == {<<"torque">>} \cup Each("cone", contacts) \cup Each("blank", swings)
             h      == Priorities(contacts)
         IN  /\ Len(h) = 3
             /\ Poses(h[1], first, kept) /\ Poses(h[2], second, {}) /\ Poses(h[3], third, {})
             /\ Poses(Plus(Constraints(contacts), WeightedTasks(contacts)),
                      first \cup second \cup third, kept)
<1> DEFINE swings == ToSet(Feet) \ contacts
           first  == {<<"eom">>} \cup Each("noForce", swings) \cup Each("motion", contacts)
           second == {<<"baseAccel">>} \cup Each("swing", swings)
           third  == Each("force", ToSet(Feet))
           cones  == Each("cone", contacts) \cup Each("blank", swings)
           kept   == {<<"torque">>} \cup Each("cone", contacts) \cup Each("blank", swings)
<1>1. /\ Poses(FloatingBaseEomTask, {<<"eom">>}, {})
      /\ Poses(TorqueLimitsTask, {}, {<<"torque">>})
      /\ Poses(FrictionConeTask(contacts), Each("noForce", swings), cones)
      /\ Poses(NoContactMotionTask(contacts), Each("motion", contacts), {})
      /\ Poses(BaseAccelTask, {<<"baseAccel">>}, {})
      /\ Poses(SwingLegTask(contacts), Each("swing", swings), {})
      /\ Poses(ContactForceTask, third, {})
  BY TasksPose
<1>2. Poses(Constraints(contacts), first, kept)
  <2>1. Poses(Plus(FloatingBaseEomTask, TorqueLimitsTask), {<<"eom">>} \cup {}, {} \cup {<<"torque">>})
    BY <1>1, PlusPoses
  <2>2. Poses(Plus(Plus(FloatingBaseEomTask, TorqueLimitsTask), FrictionConeTask(contacts)),
              ({<<"eom">>} \cup {}) \cup Each("noForce", swings), ({} \cup {<<"torque">>}) \cup cones)
    BY <1>1, <2>1, PlusPoses
  <2>3. Poses(Constraints(contacts),
              (({<<"eom">>} \cup {}) \cup Each("noForce", swings)) \cup Each("motion", contacts),
              (({} \cup {<<"torque">>}) \cup cones) \cup {})
    BY <1>1, <2>2, PlusPoses DEF Constraints
  <2>4. /\ (({<<"eom">>} \cup {}) \cup Each("noForce", swings)) \cup Each("motion", contacts) = first
        /\ (({} \cup {<<"torque">>}) \cup cones) \cup {} = kept
    OBVIOUS
  <2> HIDE DEF first, kept, cones
  <2> QED BY <2>3, <2>4
<1>3. Poses(Plus(BaseAccelTask, SwingLegTask(contacts)), second, {})
  <2>1. Poses(Plus(BaseAccelTask, SwingLegTask(contacts)), second, {} \cup {})
    BY <1>1, PlusPoses
  <2>2. {} \cup {} = {}
    OBVIOUS
  <2> QED BY <2>1, <2>2
<1>4. Poses(WeightedTasks(contacts), second \cup third, {})
  <2>1. Poses(Plus(SwingLegTask(contacts), BaseAccelTask), Each("swing", swings) \cup {<<"baseAccel">>}, {} \cup {})
    BY <1>1, PlusPoses
  <2>2. Poses(WeightedTasks(contacts),
              (Each("swing", swings) \cup {<<"baseAccel">>}) \cup third, ({} \cup {}) \cup {})
    BY <1>1, <2>1, PlusPoses DEF WeightedTasks
  <2>3. /\ (Each("swing", swings) \cup {<<"baseAccel">>}) \cup third = second \cup third
        /\ ({} \cup {}) \cup {} = {}
    OBVIOUS
  <2> HIDE DEF second, third
  <2> QED BY <2>2, <2>3
<1>5. Poses(Plus(Constraints(contacts), WeightedTasks(contacts)), first \cup second \cup third, kept)
  <2> HIDE DEF first, second, third, kept
  <2>1. Poses(Plus(Constraints(contacts), WeightedTasks(contacts)), first \cup (second \cup third), kept \cup {})
    BY <1>2, <1>4, PlusPoses
  <2>2. first \cup (second \cup third) = first \cup second \cup third /\ kept \cup {} = kept
    OBVIOUS
  <2> QED BY <2>1, <2>2
<1>6. /\ Len(Priorities(contacts)) = 3
      /\ Priorities(contacts)[1] = Constraints(contacts)
      /\ Priorities(contacts)[2] = Plus(BaseAccelTask, SwingLegTask(contacts))
      /\ Priorities(contacts)[3] = ContactForceTask
  BY DEF Priorities
<1> HIDE DEF first, second, third, kept, swings
<1>7. Poses(Priorities(contacts)[3], third, {})
  BY <1>1, <1>6
<1> QED BY <1>2, <1>3, <1>5, <1>6, <1>7 DEF first, second, third, kept, swings

-----------------------------------------------------------------------------
(* What a solved hierarchy answers.                                        *)

\* The stacks hold the rows of the levels so far, and no other.
EveryRowIsStacked ==
  /\ Posed(stackedTasks.a) = UNION {RowsOf(tasks[k].a, k) : k \in 1..level}
  /\ Posed(stackedTasks.d) = UNION {RowsOf(tasks[k].d, k) : k \in 1..level}

\* A level stacks its own rows on those of the levels above.
LEMMA SolveLevelStacksRows ==
  ASSUME HoQpInv, EveryRowIsStacked, SolveLevel
  PROVE  EveryRowIsStacked'
<1> DEFINE k == level + 1
           here == AtLevel(tasks[k], k)
<1>1. k \in 1..Len(tasks) /\ level \in Nat /\ tasks[k] \in Tasks /\ k \in Nat
  BY TaskOfLevel DEF HoQpInv, HoQpTypeOK, SolveLevel
<1>2. here.a \in Seq(Row) /\ here.d \in Seq(Row)
  BY <1>1, AtLevelType
<1>3. stackedTasks.a \in Seq(Row) /\ stackedTasks.d \in Seq(Row)
  BY DEF HoQpInv, StackTypeOK
<1>4. /\ tasks' = tasks /\ level' = k
      /\ stackedTasks'.a = here.a \o stackedTasks.a /\ stackedTasks'.d = here.d \o stackedTasks.d
  BY DEF SolveLevel, Plus
<1>5. Posed(here.a) = RowsOf(tasks[k].a, k) /\ Posed(here.d) = RowsOf(tasks[k].d, k)
  BY DEF Posed, AtLevel, RowsOf
<1>6. 1..k = 1..level \cup {k}
  BY <1>1
<1> HIDE DEF here, k
<1>7. /\ Posed(stackedTasks'.a) = RowsOf(tasks[k].a, k) \cup Posed(stackedTasks.a)
      /\ Posed(stackedTasks'.d) = RowsOf(tasks[k].d, k) \cup Posed(stackedTasks.d)
  BY <1>2, <1>3, <1>4, <1>5, PosedConcat
<1>8. /\ UNION {RowsOf(tasks[j].a, j) : j \in 1..k} =
           RowsOf(tasks[k].a, k) \cup UNION {RowsOf(tasks[j].a, j) : j \in 1..level}
      /\ UNION {RowsOf(tasks[j].d, j) : j \in 1..k} =
           RowsOf(tasks[k].d, k) \cup UNION {RowsOf(tasks[j].d, j) : j \in 1..level}
  BY <1>6
<1>9. /\ UNION {RowsOf(tasks'[j].a, j) : j \in 1..level'} = UNION {RowsOf(tasks[j].a, j) : j \in 1..k}
      /\ UNION {RowsOf(tasks'[j].d, j) : j \in 1..level'} = UNION {RowsOf(tasks[j].d, j) : j \in 1..k}
  BY <1>4
<1>10. /\ Posed(stackedTasks'.a) = UNION {RowsOf(tasks'[j].a, j) : j \in 1..level'}
       /\ Posed(stackedTasks'.d) = UNION {RowsOf(tasks'[j].d, j) : j \in 1..level'}
  BY <1>7, <1>8, <1>9 DEF EveryRowIsStacked
<1> QED BY <1>10 DEF EveryRowIsStacked

\* Nothing is stacked before the first level.
LEMMA NothingIsStacked ==
  /\ level = 0 /\ stackedTasks = NoTask => EveryRowIsStacked
  /\ level' = 0 /\ stackedTasks' = NoTask => EveryRowIsStacked'
<1>1. Posed(<<>>) = {} /\ 1..0 = {} /\ NoTask.a = <<>> /\ NoTask.d = <<>>
  BY DEF Posed, NoTask
<1> QED BY <1>1 DEF EveryRowIsStacked, Posed

\* The stacks hold the rows of the levels solved so far, and no other.
THEOREM RowsAccumulate == Spec => []EveryRowIsStacked
<1>1. Init => EveryRowIsStacked
  BY NothingIsStacked DEF Init
<1>2. HoQpInv /\ EveryRowIsStacked /\ [Next]_vars => EveryRowIsStacked'
  <2> SUFFICES ASSUME HoQpInv, EveryRowIsStacked, [Next]_vars PROVE EveryRowIsStacked'
    OBVIOUS
  <2>1. CASE SolveLevel
    BY <2>1, SolveLevelStacksRows
  <2>2. CASE NextCycle
    BY <2>2, NothingIsStacked DEF NextCycle
  <2>3. CASE UNCHANGED vars
    <3>1. tasks' = tasks /\ level' = level /\ stackedTasks' = stackedTasks
      BY <2>3 DEF vars
    <3>2. /\ Posed(stackedTasks'.a) = UNION {RowsOf(tasks'[k].a, k) : k \in 1..level'}
          /\ Posed(stackedTasks'.d) = UNION {RowsOf(tasks'[k].d, k) : k \in 1..level'}
      BY <3>1 DEF EveryRowIsStacked
    <3> QED BY <3>2 DEF EveryRowIsStacked
  <2> QED BY <2>1, <2>2, <2>3 DEF Next
<1> QED BY <1>1, <1>2, HoQpInductive, PTL DEF Spec

\* What a solved hierarchy of the controller poses: for some contacts, the rows
\* of its three priorities.
LEMMA WbcPoses ==
  ASSUME HoQpInv, EveryRowIsStacked, tasks \in WbcHierarchies, level = Len(tasks)
  PROVE  \E contacts \in SUBSET ToSet(Feet) :
           /\ tasks = Priorities(contacts)
           /\ PosedEqualities = Posed(tasks[1].a) \cup Posed(tasks[2].a) \cup Posed(tasks[3].a)
           /\ PosedInequalities = Posed(tasks[1].d) \cup Posed(tasks[2].d) \cup Posed(tasks[3].d)
<1>1. PICK contacts \in SUBSET ToSet(Feet) : tasks = Priorities(contacts)
  BY DEF WbcHierarchies
<1>2. level = 3 /\ 1..level = {1, 2, 3}
  BY <1>1 DEF Priorities
<1>3. \A names, k : {row[2] : row \in RowsOf(names, k)} = Posed(names)
  <2> TAKE names, k
  <2>1. \A i \in DOMAIN names : <<k, names[i]>> \in RowsOf(names, k) /\ <<k, names[i]>>[2] = names[i]
    BY DEF RowsOf
  <2>2. \A row \in RowsOf(names, k) : \E i \in DOMAIN names : row[2] = names[i]
    BY DEF RowsOf
  <2>3. \A i \in DOMAIN names : names[i] \in {row[2] : row \in RowsOf(names, k)}
    <3> TAKE i \in DOMAIN names
    <3> DEFINE pair == <<k, names[i]>>
    <3>1. pair \in RowsOf(names, k) /\ pair[2] = names[i]
      BY <2>1
    <3> HIDE DEF pair
    <3> QED BY <3>1
  <2>4. Posed(names) \subseteq {row[2] : row \in RowsOf(names, k)}
    BY <2>3 DEF Posed
  <2>5. {row[2] : row \in RowsOf(names, k)} \subseteq Posed(names)
    BY <2>2 DEF Posed
  <2> QED BY <2>4, <2>5
<1>4. PosedEqualities = Posed(tasks[1].a) \cup Posed(tasks[2].a) \cup Posed(tasks[3].a)
  <2>1. Posed(stackedTasks.a) =
          RowsOf(tasks[1].a, 1) \cup RowsOf(tasks[2].a, 2) \cup RowsOf(tasks[3].a, 3)
    BY <1>2 DEF EveryRowIsStacked
  <2>2. PosedEqualities = {row[2] : row \in RowsOf(tasks[1].a, 1)}
           \cup {row[2] : row \in RowsOf(tasks[2].a, 2)} \cup {row[2] : row \in RowsOf(tasks[3].a, 3)}
    BY <2>1 DEF PosedEqualities
  <2> QED BY <1>3, <2>2
<1>5. PosedInequalities = Posed(tasks[1].d) \cup Posed(tasks[2].d) \cup Posed(tasks[3].d)
  <2>1. Posed(stackedTasks.d) =
          RowsOf(tasks[1].d, 1) \cup RowsOf(tasks[2].d, 2) \cup RowsOf(tasks[3].d, 3)
    BY <1>2 DEF EveryRowIsStacked
  <2>2. PosedInequalities = {row[2] : row \in RowsOf(tasks[1].d, 1)}
           \cup {row[2] : row \in RowsOf(tasks[2].d, 2)} \cup {row[2] : row \in RowsOf(tasks[3].d, 3)}
    BY <2>1 DEF PosedInequalities
  <2> QED BY <1>3, <2>2
<1> QED BY <1>1, <1>4, <1>5

\* The hierarchical and the weighted controller ask for the same rows, for any
\* feet and contacts.
THEOREM SameProblemAsWeighted == Spec => []SameRowsAsWeighted
<1>1. HoQpInv /\ EveryRowIsStacked => SameRowsAsWeighted
  <2> SUFFICES ASSUME HoQpInv, EveryRowIsStacked, tasks \in WbcHierarchies, level = Len(tasks)
               PROVE  \E contacts \in SUBSET ToSet(Feet) :
                        LET weighted == Plus(Constraints(contacts), WeightedTasks(contacts))
                        IN  /\ PosedEqualities = Posed(weighted.a)
                            /\ PosedInequalities = Posed(weighted.d)
    BY DEF SameRowsAsWeighted
  <2>1. PICK contacts \in SUBSET ToSet(Feet) :
          /\ tasks = Priorities(contacts)
          /\ PosedEqualities = Posed(tasks[1].a) \cup Posed(tasks[2].a) \cup Posed(tasks[3].a)
          /\ PosedInequalities = Posed(tasks[1].d) \cup Posed(tasks[2].d) \cup Posed(tasks[3].d)
    BY WbcPoses
  <2> DEFINE weighted == Plus(Constraints(contacts), WeightedTasks(contacts))
  <2>2. /\ Posed(weighted.a) = Posed(tasks[1].a) \cup Posed(tasks[2].a) \cup Posed(tasks[3].a)
        /\ Posed(weighted.d) = Posed(tasks[1].d) \cup {} \cup {}
        /\ Posed(tasks[2].d) = {} /\ Posed(tasks[3].d) = {}
    BY <2>1, PrioritiesPose DEF Poses
  <2> QED BY <2>1, <2>2
<1> QED BY <1>1, HoQpInductive, RowsAccumulate, PTL

\* Whatever the number of feet and whichever are planned to stand, each is
\* treated either as standing or as swinging, in all four loops over the flags.
THEOREM FeetAreTreated == Spec => []EveryFootIsTreated
<1>1. HoQpInv /\ EveryRowIsStacked => EveryFootIsTreated
  <2> SUFFICES ASSUME HoQpInv, EveryRowIsStacked, tasks \in WbcHierarchies, level = Len(tasks),
                      NEW f \in ToSet(Feet)
               PROVE  LET stands == <<"motion", f>> \in PosedEqualities
                      IN  /\ stands <=> <<"cone", f>> \in PosedInequalities
                          /\ stands <=> <<"noForce", f>> \notin PosedEqualities
                          /\ stands <=> <<"swing", f>> \notin PosedEqualities
    BY DEF EveryFootIsTreated
  <2>1. PICK contacts \in SUBSET ToSet(Feet) :
          /\ tasks = Priorities(contacts)
          /\ PosedEqualities = Posed(tasks[1].a) \cup Posed(tasks[2].a) \cup Posed(tasks[3].a)
          /\ PosedInequalities = Posed(tasks[1].d) \cup Posed(tasks[2].d) \cup Posed(tasks[3].d)
    BY WbcPoses
  <2> DEFINE swings == ToSet(Feet) \ contacts
  <2>2. /\ PosedEqualities =
             ({<<"eom">>} \cup Each("noForce", swings) \cup Each("motion", contacts))
               \cup ({<<"baseAccel">>} \cup Each("swing", swings)) \cup Each("force", ToSet(Feet))
        /\ PosedInequalities =
             ({<<"torque">>} \cup Each("cone", contacts) \cup Each("blank", swings)) \cup {} \cup {}
    BY <2>1, PrioritiesPose DEF Poses
  <2>3. \A feet : \A name, other \in FootNames :
          <<name, f>> \in Each(other, feet) <=> name = other /\ f \in feet
    BY DEF Each
  <2>4. \A name \in FootNames :
          <<name, f>> # <<"eom">> /\ <<name, f>> # <<"torque">> /\ <<name, f>> # <<"baseAccel">>
    BY DEF FootNames
  <2>5. /\ <<"motion", f>> \in PosedEqualities <=> f \in contacts
        /\ <<"noForce", f>> \in PosedEqualities <=> f \in swings
        /\ <<"swing", f>> \in PosedEqualities <=> f \in swings
        /\ <<"cone", f>> \in PosedInequalities <=> f \in contacts
    <3> HIDE DEF swings
    <3> QED BY <2>2, <2>3, <2>4 DEF FootNames
  <2> QED BY <2>5
<1> QED BY <1>1, HoQpInductive, RowsAccumulate, PTL

-----------------------------------------------------------------------------
(* The way to the motors: the SDK's legs, the model's, the handles' and    *)
(* the contact flags' are permutations that undo each other.               *)

\* A motor's joint has the handle of the motor's index.
LEMMA HandleOfMotor == \A i \in Motors : JointHandle(MotorOf(i)) = i
<1> SUFFICES ASSUME NEW i \in Motors PROVE JointHandle(MotorOf(i)) = i
  OBVIOUS
<1>1. PICK leg \in 0..3, place \in 0..2 : i = 3 * leg + place
  BY DEF Motors
<1>2. i \div 3 = leg /\ i % 3 = place
  BY <1>1
<1>3. LegIndex[SdkLegs[leg + 1]] = leg
  BY DEF LegIndex, SdkLegs
<1>4. PlaceIndex[Places[place + 1]] = place
  BY DEF PlaceIndex, Places
<1>5. MotorOf(i) = <<SdkLegs[leg + 1], Places[place + 1]>>
  BY <1>2 DEF MotorOf
<1> QED BY <1>1, <1>3, <1>4, <1>5 DEF JointHandle

\* Every joint of the model has a handle, which is that of its motor.
LEMMA MotorOfHandle ==
  \A j \in 1..12 : /\ JointHandle(ModelJoint[j]) \in Motors
                   /\ MotorOf(JointHandle(ModelJoint[j])) = ModelJoint[j]
<1> SUFFICES ASSUME NEW j \in 1..12
             PROVE  /\ JointHandle(ModelJoint[j]) \in Motors
                    /\ MotorOf(JointHandle(ModelJoint[j])) = ModelJoint[j]
  OBVIOUS
<1>1. PICK leg \in 0..3, place \in 0..2 :
        ModelJoint[j] = <<ModelLegs[leg + 1], Places[place + 1]>>
  <2>1. (j - 1) \div 3 \in 0..3 /\ (j - 1) % 3 \in 0..2
    OBVIOUS
  <2> QED BY <2>1 DEF ModelJoint
<1> DEFINE sdkLeg == LegIndex[ModelLegs[leg + 1]]
<1>2. sdkLeg \in 0..3 /\ SdkLegs[sdkLeg + 1] = ModelLegs[leg + 1]
  BY DEF LegIndex, ModelLegs, SdkLegs
<1>3. PlaceIndex[Places[place + 1]] = place
  BY DEF PlaceIndex, Places
<1> HIDE DEF sdkLeg
<1>4. JointHandle(ModelJoint[j]) = sdkLeg * 3 + place
  BY <1>1, <1>3 DEF JointHandle, sdkLeg
<1>5. (sdkLeg * 3 + place) \div 3 = sdkLeg /\ (sdkLeg * 3 + place) % 3 = place
  BY <1>2
<1> QED BY <1>1, <1>2, <1>4, <1>5 DEF Motors, MotorOf

\* Every motor is some joint's of the model.
LEMMA MotorHasJoint == \A i \in Motors : \E j \in 1..12 : ModelJoint[j] = MotorOf(i)
<1> SUFFICES ASSUME NEW i \in Motors PROVE \E j \in 1..12 : ModelJoint[j] = MotorOf(i)
  OBVIOUS
<1> DEFINE place == i % 3
<1>1. place \in 0..2 /\ i \div 3 \in 0..3
  BY DEF Motors
<1>2. PICK leg \in 0..3 : ModelLegs[leg + 1] = SdkLegs[(i \div 3) + 1]
  BY <1>1 DEF ModelLegs, SdkLegs
<1>3. 3 * leg + place + 1 \in 1..12
  BY <1>1
<1>4. (3 * leg + place) \div 3 = leg /\ (3 * leg + place) % 3 = place
  BY <1>1
<1>5. ModelJoint[3 * leg + place + 1] = MotorOf(i)
  BY <1>1, <1>2, <1>3, <1>4 DEF ModelJoint, MotorOf
<1> QED BY <1>3, <1>5

\* The loop of every joint closes over its own motor, and every foot has its flag.
LEMMA MotorsAreJoints == EveryMotorIsItsJoint
<1>1. JointNames = ModelJoint
  BY DEF JointNames, ModelJoint, LegOrder, ModelLegs
<1> DEFINE measured == [i \in Motors |-> MotorOf(i)]
           told     == MotorCmd(SetCommands(ModelJoint))
<1>2. JointPos(measured) = ModelJoint
  <2>1. \A j \in 1..12 : JointData(measured)[JointHandle(JointNames[j])] = ModelJoint[j]
    BY <1>1, MotorOfHandle DEF JointData
  <2>2. ModelJoint = [j \in 1..12 |-> ModelJoint[j]]
    BY DEF ModelJoint
  <2> QED BY <2>1, <2>2 DEF JointPos
<1>3. told = measured
  <2>1. ASSUME NEW i \in Motors
        PROVE  ModelJoint[CHOOSE j \in 1..12 : JointHandle(JointNames[j]) = i] = MotorOf(i)
    <3> DEFINE j == CHOOSE j \in 1..12 : JointHandle(JointNames[j]) = i
    <3>1. \E k \in 1..12 : JointHandle(JointNames[k]) = i
      BY <1>1, MotorHasJoint, HandleOfMotor
    <3>2. j \in 1..12 /\ JointHandle(JointNames[j]) = i
      BY <3>1
    <3> HIDE DEF j
    <3>3. MotorOf(i) = ModelJoint[j]
      BY <1>1, <3>2, MotorOfHandle
    <3> QED BY <3>3 DEF j
  <2> QED BY <2>1 DEF MotorCmd, SetCommands
<1>4. ASSUME NEW pressed \in SUBSET ToSet(SdkLegs)
      PROVE  GetMode(ContactFlag([i \in 1..4 |-> SdkLegs[i] \in pressed])) = pressed
  <2> DEFINE feet == [i \in 1..4 |-> SdkLegs[i] \in pressed]
  <2>1. ASSUME NEW k \in 1..4
        PROVE  ContactFlag(feet)[k] <=> FlagOrder[k] \in pressed
    <3> DEFINE h == ContactHandle(ContactNames3DoF[k])
    <3>1. \E i \in 1..4 : ContactSensorNames[i] = ContactNames3DoF[k]
      BY DEF ContactSensorNames, ContactNames3DoF
    <3>2. h \in 1..4 /\ ContactSensorNames[h] = ContactNames3DoF[k]
      BY <3>1 DEF ContactHandle
    <3> HIDE DEF h
    <3>3. SdkLegs[h] = FlagOrder[k]
      BY <3>2 DEF ContactSensorNames, SdkLegs, ContactNames3DoF, FlagOrder
    <3>4. ContactFlag(feet)[k] = feet[h]
      BY <3>2 DEF ContactFlag, ContactState, h
    <3> QED BY <3>2, <3>3, <3>4
  <2>2. pressed \subseteq {FlagOrder[k] : k \in 1..4}
    BY DEF ToSet, SdkLegs, FlagOrder
  <2>3. GetMode(ContactFlag(feet)) = {FlagOrder[k] : k \in {m \in 1..4 : FlagOrder[m] \in pressed}}
    BY <2>1 DEF GetMode
  <2> QED BY <2>2, <2>3
<1> QED BY <1>2, <1>3, <1>4 DEF EveryMotorIsItsJoint

\* The torques of a solved hierarchy go to the joints they were computed for, and
\* what they were computed from was measured there, in whichever of its four orders
\* UnitreeHW and the controller list the legs.
THEOREM TorquesReach == Spec => []TorquesReachTheirMotors
<1>1. TorquesReachTheirMotors
  BY MotorsAreJoints DEF TorquesReachTheirMotors
<1> QED BY <1>1, PTL
=============================================================================
