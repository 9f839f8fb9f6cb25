-------------------------------- MODULE HoQp --------------------------------
(***************************************************************************)
(* legged_wbc's HoQp: a hierarchy of quadratic programs, one task per      *)
(* priority.  Each level solves in the null space of the levels above and  *)
(* keeps their inequalities, relaxed by the slack they were given there.   *)
(*                                                                         *)
(* Matrices are followed by their rows: a row is known by its level and    *)
(* the name of its constraint, a slack by its row, a null space by the     *)
(* levels whose equalities it leaves alone.  The numbers of the problem,   *)
(* and qpOASES, are left out.                                              *)
(***************************************************************************)
EXTENDS Integers, Sequences, FiniteSets, Task

CONSTANTS
  Names,        \* names of constraints
  Hierarchies   \* the sequences of tasks to solve, highest priority first

ASSUME HierarchyAssumption ==
  \A h \in Hierarchies : h \in Seq([a : Seq(Names), d : Seq(Names)])

VARIABLES
  tasks,         \* the hierarchy being solved
  level,         \* how many of its levels are solved
  stackedTasks,  \* getStackedTasks(): the rows of a_ and of d_
  stackedSlack,  \* getStackedSlackSolutions(): the row each entry relaxes
  stackedZ,      \* getStackedZMatrix(): the levels it leaves alone
  achieved,      \* levels whose equalities x still meets as well as they did
  relaxed        \* <<row, slack>> of the inequalities the last problem kept

vars == <<tasks, level, stackedTasks, stackedSlack, stackedZ, achieved, relaxed>>

\* The rows of a task, at its level.
AtLevel(task, k) == [a |-> [i \in DOMAIN task.a |-> <<k, task.a[i]>>],
                     d |-> [i \in DOMAIN task.d |-> <<k, task.d[i]>>]]

Init ==
  /\ tasks \in Hierarchies
  /\ level = 0
  /\ stackedTasks = NoTask
  /\ stackedSlack = <<>>
  /\ stackedZ = {}
  /\ achieved = {}
  /\ relaxed = {}

\* buildFVector(): the slack solutions of the levels above are added entry by
\* entry to the rows of stackedTasksPrev_, whatever row an entry is for.
KeptRows(prev, slack) ==
  {<<prev.d[i], slack[i]>> : i \in DOMAIN prev.d \cap DOMAIN slack}

\* stackSlackSolutions(): the levels above come first.
StackSlackAgain(slack, own) == slack \o own \o own   \* mutant: stacked twice
StackOwnSlack(slack, own)   == own                   \* mutant: those above are lost

StackSlack(slack, own) == slack \o own

\* buildZMatrix(): the kernel of the task within the null space above.
HasEqConstraints(task) == Len(task.a) > 0

KernelOfTask(z, task, k) ==   \* mutant: not multiplied by stackedZPrev_
  IF HasEqConstraints(task) THEN {k} ELSE z

BuildZ(z, task, k) == IF HasEqConstraints(task) THEN z \cup {k} ELSE z

\* HoQp(task, higherProblem): a solution moves within the null space above, so
\* it may undo whatever that null space does not leave alone.
SolveLevel ==
  /\ level < Len(tasks)
  /\ LET k    == level + 1
         here == AtLevel(tasks[k], k)
     IN  /\ stackedTasks' = Plus(here, stackedTasks)
         /\ relaxed' = KeptRows(stackedTasks, stackedSlack)
         /\ achieved' = (achieved \cap stackedZ) \cup {j \in {k} : HasEqConstraints(tasks[k])}
         /\ stackedZ' = BuildZ(stackedZ, tasks[k], k)
         /\ stackedSlack' = StackSlack(stackedSlack, here.d)
         /\ level' = k
  /\ UNCHANGED tasks

\* The next control cycle builds its own hierarchy.
NextCycle ==
  /\ level = Len(tasks)
  /\ tasks' \in Hierarchies
  /\ level' = 0
  /\ stackedTasks' = NoTask
  /\ stackedSlack' = <<>>
  /\ stackedZ' = {}
  /\ achieved' = {}
  /\ relaxed' = {}

Next == SolveLevel \/ NextCycle

Spec == Init /\ [][Next]_vars

-----------------------------------------------------------------------------
(* Properties.                                                             *)

RowsOf(names, k) == {<<k, names[i]>> : i \in DOMAIN names}

\* Types, and the sizes Eigen insists on where slacks are added to rows.
HoQpTypeOK ==
  /\ tasks \in Hierarchies
  /\ level \in 0..Len(tasks)
  /\ Len(stackedSlack) = Len(stackedTasks.d)
  /\ stackedZ \subseteq 1..level /\ achieved \subseteq 1..level

\* Priorities hold: no level gives up what a higher one achieved with its
\* equalities.
HigherIsUndisturbed ==
  \A k \in 1..level : HasEqConstraints(tasks[k]) => k \in achieved

\* A level keeps every inequality of the levels above, each relaxed by the
\* slack that inequality was given and by no other.
RelaxedByOwnSlack ==
  /\ \A pair \in relaxed : pair[1] = pair[2]
  /\ \A k \in 1..(level - 1) :
       RowsOf(tasks[k].d, k) \subseteq {pair[1] : pair \in relaxed}

\* Entry i of the stacked slack solutions belongs to row i of the stacked
\* inequalities, as the unit test of two tasks reads them.
SlackFollowsRows == stackedSlack = stackedTasks.d
=============================================================================
