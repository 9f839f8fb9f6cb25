\* Two tasks, as in HoQp_test.cpp, of up to two equalities and two inequalities.
CONSTANTS
  Feet <- Legs4
  Names <- MCNames
  Hierarchies <- TwoTasks
SPECIFICATION Spec
INVARIANT SlackFollowsRows
