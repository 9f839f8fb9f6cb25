-------------------------------- MODULE Task --------------------------------
(***************************************************************************)
(* legged_wbc's Task: equalities a_ x = b_ and inequalities d_ x <= f_ on  *)
(* the decision variables, each followed by its rows.                      *)
(***************************************************************************)
EXTENDS Sequences

NoTask == [a |-> <<>>, d |-> <<>>]

Equalities(rows)   == [a |-> rows, d |-> <<>>]
Inequalities(rows) == [a |-> <<>>, d |-> rows]

\* Task::operator+
PlusKeepsFirst(t, rhs) ==   \* mutant: a matrix without rows hides the other one
  [a |-> IF t.a = <<>> THEN <<>> ELSE t.a \o rhs.a, d |-> t.d \o rhs.d]

Plus(t, rhs) == [a |-> t.a \o rhs.a, d |-> t.d \o rhs.d]
=============================================================================
