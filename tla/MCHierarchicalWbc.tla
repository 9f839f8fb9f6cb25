-------------------------- MODULE MCHierarchicalWbc --------------------------
(***************************************************************************)
(* HierarchicalWbc::update() as a client of HoQp: the hierarchies of every *)
(* set of planned contacts, and small generic ones.                        *)
(***************************************************************************)
EXTENDS HierarchicalWbc

Legs4 == <<"LF", "RF", "LH", "RH">>

\* Up to two equalities and an inequality or two per level.
SmallTasks ==
  {[a |-> a, d |-> d] : a \in {<<>>, << <<"a1">> >>, << <<"a1">>, <<"a2">> >>},
                        d \in {<<>>, << <<"d1">> >>, << <<"d1">>, <<"d2">> >>}}

TwoTasks == SmallTasks \X SmallTasks

\* Three levels, of which at most one above the last is constrained: the same
\* shape as the controller's.
ThreeTasks ==
  {h \in SmallTasks \X SmallTasks \X SmallTasks : h[1].d = <<>> \/ h[2].d = <<>>}

MCNames ==
  {<<"a1">>, <<"a2">>, <<"d1">>, <<"d2">>, <<"eom">>, <<"torque">>, <<"baseAccel">>}
    \cup {"motion", "noForce", "cone", "blank", "swing", "force"} \X ToSet(Legs4)

MCHierarchies == WbcHierarchies \cup TwoTasks \cup ThreeTasks
=============================================================================
