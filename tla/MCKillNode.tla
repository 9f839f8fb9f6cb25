----------------------------- MODULE MCKillNode -----------------------------
(***************************************************************************)
(* KillNode for TLC.  Names, calls, process ids and ports are only ever    *)
(* compared for equality, and the properties of the run are safety.        *)
(***************************************************************************)
EXTENDS KillNode, TLC

Symmetry ==
  Permutations(Nodes) \cup Permutations(Requests)
    \cup Permutations(Pids) \cup Permutations(Ports)
=============================================================================
