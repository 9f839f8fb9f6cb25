CONSTANTS
  Nodes = {hw, other}
  Pids = {pidA, pidB}
  Ports = {portA, portB}
  Requests = {r1, r2}
  AllowKill = {"true", "false", "unset"}
  MaxProcesses = 3
SPECIFICATION Spec
SYMMETRY Symmetry
INVARIANTS
  TypeOK
  OnlySuccessorsAreHit
