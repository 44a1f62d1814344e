CONSTANTS
  Kinds = {"grpc", "mcp"}
  edit = edit
  touch = touch
  clean = clean
  Event <- MCEvent
  Rpcs = {r1}
  Streams = {s1}
  Changes = {edit, touch, clean}
SPECIFICATION Spec
\* racli exits for good.
CHECK_DEADLOCK FALSE
INVARIANTS
  TypeOK
  TeardownInOrder
  AcceptedWorkFinishes
  ExitIsClean
PROPERTIES
  StopCompletes
