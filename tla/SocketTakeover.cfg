CONSTANTS
  Instances = {a, b, c}
  Tees = {a}
  ByHand = {c}
  None = None
SPECIFICATION Spec
\* Every process runs once.
CHECK_DEADLOCK FALSE
INVARIANTS
  TypeOK
  StartersLeaveAServer
  NoStaleSocket
PROPERTIES
  SuccessorKept
  TeeConnects
