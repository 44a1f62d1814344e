CONSTANTS
  Instances = {a, b}
  Tees = {a, b}
  ByHand = {}
  None = None
SPECIFICATION Spec
\* Every process runs once.
CHECK_DEADLOCK FALSE
INVARIANTS
  FirstConnectIsOwn
