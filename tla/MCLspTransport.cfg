SPECIFICATION Spec

CONSTANTS
  r1 = r1
  a1 = a1
  n1 = n1
  n2 = n2
  m1 = m1
  m2 = m2
  None = None
  Requests = {r1}
  Asks = {a1}
  Notices = {n1, n2}
  Methods = {m1, m2}
  Method <- MCMethod
  Capacity = 1
  Room = 1
  Chunks = 2
  BufferSize = 1

INVARIANTS
  TypeOK
  FramesAreWhole
  NothingEarlyIsLost

PROPERTIES
  NobodyHangs
  LinkSpec

CHECK_DEADLOCK FALSE
