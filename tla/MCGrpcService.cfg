CONSTANTS
  query = query
  invalid = invalid
  version = version
  shutdown = shutdown
  Calls = {query, invalid, shutdown}
  Kind <- MCKind
  Leavers = {query}
  Versions = {version}
  MaxVersion = 2
  Status = Status
  NoEvent = NoEvent
SPECIFICATION Spec
\* Every RPC is sent once.
CHECK_DEADLOCK FALSE
INVARIANTS
  TypeOK
  StatusIsFresh
PROPERTIES
  EveryRpcAnswered
