CONSTANTS
  rename = rename
  search = search
  request = request
  notify = notify
  watched = watched
  cached = cached
  forbidden = forbidden
  shutdown = shutdown
  shutdown2 = shutdown2
  PostStop = PostStop
  None = None
  Patterns = 2
  Calls = {rename, search, request, notify, watched, cached, forbidden, shutdown, shutdown2}
  Leavers = {rename, search}
  Kind <- MCKind
SPECIFICATION Spec
CONSTRAINT OneWorkload
\* The actor stops for good.
CHECK_DEADLOCK FALSE
INVARIANTS
  TypeOK
  ShutdownIsLast
  CallsAreContiguous
  ArrivalOrder
  AnsweredMeansAsked
  NoOrphanChild
PROPERTIES
  StopCompletes
  ServiceSpec
