CONSTANTS
  Kinds = {"grpc"}
  edit = edit
  touch = touch
  clean = clean
  Event <- MCEvent
  Rpcs = {}
  Streams = {s1}
  Changes = {}
SPECIFICATION Spec
\* racli exits for good.
CHECK_DEADLOCK FALSE
PROPERTIES
  SignalStops
