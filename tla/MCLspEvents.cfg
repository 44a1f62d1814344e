CONSTANTS
  main = main
  lib = lib
  message = message
  diagnostics = diagnostics
  window = window
  Topics = {main, lib, message}
  Cached = {main, lib}
  Methods = {diagnostics, window}
  MethodOf <- MCMethodOf
  Subscribers = {s1}
  Capacity = 2
  BufferSize = 2
  MaxVersion = 2
  NoEvent = NoEvent
SPECIFICATION Spec
\* Notifications are bounded by MaxVersion.
CHECK_DEADLOCK FALSE
INVARIANTS
  TypeOK
  NothingMissedOrRepeated
PROPERTIES
  CacheConverges
  FeedSafety
