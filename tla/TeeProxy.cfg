\* The editor may fall silent: nothing has to happen then.
CONSTANTS
  MaxMessages = 3
  MaxEvents = 2
SPECIFICATION Spec
INVARIANTS TypeOK EventsFollowInitialize EveryReplyWritten
PROPERTY EditorEndStops
CHECK_DEADLOCK FALSE
