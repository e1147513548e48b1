SPECIFICATION EventsSpec
CONSTANTS
  Callback = {a}
  Kind = {got_ip, lost}
  AnyKind = any
  Wanted = {got_ip, any}
  QueueSize = 1
  MaxIds = 3
  MaxEvents = 2
INVARIANTS EventsTypeOK CalledInOrder RemovalHidesOne
PROPERTIES EveryEventHandled
CHECK_DEADLOCK FALSE
