SPECIFICATION Spec
CONSTANTS
  Callback = {cb}
  Ready = ready
  GotIp = got_ip
  Lost = lost
  Kind = {ready, got_ip, lost}
  AnyKind = any
  Wanted = {any}
  QueueSize = 1
  MaxIds = 0
  MaxEvents = 2
INVARIANTS EnabledApIsOn
