SPECIFICATION Spec
CONSTANTS
  Path <- MCPath
  Object = {o1, o2}
  MaxLen = 1
  Text = {x, y}
  Unset = unset
  DpId = {"switch", "bright", "name", "fault"}
  Schema <- MCSchema
  MaxDps = 2
  MaxBegins = 2
  Millis = 12
  DebounceMs = 1
  LongPressMs = 4
  MaxGap = 3
  Days = {7, 8}
  Url <- MCUrl
  Malformed <- MCMalformed
  Number <- MCNumber
  CharMax = 3
  Chars = 2
  MaxHandle = 3
  Ssid = {s1, s2}
  NoName = none
  Int8Max = 2
  MaxAPs = 2
  MaxScans = 2
INVARIANTS
  TypeOK PromiseKept FlagIsSession CloudIsFaithful PressMeansOneThing AllAgree
  AnswersServe SendsAreOwn ScansServe
PROPERTIES KeepsGoing
CHECK_DEADLOCK FALSE
