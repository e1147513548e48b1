SPECIFICATION Spec
CONSTANTS
  Fd = {fd1}
  Peer = {p1, p2}
  Nobody = Nobody
  Group = {}
  AnyIp = AnyIp
  PacketSize = 4
  NoSocket = NoSocket
  NoPacket = NoPacket
  MaxInbox = 1
  Id = {1, 2}
  Name = {"www", "other"}
  Star = Star
  Canonical <- MCCanonical
  HeaderPart = HeaderPart
  QuestionPart = QuestionPart
  AnswerPart = AnswerPart
  Short = Short
  None = None
  MaxArrivals = 2
INVARIANTS TypeOK RepliesMatchRequest NothingLeftBehind
PROPERTIES Responsive
