SPECIFICATION Spec
CONSTANTS
  Fd = {fd1, fd2}
  Peer = {p1, p2}
  Nobody = Nobody
  Group = {g1}
  AnyIp = AnyIp
  Byte = {0}
  PacketSize = 2
  NoSocket = NoSocket
  NoPacket = NoPacket
  MaxInbox = 2
  Datagram <- MCDatagram
INVARIANTS NoSocketLost SocketHasSendBuffer NoEmptyPacket
SYMMETRY Symmetry
