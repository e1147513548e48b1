---------------------------- MODULE WiFiUdpProofs ----------------------------
(***************************************************************************)
(* What WiFiUdp keeps whatever the stack and the allocator answer, for     *)
(* every set of sockets, addresses and datagrams and every packet size.    *)
(* The invariant has three parts: the socket side (who is open, who has a  *)
(* buffer), the packets' types, and the addresses and what is written,     *)
(* which rest on the first two.                                            *)
(***************************************************************************)
EXTENDS WiFiUdp, SequenceTheorems, TLAPS

(* The socket side: all that begin(), stop() and beginPacket() touch. *)
Socket ==
  /\ udp_server \in Fd \cup {NoSocket}
  /\ open \subseteq Fd
  /\ open = {udp_server} \ {NoSocket}
  /\ tx_buffer \in BOOLEAN
  /\ udp_server # NoSocket => tx_buffer

LEMMA SocketInit == Init => Socket
BY DEF Init, Socket

(* What stop() leaves, which most of begin()'s failures end in. *)
LEMMA StoppedSocket == Socket /\ Stopped => Socket'
BY DEF Socket, Stopped, Closed

(* A socket is created only where there is none left, after its buffer. *)
LEMMA NewSocketKeeps ==
  ASSUME Socket, NEW S, S \in {open, Closed(open)}, NewSocket(S), tx_buffer' = TRUE,
         S = open => udp_server = NoSocket
  PROVE  Socket'
<1>1. S = {}
  BY DEF Socket, Closed
<1>2. PICK fd \in Fd : udp_server' = fd /\ open' = {fd}
  BY <1>1 DEF NewSocket
<1>3. fd # NoSocket
  BY WiFiUdpAssumption
<1> QED
  BY <1>2, <1>3 DEF Socket

LEMMA BeginFailsSocket == Socket /\ BeginFails => Socket'
<1> SUFFICES ASSUME Socket, BeginFails PROVE Socket'
  OBVIOUS
<1>1. CASE Stopped
  BY <1>1, StoppedSocket
<1>2. CASE tx_buffer' = TRUE /\ udp_server' = NoSocket /\ open' = Closed(open)
  BY <1>2 DEF Socket, Closed
<1> QED
  BY <1>1, <1>2 DEF BeginFails

LEMMA BeginSucceedsSocket == Socket /\ BeginSucceeds => Socket'
<1> SUFFICES ASSUME Socket, BeginSucceeds PROVE Socket'
  OBVIOUS
<1>1. Closed(open) = {}
  BY DEF Socket, Closed
<1>2. PICK fd \in Fd : udp_server' = fd /\ open' = {fd}
  BY <1>1 DEF BeginSucceeds, NewSocket
<1>3. fd # NoSocket
  BY WiFiUdpAssumption
<1> QED
  BY <1>2, <1>3 DEF Socket, BeginSucceeds

LEMMA BeginPacketSocket ==
  ASSUME Socket, NEW peer, NEW ok, BeginPacketTo(peer, ok)
  PROVE  Socket'
<1>1. CASE UNCHANGED <<udp_server, tx_buffer, open>>
  BY <1>1 DEF Socket
<1>2. CASE tx_buffer' = TRUE /\ UNCHANGED <<udp_server, open>>
  BY <1>2 DEF Socket
<1>3. CASE udp_server = NoSocket /\ tx_buffer' = TRUE /\ NewSocket(open)
  BY <1>3, NewSocketKeeps
<1> QED
  BY <1>1, <1>2, <1>3 DEF BeginPacketTo

LEMMA SocketStep == Socket /\ [Next]_udpVars => Socket'
<1> SUFFICES ASSUME Socket, [Next]_udpVars PROVE Socket'
  OBVIOUS
<1>same. CASE UNCHANGED <<udp_server, tx_buffer, open>>
  BY <1>same DEF Socket
<1>1. CASE Stop
  BY <1>1, StoppedSocket DEF Stop
<1>2. CASE Begin
  BY <1>2, BeginFailsSocket, BeginSucceedsSocket DEF Begin
<1>3. CASE Flush
  BY <1>3, <1>same DEF Flush
<1>4. ASSUME NEW a \in Group \cup {AnyIp}, BeginMulticast(a) PROVE Socket'
  BY <1>4, BeginFailsSocket, BeginSucceedsSocket DEF BeginMulticast
<1>5. ASSUME NEW ok \in BOOLEAN, BeginMulticastPacket(ok) PROVE Socket'
  <2>1. CASE UNCHANGED udpVars
    BY <2>1, <1>same DEF udpVars, object
  <2>2. CASE BeginPacketTo(multicast_ip, ok)
    BY <2>2, BeginPacketSocket
  <2> QED
    BY <1>5, <2>1, <2>2 DEF BeginMulticastPacket
<1>6. ASSUME NEW p, NEW ok \in BOOLEAN, BeginPacketTo(p, ok) PROVE Socket'
  BY <1>6, BeginPacketSocket
<1>7. ASSUME NEW sent, EndPacket(sent) PROVE Socket'
  BY <1>7, <1>same DEF EndPacket, udpVars, object
<1>8. ASSUME NEW b, NEW flushed, Write(b, flushed) PROVE Socket'
  BY <1>8, <1>same DEF Write
<1>9. ASSUME NEW n, ParsePacket(n) PROVE Socket'
  BY <1>9, <1>same DEF ParsePacket, udpVars, object
<1>10. ASSUME NEW n, Read(n) PROVE Socket'
  BY <1>10, <1>same DEF Read
<1>11. ASSUME NEW d, Arrive(d) PROVE Socket'
  BY <1>11, <1>same DEF Arrive, object
<1>12. CASE UNCHANGED udpVars
  BY <1>12, <1>same DEF udpVars, object
<1> QED
  BY <1>1, <1>2, <1>3, <1>4, <1>5, <1>6, <1>7, <1>8, <1>9, <1>10, <1>11, <1>12
  DEF Next

LEMMA SocketAlways == Spec => []Socket
BY SocketInit, SocketStep, PTL DEF Spec

(* At any time the stack has open exactly the socket that the object       *)
(* knows: no failure of begin(), beginMulticast() or beginPacket() and no  *)
(* stop() loses one.                                                       *)
THEOREM SocketsAccountedFor == Spec => []NoSocketLost
<1>1. Socket => NoSocketLost
  BY DEF Socket, NoSocketLost
<1> QED
  BY <1>1, SocketAlways, PTL

(* Whoever has a socket has the send buffer that write() and endPacket()   *)
(* use without looking.                                                    *)
THEOREM BufferComesFirst == Spec => []SocketHasSendBuffer
<1>1. Socket => SocketHasSendBuffer
  BY DEF Socket, SocketHasSendBuffer
<1> QED
  BY <1>1, SocketAlways, PTL

-----------------------------------------------------------------------------
(* The packets: what is being read, and what has arrived. *)
Reading ==
  /\ rx_buffer \in Seq(Byte) \cup {NoPacket}
  /\ inbox \in Seq(Datagram)

(* At most the buffer's worth of a datagram is received. *)
LEMMA ReceivedBytes ==
  ASSUME NEW d \in Datagram
  PROVE  Received(d) \in Seq(Byte)
<1>1. d.data \in Seq(Byte)
  BY WiFiUdpAssumption
<1>2. PacketSize \in Nat
  BY WiFiUdpAssumption
<1> DEFINE m == IF Len(d.data) < PacketSize THEN Len(d.data) ELSE PacketSize
<1>3. m \in 0 .. Len(d.data)
  BY <1>1, <1>2
<1> HIDE DEF m
<1>4. \A i \in 1 .. m : d.data[i] \in Byte
  BY <1>1, <1>3
<1>5. SubSeq(d.data, 1, m) \in Seq(Byte)
  BY <1>1, <1>3, <1>4, SubSeqProperties
<1> QED
  BY <1>5 DEF Received, m

(* Kept gives a buffer that is null or has something in it. *)
LEMMA KeptProperties ==
  ASSUME NEW s \in Seq(Byte)
  PROVE  Kept(s) \in Seq(Byte) \cup {NoPacket} /\ Kept(s) # <<>>
BY WiFiUdpAssumption DEF Kept

(* What is left after a read is again a sequence of bytes. *)
LEMMA RemainderBytes ==
  ASSUME rx_buffer \in Seq(Byte), NEW n \in Nat
  PROVE  SubSeq(rx_buffer, Len(Taken(n)) + 1, Available) \in Seq(Byte)
<1>1. rx_buffer # NoPacket
  BY WiFiUdpAssumption
<1>2. Available = Len(rx_buffer) /\ Available \in Nat
  BY <1>1 DEF Available
<1> DEFINE m == IF n < Available THEN n ELSE Available
<1>3. m \in 0 .. Len(rx_buffer)
  BY <1>2
<1> HIDE DEF m
<1>4. Taken(n) = SubSeq(rx_buffer, 1, m)
  BY <1>1 DEF Taken, m
<1>5. Len(Taken(n)) \in Nat
  BY <1>3, <1>4, SubSeqProperties
<1>6. Len(Taken(n)) + 1 \in 1 .. Len(rx_buffer) + 1
  BY <1>3, <1>4, <1>5, SubSeqProperties
<1> QED
  BY <1>2, <1>6, SubSeqProperties

(* The null of rx_buffer is not a packet, the empty one included. *)
LEMMA NullIsNoPacket == NoPacket # <<>> /\ <<>> \in Seq(Datagram)
<1>1. <<>> \in Seq(Byte) /\ <<>> \in Seq(Datagram)
  OBVIOUS
<1>2. NoPacket \notin Seq(Byte)
  BY WiFiUdpAssumption
<1> QED
  BY <1>1, <1>2

IReading == Reading /\ NoEmptyPacket

LEMMA ReadingInit == Init => IReading
BY NullIsNoPacket DEF Init, IReading, Reading, NoEmptyPacket

LEMMA ReadingStep == IReading /\ [Next]_udpVars => IReading'
<1> SUFFICES ASSUME IReading, [Next]_udpVars PROVE IReading'
  OBVIOUS
<1> USE DEF IReading, Reading, NoEmptyPacket
<1>same. CASE UNCHANGED <<rx_buffer, inbox>>
  BY <1>same
<1>none. CASE rx_buffer' = NoPacket /\ inbox' \in {inbox, <<>>}
  BY <1>none, NullIsNoPacket
<1>fails. BeginFails => IReading'
  BY <1>none DEF BeginFails, Stopped
<1>succeeds. BeginSucceeds => IReading'
  BY <1>none DEF BeginSucceeds
<1>packet. ASSUME NEW p, NEW ok, BeginPacketTo(p, ok) PROVE IReading'
  BY <1>packet, <1>same DEF BeginPacketTo
<1>1. CASE Stop
  BY <1>1, <1>none DEF Stop, Stopped
<1>2. CASE Begin
  BY <1>2, <1>fails, <1>succeeds DEF Begin
<1>3. CASE Flush
  BY <1>3, <1>none DEF Flush
<1>4. ASSUME NEW a, BeginMulticast(a) PROVE IReading'
  BY <1>4, <1>fails, <1>succeeds DEF BeginMulticast
<1>5. ASSUME NEW ok, BeginMulticastPacket(ok) PROVE IReading'
  <2>1. CASE UNCHANGED udpVars
    BY <2>1, <1>same DEF udpVars, object
  <2>2. CASE BeginPacketTo(multicast_ip, ok)
    BY <2>2, <1>packet
  <2> QED
    BY <1>5, <2>1, <2>2 DEF BeginMulticastPacket
<1>7. ASSUME NEW sent, EndPacket(sent) PROVE IReading'
  BY <1>7, <1>same DEF EndPacket, udpVars, object
<1>8. ASSUME NEW b, NEW flushed, Write(b, flushed) PROVE IReading'
  BY <1>8, <1>same DEF Write
<1>9. ASSUME NEW n, ParsePacket(n) PROVE IReading'
  <2>1. CASE UNCHANGED udpVars
    BY <2>1, <1>same DEF udpVars, object
  <2>2. CASE inbox # <<>> /\ rx_buffer' = Kept(Received(Head(inbox))) /\ inbox' = Tail(inbox)
    <3>1. Head(inbox) \in Datagram /\ Tail(inbox) \in Seq(Datagram)
      BY <2>2
    <3>2. Received(Head(inbox)) \in Seq(Byte)
      BY <3>1, ReceivedBytes
    <3>3. rx_buffer' \in Seq(Byte) \cup {NoPacket} /\ rx_buffer' # <<>>
      BY <2>2, <3>2, KeptProperties
    <3> QED
      BY <2>2, <3>1, <3>3
  <2> QED
    BY <1>9, <2>1, <2>2 DEF ParsePacket
<1>10. ASSUME NEW n \in 0 .. PacketSize, Read(n) PROVE IReading'
  <2>1. CASE rx_buffer = NoPacket
    BY <1>10, <2>1, <1>none DEF Read
  <2>2. CASE rx_buffer # NoPacket
    <3>1. rx_buffer \in Seq(Byte) /\ n \in Nat
      BY <2>2
    <3>2. rx_buffer' = Kept(SubSeq(rx_buffer, Len(Taken(n)) + 1, Available))
      BY <1>10, <2>2 DEF Read
    <3>3. rx_buffer' \in Seq(Byte) \cup {NoPacket} /\ rx_buffer' # <<>>
      BY <3>1, <3>2, RemainderBytes, KeptProperties
    <3> QED
      BY <1>10, <3>3 DEF Read
  <2> QED
    BY <2>1, <2>2
<1>11. ASSUME NEW d \in Datagram, Arrive(d) PROVE IReading'
  BY <1>11 DEF Arrive, object
<1>12. CASE UNCHANGED udpVars
  BY <1>12, <1>same DEF udpVars, object
<1> QED
  BY <1>1, <1>2, <1>3, <1>4, <1>5, <1>packet, <1>7, <1>8, <1>9, <1>10, <1>11, <1>12
  DEF Next

(* The receive buffer is either null or holds a byte still to be read, so  *)
(* reading what is there always lets parsePacket() take the next datagram. *)
THEOREM NoDeadBuffer == Spec => []NoEmptyPacket
<1>1. IReading => NoEmptyPacket
  BY DEF IReading
<1> QED
  BY <1>1, ReadingInit, ReadingStep, PTL DEF Spec

-----------------------------------------------------------------------------
(* The addresses, and what has been written of a packet. *)
Addressed ==
  /\ multicast_ip \in Group \cup {AnyIp} /\ listening \in BOOLEAN
  /\ remote \in Peer \cup Group \cup {Nobody}
  /\ tx \in Seq(Byte) /\ Len(tx) <= PacketSize

(* A packet is begun anew or stays. *)
LEMMA AddressedRest ==
  ASSUME Addressed, tx' \in {tx, <<>>}, listening' \in {listening, TRUE},
         multicast_ip' \in {multicast_ip, AnyIp}, remote' \in Peer \cup Group \cup {remote}
  PROVE  Addressed'
<1>1. 0 <= PacketSize
  BY WiFiUdpAssumption
<1>2. tx' \in Seq(Byte) /\ Len(tx') <= PacketSize
  <2>1. CASE tx' = <<>>
    BY <1>1, <2>1
  <2> QED BY <2>1 DEF Addressed
<1> QED BY <1>2 DEF Addressed

LEMMA WriteKeeps ==
  ASSUME Addressed, NEW b \in Byte, NEW flushed, Write(b, flushed)
  PROVE  Addressed'
<1>1. PacketSize \in Nat \ {0}
  BY WiFiUdpAssumption
<1>2. tx' \in Seq(Byte) /\ Len(tx') <= PacketSize
  <2>1. CASE tx' = <<b>>
    BY <1>1, <2>1
  <2>2. CASE Len(tx) < PacketSize /\ tx' = Append(tx, b)
    <3>1. Len(tx) \in Nat /\ Len(tx') = Len(tx) + 1 /\ tx' \in Seq(Byte)
      BY <2>2 DEF Addressed
    <3> QED BY <1>1, <2>2, <3>1
  <2> QED BY <2>1, <2>2 DEF Write, Room
<1> QED BY <1>2 DEF Write, Addressed

TypeInv == Socket /\ IReading /\ Addressed

LEMMA TypeInit == Init => TypeInv
<1> SUFFICES ASSUME Init PROVE Addressed
  BY SocketInit, ReadingInit DEF TypeInv
<1>1. 0 <= PacketSize
  BY WiFiUdpAssumption
<1>2. Len(tx) = 0 /\ tx \in Seq(Byte)
  BY DEF Init
<1>3. listening \in BOOLEAN
  BY DEF Init
<1> QED BY <1>1, <1>2, <1>3 DEF Init, Addressed

LEMMA TypeStep == TypeInv /\ [Next]_udpVars => TypeInv'
<1> SUFFICES ASSUME TypeInv, [Next]_udpVars PROVE Addressed'
  BY SocketStep, ReadingStep DEF TypeInv
<1>0. Addressed
  BY DEF TypeInv
<1>same. CASE UNCHANGED <<multicast_ip, listening, remote, tx>>
  BY <1>0, <1>same DEF Addressed
<1>begin. BeginFails \/ BeginSucceeds
            => tx' \in {tx, <<>>} /\ listening' \in {listening, TRUE} /\ remote' = remote
  BY DEF BeginFails, BeginSucceeds, Stopped
<1>fails. BeginFails => multicast_ip' = multicast_ip
  BY DEF BeginFails, Stopped
<1>packet. ASSUME NEW p \in Peer \cup Group \cup {remote}, NEW ok, BeginPacketTo(p, ok)
           PROVE  Addressed'
  BY <1>0, <1>packet, AddressedRest DEF BeginPacketTo
<1>1. CASE Stop
  BY <1>0, <1>1, AddressedRest DEF Stop, Stopped
<1>2. CASE Begin
  BY <1>0, <1>2, <1>begin, <1>fails, AddressedRest DEF Begin
<1>3. CASE Flush
  BY <1>3, <1>same DEF Flush
<1>4. ASSUME NEW a \in Group \cup {AnyIp}, BeginMulticast(a) PROVE Addressed'
  BY <1>0, <1>4, <1>begin, <1>fails, AddressedRest DEF BeginMulticast
<1>5. ASSUME NEW ok, BeginMulticastPacket(ok) PROVE Addressed'
  <2>1. CASE UNCHANGED udpVars
    BY <2>1, <1>same DEF udpVars, object
  <2>2. CASE multicast_ip # AnyIp /\ BeginPacketTo(multicast_ip, ok)
    BY <1>0, <1>packet, <2>2 DEF Addressed
  <2> QED BY <1>5, <2>1, <2>2 DEF BeginMulticastPacket
<1>6. ASSUME NEW p \in Peer \cup {remote}, NEW ok, BeginPacketTo(p, ok) PROVE Addressed'
  BY <1>6, <1>packet
<1>7. ASSUME NEW sent, EndPacket(sent) PROVE Addressed'
  BY <1>7, <1>same DEF EndPacket, udpVars, object
<1>8. ASSUME NEW b \in Byte, NEW flushed, Write(b, flushed) PROVE Addressed'
  BY <1>0, <1>8, WriteKeeps
<1>9. ASSUME NEW n, ParsePacket(n) PROVE Addressed'
  <2>1. CASE UNCHANGED udpVars
    BY <2>1, <1>same DEF udpVars, object
  <2>2. CASE /\ inbox # <<>> /\ remote' = Head(inbox).from
             /\ UNCHANGED <<multicast_ip, listening, tx>>
    <3>1. Head(inbox) \in Datagram
      BY <2>2 DEF TypeInv, IReading, Reading
    <3>2. remote' \in Peer
      BY <2>2, <3>1, WiFiUdpAssumption
    <3> QED BY <1>0, <2>2, <3>2, AddressedRest
  <2> QED BY <1>9, <2>1, <2>2 DEF ParsePacket
<1>10. ASSUME NEW n, Read(n) PROVE Addressed'
  BY <1>10, <1>same DEF Read
<1>11. ASSUME NEW d, Arrive(d) PROVE Addressed'
  BY <1>11, <1>same DEF Arrive, object
<1>12. CASE UNCHANGED udpVars
  BY <1>12, <1>same DEF udpVars, object
<1> QED
  BY <1>1, <1>2, <1>3, <1>4, <1>5, <1>6, <1>7, <1>8, <1>9, <1>10, <1>11, <1>12 DEF Next

(* The object keeps its types; what is written of a packet fits its buffer *)
(* (WiFiUDP::write(), where a full one is sent first).                     *)
THEOREM TypeOKAlways == Spec => []TypeOK
<1>1. TypeInv => TypeOK
  BY DEF TypeInv, Socket, IReading, Reading, Addressed, TypeOK
<1> QED BY <1>1, TypeInit, TypeStep, PTL DEF Spec
=============================================================================
