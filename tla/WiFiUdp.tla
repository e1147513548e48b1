------------------------------- MODULE WiFiUdp -------------------------------
(***************************************************************************)
(* The WiFiUDP object of libraries/WiFi/src/WiFiUdp.cpp: one socket, one   *)
(* packet being written (tx_buffer) and one being read (rx_buffer, a cbuf, *)
(* which Cbuf shows to be a queue).                                        *)
(*                                                                         *)
(* One thread calls the object; the network stack and the allocator decide *)
(* what arrives and which calls fail.  Clients of the object (WiFiUDPClient *)
(* and DNSServer) are modules that instantiate this one.                   *)
(***************************************************************************)
EXTENDS Naturals, Sequences, FiniteSets

CONSTANTS
  Fd,           (* the socket descriptors the stack can hand out            *)
  Peer,         (* remote addresses, each an IP with a nonzero port         *)
  Nobody,       (* the remote address before any is set: port zero          *)
  Group,        (* multicast addresses, other than 0.0.0.0                  *)
  AnyIp,        (* 0.0.0.0                                                  *)
  Byte,         (* what a packet is made of                                 *)
  Datagram,     (* what may arrive: records [from, data]                    *)
  PacketSize,   (* the 1460 of both buffers                                 *)
  NoSocket,     (* the -1 of udp_server                                     *)
  NoPacket,     (* the null of rx_buffer                                    *)
  MaxInbox      (* bound: datagrams the stack queues on a socket            *)

ASSUME WiFiUdpAssumption ==
  /\ PacketSize \in Nat \ {0}
  /\ MaxInbox \in Nat
  /\ NoSocket \notin Fd
  /\ Nobody \notin Peer
  /\ AnyIp \notin Group
  /\ NoPacket \notin Seq(Byte)
  /\ Datagram \subseteq [from : Peer, data : Seq(Byte)]

VARIABLES
  udp_server,    (* the socket, or NoSocket                                 *)
  multicast_ip,  (* the group joined, or AnyIp                              *)
  listening,     (* server_port # 0                                         *)
  remote,        (* remote_ip and remote_port                               *)
  tx_buffer,     (* is there a send buffer?                                 *)
  tx,            (* its first tx_buffer_len bytes                           *)
  rx_buffer,     (* what is left to read of a packet, or NoPacket           *)
  open,          (* the stack's open sockets                                *)
  inbox          (* what the stack has queued on the socket                 *)

object == <<udp_server, multicast_ip, listening, remote, tx_buffer, tx, rx_buffer>>
udpVars == <<object, open, inbox>>

-----------------------------------------------------------------------------
Init ==
  /\ udp_server = NoSocket
  /\ multicast_ip = AnyIp
  /\ listening = FALSE
  /\ remote = Nobody
  /\ tx_buffer = FALSE
  /\ tx = <<>>
  /\ rx_buffer = NoPacket
  /\ open = {}
  /\ inbox = <<>>

(* tal_net_close(udp_server), when there is one. *)
Closed(socks) == socks \ {udp_server}

(* Mutant of Stopped: the socket is forgotten, not closed. *)
StoppedUnclosed ==
  /\ tx_buffer' = FALSE
  /\ tx' = <<>>
  /\ rx_buffer' = NoPacket
  /\ inbox' = <<>>
  /\ udp_server' = NoSocket
  /\ open' = open
  /\ UNCHANGED multicast_ip

(* What stop() leaves; leaving the group (line 116) happens only for       *)
(* 0.0.0.0, which no group is.                                             *)
Stopped ==
  /\ tx_buffer' = FALSE
  /\ tx' = <<>>
  /\ rx_buffer' = NoPacket
  /\ inbox' = <<>>
  /\ udp_server' = NoSocket
  /\ open' = Closed(open)
  /\ UNCHANGED multicast_ip

Stop == Stopped /\ UNCHANGED <<listening, remote>>

(* What a socket freshly created is: known to the stack and to the object. *)
NewSocket(socks) ==
  \E fd \in Fd \ socks :
    /\ udp_server' = fd
    /\ open' = socks \cup {fd}

(* begin(): ends an earlier session whatever happens next; TRUE when the   *)
(* socket is there and bound.                                              *)
BeginSucceeds ==
  /\ listening' = TRUE
  /\ NewSocket(Closed(open))
  /\ tx_buffer' = TRUE
  /\ tx' = <<>>
  /\ rx_buffer' = NoPacket
  /\ inbox' = <<>>
  /\ UNCHANGED remote

(* The send buffer, the option, the address, the group or the socket is    *)
(* refused, at the lines given.                                            *)
BeginFails ==
  /\ listening' = TRUE
  /\ \/ Stopped                                    (* 54, 65, 72 and 91 *)
     \/ /\ tx_buffer' = TRUE                       (* 59                *)
        /\ tx' = <<>>
        /\ rx_buffer' = NoPacket
        /\ inbox' = <<>>
        /\ udp_server' = NoSocket
        /\ open' = Closed(open)
        /\ UNCHANGED multicast_ip
  /\ UNCHANGED remote

Begin == (BeginSucceeds /\ UNCHANGED multicast_ip) \/ BeginFails

(* beginMulticast(a): `!a' holds of 0.0.0.0 only, so that is the one       *)
(* address whose membership is asked for.                                  *)
BeginMulticast(a) ==
  \/ BeginFails
  \/ BeginSucceeds /\ multicast_ip' = IF a = AnyIp THEN a ELSE multicast_ip

(* Mutant of BeginPacketTo: the buffer is left for write() to make. *)
BeginPacketBare(peer, ok) ==
  /\ remote' = peer
  /\ ok /\ peer # Nobody
  /\ tx' = <<>>
  /\ IF udp_server = NoSocket THEN NewSocket(open)
     ELSE UNCHANGED <<udp_server, open>>
  /\ UNCHANGED <<multicast_ip, listening, tx_buffer, rx_buffer, inbox>>

(* Mutant of BeginPacketTo: tx_buffer_len is not reset. *)
BeginPacketStale(peer, ok) ==
  /\ remote' = peer
  /\ ok /\ peer # Nobody
  /\ tx_buffer' = TRUE
  /\ IF udp_server = NoSocket THEN NewSocket(open)
     ELSE UNCHANGED <<udp_server, open>>
  /\ UNCHANGED <<multicast_ip, listening, tx, rx_buffer, inbox>>

(* beginPacket(): a buffer and a socket are made if they are missing.      *)
(* `ok' is what it returns.                                                *)
BeginPacketTo(peer, ok) ==
  /\ remote' = peer
  /\ UNCHANGED <<multicast_ip, listening, rx_buffer>>
  /\ \/ /\ ~ ok                                          (* no port      *)
        /\ peer = Nobody
        /\ UNCHANGED <<udp_server, tx_buffer, tx, open, inbox>>
     \/ /\ ~ ok                                          (* no memory    *)
        /\ peer # Nobody /\ ~ tx_buffer
        /\ UNCHANGED <<udp_server, tx_buffer, tx, open, inbox>>
     \/ /\ ~ ok                                          (* no socket    *)
        /\ peer # Nobody /\ udp_server = NoSocket
        /\ tx_buffer' = TRUE /\ tx' = <<>>
        /\ UNCHANGED <<udp_server, open, inbox>>
     \/ /\ ok
        /\ peer # Nobody
        /\ tx_buffer' = TRUE /\ tx' = <<>>
        /\ UNCHANGED inbox
        /\ IF udp_server = NoSocket
           THEN NewSocket(open)
           ELSE UNCHANGED <<udp_server, open>>

(* beginMulticastPacket(): to the group, if one was joined.                *)
BeginMulticastPacket(ok) ==
  IF ~ listening \/ multicast_ip = AnyIp
  THEN ~ ok /\ UNCHANGED udpVars
  ELSE BeginPacketTo(multicast_ip, ok)

(* tal_net_send_to(): the packet that leaves, or nothing when it fails.    *)
CanSend == udp_server # NoSocket

Packet == [to |-> remote, data |-> tx]

(* endPacket() changes nothing of the object: tx_buffer_len is kept until  *)
(* the next beginPacket().  What it sends is for the caller to record.     *)
EndPacket(sent) ==
  /\ sent => CanSend
  /\ UNCHANGED udpVars

(* Is there room for a byte, or must the packet be sent first (line 189)?  *)
Room == Len(tx) < PacketSize

(* write(b).  `flushed' says that a full packet was handed to the stack;   *)
(* whether that succeeded is not looked at.                                *)
Write(b, flushed) ==
  /\ tx_buffer
  /\ flushed = ~ Room
  /\ tx' = IF flushed THEN <<b>> ELSE Append(tx, b)
  /\ UNCHANGED <<udp_server, multicast_ip, listening, remote, tx_buffer,
                 rx_buffer, open, inbox>>

(* tal_net_recvfrom() fills a buffer of PacketSize bytes at most.          *)
Received(d) ==
  SubSeq(d.data, 1, IF Len(d.data) < PacketSize THEN Len(d.data) ELSE PacketSize)

(* Mutant of Kept: an empty datagram gets a buffer too. *)
KeptAlways(bytes) == bytes

(* What becomes of rx_buffer: an empty buffer is never kept.               *)
Kept(bytes) == IF bytes = <<>> THEN NoPacket ELSE bytes

(* Mutant of ParsePacket: a sender is recorded once and for all. *)
ParsePacketFirstSender(len) ==
  \/ len = 0 /\ UNCHANGED udpVars
  \/ /\ rx_buffer = NoPacket /\ inbox # <<>>
     /\ len = Len(Received(Head(inbox)))
     /\ rx_buffer' = Kept(Received(Head(inbox)))
     /\ remote' = IF remote = Nobody THEN Head(inbox).from ELSE remote
     /\ inbox' = Tail(inbox)
     /\ UNCHANGED <<udp_server, multicast_ip, listening, tx_buffer, tx, open>>

(* parsePacket(): nothing while a packet is unread, when memory is short   *)
(* or when nothing has arrived; else the oldest datagram.                  *)
ParsePacket(len) ==
  \/ len = 0 /\ UNCHANGED udpVars
  \/ /\ rx_buffer = NoPacket
     /\ udp_server # NoSocket
     /\ inbox # <<>>
     /\ LET d == Head(inbox) IN
          /\ len = Len(Received(d))
          /\ rx_buffer' = Kept(Received(d))
          /\ remote' = d.from
          /\ inbox' = Tail(inbox)
     /\ UNCHANGED <<udp_server, multicast_ip, listening, tx_buffer, tx, open>>

(* read() and read(buffer, n): what the caller gets; a drained buffer is   *)
(* released.                                                               *)
Available == IF rx_buffer = NoPacket THEN 0 ELSE Len(rx_buffer)

Taken(n) ==
  IF rx_buffer = NoPacket THEN <<>>
  ELSE SubSeq(rx_buffer, 1, IF n < Available THEN n ELSE Available)

Read(n) ==
  /\ rx_buffer' =
       IF rx_buffer = NoPacket THEN NoPacket
       ELSE Kept(SubSeq(rx_buffer, Len(Taken(n)) + 1, Available))
  /\ UNCHANGED <<udp_server, multicast_ip, listening, remote, tx_buffer, tx,
                 open, inbox>>

Flush ==
  /\ rx_buffer' = NoPacket
  /\ UNCHANGED <<udp_server, multicast_ip, listening, remote, tx_buffer, tx,
                 open, inbox>>

-----------------------------------------------------------------------------
(* The network stack queues a datagram on the socket. *)
Arrive(d) ==
  /\ udp_server # NoSocket
  /\ Len(inbox) < MaxInbox
  /\ inbox' = Append(inbox, d)
  /\ UNCHANGED <<object, open>>

(* Any calls, in any order: a client writes only into a packet begun. *)
Next ==
  \/ Stop \/ Begin \/ Flush
  \/ \E a \in Group \cup {AnyIp} : BeginMulticast(a)
  \/ \E ok \in BOOLEAN : BeginMulticastPacket(ok)
  \/ \E p \in Peer \cup {remote}, ok \in BOOLEAN : BeginPacketTo(p, ok)
  \/ \E sent \in BOOLEAN : EndPacket(sent)
  \/ \E b \in Byte, flushed \in BOOLEAN : Write(b, flushed)
  \/ \E n \in 0 .. PacketSize : ParsePacket(n)
  \/ \E n \in 0 .. PacketSize : Read(n)
  \/ \E d \in Datagram : Arrive(d)

Spec == Init /\ [][Next]_udpVars

-----------------------------------------------------------------------------
TypeOK ==
  /\ udp_server \in Fd \cup {NoSocket}
  /\ multicast_ip \in Group \cup {AnyIp}
  /\ listening \in BOOLEAN
  /\ remote \in Peer \cup Group \cup {Nobody}
  /\ tx_buffer \in BOOLEAN
  /\ tx \in Seq(Byte)
  /\ Len(tx) <= PacketSize
  /\ rx_buffer \in Seq(Byte) \cup {NoPacket}
  /\ open \subseteq Fd
  /\ inbox \in Seq(Datagram)

(* No path through begin(), stop() and beginPacket(), failing or not,      *)
(* loses track of a socket: the stack has open exactly the one the object  *)
(* knows, and none once the object says it has none.                       *)
NoSocketLost == open = {udp_server} \ {NoSocket}

(* Whoever has a socket has a send buffer: endPacket() and write() use     *)
(* tx_buffer without looking, relying on begin() to allocate it before the *)
(* socket, and on stop() to give up both.                                  *)
SocketHasSendBuffer == udp_server # NoSocket => tx_buffer

(* An rx_buffer that is there has something in it: parsePacket() returns   *)
(* at once while there is one, so an empty one would end reception.        *)
NoEmptyPacket == rx_buffer # <<>>

=============================================================================
