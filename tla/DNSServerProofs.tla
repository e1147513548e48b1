--------------------------- MODULE DNSServerProofs ---------------------------
(***************************************************************************)
(* RepliesMatchRequest, NothingLeftBehind, the types, and that the server  *)
(* is a client of the WiFiUDP object, for every set of messages, names and *)
(* senders and any number of datagrams.                                    *)
(*                                                                         *)
(* No invariant is inductive.  A reply is made in three calls on the       *)
(* WiFiUDP object after the request was read, so it must be known at every *)
(* place of processNextRequest() what the object, _buf, _DnsHeader and     *)
(* _DnsQuestion hold of the request (Serving); that there is a buffer to   *)
(* write to rests on the socket the request came from (Socket); and that a *)
(* reply ends with its last part on what is written of it being its        *)
(* beginning (Written).                                                    *)
(***************************************************************************)
EXTENDS DNSServer, SequenceTheorems, TLAPS

Request == [from : Peer, msg : Message \cup {Short}]

(* Requests are served from a socket, and a socket has a send buffer. *)
Socket ==
  /\ udp_server # NoSocket => tx_buffer = TRUE
  /\ pc # "idle" => udp_server # NoSocket

(* The request is still in the WiFiUDP object. *)
Unread ==
  /\ asked \in Request
  /\ remote = asked.from
  /\ rx_buffer = <<asked.msg>>

(* The request has been read, and is to be answered. *)
Answering ==
  /\ asked \in Request
  /\ remote = asked.from
  /\ rx_buffer = NoPacket
  /\ reply = "ip" => question = header.name
  /\ asked.msg # Short => header = asked.msg /\ ~ asked.msg.response

(* The reply that was sent, if one was. *)
Answered ==
  answer # None =>
    /\ answer.to = asked.from
    /\ asked.msg # Short =>
         /\ answer.id = asked.msg.id
         /\ ~ asked.msg.response
         /\ answer.kind = "ip" => answer.name = asked.msg.name

Serving ==
  /\ pc \in {"idle", "alloc", "read", "begin", "write", "end", "free"}
  /\ pc \in {"alloc", "read"} => Unread
  /\ pc \in {"begin", "write", "end"} => Answering
  /\ pc \in {"write", "end"} => tx_buffer
  /\ pc = "free" => rx_buffer = NoPacket
  /\ pc = "idle" => buf = None /\ (rx_buffer = NoPacket \/ starved)
  /\ pc # "free" => answer = None
  /\ Answered

DnsInv == inbox \in Seq(Datagram) /\ Socket /\ Serving

-----------------------------------------------------------------------------
(* A sequence of one, taken whole and past its end. *)
LEMMA OneOfOne ==
  ASSUME NEW m
  PROVE  SubSeq(<<m>>, 1, 1) = <<m>> /\ SubSeq(<<m>>, 2, 1) = <<>>
<1>1. <<m>> \in Seq({m}) /\ Len(<<m>>) = 1 /\ <<m>>[1] = m
  OBVIOUS
<1>2. /\ SubSeq(<<m>>, 1, 1) \in Seq({m})
      /\ Len(SubSeq(<<m>>, 1, 1)) = 1
      /\ SubSeq(<<m>>, 1, 1)[1] = m
  BY <1>1, SubSeqProperties
<1>3. SubSeq(<<m>>, 1, 1) = <<m>>
  <2> DEFINE s == SubSeq(<<m>>, 1, 1)
             t == <<m>>
  <2>1. s \in Seq({m}) /\ t \in Seq({m}) /\ Len(s) = Len(t)
    BY <1>1, <1>2
  <2>2. \A i \in 1 .. Len(s) : s[i] = t[i]
    BY <1>1, <1>2
  <2> HIDE DEF s, t
  <2>3. s = t
    BY <2>1, <2>2, SeqEqual
  <2> QED BY <2>3 DEF s, t
<1> QED BY <1>1, <1>3, SubSeqEmpty

(* What arrives is a request or empty; the buffer of parsePacket() holds   *)
(* the whole of it.                                                        *)
LEMMA OneMessage ==
  ASSUME NEW d \in Datagram
  PROVE  /\ d.from \in Peer
         /\ \/ d.data = <<>> /\ Udp!Received(d) = <<>>
            \/ /\ Udp!Received(d) = <<d.data[1]>>
               /\ d.data[1] \in Message \cup {Short}
<1>1. d.from \in Peer
  BY DEF Datagram
<1>2. CASE d.data = <<>>
  <2>1. Len(d.data) = 0 /\ PacketSize \in Nat \ {0}
    BY <1>2, DNSAssumption
  <2>2. Udp!Received(d) = SubSeq(<<>>, 1, 0)
    BY <1>2, <2>1 DEF Udp!Received
  <2> QED BY <1>1, <1>2, <2>2, SubSeqEmpty
<1>3. ASSUME NEW m \in Message \cup {Short}, d.data = <<m>>
      PROVE  Udp!Received(d) = <<d.data[1]>> /\ d.data[1] \in Message \cup {Short}
  <2>1. Len(d.data) = 1 /\ PacketSize \in Nat \ {0} /\ d.data[1] = m
    BY <1>3, DNSAssumption
  <2>2. (IF Len(d.data) < PacketSize THEN Len(d.data) ELSE PacketSize) = 1
    BY <2>1
  <2>3. Udp!Received(d) = SubSeq(<<m>>, 1, 1)
    BY <1>3, <2>2 DEF Udp!Received
  <2>4. SubSeq(<<m>>, 1, 1) = <<m>>
    BY OneOfOne
  <2> QED BY <2>1, <2>3, <2>4
<1>4. d.data \in {<<>>} \cup {<<m>> : m \in Message \cup {Short}}
  BY DEF Datagram
<1> QED BY <1>1, <1>2, <1>3, <1>4

(* Reading a packet of one message leaves nothing of it. *)
LEMMA ReadsAll ==
  ASSUME NEW m \in Message \cup {Short}, rx_buffer = <<m>>, Udp!Read(PacketSize)
  PROVE  Udp!Taken(PacketSize)[1] = m /\ rx_buffer' = NoPacket
<1>1. <<m>> \in Seq(Byte)
  BY DEF Byte
<1>2. rx_buffer # NoPacket /\ PacketSize \in Nat \ {0}
  BY <1>1, DNSAssumption
<1>3. Udp!Available = 1
  BY <1>2 DEF Udp!Available
<1>4. (IF PacketSize < Udp!Available THEN PacketSize ELSE Udp!Available) = 1
  BY <1>2, <1>3
<1>5. Udp!Taken(PacketSize) = SubSeq(<<m>>, 1, 1)
  BY <1>2, <1>4 DEF Udp!Taken
<1>6. SubSeq(<<m>>, 1, 1) = <<m>> /\ SubSeq(<<m>>, 2, 1) = <<>>
  BY OneOfOne
<1>7. Len(Udp!Taken(PacketSize)) + 1 = 2
  BY <1>5, <1>6
<1>8. rx_buffer' = Udp!Kept(SubSeq(<<m>>, 2, 1))
  BY <1>2, <1>3, <1>7 DEF Udp!Read
<1> QED BY <1>5, <1>6, <1>8 DEF Udp!Kept

(* Whatever fails in begin(), what was being received is gone and whoever  *)
(* has a socket has a buffer.                                              *)
LEMMA BeginLeaves ==
  ASSUME Udp!Begin
  PROVE  /\ udp_server' # NoSocket => tx_buffer' = TRUE
         /\ rx_buffer' = NoPacket /\ inbox' = <<>>
BY DEF Udp!Begin, Udp!BeginSucceeds, Udp!BeginFails, Udp!Stopped

-----------------------------------------------------------------------------
LEMMA DnsInit == Init => DnsInv
BY DEF Init, DnsInv, Udp!Init, Socket, Serving, Answered

(* Calls of the sketch between requests. *)
LEMMA DnsStartStop ==
  ASSUME DnsInv, Stop \/ \E name \in Name \cup {Star} : Start(name)
  PROVE  DnsInv'
<1>1. /\ pc = "idle" /\ UNCHANGED <<pc, asked, answer>> /\ buf' = None
      /\ udp_server' # NoSocket => tx_buffer' = TRUE
      /\ rx_buffer' = NoPacket /\ inbox' = <<>>
  BY BeginLeaves DEF Start, Stop, Udp!Stop, Udp!Stopped, history
<1> QED BY <1>1 DEF DnsInv, Socket, Serving, Answered

LEMMA DnsParse == ASSUME DnsInv, Parse PROVE DnsInv'
<1>1. PICK len \in 0 .. PacketSize :
        /\ Udp!ParsePacket(len)
        /\ Goto("idle", IF len = 0 THEN "idle" ELSE "alloc")
        /\ asked' = IF len = 0 THEN asked
                    ELSE [from |-> Head(inbox).from, msg |-> Head(inbox).data[1]]
        /\ UNCHANGED <<domain, request, starved, arrivals, answer>>
  BY DEF Parse
<1>2. /\ pc = "idle" /\ answer' = None /\ answer = None
      /\ UNCHANGED <<buf, starved>> /\ buf = None
  BY <1>1 DEF Goto, DnsInv, Serving, request
<1>3. CASE len = 0 /\ UNCHANGED Udp!udpVars
  <2>1. UNCHANGED <<udp_server, tx_buffer, rx_buffer, inbox, pc>>
    BY <1>1, <1>2, <1>3 DEF Udp!udpVars, Udp!object, Goto
  <2> QED BY <1>2, <2>1 DEF DnsInv, Socket, Serving, Answered
<1>4. CASE ~ (len = 0 /\ UNCHANGED Udp!udpVars)
  <2> DEFINE d == Head(inbox)
  <2>1. /\ udp_server # NoSocket /\ inbox # <<>>
        /\ len = Len(Udp!Received(d))
        /\ rx_buffer' = Udp!Kept(Udp!Received(d))
        /\ remote' = d.from /\ inbox' = Tail(inbox)
        /\ UNCHANGED <<udp_server, tx_buffer>>
    BY <1>1, <1>4 DEF Udp!ParsePacket
  <2>2. d \in Datagram /\ inbox' \in Seq(Datagram)
    BY <2>1 DEF DnsInv
  <2> HIDE DEF d
  <2>3. CASE Udp!Received(d) = <<>>
    <3>1. len = 0 /\ rx_buffer' = NoPacket /\ pc' = "idle"
      BY <1>1, <2>1, <2>3 DEF Udp!Kept, Goto
    <3> QED BY <1>2, <2>1, <2>2, <3>1 DEF DnsInv, Socket, Serving, Answered
  <2>4. CASE Udp!Received(d) = <<d.data[1]>> /\ d.data[1] \in Message \cup {Short}
    <3>1. len = 1 /\ pc' = "alloc"
      BY <1>1, <2>1, <2>4 DEF Goto
    <3>2. rx_buffer' = <<d.data[1]>>
      BY <2>1, <2>4 DEF Udp!Kept
    <3>3. asked' = [from |-> d.from, msg |-> d.data[1]] /\ d.from \in Peer
      BY <1>1, <2>2, <3>1, OneMessage DEF d
    <3>4. Unread'
      BY <2>1, <2>4, <3>2, <3>3 DEF Unread, Request
    <3> QED BY <1>2, <2>1, <2>2, <3>1, <3>4 DEF DnsInv, Socket, Serving, Answered
  <2> QED BY <2>2, <2>3, <2>4, OneMessage
<1> QED BY <1>3, <1>4

LEMMA DnsAlloc == ASSUME DnsInv, Alloc PROVE DnsInv'
<1>1. /\ pc = "alloc" /\ buf' = None
      /\ UNCHANGED <<udp_server, tx_buffer, rx_buffer, inbox, remote>>
  BY DEF Alloc, udpVars
<1>2. CASE pc' = "read" /\ UNCHANGED <<asked, answer>>
  BY <1>1, <1>2 DEF DnsInv, Socket, Serving, Answered, Unread
<1>3. CASE pc' = "idle" /\ starved' = TRUE /\ answer' = None
  BY <1>1, <1>3 DEF DnsInv, Socket, Serving, Answered
<1> QED BY <1>2, <1>3 DEF Alloc

LEMMA DnsRead == ASSUME DnsInv, ReadRequest PROVE DnsInv'
<1>1. /\ pc = "read" /\ Unread /\ answer = None
      /\ UNCHANGED <<udp_server, tx_buffer, inbox, remote, asked, answer>>
  BY DEF ReadRequest, Udp!Read, DnsInv, Serving, history
<1>2. asked.msg \in Message \cup {Short}
  BY <1>1 DEF Unread, Request
<1>3. buf' = asked.msg /\ rx_buffer' = NoPacket
  BY <1>1, <1>2, ReadsAll DEF ReadRequest, Unread
<1>4. PICK m \in Seen(asked.msg) :
        /\ header' = m
        /\ question' = IF m.plain THEN m.name ELSE question
        /\ reply' = Decision(m)
  BY <1>3 DEF ReadRequest
<1>5. asked.msg # Short => m = asked.msg
  BY <1>4 DEF Seen
<1>6. reply' = "ip" => question' = header'.name
  BY <1>4 DEF Decision
<1>7. CASE reply' = "none"
  BY <1>1, <1>3, <1>7 DEF ReadRequest, DnsInv, Socket, Serving, Answered
<1>8. CASE reply' # "none"
  <2>1. ~ m.response
    BY <1>4, <1>8 DEF Decision
  <2>2. Answering'
    BY <1>1, <1>3, <1>4, <1>5, <1>6, <2>1 DEF Answering, Unread
  <2>3. pc' = "begin"
    BY <1>8 DEF ReadRequest
  <2> QED BY <1>1, <2>2, <2>3 DEF DnsInv, Socket, Serving, Answered
<1> QED BY <1>7, <1>8

(* A known sender and a socket with its buffer: beginPacket() cannot fail. *)
LEMMA DnsBeginReply == ASSUME DnsInv, BeginReply PROVE DnsInv'
<1>1. /\ pc = "begin" /\ pc' = "write" /\ Answering /\ answer = None
      /\ udp_server # NoSocket /\ tx_buffer = TRUE
      /\ UNCHANGED <<request, asked, answer>>
  BY DEF BeginReply, Goto, DnsInv, Serving, Socket, history
<1>2. remote # Nobody
  BY <1>1, DNSAssumption DEF Answering, Request
<1>3. PICK ok \in BOOLEAN : Udp!BeginPacketTo(remote, ok)
  BY DEF BeginReply
<1>4. /\ tx_buffer' = TRUE
      /\ UNCHANGED <<udp_server, remote, rx_buffer, inbox>>
  BY <1>1, <1>2, <1>3 DEF Udp!BeginPacketTo
<1> QED
  BY <1>1, <1>4 DEF DnsInv, Socket, Serving, Answered, Answering, request

LEMMA DnsWriteReply == ASSUME DnsInv, WriteReply PROVE DnsInv'
<1>1. /\ pc = "write" /\ pc' \in {"write", "end"} /\ Answering /\ answer = None
      /\ UNCHANGED <<request, asked, answer>>
      /\ UNCHANGED <<udp_server, tx_buffer, remote, rx_buffer, inbox>>
  BY DEF WriteReply, Udp!Write, DnsInv, Serving, history
<1> QED
  BY <1>1 DEF DnsInv, Socket, Serving, Answered, Answering, request

LEMMA DnsEndReply == ASSUME DnsInv, EndReply PROVE DnsInv'
<1>1. /\ pc = "end" /\ pc' = "free" /\ Answering
      /\ UNCHANGED <<request, asked>>
      /\ UNCHANGED <<udp_server, tx_buffer, remote, rx_buffer, inbox>>
  BY DEF EndReply, Goto, Udp!EndPacket, Udp!udpVars, Udp!object, DnsInv, Serving
<1>2. \/ answer' = None
      \/ answer' = [to |-> remote, id |-> header.id, kind |-> reply,
                    name |-> question]
  BY DEF EndReply, Udp!Packet
<1>3. Answered'
  BY <1>1, <1>2 DEF Answered, Answering
<1> QED BY <1>1, <1>3 DEF DnsInv, Socket, Serving, Answering

LEMMA DnsRelease == ASSUME DnsInv, Release PROVE DnsInv'
<1>1. /\ pc = "free" /\ pc' = "idle" /\ buf' = None /\ answer' = None
      /\ rx_buffer = NoPacket
      /\ UNCHANGED <<udp_server, tx_buffer, rx_buffer, inbox>>
  BY DEF Release, Goto, udpVars, DnsInv, Serving
<1> QED BY <1>1 DEF DnsInv, Socket, Serving, Answered

LEMMA DnsArrive == ASSUME DnsInv, Arrive PROVE DnsInv'
<1>1. PICK d \in Datagram : Udp!Arrive(d)
  BY DEF Arrive
<1>2. inbox' \in Seq(Datagram)
  BY <1>1 DEF Udp!Arrive, DnsInv
<1>3. UNCHANGED <<pc, request, starved, asked, answer, udp_server, tx_buffer,
                  remote, rx_buffer>>
  BY <1>1 DEF Arrive, Udp!Arrive, Udp!object
<1> QED
  BY <1>2, <1>3 DEF DnsInv, Socket, Serving, Answered, Answering, Unread, request

LEMMA DnsIdle == ASSUME DnsInv, UNCHANGED vars PROVE DnsInv'
BY DEF DnsInv, Socket, Serving, Answered, Answering, Unread, vars, udpVars, request,
       history

LEMMA DnsNext == DnsInv /\ [Next]_vars => DnsInv'
BY DnsStartStop, DnsParse, DnsAlloc, DnsRead, DnsBeginReply, DnsWriteReply, DnsEndReply,
   DnsRelease, DnsArrive, DnsIdle
DEF Next, ProcessNextRequest

LEMMA DnsInvariant == Spec => []DnsInv
BY DnsInit, DnsNext, PTL DEF Spec

-----------------------------------------------------------------------------
(* replyWithIP() and replyWithCustomCode() answer whoever asked, under the *)
(* ID and with the question of this request, never a response, and always  *)
(* have a buffer to write to, though none of them asks whether             *)
(* beginPacket() worked.                                                   *)
THEOREM RepliesAreTheRequests == Spec => []RepliesMatchRequest
<1>1. DnsInv => RepliesMatchRequest
  BY DEF DnsInv, Serving, Answered, RepliesMatchRequest
<1> QED BY <1>1, DnsInvariant, PTL

(* Every way out of processNextRequest() frees the request's buffer, and   *)
(* leaves a packet unread only after memory ran out.                       *)
THEOREM LeavesNothingBehind == Spec => []NothingLeftBehind
<1>1. DnsInv => NothingLeftBehind
  BY DEF DnsInv, Serving, NothingLeftBehind
<1> QED BY <1>1, DnsInvariant, PTL

-----------------------------------------------------------------------------
(* What is written of a reply is the beginning of it, as far as the reply  *)
(* fits into a packet at all.                                              *)
Written ==
  pc = "write" => /\ Len(tx) < Len(Parts)
                  /\ 3 <= PacketSize => \A i \in 1 .. Len(tx) : tx[i] = Parts[i]

(* The types, but for those of the WiFiUDP object. *)
Typed ==
  /\ domain \in {Canonical(n) : n \in Name} \cup {Star, None}
  /\ buf \in Message \cup {Short, None}
  /\ header \in Message \cup {None}
  /\ pc \in {"begin", "write", "end"} => header \in Message /\ reply # "none"
  /\ question \in Name \cup {None}
  /\ reply \in {"ip", "code", "none"}
  /\ starved \in BOOLEAN
  /\ arrivals \in 0 .. MaxArrivals
  /\ asked \in Request \cup {None}
  /\ answer \in [to : Peer, id : Id, kind : {"ip", "code"}, name : Name \cup {None}]
               \cup {None}

TypeInv == DnsInv /\ Udp!TypeOK /\ Typed /\ Written

(* Whatever becomes of begin(), of the object and of a packet. *)
LEMMA BeginTypes ==
  ASSUME Udp!TypeOK, Udp!Begin \/ Udp!Stop
  PROVE  Udp!TypeOK'
<1>1. 0 <= PacketSize
  BY DNSAssumption
<1>2. tx' = <<>> /\ rx_buffer' = NoPacket /\ inbox' = <<>> /\ UNCHANGED <<multicast_ip, remote>>
  BY DEF Udp!Begin, Udp!BeginSucceeds, Udp!BeginFails, Udp!Stop, Udp!Stopped
<1>3. /\ udp_server' \in Fd \cup {NoSocket} /\ open' \subseteq Fd
      /\ listening' \in BOOLEAN /\ tx_buffer' \in BOOLEAN
  BY DEF Udp!TypeOK, Udp!Begin, Udp!BeginSucceeds, Udp!BeginFails, Udp!Stop, Udp!Stopped,
         Udp!NewSocket, Udp!Closed
<1>4. Len(tx') = 0 /\ tx' \in Seq(Byte) /\ inbox' \in Seq(Datagram)
  BY <1>2
<1> QED BY <1>1, <1>2, <1>3, <1>4 DEF Udp!TypeOK

LEMMA BeginPacketTypes ==
  ASSUME Udp!TypeOK, NEW ok \in BOOLEAN, Udp!BeginPacketTo(remote, ok)
  PROVE  Udp!TypeOK'
<1>1. 0 <= PacketSize
  BY DNSAssumption
<1>2. /\ UNCHANGED <<remote, multicast_ip, listening, rx_buffer, inbox>>
      /\ tx_buffer' \in {tx_buffer, TRUE} /\ tx' \in {tx, <<>>}
      /\ udp_server' \in Fd \cup {udp_server} /\ open' \subseteq Fd \cup open
  BY DEF Udp!BeginPacketTo, Udp!NewSocket
<1>3. tx' \in Seq(Byte) /\ Len(tx') <= PacketSize
  <2>1. CASE tx' = <<>>
    BY <1>1, <2>1
  <2> QED BY <1>2, <2>1 DEF Udp!TypeOK
<1> QED BY <1>2, <1>3 DEF Udp!TypeOK

LEMMA WriteTypes ==
  ASSUME Udp!TypeOK, NEW b \in Byte, NEW flushed \in BOOLEAN, Udp!Write(b, flushed)
  PROVE  Udp!TypeOK'
<1>1. PacketSize \in Nat \ {0}
  BY DNSAssumption
<1>2. tx \in Seq(Byte) /\ Len(tx) \in Nat /\ Len(tx) <= PacketSize
  BY DEF Udp!TypeOK
<1>3. tx' \in Seq(Byte) /\ Len(tx') <= PacketSize
  <2>1. CASE tx' = <<b>>
    BY <1>1, <2>1
  <2>2. CASE Len(tx) < PacketSize /\ tx' = Append(tx, b)
    <3>1. Len(tx') = Len(tx) + 1 /\ tx' \in Seq(Byte)
      BY <1>2, <2>2
    <3> QED BY <1>1, <1>2, <2>2, <3>1
  <2> QED BY <2>1, <2>2 DEF Udp!Write, Udp!Room
<1> QED BY <1>3 DEF Udp!TypeOK, Udp!Write

LEMMA ParseTypes ==
  ASSUME Udp!TypeOK, NEW len \in 0 .. PacketSize, Udp!ParsePacket(len)
  PROVE  Udp!TypeOK'
<1>1. CASE UNCHANGED Udp!udpVars
  BY <1>1 DEF Udp!udpVars, Udp!object, Udp!TypeOK
<1>2. CASE ~ UNCHANGED Udp!udpVars
  <2> DEFINE d == Head(inbox)
  <2>1. /\ inbox # <<>> /\ rx_buffer' = Udp!Kept(Udp!Received(d)) /\ remote' = d.from
        /\ inbox' = Tail(inbox)
        /\ UNCHANGED <<udp_server, multicast_ip, listening, tx_buffer, tx, open>>
    BY <1>2 DEF Udp!ParsePacket
  <2>2. d \in Datagram /\ inbox' \in Seq(Datagram)
    BY <2>1 DEF Udp!TypeOK
  <2> HIDE DEF d
  <2>3. d.from \in Peer /\ Udp!Received(d) \in Seq(Byte)
    <3>1. CASE Udp!Received(d) = <<>>
      BY <2>2, <3>1, OneMessage
    <3>2. CASE Udp!Received(d) = <<d.data[1]>> /\ d.data[1] \in Byte
      BY <2>2, <3>2, OneMessage
    <3> QED BY <2>2, <3>1, <3>2, OneMessage DEF Byte
  <2>4. rx_buffer' \in Seq(Byte) \cup {NoPacket}
    BY <2>1, <2>3 DEF Udp!Kept
  <2> QED BY <2>1, <2>2, <2>3, <2>4 DEF Udp!TypeOK
<1> QED BY <1>1, <1>2

LEMMA PartsAre ==
  Parts \in Seq({HeaderPart, QuestionPart, AnswerPart}) /\ Len(Parts) \in {1, 3}
<1>1. CASE reply = "ip"
  <2>1. Parts = <<HeaderPart, QuestionPart, AnswerPart>>
    BY <1>1 DEF Parts
  <2> QED BY <2>1
<1>2. CASE reply # "ip"
  <2>1. Parts = <<HeaderPart>>
    BY <1>2 DEF Parts
  <2> QED BY <2>1
<1> QED BY <1>1, <1>2

(* As much of a reply is written as fits. *)
LEMMA WrittenStep ==
  ASSUME TypeInv, WriteReply
  PROVE  Udp!TypeOK' /\ Written'
<1>1. /\ pc = "write" /\ Len(tx) < Len(Parts)
      /\ 3 <= PacketSize => \A i \in 1 .. Len(tx) : tx[i] = Parts[i]
      /\ tx \in Seq(Byte) /\ Len(tx) \in Nat /\ Len(tx) <= PacketSize /\ UNCHANGED reply
  BY DEF WriteReply, TypeInv, Written, Udp!TypeOK, request
<1>2. PacketSize \in Nat \ {0}
  BY DNSAssumption
<1>3. /\ Parts \in Seq({HeaderPart, QuestionPart, AnswerPart})
      /\ Len(Parts) \in {1, 3}
  BY PartsAre
<1>4. Parts' = Parts
  BY <1>1 DEF Parts
<1> DEFINE b == Parts[Len(tx) + 1]
<1>5. PICK flushed \in BOOLEAN : Udp!Write(b, flushed)
  BY DEF WriteReply
<1>6. b \in Byte
  BY <1>1, <1>3 DEF Byte
<1>7. Udp!TypeOK'
  BY <1>5, <1>6, WriteTypes DEF TypeInv
<1>8. ASSUME pc' = "write"
      PROVE  /\ Len(tx') < Len(Parts)
             /\ 3 <= PacketSize => \A i \in 1 .. Len(tx') : tx'[i] = Parts[i]
  <2>1. tx' # Parts
    BY <1>8 DEF WriteReply
  <2>2. CASE ~ (Len(tx) < PacketSize) /\ tx' = <<b>>
    <3>1. Len(tx') = 1 /\ Len(tx) = PacketSize
      BY <1>1, <1>2, <2>2
    <3> QED BY <1>1, <1>2, <1>3, <3>1
  <2>3. CASE Len(tx) < PacketSize /\ tx' = Append(tx, b)
    <3>1. /\ Len(tx') = Len(tx) + 1 /\ tx' \in Seq(Byte)
          /\ \A i \in 1 .. Len(tx) : tx'[i] = tx[i]
          /\ tx'[Len(tx) + 1] = b
      BY <1>1, <1>6, <2>3
    <3>2. 3 <= PacketSize => \A i \in 1 .. Len(tx') : tx'[i] = Parts[i]
      BY <1>1, <3>1
    <3>3. Len(tx') # Len(Parts)
      <4>1. SUFFICES ASSUME Len(tx') = Len(Parts) PROVE FALSE
        OBVIOUS
      <4>2. \A i \in 1 .. Len(tx') : tx'[i] = Parts[i]
        <5>1. CASE Len(Parts) = 1
          BY <1>1, <3>1, <4>1, <5>1
        <5>2. CASE Len(Parts) = 3
          BY <1>1, <1>2, <2>3, <3>1, <3>2, <4>1, <5>2
        <5> QED BY <1>3, <5>1, <5>2
      <4>3. Parts \in Seq(Byte)
        BY <1>3 DEF Byte
      <4> HIDE DEF b
      <4>4. tx' = Parts
        BY <3>1, <4>1, <4>2, <4>3, SeqEqual
      <4> QED BY <2>1, <4>4
    <3> QED BY <1>1, <1>3, <3>1, <3>2, <3>3
  <2> QED BY <1>5, <2>2, <2>3 DEF Udp!Write, Udp!Room
<1> QED BY <1>4, <1>7, <1>8 DEF Written

LEMMA TypeInit == Init => TypeInv
<1> SUFFICES ASSUME Init PROVE TypeInv
  OBVIOUS
<1>1. PacketSize \in Nat /\ MaxArrivals \in Nat
  BY DNSAssumption
<1>2. DnsInv
  BY DnsInit
<1>3. Udp!TypeOK
  <2>1. Len(tx) = 0 /\ tx \in Seq(Byte) /\ inbox \in Seq(Datagram)
    BY DEF Init, Udp!Init
  <2>2. /\ udp_server = NoSocket /\ multicast_ip = AnyIp /\ listening = FALSE
        /\ remote = Nobody /\ tx_buffer = FALSE /\ rx_buffer = NoPacket /\ open = {}
    BY DEF Init, Udp!Init
  <2>3. listening \in BOOLEAN /\ tx_buffer \in BOOLEAN
    BY <2>2, Zenon
  <2> QED BY <1>1, <2>1, <2>2, <2>3 DEF Udp!TypeOK
<1>4. Typed /\ Written
  <2>1. /\ pc = "idle" /\ domain = None /\ buf = None /\ header = None /\ question = None
        /\ reply = "none" /\ arrivals = 0 /\ asked = None /\ answer = None
    BY DEF Init
  <2>2. starved \in BOOLEAN
    BY DEF Init
  <2> QED BY <1>1, <2>1, <2>2 DEF Typed, Written
<1> QED BY <1>2, <1>3, <1>4 DEF TypeInv

LEMMA TypeStep == TypeInv /\ [Next]_vars => TypeInv'
<1> SUFFICES ASSUME TypeInv, [Next]_vars PROVE Udp!TypeOK' /\ Typed' /\ Written'
  BY DnsNext DEF TypeInv
<1> USE DEF TypeInv
<1>1. ASSUME NEW name \in Name \cup {Star}, Start(name)
      PROVE  Udp!TypeOK' /\ Typed' /\ Written'
  BY <1>1, BeginTypes DEF Start, history, Typed, Written
<1>2. CASE Stop
  BY <1>2, BeginTypes DEF Stop, history, Typed, Written
<1>3. CASE Parse
  <2>1. PICK len \in 0 .. PacketSize :
          /\ Udp!ParsePacket(len) /\ pc = "idle"
          /\ pc' = IF len = 0 THEN "idle" ELSE "alloc"
          /\ asked' = IF len = 0 THEN asked
                      ELSE [from |-> Head(inbox).from, msg |-> Head(inbox).data[1]]
          /\ UNCHANGED <<domain, request, starved, arrivals, answer>>
    BY <1>3 DEF Parse, Goto
  <2>2. asked' \in Request \cup {None}
    <3>1. DnsInv'
      BY <1>3, DnsParse
    <3>2. pc' = "alloc" => asked' \in Request
      BY <3>1 DEF DnsInv, Serving, Unread
    <3> QED BY <2>1, <3>2 DEF Typed
  <2> QED BY <2>1, <2>2, ParseTypes DEF request, Typed, Written
<1>4. CASE Alloc
  <2>1. /\ pc' \in {"read", "idle"} /\ buf' = None /\ starved' \in {starved, TRUE}
        /\ asked' \in {asked, None} /\ answer' \in {answer, None}
        /\ UNCHANGED <<udpVars, domain, header, question, reply, arrivals>>
    BY <1>4 DEF Alloc
  <2>2. Udp!TypeOK'
    BY <2>1 DEF udpVars, Udp!TypeOK
  <2> QED BY <2>1, <2>2, ZenonT(30) DEF Typed, Written
<1>5. CASE ReadRequest
  <2>1. pc = "read" /\ Unread /\ asked.msg \in Message \cup {Short}
    BY <1>5 DEF ReadRequest, DnsInv, Serving, Unread, Request
  <2>2. /\ buf' = asked.msg /\ rx_buffer' = NoPacket
        /\ UNCHANGED <<udp_server, multicast_ip, listening, remote, tx_buffer, tx, open, inbox>>
    BY <1>5, <2>1, ReadsAll DEF ReadRequest, Unread, Udp!Read
  <2>3. PICK m \in Seen(asked.msg) :
          /\ header' = m
          /\ question' = IF m.plain THEN m.name ELSE question
          /\ reply' = Decision(m)
    BY <1>5, <2>2 DEF ReadRequest
  <2>4. m \in Message /\ m.name \in Name
    BY <2>1, <2>3 DEF Seen, Message
  <2>5. reply' \in {"ip", "code", "none"}
    BY <2>3 DEF Decision
  <2>6. pc' = (IF reply' = "none" THEN "free" ELSE "begin")
        /\ UNCHANGED <<domain, starved, history>>
    BY <1>5 DEF ReadRequest
  <2>7. Typed'
    BY <2>1, <2>2, <2>3, <2>4, <2>5, <2>6 DEF Typed, history
  <2> QED BY <2>2, <2>6, <2>7 DEF Udp!TypeOK, Written
<1>6. CASE BeginReply
  <2>1. PICK ok \in BOOLEAN : Udp!BeginPacketTo(remote, ok)
    BY <1>6 DEF BeginReply
  <2>2. pc = "begin" /\ pc' = "write" /\ UNCHANGED <<domain, request, starved, history>>
    BY <1>6 DEF BeginReply, Goto
  <2>3. tx' = <<>>
    <3>1. remote # Nobody /\ udp_server # NoSocket /\ tx_buffer = TRUE
      BY <2>2, DNSAssumption DEF DnsInv, Serving, Socket, Answering, Request
    <3> QED BY <2>1, <3>1 DEF Udp!BeginPacketTo
  <2>4. Len(tx') = 0
    BY <2>3
  <2>5. Len(Parts') \in {1, 3}
    BY DEF Parts
  <2>6. Written'
    BY <2>4, <2>5 DEF Written
  <2> QED BY <2>1, <2>2, <2>6, BeginPacketTypes DEF Typed, request, history
<1>7. CASE WriteReply
  BY <1>7, WrittenStep DEF WriteReply, request, history, Typed
<1>8. CASE EndReply
  <2>1. /\ pc = "end" /\ pc' = "free" /\ UNCHANGED <<Udp!udpVars, domain, request, starved,
                                                    arrivals, asked>>
    BY <1>8 DEF EndReply, Goto, Udp!EndPacket
  <2>2. remote \in Peer /\ header \in Message /\ reply \in {"ip", "code"}
    BY <2>1 DEF DnsInv, Serving, Answering, Request, Typed
  <2>3. header.id \in Id
    BY <2>2 DEF Message
  <2>4. \/ answer' = None
        \/ answer' = [to |-> remote, id |-> header.id, kind |-> reply, name |-> question]
    BY <1>8 DEF EndReply, Udp!Packet
  <2>5. Typed'
    BY <2>1, <2>2, <2>3, <2>4 DEF Typed, request
  <2> QED BY <2>1, <2>5 DEF Udp!udpVars, Udp!object, Udp!TypeOK, Written
<1>9. CASE Release
  BY <1>9 DEF Release, Goto, udpVars, Udp!TypeOK, Typed, Written
<1>10. CASE Arrive
  <2>1. PICK d \in Datagram : Udp!Arrive(d)
    BY <1>10 DEF Arrive
  <2>2. Udp!TypeOK' /\ UNCHANGED tx
    BY <2>1 DEF Udp!Arrive, Udp!object, Udp!TypeOK
  <2>3. arrivals' \in 0 .. MaxArrivals
    BY <1>10, DNSAssumption DEF Arrive, Typed
  <2>4. UNCHANGED <<pc, domain, request, starved, asked, answer>>
    BY <1>10 DEF Arrive
  <2> QED BY <2>2, <2>3, <2>4 DEF request, Typed, Written, Parts
<1>11. CASE UNCHANGED vars
  BY <1>11 DEF vars, udpVars, request, history, Udp!TypeOK, Typed, Written, Parts
<1> QED
  BY <1>1, <1>2, <1>3, <1>4, <1>5, <1>6, <1>7, <1>8, <1>9, <1>10, <1>11
  DEF Next, ProcessNextRequest

(* The types hold, and no reply is written past its last part, for any     *)
(* requests and packet sizes (DNSServer::replyWithIP()).                   *)
THEOREM TypeOKAlways == Spec => []TypeOK
<1>1. TypeInv => TypeOK
  BY DEF TypeInv, DnsInv, Serving, Typed, Request, Written, TypeOK
<1> QED BY <1>1, TypeInit, TypeStep, PTL DEF Spec

-----------------------------------------------------------------------------
(* The server is a client of the WiFiUDP object as WiFiUdp allows any: it  *)
(* calls nothing else of it, writes only bytes of a packet begun, and asks *)
(* for no more than a packet.  So what WiFiUdpProofs shows of the object   *)
(* holds under this server too.                                            *)
THEOREM UsesTheObject == Spec => Udp!Spec
<1>1. Init => Udp!Init
  BY DEF Init
<1>2. TypeInv /\ [Next]_vars => [Udp!Next]_Udp!udpVars
  <2> SUFFICES ASSUME TypeInv, [Next]_vars
               PROVE  Udp!Next \/ UNCHANGED Udp!udpVars
    OBVIOUS
  <2>1. CASE UNCHANGED udpVars
    BY <2>1 DEF udpVars, Udp!udpVars, Udp!object
  <2>2. CASE Parse
    BY <2>2 DEF Parse, Udp!Next
  <2>3. CASE ReadRequest
    <3>1. PacketSize \in 0 .. PacketSize
      BY DNSAssumption
    <3> QED BY <2>3, <3>1 DEF ReadRequest, Udp!Next
  <2>4. CASE BeginReply
    BY <2>4 DEF BeginReply, Udp!Next
  <2>5. CASE WriteReply
    <3>1. PICK flushed \in BOOLEAN : Udp!Write(Parts[Len(tx) + 1], flushed)
      BY <2>5 DEF WriteReply
    <3>2. Parts[Len(tx) + 1] \in Byte
      BY <2>5, PartsAre DEF WriteReply, TypeInv, Written, Udp!TypeOK, Byte
    <3> QED BY <3>1, <3>2 DEF Udp!Next
  <2>6. CASE EndReply
    BY <2>6 DEF EndReply, Udp!EndPacket, Udp!Next
  <2>7. CASE Arrive
    BY <2>7 DEF Arrive, Udp!Next
  <2>8. CASE \E name \in Name \cup {Star} : Start(name)
    BY <2>8 DEF Start, Udp!Next
  <2>9. CASE Stop
    BY <2>9 DEF Stop, Udp!Next
  <2>10. CASE Alloc \/ Release \/ UNCHANGED vars
    BY <2>1, <2>10 DEF Alloc, Release, vars
  <2> QED
    BY <2>2, <2>3, <2>4, <2>5, <2>6, <2>7, <2>8, <2>9, <2>10 DEF Next, ProcessNextRequest
<1> QED BY <1>1, <1>2, TypeInit, TypeStep, PTL DEF Spec, Udp!Spec

(* What is proved of the object, for the messages of a DNS server. *)
Object == INSTANCE WiFiUdpProofs

LEMMA ObjectAssumption == Object!WiFiUdpAssumption
<1>1. \A m \in Message \cup {Short} : <<m>> \in Seq(Byte)
  BY DEF Byte
<1>2. Datagram \subseteq [from : Peer, data : Seq(Byte)]
  <2>1. <<>> \in Seq(Byte)
    OBVIOUS
  <2> QED BY <1>1, <2>1 DEF Datagram
<1> QED BY <1>2, DNSAssumption DEF Object!WiFiUdpAssumption

LEMMA SameObject ==
  /\ Udp!Init => Object!Init
  /\ [Udp!Next]_Udp!udpVars => [Object!Next]_Object!udpVars
<1>1. Udp!Init => Object!Init
  BY DEF Udp!Init, Object!Init
<1>2. [Udp!Next]_Udp!udpVars => [Object!Next]_Object!udpVars
  BY Zenon
  DEF Udp!Next, Object!Next, Udp!udpVars, Object!udpVars, Udp!object, Object!object,
      Udp!Stop, Object!Stop, Udp!Begin, Object!Begin, Udp!Flush, Object!Flush,
      Udp!BeginMulticast, Object!BeginMulticast, Udp!BeginMulticastPacket,
      Object!BeginMulticastPacket, Udp!BeginPacketTo, Object!BeginPacketTo,
      Udp!EndPacket, Object!EndPacket, Udp!Write, Object!Write, Udp!ParsePacket,
      Object!ParsePacket, Udp!Read, Object!Read, Udp!Arrive, Object!Arrive,
      Udp!Stopped, Object!Stopped, Udp!BeginSucceeds, Object!BeginSucceeds,
      Udp!BeginFails, Object!BeginFails, Udp!NewSocket, Object!NewSocket,
      Udp!Closed, Object!Closed, Udp!CanSend, Object!CanSend, Udp!Room, Object!Room,
      Udp!Received, Object!Received, Udp!Kept, Object!Kept, Udp!Taken, Object!Taken,
      Udp!Available, Object!Available
<1> QED BY <1>1, <1>2

(* Under this server the object loses no socket, has a buffer wherever it  *)
(* has a socket, and keeps no empty packet that would end reception.       *)
THEOREM ObjectIsSound ==
  Spec => [](Udp!NoSocketLost /\ Udp!SocketHasSendBuffer /\ Udp!NoEmptyPacket)
<1>1. Object!Spec => [](Object!NoSocketLost /\ Object!SocketHasSendBuffer /\ Object!NoEmptyPacket)
  BY ObjectAssumption, Object!SocketsAccountedFor, Object!BufferComesFirst, Object!NoDeadBuffer, PTL
<1>2. Object!NoSocketLost /\ Object!SocketHasSendBuffer /\ Object!NoEmptyPacket
        => Udp!NoSocketLost /\ Udp!SocketHasSendBuffer /\ Udp!NoEmptyPacket
  BY DEF Object!NoSocketLost, Udp!NoSocketLost, Object!SocketHasSendBuffer,
         Udp!SocketHasSendBuffer, Object!NoEmptyPacket, Udp!NoEmptyPacket
<1> QED BY SameObject, <1>1, <1>2, UsesTheObject, PTL DEF Udp!Spec, Object!Spec
=============================================================================
