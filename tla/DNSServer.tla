------------------------------ MODULE DNSServer ------------------------------
(***************************************************************************)
(* The captive-portal DNS server of libraries/DNSServer/src/DNSServer.cpp, *)
(* on top of the WiFiUDP object of WiFiUdp.                                *)
(*                                                                         *)
(* A DNS message is a record; laying it out in bytes is left out.  `plain' *)
(* says that it has exactly one question and no other record, `standard'   *)
(* that its opcode is QUERY.  A datagram too short for a header makes the  *)
(* code look past its buffer: what it sees there is any message.           *)
(***************************************************************************)
EXTENDS Naturals, Sequences, FiniteSets

CONSTANTS Fd, Peer, Nobody, Group, AnyIp, PacketSize, NoSocket, NoPacket,
          MaxInbox,
          Id, Name,      (* transaction IDs and names a message may carry    *)
          Star,          (* the domain name "*"                              *)
          Canonical(_),  (* downcaseAndRemoveWwwPrefix                       *)
          HeaderPart, QuestionPart, AnswerPart,  (* the parts of a reply    *)
          Short,         (* a datagram shorter than a header                 *)
          None,          (* no buffer, no message, no reply                  *)
          MaxArrivals    (* bound: datagrams that arrive in all              *)

Message == [id : Id, response : BOOLEAN, standard : BOOLEAN, plain : BOOLEAN,
            name : Name]

(* A request fits one unit of a packet; a reply is written in three.       *)
Byte == Message \cup {Short, HeaderPart, QuestionPart, AnswerPart}

Datagram ==
  [from : Peer, data : {<<>>} \cup {<<m>> : m \in Message \cup {Short}}]

ASSUME DNSAssumption ==
  /\ PacketSize \in Nat \ {0} /\ MaxInbox \in Nat /\ MaxArrivals \in Nat
  /\ NoSocket \notin Fd /\ Nobody \notin Peer /\ AnyIp \notin Group
  /\ NoPacket \notin Seq(Byte)

VARIABLES udp_server, multicast_ip, listening, remote, tx_buffer, tx,
          rx_buffer, open, inbox,
          pc,        (* where processNextRequest() is                        *)
          domain,    (* _domain                                              *)
          buf,       (* _buf: the request, or None                           *)
          header,    (* the message _DnsHeader was copied from               *)
          question,  (* the name in _DnsQuestion                             *)
          reply,     (* "ip", "code" or "none": how header is answered       *)
          starved,   (* has an allocation of _buf failed since start()?      *)
          arrivals,  (* history: how many datagrams arrived                  *)
          asked,     (* history: sender and message of the last request      *)
          answer     (* history: the reply sent to it                        *)

Udp == INSTANCE WiFiUdp

udpVars == <<udp_server, multicast_ip, listening, remote, tx_buffer, tx,
             rx_buffer, open, inbox>>
request == <<buf, header, question, reply>>
history == <<arrivals, asked, answer>>
vars == <<udpVars, pc, domain, request, starved, history>>

Goto(from, to) == pc = from /\ pc' = to

-----------------------------------------------------------------------------
Init ==
  /\ Udp!Init
  /\ pc = "idle"
  /\ domain = None
  /\ buf = None
  /\ header = None
  /\ question = None
  /\ reply = "none"
  /\ starved = FALSE
  /\ arrivals = 0
  /\ asked = None
  /\ answer = None

Start(name) ==
  /\ pc = "idle"
  /\ Udp!Begin
  /\ domain' = IF name = Star THEN Star ELSE Canonical(name)
  /\ buf' = None
  /\ starved' = FALSE
  /\ UNCHANGED <<pc, header, question, reply, history>>

Stop ==
  /\ pc = "idle"
  /\ Udp!Stop
  /\ buf' = None
  /\ starved' = FALSE
  /\ UNCHANGED <<pc, domain, header, question, reply, history>>

(* processNextRequest(), from here to Release. *)
Parse ==
  \E len \in 0 .. PacketSize :
    /\ Udp!ParsePacket(len)
    /\ Goto("idle", IF len = 0 THEN "idle" ELSE "alloc")
    /\ asked' = IF len = 0 THEN asked
                ELSE [from |-> Head(inbox).from, msg |-> Head(inbox).data[1]]
    /\ UNCHANGED <<domain, request, starved, arrivals, answer>>

(* Without memory for it the request stays in the WiFiUDP object. *)
Alloc ==
  /\ pc = "alloc"
  /\ buf' = None
  /\ \/ pc' = "read" /\ UNCHANGED starved
        /\ UNCHANGED <<asked, answer>>
     \/ pc' = "idle" /\ starved' = TRUE
        /\ asked' = None /\ answer' = None
  /\ UNCHANGED <<udpVars, domain, header, question, reply, arrivals>>

(* What the code takes the request to be. *)
Seen(msg) == IF msg = Short THEN Message ELSE {msg}

InDomain(m) == domain = Star \/ Canonical(m.name) = domain

(* Mutant of Decision: a request with several questions gets the IP too. *)
DecisionAnyCount(m) ==
  IF m.response THEN "none"
  ELSE IF m.standard /\ InDomain(m) THEN "ip" ELSE "code"

(* Lines 106 to 117. *)
Decision(m) ==
  IF m.response THEN "none"
  ELSE IF m.standard /\ m.plain /\ InDomain(m) THEN "ip" ELSE "code"

(* Mutant of ReadRequest: the packet is looked at and left where it is. *)
ReadRequestPeek ==
  /\ pc = "read"
  /\ buf' = Udp!Taken(PacketSize)[1]
  /\ \E m \in Seen(buf') :
       /\ header' = m
       /\ question' = IF m.plain THEN m.name ELSE question
       /\ reply' = Decision(m)
  /\ pc' = IF reply' = "none" THEN "free" ELSE "begin"
  /\ UNCHANGED <<udpVars, domain, starved, history>>

ReadRequest ==
  /\ pc = "read"
  /\ Udp!Read(PacketSize)
  /\ buf' = Udp!Taken(PacketSize)[1]
  /\ \E m \in Seen(buf') :
       /\ header' = m
       /\ question' = IF m.plain THEN m.name ELSE question
       /\ reply' = Decision(m)
  /\ pc' = IF reply' = "none" THEN "free" ELSE "begin"
  /\ UNCHANGED <<domain, starved, history>>

(* replyWithIP() and replyWithCustomCode() ignore what beginPacket() says. *)
BeginReply ==
  /\ Goto("begin", "write")
  /\ \E ok \in BOOLEAN : Udp!BeginPacketTo(remote, ok)
  /\ UNCHANGED <<domain, request, starved, history>>

Parts ==
  IF reply = "ip" THEN <<HeaderPart, QuestionPart, AnswerPart>> ELSE <<HeaderPart>>

WriteReply ==
  /\ pc = "write"
  /\ \E flushed \in BOOLEAN : Udp!Write(Parts[Len(tx) + 1], flushed)
  /\ pc' = IF tx' = Parts THEN "end" ELSE "write"
  /\ UNCHANGED <<domain, request, starved, history>>

EndReply ==
  /\ Goto("end", "free")
  /\ \E sent \in BOOLEAN :
       /\ Udp!EndPacket(sent)
       /\ answer' = IF sent THEN [to |-> Udp!Packet.to, id |-> header.id,
                                  kind |-> reply, name |-> question]
                    ELSE None
  /\ UNCHANGED <<domain, request, starved, arrivals, asked>>

(* What _DnsHeader holds is dead from here on; what _DnsQuestion holds is   *)
(* not, as ReadRequest shows.                                              *)
Release ==
  /\ Goto("free", "idle")
  /\ buf' = None
  /\ header' = None /\ reply' = "none"
  /\ asked' = None /\ answer' = None
  /\ UNCHANGED <<udpVars, domain, question, starved, arrivals>>

Arrive ==
  /\ arrivals < MaxArrivals
  /\ arrivals' = arrivals + 1
  /\ \E d \in Datagram : Udp!Arrive(d)
  /\ UNCHANGED <<pc, domain, request, starved, asked, answer>>

ProcessNextRequest ==
  \/ Parse \/ Alloc \/ ReadRequest \/ BeginReply \/ WriteReply \/ EndReply
  \/ Release

Next ==
  \/ \E name \in Name \cup {Star} : Start(name)
  \/ Stop
  \/ ProcessNextRequest
  \/ Arrive

(* loop() calls processNextRequest() for ever, and parsePacket() does not  *)
(* run out of memory every time.                                           *)
TakesDatagram == Parse /\ inbox' # inbox

Spec ==
  /\ Init /\ [][Next]_vars
  /\ WF_vars(ProcessNextRequest)
  /\ SF_vars(TakesDatagram)

-----------------------------------------------------------------------------
TypeOK ==
  /\ Udp!TypeOK
  /\ pc \in {"idle", "alloc", "read", "begin", "write", "end", "free"}
  /\ domain \in {Canonical(n) : n \in Name} \cup {Star, None}
  /\ buf \in Message \cup {Short, None}
  /\ header \in Message \cup {None}
  /\ question \in Name \cup {None}
  /\ reply \in {"ip", "code", "none"}
  /\ starved \in BOOLEAN
  /\ arrivals \in 0 .. MaxArrivals
  /\ asked \in [from : Peer, msg : Message \cup {Short}] \cup {None}
  /\ answer \in [to : Peer, id : Id, kind : {"ip", "code"}, name : Name \cup {None}]
               \cup {None}
  /\ pc = "write" => Len(tx) < Len(Parts)

(* A reply goes to whoever asked, under the ID asked with, to a query and  *)
(* never to a response (two servers would answer each other for ever); and *)
(* a reply with the IP repeats the question of this request, not one that  *)
(* _DnsQuestion kept from an earlier one.  It is written without asking    *)
(* whether beginPacket() worked, and there is a buffer to write to.        *)
RepliesMatchRequest ==
  /\ answer # None =>
       /\ answer.to = asked.from
       /\ asked.msg # Short =>
            /\ answer.id = asked.msg.id
            /\ ~ asked.msg.response
            /\ answer.kind = "ip" => answer.name = asked.msg.name
  /\ pc \in {"write", "end"} => tx_buffer

(* The request buffer is freed on every way out of processNextRequest(),   *)
(* and unless memory ran out so is the packet it was read from.            *)
NothingLeftBehind ==
  pc = "idle" => buf = None /\ (rx_buffer = NoPacket \/ starved)

(* While no allocation of _buf fails, what arrives is taken.               *)
Responsive == (inbox # <<>> /\ ~ starved) ~> (inbox = <<>> \/ starved)

(* CaptivePortal.ino:19 says that the server "will reply with provided IP  *)
(* to all DNS request".  So one that has been short of memory once must go *)
(* on taking requests.                                                     *)
KeepsTakingRequests == (inbox # <<>>) ~> (inbox = <<>>)

=============================================================================
