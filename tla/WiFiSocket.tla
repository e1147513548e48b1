----------------------------- MODULE WiFiSocket -----------------------------
(***************************************************************************)
(* WiFiClient and WiFiServer (libraries/WiFi/src/WiFiClient.cpp and        *)
(* WiFiServer.cpp): client objects that are copied freely and share one    *)
(* socket handle and one receive buffer, and a server that hands out       *)
(* clients.  The handle closes its socket when its last client lets go.    *)
(*                                                                         *)
(* A handle and its receive buffer live and die with their socket, so both *)
(* are kept under the socket's descriptor (sock).  Received bytes are      *)
(* numbered in the order in which the peer sent them.                      *)
(***************************************************************************)
EXTENDS Integers, Sequences, FiniteSets

CONSTANTS
  Client,      (* the WiFiClient variables of the program                   *)
  Fd,          (* the descriptors the stack can hand out                    *)
  NoFd,        (* -1, and no handle                                         *)
  BufSize,     (* the 1436 bytes of a receive buffer                        *)
  MaxRetry,    (* WIFI_CLIENT_MAX_WRITE_RETRY                               *)
  MaxIn,       (* bound: bytes a peer sends on one connection               *)
  MaxOut,      (* bound: bytes of one write(), and silent ones              *)
  MaxBacklog   (* bound: connections that wait to be accepted               *)

ASSUME WiFiSocketAssumption ==
  /\ NoFd \notin Fd
  /\ BufSize \in Nat \ {0}
  /\ MaxRetry \in Nat \ {0}
  /\ MaxIn \in Nat /\ MaxOut \in Nat /\ MaxBacklog \in Nat

VARIABLES
  open,       (* the stack's open sockets                                   *)
  sock,       (* what belongs to each: see Socket                           *)
  handle,     (* clientSocketHandle and _rxBuffer of each client            *)
  connected,  (* _connected of each client                                  *)
  sockfd, accepted, listening,  (* of the server                            *)
  backlog,    (* connections the stack has ready for it                     *)
  job,        (* the write() or read() under way, or Idle                   *)
  silent,     (* history: bytes that write() sent and did not report        *)
  spilled     (* history: open sockets that nobody can close any more       *)

server == <<sockfd, accepted, listening>>
clients == <<handle, connected>>
vars == <<open, sock, clients, server, backlog, job, silent, spilled>>

(* The connection: the bytes that the stack holds and how many the peer    *)
(* sent; the receive buffer: the bytes up to _fill, _pos and _failed;      *)
(* history: the bytes that left the buffer.                                *)
Socket ==
  [stream : Seq(1 .. MaxIn), sent : 0 .. MaxIn,
   held : Seq(1 .. MaxIn), pos : 0 .. BufSize, failed : BOOLEAN,
   past : Seq(1 .. MaxIn)]

Fresh ==
  [stream |-> <<>>, sent |-> 0, held |-> <<>>, pos |-> 0, failed |-> FALSE,
   past |-> <<>>]

Idle == [kind |-> "idle"]

Least(a, b) == IF a < b THEN a ELSE b

-----------------------------------------------------------------------------
Init ==
  /\ open = {}
  /\ sock = [f \in Fd |-> Fresh]
  /\ handle = [c \in Client |-> NoFd]
  /\ connected = [c \in Client |-> FALSE]
  /\ sockfd = NoFd /\ accepted = NoFd /\ listening = FALSE
  /\ backlog = 0
  /\ job = Idle
  /\ silent = 0
  /\ spilled = {}

(* Mutant of Closed: a handle is closed whoever else has it.               *)
ClosedAlways(c) == {handle[c]} \ {NoFd}

(* The sockets that are closed when c lets go of its handle: its own, if   *)
(* no other client shares it.                                              *)
Closed(c) == {handle[c]} \ ({NoFd} \cup {handle[d] : d \in Client \ {c}})

(* Client c takes f for its handle, or none; s is what becomes of the      *)
(* sockets.  `kept' are sockets opened in the same step.                   *)
Rebind(c, f, s, kept) ==
  /\ handle' = [handle EXCEPT ![c] = f]
  /\ open' = (open \ (Closed(c) \ {f})) \cup kept
  /\ sock' = [g \in Fd |-> IF g \in Closed(c) \ {f} THEN Fresh ELSE s[g]]

(* ~WiFiClient() and stop().                                               *)
Stop(c) ==
  /\ job = Idle
  /\ Rebind(c, NoFd, sock, {})
  /\ connected' = [connected EXCEPT ![c] = FALSE]
  /\ UNCHANGED <<server, backlog, job, silent, spilled>>

(* c = d, stop() first: a client assigned to itself loses its handle.      *)
Assign(c, d) ==
  /\ job = Idle
  /\ Rebind(c, IF c = d THEN NoFd ELSE handle[d], sock, {})
  /\ connected' = [connected EXCEPT ![c] = c # d /\ connected[d]]
  /\ UNCHANGED <<server, backlog, job, silent, spilled>>

(* connect(): failures before line 280 close the new socket again and so   *)
(* change nothing; a refused option there leaves it open.                  *)
Connect(c) ==
  /\ job = Idle
  /\ \E f \in Fd \ open :
       \/ /\ Rebind(c, f, sock, {f})
          /\ connected' = [connected EXCEPT ![c] = TRUE]
          /\ UNCHANGED spilled
       \/ /\ open' = open \cup {f}
          /\ spilled' = spilled \cup {f}
          /\ UNCHANGED <<sock, handle, connected>>
  /\ UNCHANGED <<server, backlog, job, silent>>

-----------------------------------------------------------------------------
(* The receive buffer. *)

(* A buffer read to its end starts again from the front.                   *)
Rewound(s) ==
  IF s.held # <<>> /\ s.pos = Len(s.held)
  THEN [s EXCEPT !.held = <<>>, !.pos = 0] ELSE s

(* fillBuffer(): what the recv() of line 78 gets; `ok' is FALSE if there   *)
(* is no memory for the buffer or the stack refuses the question or the    *)
(* recv().                                                                 *)
Fits(s) == Least(BufSize - Len(s.held), Len(s.stream))

Fill(s, ok) ==
  LET r == Rewound(s) IN
  IF Len(r.held) = BufSize THEN r
  ELSE IF ~ ok THEN [r EXCEPT !.failed = TRUE]
  ELSE [r EXCEPT !.held = @ \o SubSeq(r.stream, 1, Fits(r)),
                 !.stream = SubSeq(@, Fits(r) + 1, Len(@))]

Filled(s, ok) == Len(s.stream) - Len(Fill(s, ok).stream)

Unread(s) == Len(s.held) - s.pos

(* Mutant of Take: _pos is not advanced over a single byte. *)
TakeStuck(s, n) ==
  [s EXCEPT !.pos = IF n = 1 THEN @ ELSE @ + n,
            !.past = @ \o SubSeq(s.held, s.pos + 1, s.pos + n)]

(* n bytes of the buffer go to the caller.                                 *)
Take(s, n) ==
  [s EXCEPT !.pos = @ + n, !.past = @ \o SubSeq(s.held, s.pos + 1, s.pos + n)]

(* c leaves its buffer as s, and if it is done looks at _failed, which     *)
(* stops the client.                                                       *)
Conclude(c, s, done) ==
  IF done /\ s.failed
  THEN /\ Rebind(c, NoFd, [sock EXCEPT ![handle[c]] = s], {})
       /\ connected' = [connected EXCEPT ![c] = FALSE]
  ELSE /\ sock' = [sock EXCEPT ![handle[c]] = s]
       /\ UNCHANGED <<open, handle, connected>>

(* read(buf, n) up to its loop: a first fill if nothing is unread, a       *)
(* second one if that could complete the n bytes.                          *)
First(s, ok) == IF Unread(s) = 0 THEN Fill(s, ok) ELSE s

Second(s, n, ok) ==
  IF Unread(s) \in 1 .. n - 1 /\ n - Unread(s) <= BufSize - Len(s.held)
  THEN Fill(s, ok) ELSE s

Read(c, n) ==
  /\ job = Idle /\ handle[c] # NoFd
  /\ \E ok1, ok2 \in BOOLEAN :
       LET f == First(sock[handle[c]], ok1)
           s == Second(f, n, ok2)
           now == IF n <= Unread(s) THEN n ELSE Unread(f)
           done == now \in {0, n}
       IN /\ Conclude(c, Take(s, now), done)
          /\ job' = IF done THEN Idle ELSE [kind |-> "read", c |-> c, left |-> n - now]
  /\ UNCHANGED <<server, backlog, silent, spilled>>

(* One round of the loop at line 133.                                      *)
ReadMore ==
  /\ job.kind = "read"
  /\ \E ok \in BOOLEAN :
       LET s == Fill(sock[handle[job.c]], ok)
           now == IF Filled(sock[handle[job.c]], ok) = 0 THEN 0
                  ELSE Least(job.left, Unread(s))
           done == now \in {0, job.left}
       IN /\ Conclude(job.c, Take(s, now), done)
          /\ job' = IF done THEN Idle ELSE [job EXCEPT !.left = @ - now]
  /\ UNCHANGED <<server, backlog, silent, spilled>>

(* peek(), and available(), which only asks the stack.                     *)
Peek(c) ==
  /\ job = Idle /\ handle[c] # NoFd
  /\ \E ok \in BOOLEAN :
       \/ Conclude(c, First(sock[handle[c]], ok), TRUE)
       \/ Conclude(c, [sock[handle[c]] EXCEPT !.failed = @ \/ ~ ok], TRUE)
  /\ UNCHANGED <<server, backlog, job, silent, spilled>>

(* flush() drops what the buffer holds or can take; it does not look at    *)
(* _failed.                                                                *)
Flush(c) ==
  /\ job = Idle /\ handle[c] # NoFd
  /\ LET old == sock[handle[c]] IN
     \E s \in {[old EXCEPT !.failed = TRUE]}
              \cup (IF old.stream = <<>> THEN {old} ELSE {Fill(old, ok) : ok \in BOOLEAN}) :
       sock' = [sock EXCEPT ![handle[c]] = Take(s, Unread(s))]
  /\ UNCHANGED <<open, clients, server, backlog, job, silent, spilled>>

-----------------------------------------------------------------------------
(* write(buf, n), which sends nothing without a connection.                *)
Write(c, n) ==
  /\ job = Idle /\ connected[c] /\ handle[c] # NoFd
  /\ silent + n <= MaxOut
  /\ job' = [kind |-> "write", c |-> c, size |-> n, total |-> 0, retry |-> MaxRetry]
  /\ UNCHANGED <<open, sock, clients, server, backlog, silent, spilled>>

(* Mutant of WriteSend: the whole request is reported. *)
WriteSendAll ==
  /\ job.kind = "write"
  /\ \E n \in 1 .. job.size - job.total :
       /\ job' = Idle
       /\ silent' = silent + n - job.size
  /\ UNCHANGED <<open, sock, clients, server, backlog, spilled>>

(* A round of write() in which the stack takes n bytes: it goes on until   *)
(* they are all sent, and reports them then.                               *)
WriteSend ==
  /\ job.kind = "write"
  /\ \E n \in 1 .. job.size - job.total :
       LET total == job.total + n IN
         IF total = job.size
         THEN job' = Idle /\ silent' = silent + n - total
         ELSE /\ job' = [job EXCEPT !.total = total, !.retry = MaxRetry]
              /\ silent' = silent + n
  /\ UNCHANGED <<open, sock, clients, server, backlog, spilled>>

(* A round that sends nothing: not ready, busy (EAGAIN), or nothing taken. *)
WriteRetry ==
  /\ job.kind = "write"
  /\ IF job.retry = 1
     THEN job' = Idle /\ silent' = silent - job.total
     ELSE job' = [job EXCEPT !.retry = @ - 1] /\ UNCHANGED silent
  /\ UNCHANGED <<open, sock, clients, server, backlog, spilled>>

(* select() fails: 0 is returned whatever was sent.                        *)
WriteAbort ==
  /\ job.kind = "write"
  /\ job' = Idle
  /\ UNCHANGED <<open, sock, clients, server, backlog, silent, spilled>>

(* send() fails for good: the client stops.                                *)
WriteFail ==
  /\ job.kind = "write"
  /\ job' = Idle
  /\ silent' = silent - job.total
  /\ Rebind(job.c, NoFd, sock, {})
  /\ connected' = [connected EXCEPT ![job.c] = FALSE]
  /\ UNCHANGED <<server, backlog, spilled>>

(* connected(): a recv() of no bytes, and errno, which says nothing sure:  *)
(* with bytes waiting the recv() succeeds and errno is what some earlier   *)
(* call made it.                                                           *)
Connected(c) ==
  /\ job = Idle /\ connected[c]
  /\ \E alive \in BOOLEAN : connected' = [connected EXCEPT ![c] = alive]
  /\ UNCHANGED <<open, sock, handle, server, backlog, job, silent, spilled>>

-----------------------------------------------------------------------------
(* The server. *)

(* begin(): a socket that an earlier begin() could not bind is forgotten,  *)
(* and so is a connection accepted and not yet handed out.                 *)
ServerBegin ==
  /\ job = Idle /\ ~ listening
  /\ \/ /\ sockfd' = NoFd                                 (* no socket     *)
        /\ spilled' = spilled \cup ({sockfd} \ {NoFd})
        /\ UNCHANGED <<open, accepted, listening, backlog>>
     \/ \E f \in Fd \ open :
          /\ sockfd' = f
          /\ open' = open \cup {f}
          /\ \/ /\ spilled' = spilled \cup ({sockfd} \ {NoFd})  (* 84, 86  *)
                /\ UNCHANGED <<accepted, listening, backlog>>
             \/ /\ spilled' = spilled \cup ({sockfd, accepted} \ {NoFd})
                /\ accepted' = NoFd
                /\ listening' = TRUE
                /\ backlog' = 0
  /\ UNCHANGED <<sock, clients, job, silent>>

(* end(), close() and stop().                                              *)
ServerEnd ==
  /\ job = Idle
  /\ open' = open \ {sockfd}
  /\ sockfd' = NoFd
  /\ listening' = FALSE
  /\ backlog' = 0
  /\ UNCHANGED <<sock, clients, accepted, job, silent, spilled>>

(* hasClient(): the connection is kept for available().                    *)
HasClient ==
  /\ job = Idle /\ accepted = NoFd
  /\ listening /\ backlog > 0
  /\ \E f \in Fd \ open :
       /\ accepted' = f
       /\ open' = open \cup {f}
  /\ backlog' = backlog - 1
  /\ UNCHANGED <<sock, clients, sockfd, listening, job, silent, spilled>>

(* c = available(): the accepted connection or a new one; with none, or    *)
(* one whose options are refused, c becomes a client without connection.   *)
Offered ==
  IF ~ listening THEN {}
  ELSE IF accepted # NoFd THEN {accepted}
  ELSE IF backlog > 0 THEN Fd \ open ELSE {}

Available(c) ==
  /\ job = Idle
  /\ \/ \E f \in Offered :
          \/ /\ Rebind(c, f, sock, {f})
             /\ connected' = [connected EXCEPT ![c] = TRUE]
             /\ UNCHANGED spilled
          \/ /\ Rebind(c, NoFd, sock, {f})
             /\ connected' = [connected EXCEPT ![c] = FALSE]
             /\ spilled' = spilled \cup {f}
     \/ /\ Offered = {}
        /\ Rebind(c, NoFd, sock, {})
        /\ connected' = [connected EXCEPT ![c] = FALSE]
        /\ UNCHANGED spilled
  /\ accepted' = IF listening THEN NoFd ELSE accepted
  /\ backlog' = IF listening /\ accepted = NoFd /\ Offered # {} THEN backlog - 1 ELSE backlog
  /\ UNCHANGED <<sockfd, listening, job, silent>>

-----------------------------------------------------------------------------
(* The network. *)

PeerConnects ==
  /\ listening /\ backlog < MaxBacklog
  /\ backlog' = backlog + 1
  /\ UNCHANGED <<open, sock, clients, server, job, silent, spilled>>

Live(f) == \E c \in Client : handle[c] = f

(* Bound: one connection at a time carries data.                           *)
PeerSends(f) ==
  /\ Live(f) /\ sock[f].sent < MaxIn
  /\ \A g \in Fd \ {f} : sock[g].sent = 0
  /\ sock' = [sock EXCEPT ![f].sent = @ + 1, ![f].stream = Append(@, sock[f].sent + 1)]
  /\ UNCHANGED <<open, clients, server, backlog, job, silent, spilled>>

Next ==
  \/ \E c \in Client :
       Stop(c) \/ Connect(c) \/ Peek(c) \/ Flush(c) \/ Connected(c) \/ Available(c)
  \/ \E c, d \in Client : Assign(c, d)
  \/ \E c \in Client, n \in 1 .. BufSize + 1 : Read(c, n)
  \/ \E c \in Client, n \in 1 .. MaxOut : Write(c, n)
  \/ ReadMore \/ WriteSend \/ WriteRetry \/ WriteAbort \/ WriteFail
  \/ ServerBegin \/ ServerEnd \/ HasClient
  \/ PeerConnects
  \/ \E f \in Fd : PeerSends(f)

Spec == Init /\ [][Next]_vars

-----------------------------------------------------------------------------
Job ==
  {Idle}
  \cup [kind : {"read"}, c : Client, left : 1 .. BufSize + 1]
  \cup [kind : {"write"}, c : Client, size : 1 .. MaxOut, total : 0 .. MaxOut,
        retry : 1 .. MaxRetry]

TypeOK ==
  /\ open \subseteq Fd /\ spilled \subseteq open
  /\ \A f \in Fd : sock[f] \in Socket /\ Len(sock[f].held) <= BufSize
                   /\ sock[f].pos <= Len(sock[f].held)
  /\ handle \in [Client -> Fd \cup {NoFd}]
  /\ connected \in [Client -> BOOLEAN]
  /\ {sockfd, accepted} \subseteq Fd \cup {NoFd}
  /\ listening \in BOOLEAN
  /\ backlog \in 0 .. MaxBacklog
  /\ job \in Job
  /\ silent \in Int

Handles == {handle[c] : c \in Client} \ {NoFd}

(* Whoever holds a descriptor holds an open socket that is nobody else's:  *)
(* descriptors are reused by the stack, so a close too many or a handle    *)
(* kept too long would make two objects share a stranger's connection.     *)
NoStrangersSocket ==
  /\ Handles \cup ({sockfd, accepted} \ {NoFd}) \subseteq open \ spilled
  /\ sockfd \notin Handles /\ accepted \notin Handles
  /\ sockfd = NoFd \/ sockfd # accepted

(* Apart from the four exits that forget a socket (a refused option in     *)
(* connect() and available(), a begin() that could not bind, a connection  *)
(* accepted before end()), every open socket has an owner to close it.     *)
NoOtherLeak == open = Handles \cup ({sockfd, accepted} \ {NoFd}) \cup spilled

(* connected() and write() ask the descriptor of a connected client        *)
(* without looking whether it has one.                                     *)
ConnectedHasSocket == \A c \in Client : connected[c] => handle[c] # NoFd

(* Sockets and their owners agree, through every order of copying,         *)
(* assigning, stopping, failing and handing out of clients.                *)
EverySocketOwned == NoStrangersSocket /\ NoOtherLeak /\ ConnectedHasSocket

(* Copies of a client read one stream through one buffer: what was taken   *)
(* out of it, by any of them in any amounts, and what is still to come are *)
(* the bytes the peer sent, each once and in order.                        *)
StreamIntact ==
  \A f \in Handles :
    LET s == sock[f] IN
      s.past \o SubSeq(s.held, s.pos + 1, Len(s.held)) \o s.stream
        = [i \in 1 .. s.sent |-> i]

(* What write() reports was handed to the stack: a caller that continues   *)
(* after the reported bytes leaves none out.                               *)
NeverOverclaims == silent >= 0

=============================================================================
