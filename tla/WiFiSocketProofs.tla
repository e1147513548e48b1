-------------------------- MODULE WiFiSocketProofs --------------------------
(***************************************************************************)
(* EverySocketOwned, NeverOverclaims and StreamIntact, for any number of   *)
(* clients and descriptors and any sizes.  The first says who owns what,   *)
(* and with the types of the owners it is inductive: letting go of a       *)
(* handle closes exactly what stops being owned (RebindHandles).           *)
(*                                                                         *)
(* The last needs two more things: of every descriptor, that it has no     *)
(* bytes when no client has it (Streams), since the stack reuses it; and   *)
(* that a read() under way still has the connection it began on (ReadHas). *)
(***************************************************************************)
EXTENDS WiFiSocket, SequenceTheorems, TLAPS

(* What the server owns. *)
Serving == {sockfd, accepted} \ {NoFd}

OwnersTyped ==
  /\ open \subseteq Fd
  /\ handle \in [Client -> Fd \cup {NoFd}]
  /\ connected \in [Client -> BOOLEAN]
  /\ {sockfd, accepted} \subseteq Fd \cup {NoFd}

(* A read() or write() under way is some client's. *)
JobHasClient == job # Idle => "c" \in DOMAIN job /\ job.c \in Client

OwnerInv == OwnersTyped /\ JobHasClient /\ EverySocketOwned

-----------------------------------------------------------------------------
(* Every socket that is open is accounted for, and only once: the parts of *)
(* EverySocketOwned that are about sockets, as equations of sets.          *)
Accounts(o, hs, fd, acc, spill) ==
  LET serving == {fd, acc} \ {NoFd} IN
  /\ o = hs \cup serving \cup spill
  /\ hs \cap serving = {} /\ hs \cap spill = {} /\ serving \cap spill = {}
  /\ fd = NoFd \/ fd # acc
  /\ NoFd \notin spill

LEMMA AsAccounts ==
  ASSUME open \subseteq Fd
  PROVE  NoStrangersSocket /\ NoOtherLeak
           <=> Accounts(open, Handles, sockfd, accepted, spilled)
<1>1. NoFd \notin open /\ NoFd \notin Handles
  BY WiFiSocketAssumption DEF Handles
<1> QED
  BY <1>1 DEF NoStrangersSocket, NoOtherLeak, Accounts

(* Taking a handle and letting go of another: what is closed is what no    *)
(* client holds any more (Closed).                                         *)
LEMMA RebindHandles ==
  ASSUME OwnersTyped, NEW c \in Client, NEW f \in Fd \cup {NoFd}, NEW s, NEW kept,
         Rebind(c, f, s, kept)
  PROVE  /\ Handles' = (Handles \ (Closed(c) \ {f})) \cup ({f} \ {NoFd})
         /\ open' = (open \ (Closed(c) \ {f})) \cup kept
         /\ Closed(c) \subseteq Handles
         /\ handle' \in [Client -> Fd \cup {NoFd}]
         /\ handle'[c] = f /\ \A d \in Client \ {c} : handle'[d] = handle[d]
<1> USE DEF OwnersTyped
<1>1. handle' = [handle EXCEPT ![c] = f]
      /\ open' = (open \ (Closed(c) \ {f})) \cup kept
  BY DEF Rebind
<1>2. handle'[c] = f /\ \A d \in Client \ {c} : handle'[d] = handle[d]
  BY <1>1
<1>3. Closed(c) \subseteq Handles
  BY DEF Closed, Handles
<1>4. \A x : x \in Handles' <=> x # NoFd /\ (x = f \/ \E d \in Client \ {c} : handle[d] = x)
  BY <1>2 DEF Handles
<1>5. \A x : x \in Handles <=>
        x # NoFd /\ (x = handle[c] \/ \E d \in Client \ {c} : handle[d] = x)
  BY DEF Handles
<1>6. \A x : x \in Closed(c) <=>
        x # NoFd /\ x = handle[c] /\ ~ \E d \in Client \ {c} : handle[d] = x
  BY DEF Closed
<1>7. Handles' = (Handles \ (Closed(c) \ {f})) \cup ({f} \ {NoFd})
  BY <1>4, <1>5, <1>6
<1>8. handle' \in [Client -> Fd \cup {NoFd}]
  BY <1>1
<1> QED BY <1>1, <1>2, <1>3, <1>7, <1>8

(* What a step must leave behind. *)
Kept ==
  /\ open' \subseteq Fd
  /\ handle' \in [Client -> Fd \cup {NoFd}]
  /\ connected' \in [Client -> BOOLEAN]
  /\ {sockfd', accepted'} \subseteq Fd \cup {NoFd}
  /\ Accounts(open', Handles', sockfd', accepted', spilled')
  /\ \A c \in Client : connected'[c] => handle'[c] # NoFd

LEMMA KeptSuffices ==
  ASSUME Kept
  PROVE  OwnersTyped' /\ EverySocketOwned'
<1>1. OwnersTyped'
  BY DEF Kept, OwnersTyped
<1>2. NoFd \notin open' /\ NoFd \notin Handles'
  BY WiFiSocketAssumption DEF Kept, Handles
<1>3. NoStrangersSocket' /\ NoOtherLeak'
  BY <1>2 DEF Kept, NoStrangersSocket, NoOtherLeak, Accounts
<1>4. ConnectedHasSocket'
  BY DEF Kept, ConnectedHasSocket
<1> QED BY <1>1, <1>3, <1>4 DEF EverySocketOwned

(* A client that gives up its handle, or takes one that a client has.      *)
LEMMA ShareStep ==
  ASSUME OwnerInv, NEW c \in Client, NEW f \in Handles \cup {NoFd}, NEW s,
         NEW yes \in BOOLEAN, yes => f # NoFd,
         Rebind(c, f, s, {}), connected' = [connected EXCEPT ![c] = yes],
         UNCHANGED <<sockfd, accepted, spilled>>
  PROVE  Kept
<1> USE DEF OwnerInv, OwnersTyped
<1>1. Handles \subseteq Fd
  BY DEF Handles
<1>2. f \in Fd \cup {NoFd}
  BY <1>1
<1>3. /\ Handles' = (Handles \ (Closed(c) \ {f})) \cup ({f} \ {NoFd})
      /\ open' = open \ (Closed(c) \ {f})
      /\ Closed(c) \subseteq Handles
      /\ handle' \in [Client -> Fd \cup {NoFd}]
      /\ handle'[c] = f /\ \A d \in Client \ {c} : handle'[d] = handle[d]
  BY <1>2, RebindHandles
<1>4. Accounts(open, Handles, sockfd, accepted, spilled)
  BY AsAccounts DEF EverySocketOwned
<1>5. Accounts(open', Handles', sockfd', accepted', spilled')
  BY <1>3, <1>4 DEF Accounts
<1>6. \A d \in Client : connected'[d] => handle'[d] # NoFd
  BY <1>3 DEF EverySocketOwned, ConnectedHasSocket
<1> QED BY <1>3, <1>5, <1>6 DEF Kept

-----------------------------------------------------------------------------
(* The steps. *)

LEMMA ConcludeStep ==
  ASSUME OwnerInv, NEW c \in Client, NEW s, NEW done \in BOOLEAN, Conclude(c, s, done),
         UNCHANGED <<sockfd, accepted, spilled>>
  PROVE  Kept
<1>1. CASE done /\ s.failed
  <2>1. Rebind(c, NoFd, [sock EXCEPT ![handle[c]] = s], {})
        /\ connected' = [connected EXCEPT ![c] = FALSE]
    BY <1>1 DEF Conclude
  <2> QED BY <2>1, ShareStep
<1>2. CASE ~ (done /\ s.failed)
  <2>1. UNCHANGED <<open, handle, connected, sockfd, accepted, spilled>>
    BY <1>2 DEF Conclude
  <2>2. Handles' = Handles
    BY <2>1 DEF Handles
  <2>3. Accounts(open, Handles, sockfd, accepted, spilled)
    BY AsAccounts DEF OwnerInv, OwnersTyped, EverySocketOwned
  <2> QED
    BY <2>1, <2>2, <2>3 DEF Kept, OwnerInv, OwnersTyped, EverySocketOwned, ConnectedHasSocket
<1> QED BY <1>1, <1>2

(* Nothing that the owners are about is touched. *)
LEMMA StillStep ==
  ASSUME OwnerInv, UNCHANGED <<open, handle, sockfd, accepted, spilled>>,
         connected' \in [Client -> BOOLEAN],
         \A c \in Client : connected'[c] => connected[c]
  PROVE  Kept
<1>1. Handles' = Handles
  BY DEF Handles
<1>2. Accounts(open, Handles, sockfd, accepted, spilled)
  BY AsAccounts DEF OwnerInv, OwnersTyped, EverySocketOwned
<1> QED
  BY <1>1, <1>2 DEF Kept, OwnerInv, OwnersTyped, EverySocketOwned, ConnectedHasSocket

LEMMA ConnectStep ==
  ASSUME OwnerInv, NEW c \in Client, Connect(c)
  PROVE  Kept
<1> USE DEF OwnerInv, OwnersTyped
<1>1. PICK f \in Fd \ open :
       \/ /\ Rebind(c, f, sock, {f})
          /\ connected' = [connected EXCEPT ![c] = TRUE]
          /\ UNCHANGED spilled
       \/ /\ open' = open \cup {f}
          /\ spilled' = spilled \cup {f}
          /\ UNCHANGED <<sock, handle, connected>>
  BY DEF Connect
<1>2. UNCHANGED <<sockfd, accepted>>
  BY DEF Connect, server
<1>3. Accounts(open, Handles, sockfd, accepted, spilled)
  BY AsAccounts DEF EverySocketOwned
<1>4. f \notin open /\ f # NoFd /\ f \in Fd
  BY <1>1, WiFiSocketAssumption
<1>5. CASE /\ Rebind(c, f, sock, {f})
           /\ connected' = [connected EXCEPT ![c] = TRUE]
           /\ UNCHANGED spilled
  <2>1. /\ Handles' = (Handles \ (Closed(c) \ {f})) \cup {f}
        /\ open' = (open \ (Closed(c) \ {f})) \cup {f}
        /\ Closed(c) \subseteq Handles
        /\ handle' \in [Client -> Fd \cup {NoFd}]
        /\ handle'[c] = f /\ \A d \in Client \ {c} : handle'[d] = handle[d]
    BY <1>4, <1>5, RebindHandles
  <2>2. Accounts(open', Handles', sockfd', accepted', spilled')
    BY <1>2, <1>3, <1>4, <1>5, <2>1 DEF Accounts
  <2>3. \A d \in Client : connected'[d] => handle'[d] # NoFd
    BY <1>4, <1>5, <2>1 DEF EverySocketOwned, ConnectedHasSocket
  <2> QED BY <1>2, <1>4, <1>5, <2>1, <2>2, <2>3 DEF Kept
<1>6. CASE /\ open' = open \cup {f}
           /\ spilled' = spilled \cup {f}
           /\ UNCHANGED <<sock, handle, connected>>
  <2>1. Handles' = Handles
    BY <1>6 DEF Handles
  <2>2. Accounts(open', Handles', sockfd', accepted', spilled')
    BY <1>2, <1>3, <1>4, <1>6, <2>1 DEF Accounts
  <2> QED
    BY <1>2, <1>4, <1>6, <2>2 DEF Kept, EverySocketOwned, ConnectedHasSocket
<1> QED BY <1>1, <1>5, <1>6

LEMMA AvailableStep ==
  ASSUME OwnerInv, NEW c \in Client, Available(c)
  PROVE  Kept
<1> USE DEF OwnerInv, OwnersTyped
<1>1. accepted' = (IF listening THEN NoFd ELSE accepted) /\ sockfd' = sockfd
  BY DEF Available
<1>2. Accounts(open, Handles, sockfd, accepted, spilled)
  BY AsAccounts DEF EverySocketOwned
<1>3. ASSUME NEW f \in Offered
      PROVE  /\ listening /\ f \in Fd /\ f # NoFd /\ f # sockfd
             /\ f \notin Handles \cup spilled
             /\ accepted \in {f, NoFd}
             /\ f \in open <=> f = accepted
  BY <1>2, WiFiSocketAssumption DEF Offered, Accounts
<1>4. ASSUME NEW f \in Offered, Rebind(c, f, sock, {f}),
             connected' = [connected EXCEPT ![c] = TRUE], UNCHANGED spilled
      PROVE  Kept
  <2>1. /\ Handles' = (Handles \ (Closed(c) \ {f})) \cup {f}
        /\ open' = (open \ (Closed(c) \ {f})) \cup {f}
        /\ Closed(c) \subseteq Handles
        /\ handle' \in [Client -> Fd \cup {NoFd}]
        /\ handle'[c] = f /\ \A d \in Client \ {c} : handle'[d] = handle[d]
    BY <1>3, <1>4, RebindHandles
  <2>2. accepted' = NoFd
    BY <1>1, <1>3, <1>4
  <2>3. Accounts(open', Handles', sockfd', accepted', spilled')
    BY <1>1, <1>2, <1>3, <1>4, <2>1, <2>2 DEF Accounts
  <2>4. \A d \in Client : connected'[d] => handle'[d] # NoFd
    BY <1>3, <1>4, <2>1 DEF EverySocketOwned, ConnectedHasSocket
  <2> QED BY <1>1, <1>3, <1>4, <2>1, <2>2, <2>3, <2>4 DEF Kept
<1>5. ASSUME NEW f \in Offered, Rebind(c, NoFd, sock, {f}),
             connected' = [connected EXCEPT ![c] = FALSE], spilled' = spilled \cup {f}
      PROVE  Kept
  <2>1. /\ Handles' = Handles \ Closed(c)
        /\ open' = (open \ Closed(c)) \cup {f}
        /\ Closed(c) \subseteq Handles
        /\ handle' \in [Client -> Fd \cup {NoFd}]
        /\ handle'[c] = NoFd /\ \A d \in Client \ {c} : handle'[d] = handle[d]
    <3>1. NoFd \notin Closed(c)
      BY DEF Closed
    <3>2. /\ Handles' = (Handles \ (Closed(c) \ {NoFd})) \cup ({NoFd} \ {NoFd})
          /\ open' = (open \ (Closed(c) \ {NoFd})) \cup {f}
          /\ Closed(c) \subseteq Handles
          /\ handle' \in [Client -> Fd \cup {NoFd}]
          /\ handle'[c] = NoFd /\ \A d \in Client \ {c} : handle'[d] = handle[d]
      BY <1>5, RebindHandles
    <3>3. Closed(c) \ {NoFd} = Closed(c)
      BY <3>1
    <3> QED BY <3>2, <3>3
  <2>2. accepted' = NoFd
    BY <1>1, <1>3, <1>5
  <2>3. Accounts(open', Handles', sockfd', accepted', spilled')
    BY <1>1, <1>2, <1>3, <1>5, <2>1, <2>2 DEF Accounts
  <2>4. \A d \in Client : connected'[d] => handle'[d] # NoFd
    BY <1>5, <2>1 DEF EverySocketOwned, ConnectedHasSocket
  <2> QED BY <1>1, <1>3, <1>5, <2>1, <2>2, <2>3, <2>4 DEF Kept
<1>6. ASSUME Offered = {}, Rebind(c, NoFd, sock, {}),
             connected' = [connected EXCEPT ![c] = FALSE], UNCHANGED spilled
      PROVE  Kept
  <2>1. listening => accepted = NoFd
    BY <1>6 DEF Offered
  <2> QED BY <1>1, <1>6, <2>1, ShareStep
<1> QED BY <1>4, <1>5, <1>6 DEF Available

LEMMA ServerStep ==
  ASSUME OwnerInv, ServerBegin \/ ServerEnd \/ HasClient
  PROVE  Kept
<1> USE DEF OwnerInv, OwnersTyped
<1> DEFINE Settled ==
             /\ open' \subseteq Fd /\ {sockfd', accepted'} \subseteq Fd \cup {NoFd}
             /\ Accounts(open', Handles', sockfd', accepted', spilled')
<1>1. UNCHANGED <<handle, connected>>
  BY DEF ServerBegin, ServerEnd, HasClient, clients
<1>2. Handles' = Handles
  BY <1>1 DEF Handles
<1>3. Accounts(open, Handles, sockfd, accepted, spilled)
  BY AsAccounts DEF EverySocketOwned
<1>4. Settled
  <2>1. CASE ServerBegin
    <3>1. CASE /\ sockfd' = NoFd
               /\ spilled' = spilled \cup ({sockfd} \ {NoFd})
               /\ UNCHANGED <<open, accepted, listening, backlog>>
      BY <3>1, <1>2, <1>3 DEF Accounts
    <3>2. ASSUME NEW f \in Fd \ open, sockfd' = f, open' = open \cup {f},
                 spilled' = spilled \cup ({sockfd} \ {NoFd}), accepted' = accepted
          PROVE  Settled
      <4>1. f \notin open /\ f # NoFd
        BY <3>2, WiFiSocketAssumption
      <4> QED BY <3>2, <4>1, <1>2, <1>3 DEF Accounts
    <3>3. ASSUME NEW f \in Fd \ open, sockfd' = f, open' = open \cup {f},
                 spilled' = spilled \cup ({sockfd, accepted} \ {NoFd}), accepted' = NoFd
          PROVE  Settled
      <4>1. f \notin open /\ f # NoFd
        BY <3>3, WiFiSocketAssumption
      <4> QED BY <3>3, <4>1, <1>2, <1>3 DEF Accounts
    <3> HIDE DEF Settled
    <3> QED BY <2>1, <3>1, <3>2, <3>3 DEF ServerBegin
  <2>2. CASE ServerEnd
    <3>1. open' = open \ {sockfd} /\ sockfd' = NoFd /\ UNCHANGED <<accepted, spilled>>
      BY <2>2 DEF ServerEnd
    <3> QED BY <3>1, <1>2, <1>3, WiFiSocketAssumption DEF Accounts
  <2>3. CASE HasClient
    BY <2>3, <1>2, <1>3, WiFiSocketAssumption DEF HasClient, Accounts
  <2> QED BY <2>1, <2>2, <2>3
<1> QED
  BY <1>1, <1>4 DEF Kept, EverySocketOwned, ConnectedHasSocket
(* A client's own steps, and those of the peer. *)
LEMMA ClientStep ==
  ASSUME OwnerInv, NEW c \in Client,
         \/ Stop(c) \/ Peek(c) \/ Flush(c) \/ Connected(c)
         \/ \E d \in Client : Assign(c, d)
         \/ \E n \in 1 .. BufSize + 1 : Read(c, n)
         \/ \E n \in 1 .. MaxOut : Write(c, n)
  PROVE  Kept
<1> USE DEF server, clients
<1>1. CASE Stop(c)
  BY <1>1, ShareStep DEF Stop
<1>2. CASE Peek(c)
  BY <1>2, ConcludeStep DEF Peek
<1>3. CASE Flush(c)
  BY <1>3, StillStep DEF Flush, OwnerInv, OwnersTyped
<1>4. CASE Connected(c)
  BY <1>4, StillStep DEF Connected, OwnerInv, OwnersTyped
<1>5. ASSUME NEW d \in Client, Assign(c, d) PROVE Kept
  <2> DEFINE f == IF c = d THEN NoFd ELSE handle[d]
             yes == c # d /\ connected[d]
  <2>1. f \in Handles \cup {NoFd} /\ yes \in BOOLEAN
    BY DEF Handles
  <2>2. yes => f # NoFd
    BY DEF OwnerInv, EverySocketOwned, ConnectedHasSocket
  <2>3. Rebind(c, f, sock, {}) /\ connected' = [connected EXCEPT ![c] = yes]
        /\ UNCHANGED <<sockfd, accepted, spilled>>
    BY <1>5 DEF Assign
  <2> HIDE DEF f, yes
  <2> QED BY <2>1, <2>2, <2>3, ShareStep
<1>6. ASSUME NEW n \in 1 .. BufSize + 1, Read(c, n) PROVE Kept
  <2> DEFINE F(ok) == First(sock[handle[c]], ok)
             S(ok1, ok2) == Second(F(ok1), n, ok2)
             N(ok1, ok2) == IF n <= Unread(S(ok1, ok2)) THEN n ELSE Unread(F(ok1))
  <2>1. PICK ok1, ok2 \in BOOLEAN :
          Conclude(c, Take(S(ok1, ok2), N(ok1, ok2)), N(ok1, ok2) \in {0, n})
    BY <1>6 DEF Read
  <2>2. UNCHANGED <<sockfd, accepted, spilled>>
    BY <1>6 DEF Read
  <2>3. (N(ok1, ok2) \in {0, n}) \in BOOLEAN
    OBVIOUS
  <2> HIDE DEF S, N
  <2> QED BY <2>1, <2>2, <2>3, ConcludeStep
<1>7. ASSUME NEW n \in 1 .. MaxOut, Write(c, n) PROVE Kept
  BY <1>7, StillStep DEF Write, OwnerInv, OwnersTyped
<1> QED BY <1>1, <1>2, <1>3, <1>4, <1>5, <1>6, <1>7

LEMMA JobStep ==
  ASSUME OwnerInv, ReadMore \/ WriteSend \/ WriteRetry \/ WriteAbort \/ WriteFail
  PROVE  Kept
<1> USE DEF server, clients
<1>1. job # Idle
  <2>1. job.kind \in {"read", "write"}
    BY DEF ReadMore, WriteSend, WriteRetry, WriteAbort, WriteFail
  <2>2. Idle.kind = "idle"
    BY DEF Idle
  <2> QED BY <2>1, <2>2
<1>2. job.c \in Client
  BY <1>1 DEF OwnerInv, JobHasClient
<1>3. CASE ReadMore
  <2> DEFINE S(ok) == Fill(sock[handle[job.c]], ok)
             N(ok) == IF Filled(sock[handle[job.c]], ok) = 0 THEN 0
                      ELSE Least(job.left, Unread(S(ok)))
  <2>1. PICK ok \in BOOLEAN :
          Conclude(job.c, Take(S(ok), N(ok)), N(ok) \in {0, job.left})
    BY <1>3 DEF ReadMore
  <2>2. UNCHANGED <<sockfd, accepted, spilled>>
    BY <1>3 DEF ReadMore
  <2>3. (N(ok) \in {0, job.left}) \in BOOLEAN
    OBVIOUS
  <2> HIDE DEF S, N
  <2> QED BY <1>2, <2>1, <2>2, <2>3, ConcludeStep
<1>4. CASE WriteSend \/ WriteRetry \/ WriteAbort
  BY <1>4, StillStep DEF WriteSend, WriteRetry, WriteAbort, OwnerInv, OwnersTyped
<1>5. CASE WriteFail
  BY <1>2, <1>5, ShareStep DEF WriteFail
<1> QED BY <1>3, <1>4, <1>5

LEMMA JobKept == OwnerInv /\ [Next]_vars => JobHasClient'
<1> SUFFICES ASSUME JobHasClient, [Next]_vars PROVE JobHasClient'
  BY DEF OwnerInv
<1> USE DEF JobHasClient
<1>1. CASE job' = job \/ job' = Idle
  BY <1>1
<1>2. ASSUME NEW c \in Client, NEW n, Read(c, n) PROVE JobHasClient'
  <2>1. job' = Idle \/ \E l : job' = [kind |-> "read", c |-> c, left |-> l]
    BY <1>2 DEF Read
  <2> QED BY <2>1
<1>3. ASSUME NEW c \in Client, NEW n, Write(c, n) PROVE JobHasClient'
  BY <1>3 DEF Write
<1>4. CASE ReadMore
  <2>1. job' = Idle \/ \E l : job' = [job EXCEPT !.left = l]
    BY <1>4 DEF ReadMore
  <2>2. job # Idle
    BY <1>4 DEF ReadMore, Idle
  <2> QED BY <2>1, <2>2
<1>5. CASE WriteSend
  <2>1. job' = Idle \/ \E t, r : job' = [job EXCEPT !.total = t, !.retry = r]
    BY <1>5 DEF WriteSend
  <2>2. job # Idle
    BY <1>5 DEF WriteSend, Idle
  <2> QED BY <2>1, <2>2
<1>6. CASE WriteRetry
  <2>1. job' = Idle \/ \E r : job' = [job EXCEPT !.retry = r]
    BY <1>6 DEF WriteRetry
  <2>2. job # Idle
    BY <1>6 DEF WriteRetry, Idle
  <2> QED BY <2>1, <2>2
<1> QED
  BY <1>1, <1>2, <1>3, <1>4, <1>5, <1>6
  DEF Next, vars, Stop, Connect, Peek, Flush, Connected, Available, Assign, WriteAbort,
      WriteFail, ServerBegin, ServerEnd, HasClient, PeerConnects, PeerSends

LEMMA OwnerStep == OwnerInv /\ [Next]_vars => OwnerInv'
<1> SUFFICES ASSUME OwnerInv, [Next]_vars PROVE OwnerInv'
  OBVIOUS
<1>1. Kept
  <2>1. ASSUME NEW c \in Client, Connect(c) PROVE Kept
    BY <2>1, ConnectStep
  <2>2. ASSUME NEW c \in Client, Available(c) PROVE Kept
    BY <2>2, AvailableStep
  <2>3. CASE ServerBegin \/ ServerEnd \/ HasClient
    BY <2>3, ServerStep
  <2>4. CASE ReadMore \/ WriteSend \/ WriteRetry \/ WriteAbort \/ WriteFail
    BY <2>4, JobStep
  <2>5. CASE PeerConnects \/ (\E f \in Fd : PeerSends(f)) \/ UNCHANGED vars
    BY <2>5, StillStep
    DEF PeerConnects, PeerSends, vars, server, clients, OwnerInv, OwnersTyped
  <2> QED BY <2>1, <2>2, <2>3, <2>4, <2>5, ClientStep DEF Next
<1> QED BY <1>1, KeptSuffices, JobKept DEF OwnerInv

LEMMA OwnerInit == Init => OwnerInv
<1> SUFFICES ASSUME Init PROVE OwnerInv
  OBVIOUS
<1>1. Handles = {}
  BY DEF Init, Handles
<1> QED
  BY <1>1 DEF Init, OwnerInv, OwnersTyped, JobHasClient, EverySocketOwned,
              NoStrangersSocket, NoOtherLeak, ConnectedHasSocket

(* Sockets and their owners agree through every order of copying,          *)
(* assigning, stopping, failing and handing out of clients (WiFiClient,    *)
(* WiFiClientSocketHandle, WiFiServer).                                    *)
THEOREM EverySocketOwnedAlways == Spec => []EverySocketOwned
<1>1. OwnerInv => EverySocketOwned
  BY DEF OwnerInv
<1> QED BY <1>1, OwnerInit, OwnerStep, PTL DEF Spec

-----------------------------------------------------------------------------
(* A write() under way has sent, and not yet reported, its total. *)
Sending ==
  /\ "kind" \in DOMAIN job
  /\ job.kind = "write" =>
       /\ job \in [kind : {"write"}, c : Client, size : Nat, total : Nat, retry : Int]
       /\ job.total <= silent

SilentInv == silent \in Int /\ NeverOverclaims /\ Sending

(* The steps that are not part of a write(). *)
LEMMA OtherJob ==
  ASSUME SilentInv, UNCHANGED silent,
         "kind" \in DOMAIN job', job' = job \/ job'.kind \in {"idle", "read"}
  PROVE  SilentInv'
<1> QED BY DEF SilentInv, NeverOverclaims, Sending

LEMMA IdleJob ==
  ASSUME SilentInv, job' = Idle, silent' \in Nat
  PROVE  SilentInv'
<1> QED BY DEF SilentInv, NeverOverclaims, Sending, Idle

LEMMA SilentStep == SilentInv /\ [Next]_vars => SilentInv'
<1> SUFFICES ASSUME SilentInv, [Next]_vars PROVE SilentInv'
  OBVIOUS
<1>1. CASE job' = job /\ silent' = silent
  BY <1>1, OtherJob DEF SilentInv, Sending
<1>2. CASE job' = Idle /\ silent' = silent
  BY <1>2, OtherJob DEF Idle
<1>3. ASSUME NEW c \in Client, NEW n, Read(c, n) PROVE SilentInv'
  <2>1. job' = Idle \/ \E l : job' = [kind |-> "read", c |-> c, left |-> l]
    BY <1>3 DEF Read
  <2>2. "kind" \in DOMAIN job' /\ job'.kind \in {"idle", "read"}
    BY <2>1 DEF Idle
  <2>3. silent' = silent
    BY <1>3 DEF Read
  <2> QED BY <2>2, <2>3, OtherJob
<1>4. CASE ReadMore
  <2>1. job' = Idle \/ \E l : job' = [job EXCEPT !.left = l]
    BY <1>4 DEF ReadMore
  <2>2. job.kind = "read" /\ silent' = silent /\ "kind" \in DOMAIN job
    BY <1>4 DEF ReadMore, SilentInv, Sending
  <2>3. "kind" \in DOMAIN job' /\ job'.kind \in {"idle", "read"}
    BY <2>1, <2>2 DEF Idle
  <2> QED BY <2>2, <2>3, OtherJob
<1>5. ASSUME NEW c \in Client, NEW n \in 1 .. MaxOut, Write(c, n) PROVE SilentInv'
  <2>1. job' = [kind |-> "write", c |-> c, size |-> n, total |-> 0, retry |-> MaxRetry]
        /\ silent' = silent
    BY <1>5 DEF Write
  <2>2. n \in Nat /\ MaxRetry \in Int
    BY WiFiSocketAssumption
  <2>3. job' \in [kind : {"write"}, c : Client, size : Nat, total : Nat, retry : Int]
    BY <2>1, <2>2
  <2>4. job'.total = 0 /\ "kind" \in DOMAIN job'
    BY <2>1
  <2> QED BY <2>1, <2>3, <2>4 DEF SilentInv, NeverOverclaims, Sending
<1>6. ASSUME job.kind = "write"
      PROVE  /\ job \in [kind : {"write"}, c : Client, size : Nat, total : Nat, retry : Int]
             /\ job.total \in Nat /\ job.size \in Nat /\ job.total <= silent
             /\ silent - job.total \in Nat
  BY <1>6 DEF SilentInv, Sending
<1>7. CASE WriteSend
  <2>1. job.kind = "write"
    BY <1>7 DEF WriteSend
  <2>2. PICK n \in 1 .. job.size - job.total :
          IF job.total + n = job.size
          THEN job' = Idle /\ silent' = silent + n - (job.total + n)
          ELSE /\ job' = [job EXCEPT !.total = job.total + n, !.retry = MaxRetry]
               /\ silent' = silent + n
    BY <1>7 DEF WriteSend
  <2>3. n \in Nat /\ silent \in Int /\ MaxRetry \in Int
    BY <1>6, <2>1, WiFiSocketAssumption DEF SilentInv
  <2>4. CASE job.total + n = job.size
    <3>1. silent + n - (job.total + n) = silent - job.total
      BY <1>6, <2>1, <2>3
    <3> QED BY <1>6, <2>1, <2>2, <2>4, <3>1, IdleJob
  <2>5. CASE job.total + n # job.size
    <3> DEFINE t == job.total + n
    <3>1. job' = [job EXCEPT !.total = t, !.retry = MaxRetry] /\ silent' = silent + n
      BY <2>2, <2>5
    <3>2. t \in Nat /\ silent + n \in Int /\ silent + n >= 0 /\ t <= silent + n
      BY <1>6, <2>1, <2>3 DEF SilentInv, NeverOverclaims
    <3> HIDE DEF t
    <3>3. job' \in [kind : {"write"}, c : Client, size : Nat, total : Nat, retry : Int]
      BY <1>6, <2>1, <2>3, <3>1, <3>2
    <3>4. job'.total = t
      BY <1>6, <2>1, <3>1
    <3> QED BY <3>1, <3>2, <3>3, <3>4 DEF SilentInv, NeverOverclaims, Sending
  <2> QED BY <2>4, <2>5
<1>8. CASE WriteRetry
  <2>1. job.kind = "write"
    BY <1>8 DEF WriteRetry
  <2>2. CASE job.retry = 1
    BY <1>6, <1>8, <2>1, <2>2, IdleJob DEF WriteRetry
  <2>3. CASE job.retry # 1
    <3> DEFINE r == job.retry - 1
    <3>1. job' = [job EXCEPT !.retry = r] /\ silent' = silent
      BY <1>8, <2>3 DEF WriteRetry
    <3>2. r \in Int
      BY <1>6, <2>1
    <3> HIDE DEF r
    <3>3. job' \in [kind : {"write"}, c : Client, size : Nat, total : Nat, retry : Int]
          /\ job'.total = job.total
      BY <1>6, <2>1, <3>1, <3>2
    <3> QED BY <1>6, <2>1, <3>1, <3>3 DEF SilentInv, NeverOverclaims, Sending
  <2> QED BY <2>2, <2>3
<1>9. CASE WriteFail
  <2>1. job.kind = "write" /\ job' = Idle /\ silent' = silent - job.total
    BY <1>9 DEF WriteFail
  <2> QED BY <1>6, <2>1, IdleJob
<1> QED
  BY <1>1, <1>2, <1>3, <1>4, <1>5, <1>7, <1>8, <1>9
  DEF Next, vars, Stop, Connect, Peek, Flush, Connected, Available, Assign, WriteAbort,
      ServerBegin, ServerEnd, HasClient, PeerConnects, PeerSends

(* What write() reports was handed to the stack. *)
THEOREM NeverOverclaimsAlways == Spec => []NeverOverclaims
<1>1. Init => SilentInv
  BY DEF Init, SilentInv, NeverOverclaims, Sending, Idle
<1>2. SilentInv => NeverOverclaims
  BY DEF SilentInv
<1> QED BY <1>1, <1>2, SilentStep, PTL DEF Spec

-----------------------------------------------------------------------------
(* What of a connection is out of its buffer, in it, and still to come.    *)
Line(past, held, pos, stream) ==
  past \o SubSeq(held, pos + 1, Len(held)) \o stream

UpTo(n) == [i \in 1 .. n |-> i]

Buffered ==
  [stream : Seq(Nat), sent : Nat, held : Seq(Nat), pos : Nat, failed : BOOLEAN,
   past : Seq(Nat)]

Intact(s) ==
  /\ s \in Buffered
  /\ s.pos <= Len(s.held) /\ Len(s.held) <= BufSize
  /\ Line(s.past, s.held, s.pos, s.stream) = UpTo(s.sent)

(* Reading moves bytes over the first of the two joints of the line, and   *)
(* filling the buffer over the second; starting the buffer again from the  *)
(* front, and one byte more, change nothing of what there was.             *)
LEMMA RestOf ==
  ASSUME NEW q \in Seq(Nat), NEW a \in 0 .. Len(q), NEW b \in a .. Len(q)
  PROVE  SubSeq(q, a + 1, b) \in Seq(Nat) /\ Len(SubSeq(q, a + 1, b)) = b - a
<1>1. \A i \in a + 1 .. b : q[i] \in Nat
  OBVIOUS
<1>2. a + 1 \in Int /\ b \in Int
  OBVIOUS
<1> QED BY <1>1, <1>2, SubSeqProperties

LEMMA Adjacent ==
  ASSUME NEW q \in Seq(Nat), NEW a \in 0 .. Len(q), NEW b \in a .. Len(q),
         NEW c \in b .. Len(q)
  PROVE  SubSeq(q, a + 1, b) \o SubSeq(q, b + 1, c) = SubSeq(q, a + 1, c)
<1> DEFINE m == a + 1
<1>1. m \in 1 .. Len(q) + 1 /\ b \in m - 1 .. Len(q)
  OBVIOUS
<1> HIDE DEF m
<1>2. SubSeq(q, m, b) \o SubSeq(q, b + 1, c) = SubSeq(q, m, c)
  BY <1>1, ConcatAdjacentSubSeq, Zenon
<1> QED BY <1>2 DEF m

LEMMA Together ==
  ASSUME NEW x \in Seq(Nat), NEW y \in Seq(Nat), NEW z \in Seq(Nat)
  PROVE  (x \o y) \o z = x \o (y \o z)
BY ONLY ConcatAssociative, SMTT(20)

LEMMA TakeLine ==
  ASSUME NEW past \in Seq(Nat), NEW held \in Seq(Nat), NEW stream \in Seq(Nat),
         NEW pos \in 0 .. Len(held), NEW n \in 0 .. Len(held) - pos
  PROVE  Line(past \o SubSeq(held, pos + 1, pos + n), held, pos + n, stream)
           = Line(past, held, pos, stream)
<1> DEFINE p == pos + n
<1>1. p \in pos .. Len(held) /\ p \in 0 .. Len(held) /\ pos \in 0 .. Len(held)
      /\ Len(held) \in p .. Len(held) /\ Len(held) \in pos .. Len(held)
  OBVIOUS
<1> HIDE DEF p
<1> DEFINE x == SubSeq(held, pos + 1, p)
           y == SubSeq(held, p + 1, Len(held))
           z == SubSeq(held, pos + 1, Len(held))
<1>2. x \in Seq(Nat) /\ y \in Seq(Nat) /\ z \in Seq(Nat)
  BY <1>1, RestOf
<1>3. x \o y = z
  BY <1>1, Adjacent
<1> HIDE DEF x, y, z
<1>4. (past \o x) \o y = past \o (x \o y)
  BY <1>2, Together, ZenonT(30)
<1> QED BY <1>3, <1>4 DEF Line, x, y, z, p

LEMMA RewindLine ==
  ASSUME NEW past \in Seq(Nat), NEW held \in Seq(Nat), NEW stream \in Seq(Nat)
  PROVE  Line(past, <<>>, 0, stream) = Line(past, held, Len(held), stream)
<1>1. SubSeq(<<>>, 1, 0) = <<>> /\ SubSeq(held, Len(held) + 1, Len(held)) = <<>>
  BY SubSeqEmpty
<1> QED BY <1>1 DEF Line

(* A buffer with more behind it, seen from where reading goes on. *)
LEMMA LongerRest ==
  ASSUME NEW q \in Seq(Nat), NEW r \in Seq(Nat), NEW a \in 0 .. Len(q)
  PROVE  SubSeq(q \o r, a + 1, Len(q \o r)) = SubSeq(q, a + 1, Len(q)) \o r
<1> DEFINE w == q \o r
           l == SubSeq(w, a + 1, Len(w))
           h == SubSeq(q, a + 1, Len(q))
           k == h \o r
<1>1. /\ w \in Seq(Nat) /\ Len(w) = Len(q) + Len(r)
      /\ \A i \in 1 .. Len(q) + Len(r) :
           w[i] = IF i <= Len(q) THEN q[i] ELSE r[i - Len(q)]
  BY ConcatProperties
<1> HIDE DEF w
<1>2. a \in 0 .. Len(w) /\ Len(w) \in a .. Len(w) /\ Len(q) \in a .. Len(q)
      /\ Len(q) \in Nat /\ Len(r) \in Nat /\ a \in Nat
  BY <1>1
<1>3. l \in Seq(Nat) /\ Len(l) = Len(w) - a /\ h \in Seq(Nat) /\ Len(h) = Len(q) - a
  BY <1>1, <1>2, RestOf
<1>4. \A i \in 1 .. Len(w) - a : l[i] = w[i + a]
  BY <1>1, <1>2
<1>5. \A i \in 1 .. Len(q) - a : h[i] = q[i + a]
  BY <1>2, SMTT(30)
<1> HIDE DEF l, h
<1>6. /\ k \in Seq(Nat) /\ Len(k) = Len(h) + Len(r)
      /\ \A i \in 1 .. Len(h) + Len(r) :
           k[i] = IF i <= Len(h) THEN h[i] ELSE r[i - Len(h)]
  BY <1>3, ConcatProperties
<1> HIDE DEF k
<1>7. Len(l) = Len(k)
  BY <1>1, <1>2, <1>3, <1>6
<1>8. ASSUME NEW i \in 1 .. Len(l) PROVE l[i] = k[i]
  <2>1. i \in Nat /\ i \in 1 .. Len(w) - a /\ i + a \in 1 .. Len(q) + Len(r)
        /\ i \in 1 .. Len(h) + Len(r)
    BY <1>1, <1>2, <1>3
  <2>2. l[i] = w[i + a]
    BY <1>4, <2>1
  <2>3. CASE i <= Len(h)
    <3>1. i + a <= Len(q) /\ i \in 1 .. Len(q) - a
      BY <1>2, <1>3, <2>1, <2>3
    <3>2. k[i] = h[i] /\ h[i] = q[i + a]
      BY <1>5, <1>6, <2>1, <2>3, <3>1
    <3>3. w[i + a] = q[i + a]
      BY <1>1, <2>1, <3>1
    <3> QED BY <2>2, <3>2, <3>3
  <2>4. CASE ~ (i <= Len(h))
    <3>1. ~ (i + a <= Len(q)) /\ (i + a) - Len(q) = i - Len(h)
      BY <1>2, <1>3, <2>1, <2>4
    <3>2. k[i] = r[i - Len(h)]
      BY <1>6, <2>1, <2>4
    <3>3. w[i + a] = r[(i + a) - Len(q)]
      BY <1>1, <2>1, <3>1
    <3> QED BY <2>2, <3>1, <3>2, <3>3
  <2> QED BY <2>3, <2>4
<1>9. l = k
  BY <1>3, <1>6, <1>7, <1>8, SeqEqual
<1> QED BY <1>9 DEF l, k, h, w

LEMMA FillLine ==
  ASSUME NEW past \in Seq(Nat), NEW held \in Seq(Nat), NEW stream \in Seq(Nat),
         NEW pos \in 0 .. Len(held), NEW n \in 0 .. Len(stream)
  PROVE  Line(past, held \o SubSeq(stream, 1, n), pos, SubSeq(stream, n + 1, Len(stream)))
           = Line(past, held, pos, stream)
<1> DEFINE x == SubSeq(stream, 1, n)
           y == SubSeq(stream, n + 1, Len(stream))
           h == SubSeq(held, pos + 1, Len(held))
           l == SubSeq(held \o x, pos + 1, Len(held \o x))
<1>1. n \in 0 .. Len(stream) /\ 0 \in 0 .. Len(stream) /\ n \in Nat
      /\ Len(stream) \in n .. Len(stream) /\ n \in 0 .. n
      /\ Len(held) \in pos .. Len(held)
  OBVIOUS
<1>2. SubSeq(stream, 0 + 1, n) \in Seq(Nat)
  BY <1>1, RestOf
<1>3. x \in Seq(Nat) /\ y \in Seq(Nat) /\ h \in Seq(Nat)
  BY <1>1, <1>2, RestOf
<1>4. SubSeq(stream, 0 + 1, n) \o SubSeq(stream, n + 1, Len(stream))
        = SubSeq(stream, 0 + 1, Len(stream))
  BY <1>1, Adjacent
<1>5. x \o y = stream
  <2>1. SubSeq(stream, 1, Len(stream)) = stream
    BY SubSeqFull
  <2>2. 0 + 1 = 1
    OBVIOUS
  <2> QED BY <1>4, <2>1, <2>2
<1>6. l = h \o x
  BY <1>3, LongerRest
<1> HIDE DEF x, y, h, l
<1>7. past \o h \in Seq(Nat)
  BY <1>3, ConcatProperties
<1>8. (past \o h) \o x = past \o (h \o x)
  BY <1>3, Together, ZenonT(30)
<1>9. ((past \o h) \o x) \o y = (past \o h) \o (x \o y)
  BY <1>3, <1>7, Together, ZenonT(30)
<1>10. (past \o l) \o y = (past \o h) \o stream
  BY <1>5, <1>6, <1>8, <1>9
<1> QED BY <1>10 DEF Line, x, y, h, l

(* The peer sends one more. *)
LEMMA SendLine ==
  ASSUME NEW past \in Seq(Nat), NEW held \in Seq(Nat), NEW stream \in Seq(Nat),
         NEW pos \in 0 .. Len(held), NEW n \in Nat,
         Line(past, held, pos, stream) = UpTo(n)
  PROVE  Line(past, held, pos, Append(stream, n + 1)) = UpTo(n + 1)
<1> DEFINE h == past \o SubSeq(held, pos + 1, Len(held))
           m == n + 1
<1>1. h \in Seq(Nat)
  BY RestOf, ConcatProperties
<1>2. m \in Nat /\ <<m>> \in Seq(Nat)
  OBVIOUS
<1> HIDE DEF h
<1>3. Append(stream, m) = stream \o <<m>>
  BY <1>2, AppendIsConcat
<1>4. h \o (stream \o <<m>>) = (h \o stream) \o <<m>>
  BY <1>1, <1>2, Together
<1>5. h \o stream = UpTo(n)
  BY DEF Line, h
<1>6. UpTo(n) \o <<m>> = UpTo(m)
  <2>1. UpTo(n) \in Seq(Nat) /\ Len(UpTo(n)) = n
    BY DEF UpTo
  <2>2. Append(UpTo(n), m) = UpTo(n) \o <<m>>
    BY <1>2, <2>1, AppendIsConcat
  <2>3. Append(UpTo(n), m) = UpTo(m)
    BY <2>1 DEF UpTo
  <2> QED BY <2>2, <2>3
<1> QED BY <1>3, <1>4, <1>5, <1>6 DEF Line, h

-----------------------------------------------------------------------------
(* The operators on a receive buffer keep a connection intact. *)
LEMMA TakeIntact ==
  ASSUME NEW s, Intact(s), NEW n \in 0 .. Unread(s)
  PROVE  Intact(Take(s, n))
<1> DEFINE x == SubSeq(s.held, s.pos + 1, s.pos + n)
           p == s.pos + n
           q == s.past \o x
<1>1. /\ s \in Buffered /\ s.pos \in 0 .. Len(s.held) /\ n \in 0 .. Len(s.held) - s.pos
      /\ s.held \in Seq(Nat) /\ s.past \in Seq(Nat) /\ s.stream \in Seq(Nat)
  BY DEF Intact, Buffered, Unread
<1>2. p \in s.pos .. Len(s.held) /\ p \in Nat /\ p <= Len(s.held)
  BY <1>1
<1>3. x \in Seq(Nat)
  BY <1>1, <1>2, RestOf
<1>4. q \in Seq(Nat)
  BY <1>1, <1>3, ConcatProperties
<1>5. Line(q, s.held, p, s.stream) = UpTo(s.sent)
  BY <1>1, TakeLine DEF Intact
<1>6. Take(s, n) = [s EXCEPT !.pos = p, !.past = q]
  BY DEF Take
<1> HIDE DEF x, p, q
<1>7. /\ Take(s, n) \in Buffered
      /\ Take(s, n).pos = p /\ Take(s, n).past = q /\ Take(s, n).held = s.held
      /\ Take(s, n).stream = s.stream /\ Take(s, n).sent = s.sent
  BY <1>1, <1>2, <1>4, <1>6 DEF Buffered
<1> QED BY <1>2, <1>5, <1>7 DEF Intact

LEMMA FailIntact ==
  ASSUME NEW s, Intact(s), NEW b \in BOOLEAN
  PROVE  Intact([s EXCEPT !.failed = b])
<1> DEFINE t == [s EXCEPT !.failed = b]
<1>1. /\ t \in Buffered /\ t.pos = s.pos /\ t.past = s.past /\ t.held = s.held
      /\ t.stream = s.stream /\ t.sent = s.sent
  BY DEF Intact, Buffered
<1> HIDE DEF t
<1>2. Intact(t)
  BY <1>1 DEF Intact
<1> QED BY <1>2 DEF t

LEMMA RewoundIntact ==
  ASSUME NEW s, Intact(s)
  PROVE  /\ Intact(Rewound(s))
         /\ Unread(s) >= 1 => Rewound(s) = s
<1> DEFINE t == [s EXCEPT !.held = <<>>, !.pos = 0]
<1>1. /\ s \in Buffered /\ s.pos \in Nat /\ s.held \in Seq(Nat) /\ Len(s.held) \in Nat
      /\ s.past \in Seq(Nat) /\ s.stream \in Seq(Nat)
  BY DEF Intact, Buffered
<1>2. CASE s.held # <<>> /\ s.pos = Len(s.held)
  <2> DEFINE e == <<>>
  <2>e. e \in Seq(Nat) /\ 0 \in Nat
    OBVIOUS
  <2> HIDE DEF e
  <2>0. t = [s EXCEPT !.held = e, !.pos = 0]
    BY DEF e
  <2>1. /\ t \in Buffered /\ t.pos = 0 /\ t.held = e /\ t.past = s.past
        /\ t.stream = s.stream /\ t.sent = s.sent
    BY <1>1, <2>e, <2>0 DEF Buffered
  <2>2. Line(s.past, <<>>, 0, s.stream) = UpTo(s.sent)
    BY <1>1, <1>2, RewindLine DEF Intact
  <2> HIDE DEF t
  <2>3. Len(<<>>) = 0 /\ 0 <= BufSize
    BY WiFiSocketAssumption
  <2>4. Intact(t)
    BY <2>1, <2>2, <2>3 DEF Intact, e
  <2>5. Unread(s) = 0
    BY <1>1, <1>2 DEF Unread
  <2> QED BY <1>2, <2>4, <2>5 DEF Rewound, t
<1>3. CASE ~ (s.held # <<>> /\ s.pos = Len(s.held))
  BY <1>3 DEF Rewound
<1> QED BY <1>2, <1>3

LEMMA FillIntact ==
  ASSUME NEW s, Intact(s), NEW ok \in BOOLEAN
  PROVE  /\ Intact(Fill(s, ok))
         /\ Unread(s) >= 1 => Unread(Fill(s, ok)) >= Unread(s)
<1> DEFINE r == Rewound(s)
<1>1. Intact(r) /\ (Unread(s) >= 1 => r = s)
  BY RewoundIntact
<1> HIDE DEF r
<1>2. CASE Len(r.held) = BufSize
  <2>1. Fill(s, ok) = r
    BY <1>2 DEF Fill, r
  <2> QED BY <1>1, <2>1 DEF Intact, Buffered, Unread
<1>3. CASE Len(r.held) # BufSize /\ ~ ok
  <2>1. Fill(s, ok) = [r EXCEPT !.failed = TRUE]
    BY <1>3 DEF Fill, r
  <2>2. Fill(s, ok).held = r.held /\ Fill(s, ok).pos = r.pos
    BY <1>1, <2>1 DEF Intact, Buffered
  <2>3. Intact(Fill(s, ok))
    BY <1>1, <2>1, FailIntact
  <2> QED BY <1>1, <2>2, <2>3 DEF Intact, Buffered, Unread
<1>4. CASE Len(r.held) # BufSize /\ ok
  <2> DEFINE n == Fits(r)
             x == SubSeq(r.stream, 1, n)
             h == r.held \o x
             y == SubSeq(r.stream, n + 1, Len(r.stream))
             t == [r EXCEPT !.held = h, !.stream = y]
  <2>1. /\ r \in Buffered /\ r.held \in Seq(Nat) /\ r.past \in Seq(Nat)
        /\ r.stream \in Seq(Nat) /\ r.pos \in 0 .. Len(r.held)
        /\ Len(r.held) \in Nat /\ Len(r.stream) \in Nat /\ Len(r.held) <= BufSize
        /\ BufSize \in Nat
    BY <1>1, WiFiSocketAssumption DEF Intact, Buffered
  <2>a. ASSUME NEW a \in Nat, NEW b \in Nat, NEW c \in Nat, b <= c
        PROVE  /\ Least(c - b, a) \in 0 .. a
               /\ b + Least(c - b, a) <= c /\ Least(c - b, a) \in Nat
    BY <2>a DEF Least
  <2>2. n \in 0 .. Len(r.stream) /\ Len(r.held) + n <= BufSize /\ n \in Nat
    BY <2>1, <2>a DEF Fits
  <2>3. Fill(s, ok) = t
    BY <1>4 DEF Fill, r
  <2> HIDE DEF n
  <2>4. SubSeq(r.stream, 0 + 1, n) \in Seq(Nat) /\ Len(SubSeq(r.stream, 0 + 1, n)) = n - 0
        /\ y \in Seq(Nat)
    BY <2>1, <2>2, RestOf
  <2>5. x \in Seq(Nat) /\ Len(x) = n
    BY <2>2, <2>4
  <2>6. Line(r.past, h, r.pos, y) = UpTo(r.sent)
    BY <1>1, <2>1, <2>2, FillLine DEF Intact
  <2> HIDE DEF x
  <2>7. h \in Seq(Nat) /\ Len(h) = Len(r.held) + n
    BY <2>1, <2>5, ConcatProperties
  <2> HIDE DEF h, y
  <2>8. /\ t \in Buffered /\ t.pos = r.pos /\ t.held = h /\ t.stream = y
        /\ t.past = r.past /\ t.sent = r.sent
    BY <2>1, <2>4, <2>7 DEF Buffered
  <2> HIDE DEF t
  <2>9. Intact(t)
    BY <2>1, <2>2, <2>6, <2>7, <2>8 DEF Intact
  <2>10. Unread(t) >= Unread(r)
    BY <2>1, <2>2, <2>7, <2>8 DEF Unread
  <2> QED BY <1>1, <2>3, <2>9, <2>10
<1> QED BY <1>2, <1>3, <1>4

LEMMA FreshIntact == Intact(Fresh)
<1> DEFINE e == <<>>
<1>1. e \in Seq(Nat) /\ Len(e) = 0 /\ 0 \in Nat /\ 0 <= BufSize
  BY WiFiSocketAssumption
<1>2. SubSeq(e, 0 + 1, Len(e)) = <<>>
  BY <1>1, SubSeqEmpty
<1>3. (e \o e) \o e = e /\ UpTo(0) = e
  BY DEF UpTo
<1>4. Line(e, e, 0, e) = UpTo(0)
  BY <1>2, <1>3 DEF Line
<1> HIDE DEF e
<1>5. Fresh = [stream |-> e, sent |-> 0, held |-> e, pos |-> 0, failed |-> FALSE,
               past |-> e]
  BY DEF Fresh, e
<1> QED BY <1>1, <1>4, <1>5 DEF Intact, Buffered

(* Every connection is intact, and a descriptor without a client has none. *)
Streams(s, hs) ==
  /\ s \in [Fd -> Buffered]
  /\ \A f \in Fd : Intact(s[f]) /\ (f \notin hs => s[f] = Fresh)

(* A read() under way has a connection to read from. *)
ReadHas ==
  job.kind = "read" => /\ job \in [kind : {"read"}, c : Client, left : Nat]
                       /\ handle[job.c] \in Fd

StreamInv == Streams(sock, Handles) /\ ReadHas

LEMMA RebindStreams ==
  ASSUME OwnersTyped, NEW c \in Client, NEW f \in Fd \cup {NoFd}, NEW s, NEW kept,
         Streams(s, Handles), Rebind(c, f, s, kept)
  PROVE  Streams(sock', Handles')
<1>1. Handles' = (Handles \ (Closed(c) \ {f})) \cup ({f} \ {NoFd})
  BY RebindHandles
<1>2. sock' = [g \in Fd |-> IF g \in Closed(c) \ {f} THEN Fresh ELSE s[g]]
  BY DEF Rebind
<1>3. Intact(Fresh) /\ Fresh \in Buffered
  BY FreshIntact DEF Intact
<1>4. \A g \in Fd : sock'[g] \in Buffered
  BY <1>2, <1>3 DEF Streams
<1>5. sock' \in [Fd -> Buffered]
  BY <1>2, <1>4
<1>6. ASSUME NEW g \in Fd
      PROVE  Intact(sock'[g]) /\ (g \notin Handles' => sock'[g] = Fresh)
  BY <1>1, <1>2, <1>3 DEF Streams
<1> QED BY <1>5, <1>6 DEF Streams

(* One connection changes, and no client. *)
LEMMA OneStream ==
  ASSUME Streams(sock, Handles), NEW f \in Handles, f \in Fd, NEW s, Intact(s),
         sock' = [sock EXCEPT ![f] = s], handle' = handle
  PROVE  Streams(sock', Handles')
<1>1. s \in Buffered
  BY DEF Intact
<1>2. Handles' = Handles
  BY DEF Handles
<1>3. sock' \in [Fd -> Buffered]
  BY <1>1 DEF Streams
<1>4. ASSUME NEW g \in Fd
      PROVE  Intact(sock'[g]) /\ (g \notin Handles => sock'[g] = Fresh)
  BY <1>4 DEF Streams
<1> QED BY <1>2, <1>3, <1>4 DEF Streams

LEMMA ConcludeStreams ==
  ASSUME OwnersTyped, Streams(sock, Handles), NEW c \in Client, handle[c] \in Fd, NEW s,
         Intact(s), NEW done \in BOOLEAN, Conclude(c, s, done)
  PROVE  Streams(sock', Handles') /\ (~ done => handle' = handle)
<1>1. handle[c] \in Handles
  BY WiFiSocketAssumption DEF Handles
<1>2. CASE done /\ s.failed
  <2> DEFINE t == [sock EXCEPT ![handle[c]] = s]
  <2>1. Rebind(c, NoFd, t, {})
    BY <1>2 DEF Conclude
  <2>2. t \in [Fd -> Buffered]
    BY DEF Streams, Intact
  <2>3. \A g \in Fd : Intact(t[g]) /\ (g \notin Handles => t[g] = Fresh)
    BY <1>1 DEF Streams
  <2> HIDE DEF t
  <2>4. Streams(t, Handles)
    BY <2>2, <2>3 DEF Streams
  <2> QED BY <1>2, <2>1, <2>4, RebindStreams
<1>3. CASE ~ (done /\ s.failed)
  <2>1. sock' = [sock EXCEPT ![handle[c]] = s] /\ handle' = handle
    BY <1>3 DEF Conclude
  <2> QED BY <1>1, <2>1, OneStream
<1> QED BY <1>2, <1>3

(* Reads. *)
LEMMA UnreadIs == ASSUME NEW s, Intact(s) PROVE Unread(s) \in Nat
BY DEF Intact, Buffered, Unread

LEMMA FirstSecond ==
  ASSUME NEW s, Intact(s), NEW ok \in BOOLEAN, NEW n \in Nat
  PROVE  /\ Intact(First(s, ok))
         /\ Intact(Second(s, n, ok)) /\ Unread(Second(s, n, ok)) >= Unread(s)
<1>1. Unread(s) \in Nat
  BY UnreadIs
<1>2. Intact(First(s, ok))
  BY FillIntact DEF First
<1>3. Second(s, n, ok) = s \/ (Unread(s) >= 1 /\ Second(s, n, ok) = Fill(s, ok))
  BY <1>1 DEF Second
<1> QED BY <1>1, <1>2, <1>3, FillIntact

LEMMA ReadStreams ==
  ASSUME OwnersTyped, StreamInv, NEW c \in Client, NEW n \in 1 .. BufSize + 1, Read(c, n)
  PROVE  StreamInv'
<1>1. handle[c] \in Fd /\ n \in Nat
  BY WiFiSocketAssumption DEF Read, OwnersTyped
<1> DEFINE s0 == sock[handle[c]]
<1>2. Intact(s0)
  BY <1>1 DEF StreamInv, Streams
<1> HIDE DEF s0
<1>3. PICK ok1 \in BOOLEAN, ok2 \in BOOLEAN :
        LET f == First(s0, ok1)
            s == Second(f, n, ok2)
            now == IF n <= Unread(s) THEN n ELSE Unread(f)
            done == now \in {0, n}
        IN /\ Conclude(c, Take(s, now), done)
           /\ job' = IF done THEN Idle ELSE [kind |-> "read", c |-> c, left |-> n - now]
  BY DEF Read, s0
<1> DEFINE f == First(s0, ok1)
           s == Second(f, n, ok2)
           now == IF n <= Unread(s) THEN n ELSE Unread(f)
           done == now \in {0, n}
<1>4. Intact(f)
  BY <1>2, FirstSecond
<1> HIDE DEF f
<1>5. Intact(s) /\ Unread(s) >= Unread(f)
  BY <1>1, <1>4, FirstSecond
<1> HIDE DEF s
<1>6. Unread(s) \in Nat /\ Unread(f) \in Nat
  BY <1>4, <1>5, UnreadIs
<1>7. now \in 0 .. Unread(s) /\ n - now \in Nat
  BY <1>1, <1>5, <1>6
<1>8. /\ Conclude(c, Take(s, now), done)
      /\ job' = IF done THEN Idle ELSE [kind |-> "read", c |-> c, left |-> n - now]
  BY <1>3 DEF f, s
<1> HIDE DEF now
<1>9. Intact(Take(s, now))
  BY <1>5, <1>7, TakeIntact
<1>10. done \in BOOLEAN
  OBVIOUS
<1> HIDE DEF done
<1>11. Streams(sock', Handles') /\ (~ done => handle' = handle)
  BY <1>1, <1>8, <1>9, <1>10, ConcludeStreams DEF StreamInv
<1>12. ReadHas'
  BY <1>1, <1>7, <1>8, <1>10, <1>11 DEF ReadHas, Idle
<1> QED BY <1>11, <1>12 DEF StreamInv

LEMMA ReadMoreStreams ==
  ASSUME OwnersTyped, StreamInv, ReadMore
  PROVE  StreamInv'
<1>1. /\ job.kind = "read" /\ job \in [kind : {"read"}, c : Client, left : Nat]
      /\ job.c \in Client /\ job.left \in Nat /\ handle[job.c] \in Fd
  BY DEF ReadMore, StreamInv, ReadHas
<1> DEFINE s0 == sock[handle[job.c]]
<1>2. Intact(s0)
  BY <1>1 DEF StreamInv, Streams
<1> HIDE DEF s0
<1>3. PICK ok \in BOOLEAN :
        LET s == Fill(s0, ok)
            now == IF Filled(s0, ok) = 0 THEN 0 ELSE Least(job.left, Unread(s))
            done == now \in {0, job.left}
        IN /\ Conclude(job.c, Take(s, now), done)
           /\ job' = IF done THEN Idle ELSE [job EXCEPT !.left = @ - now]
  BY DEF ReadMore, s0
<1> DEFINE s == Fill(s0, ok)
           now == IF Filled(s0, ok) = 0 THEN 0 ELSE Least(job.left, Unread(s))
           done == now \in {0, job.left}
           left == job.left - now
<1>4. Intact(s)
  BY <1>2, FillIntact
<1> HIDE DEF s
<1>5. Unread(s) \in Nat
  BY <1>4, UnreadIs
<1>6. now \in 0 .. Unread(s) /\ left \in Nat
  BY <1>1, <1>5 DEF Least
<1>7. /\ Conclude(job.c, Take(s, now), done)
      /\ job' = IF done THEN Idle ELSE [job EXCEPT !.left = left]
  BY <1>3 DEF s
<1> HIDE DEF now
<1>8. Intact(Take(s, now)) /\ done \in BOOLEAN
  BY <1>4, <1>6, TakeIntact
<1> HIDE DEF done, left
<1>9. Streams(sock', Handles') /\ (~ done => handle' = handle)
  BY <1>1, <1>7, <1>8, ConcludeStreams DEF StreamInv
<1>10. ReadHas'
  BY <1>1, <1>6, <1>7, <1>8, <1>9 DEF ReadHas, Idle
<1> QED BY <1>9, <1>10 DEF StreamInv

LEMMA PeekStreams ==
  ASSUME OwnersTyped, StreamInv, NEW c \in Client, Peek(c) \/ Flush(c)
  PROVE  StreamInv'
<1>1. handle[c] \in Fd /\ handle[c] \in Handles /\ job = Idle /\ job' = Idle
  BY DEF Peek, Flush, OwnersTyped, Handles
<1> DEFINE s0 == sock[handle[c]]
<1>2. Intact(s0)
  BY <1>1 DEF StreamInv, Streams
<1>3. ReadHas'
  BY <1>1 DEF ReadHas, Idle
<1>4. CASE Peek(c)
  <2>1. PICK ok \in BOOLEAN :
          \/ Conclude(c, First(s0, ok), TRUE)
          \/ Conclude(c, [s0 EXCEPT !.failed = s0.failed \/ ~ ok], TRUE)
    BY <1>4 DEF Peek
  <2>2. (s0.failed \/ ~ ok) \in BOOLEAN
    OBVIOUS
  <2> HIDE DEF s0
  <2>3. Intact(First(s0, ok)) /\ Intact([s0 EXCEPT !.failed = s0.failed \/ ~ ok])
    BY <1>2, <2>2, FirstSecond, FailIntact
  <2>4. Streams(sock', Handles')
    BY <1>1, <2>1, <2>3, ConcludeStreams DEF StreamInv
  <2> QED BY <1>3, <2>4 DEF StreamInv
<1>5. CASE Flush(c)
  <2>1. PICK s \in {[s0 EXCEPT !.failed = TRUE]}
                   \cup (IF s0.stream = <<>> THEN {s0} ELSE {Fill(s0, ok) : ok \in BOOLEAN}) :
          sock' = [sock EXCEPT ![handle[c]] = Take(s, Unread(s))]
    BY <1>5 DEF Flush
  <2> HIDE DEF s0
  <2>2. Intact(s)
    BY <1>2, <2>1, FailIntact, FillIntact
  <2>3. Unread(s) \in 0 .. Unread(s)
    BY <2>2, UnreadIs
  <2>4. Intact(Take(s, Unread(s)))
    BY <2>2, <2>3, TakeIntact
  <2>5. handle' = handle
    BY <1>5 DEF Flush, clients
  <2>6. Streams(sock', Handles')
    BY <1>1, <2>1, <2>4, <2>5, OneStream DEF StreamInv
  <2> QED BY <1>3, <2>6 DEF StreamInv
<1> QED BY <1>4, <1>5

LEMMA SendStreams ==
  ASSUME OwnersTyped, StreamInv, NEW f \in Fd, PeerSends(f)
  PROVE  StreamInv'
<1> DEFINE s == sock[f]
           n == s.sent + 1
           q == Append(s.stream, n)
           t == [s EXCEPT !.sent = n, !.stream = q]
<1>1. f \in Handles /\ handle' = handle /\ job' = job
  BY WiFiSocketAssumption DEF PeerSends, Live, Handles, clients
<1>2. Intact(s) /\ sock \in [Fd -> Buffered]
  BY DEF StreamInv, Streams
<1>3. sock' = [sock EXCEPT ![f] = t]
  BY <1>2 DEF PeerSends
<1> HIDE DEF s
<1>4. /\ s \in Buffered /\ s.sent \in Nat /\ s.stream \in Seq(Nat) /\ s.held \in Seq(Nat)
      /\ s.past \in Seq(Nat) /\ s.pos \in 0 .. Len(s.held)
  BY <1>2 DEF Intact, Buffered
<1>5. n \in Nat /\ q \in Seq(Nat)
  BY <1>4
<1>6. Line(s.past, s.held, s.pos, q) = UpTo(n)
  BY <1>2, <1>4, SendLine DEF Intact
<1> HIDE DEF n, q
<1>7. /\ t \in Buffered /\ t.pos = s.pos /\ t.past = s.past /\ t.held = s.held
      /\ t.stream = q /\ t.sent = n
  BY <1>4, <1>5 DEF Buffered
<1> HIDE DEF t
<1>8. Intact(t)
  BY <1>2, <1>6, <1>7 DEF Intact
<1>9. Streams(sock', Handles')
  BY <1>1, <1>3, <1>8, OneStream DEF StreamInv
<1> QED BY <1>1, <1>9 DEF StreamInv, ReadHas

LEMMA StreamStep == OwnersTyped /\ SilentInv /\ StreamInv /\ [Next]_vars => StreamInv'
<1> SUFFICES ASSUME OwnersTyped, SilentInv, StreamInv, [Next]_vars PROVE StreamInv'
  OBVIOUS
<1>idle. Idle.kind # "read"
  BY DEF Idle
<1>same. ASSUME UNCHANGED <<sock, handle>>, job' = job \/ job'.kind # "read"
         PROVE  StreamInv'
  BY <1>same DEF StreamInv, ReadHas, Handles
<1>rebind. ASSUME NEW c \in Client, NEW f \in Fd \cup {NoFd}, NEW kept,
                  Rebind(c, f, sock, kept), job' = Idle
           PROVE  StreamInv'
  BY <1>rebind, <1>idle, RebindStreams DEF StreamInv, ReadHas
<1>1. ASSUME NEW c \in Client, Stop(c) PROVE StreamInv'
  BY <1>1, <1>rebind DEF Stop
<1>2. ASSUME NEW c \in Client, NEW d \in Client, Assign(c, d) PROVE StreamInv'
  <2>1. (IF c = d THEN NoFd ELSE handle[d]) \in Fd \cup {NoFd}
    BY DEF OwnersTyped
  <2> QED BY <1>2, <1>rebind, <2>1 DEF Assign
<1>3. ASSUME NEW c \in Client, Connect(c) PROVE StreamInv'
  <2>1. job = Idle /\ job' = Idle
    BY <1>3 DEF Connect
  <2>2. PICK f \in Fd \ open : Rebind(c, f, sock, {f}) \/ UNCHANGED <<sock, handle>>
    BY <1>3 DEF Connect
  <2> QED BY <2>1, <2>2, <1>rebind, <1>same
<1>4. ASSUME NEW c \in Client, Available(c) PROVE StreamInv'
  <2>1. Offered \subseteq Fd /\ job' = Idle
    BY <1>4 DEF Available, Offered, OwnersTyped
  <2>2. PICK f \in Offered \cup {NoFd}, kept \in SUBSET Offered : Rebind(c, f, sock, kept)
    BY <1>4 DEF Available
  <2>3. f \in Fd \cup {NoFd}
    BY <2>1
  <2> QED BY <2>1, <2>2, <2>3, <1>rebind
<1>5. ASSUME NEW c \in Client, NEW n \in 1 .. BufSize + 1, Read(c, n) PROVE StreamInv'
  BY <1>5, ReadStreams
<1>6. ASSUME NEW c \in Client, NEW n \in 1 .. MaxOut, Write(c, n) PROVE StreamInv'
  <2>1. job'.kind = "write" /\ UNCHANGED <<sock, handle>>
    BY <1>6 DEF Write, clients
  <2> QED BY <2>1, <1>same
<1>7. CASE WriteSend \/ WriteRetry \/ WriteAbort
  <2>1. job.kind = "write" /\ UNCHANGED <<sock, handle>>
    BY <1>7 DEF WriteSend, WriteRetry, WriteAbort, clients
  <2>2. job \in [kind : {"write"}, c : Client, size : Nat, total : Nat, retry : Int]
    BY <2>1 DEF SilentInv, Sending
  <2>3. \A x, y : /\ [job EXCEPT !.total = x, !.retry = y].kind = "write"
                  /\ [job EXCEPT !.retry = y].kind = "write"
    BY <2>2
  <2>4. job'.kind # "read"
    BY <1>7, <1>idle, <2>3, ZenonT(30) DEF WriteSend, WriteRetry, WriteAbort
  <2> QED BY <2>1, <2>4, <1>same
<1>8. CASE WriteFail
  <2>1. job.kind = "write" /\ job' = Idle /\ Rebind(job.c, NoFd, sock, {})
    BY <1>8 DEF WriteFail
  <2>2. job.c \in Client
    BY <2>1 DEF SilentInv, Sending
  <2> QED BY <2>1, <2>2, <1>rebind
<1>9. ASSUME NEW f \in Fd, PeerSends(f) PROVE StreamInv'
  BY <1>9, SendStreams
<1>10. ASSUME NEW c \in Client, Connected(c) PROVE StreamInv'
  BY <1>10, <1>same DEF Connected
<1>11. CASE ServerBegin \/ ServerEnd \/ HasClient \/ PeerConnects \/ UNCHANGED vars
  BY <1>11, <1>same DEF ServerBegin, ServerEnd, HasClient, PeerConnects, vars, clients
<1> QED
  BY <1>1, <1>2, <1>3, <1>4, <1>5, <1>6, <1>7, <1>8, <1>9, <1>10, <1>11,
     PeekStreams, ReadMoreStreams
  DEF Next

(* Copies of a client read one stream through one buffer, whichever of     *)
(* them reads, in whatever amounts, however often fillBuffer() finds the   *)
(* stack short or failing: what was taken out, what the buffer holds and   *)
(* what is to come are the bytes the peer sent, each once and in order.    *)
THEOREM StreamIntactAlways == Spec => []StreamIntact
<1>1. Init => StreamInv
  <2> SUFFICES ASSUME Init PROVE StreamInv
    OBVIOUS
  <2>1. Handles = {} /\ job.kind # "read"
    BY DEF Init, Handles, Idle
  <2> QED BY <2>1, FreshIntact DEF Init, StreamInv, Streams, ReadHas, Intact
<1>2. OwnerInv => OwnersTyped
  BY DEF OwnerInv
<1>3. OwnersTyped /\ StreamInv => StreamIntact
  <2> SUFFICES ASSUME OwnersTyped, StreamInv, NEW f \in Handles
               PROVE  LET s == sock[f]
                      IN s.past \o SubSeq(s.held, s.pos + 1, Len(s.held)) \o s.stream
                           = [i \in 1 .. s.sent |-> i]
    BY DEF StreamIntact
  <2>1. Intact(sock[f])
    BY DEF StreamInv, Streams, Handles, OwnersTyped
  <2> QED BY <2>1 DEF Intact, Line, UpTo
<1>4. Init => SilentInv
  BY DEF Init, SilentInv, NeverOverclaims, Sending, Idle
<1> QED BY <1>1, <1>2, <1>3, <1>4, OwnerInit, OwnerStep, SilentStep, StreamStep, PTL DEF Spec
=============================================================================
