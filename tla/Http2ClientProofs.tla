-------------------------- MODULE Http2ClientProofs --------------------------
(***************************************************************************)
(* The HTTP/2 clients: the nghttp2 client against any server and against   *)
(* the repository's own, and the libcurl multi client.                     *)
(***************************************************************************)
EXTENDS Http2Pair, CurlTimers, FiniteSetTheorems, TLAPS
-----------------------------------------------------------------------------
(***************************************************************************)
(* OnlyNewestWaits and ReplyIsTheEnd for any server: any limits and any    *)
(* number of other frames.  The invariant adds what a turn of the loop     *)
(* leaves behind: while the client polls no reply has been read and the    *)
(* session is not terminated, so every turn sends up to the limit.         *)
(***************************************************************************)

\* A client that still polls has read no reply, and a reply read ended the loop.
StillOpen == /\ pc = "poll" => term = "no"
             /\ closed # {} => pc = "done"

\* A reply on its way was given by the server.
RepliesGiven == \A s \in Nat : Reply(s) \in Received => s \in answered

ClientInv == OnlyNewestWaits /\ StillOpen /\ RepliesGiven

\* The server's steps append one frame and leave the client alone.
LEMMA ServerStep ==
  ASSUME ClientInv, Connected \/ Server PROVE ClientInv' /\ UNCHANGED client
<1> USE DEF ClientInv, OnlyNewestWaits, StillOpen, TypeOK, client
<1>1. CASE Connected
  BY <1>1 DEF Connected, RepliesGiven, Received
<1>2. ASSUME NEW f \in [kind : {"settings", "other", "eof", "reply"}, stream : Nat],
             inbox' = Append(inbox, f), answered \subseteq answered',
             \A s \in Nat : f = Reply(s) => s \in answered'
      PROVE  RepliesGiven'
  <2>1. Received' = Received \cup {f}
    BY <1>2, SMTT(30) DEF Received
  <2> QED
    BY <1>2, <2>1 DEF RepliesGiven, Reply
<1>3. CASE Settings
  BY <1>2, <1>3 DEF Settings, Frame, Reply
<1>4. CASE OtherFrame
  BY <1>2, <1>4, ClientAssumption DEF OtherFrame, Frame, Reply
<1>5. CASE CloseLink
  BY <1>2, <1>5 DEF CloseLink, Frame, Reply
<1>6. ASSUME NEW s \in 1..sent, Answer(s) PROVE ClientInv' /\ UNCHANGED client
  BY <1>2, <1>6 DEF Answer, Reply
<1> QED
  BY <1>1, <1>3, <1>4, <1>5, <1>6 DEF Server

\* What a turn of the loop sends: nothing after a reply, and up to the limit before.
LEMMA Turn ==
  ASSUME ClientInv, Iterate
  PROVE  /\ limit' \in Limits \cup {DefaultLimit}
         /\ \/ closed' # {} /\ term' = "sent" /\ sent' = sent /\ pc' = "done"
            \/ /\ closed' = {} /\ term' = "no" /\ pc' = "poll"
               /\ sent' = IF sent < limit' THEN Min2(submitted, limit') ELSE sent
<1> USE DEF ClientInv, OnlyNewestWaits, StillOpen, TypeOK
<1>1. pc = "poll" /\ term = "no" /\ closed = {}
  BY DEF Iterate
<1>2. limit' \in Limits \cup {DefaultLimit}
  BY DEF Iterate, exec_io
<1>3. limit' \in Nat
  BY <1>2, ClientAssumption DEF DefaultLimit
<1>4. CASE Terminates
  <2>1. closed' # {} /\ term' = "sent" /\ sent' = sent
    BY <1>1, <1>4 DEF Iterate, exec_io, Terminates, SendUpTo
  <2>2. pc' = "done"
    BY <2>1 DEF Iterate, WantRead, WantWriteAfter, WantWrite
  <2> QED
    BY <1>2, <2>1, <2>2, SMTT(30)
<1>5. CASE ~Terminates
  <2>1. closed' = {} /\ term' = "no"
    BY <1>1, <1>5 DEF Iterate, exec_io, Terminates
  <2>2. Cardinality(closed') = 0
    BY <2>1, FS_EmptySet
  <2>3. sent' = IF sent < limit' THEN SendUpTo("no", sent, limit') ELSE sent
    BY <1>1, <1>5, <2>2 DEF Iterate, exec_io
  <2>4. sent + (limit' - sent) = limit'
    <3>1. sent \in Nat
      OBVIOUS
    <3>2. \A m, n \in Nat : m + (n - m) = n
      OBVIOUS
    <3> QED
      BY <1>3, <3>1, <3>2, Zenon
  <2>5. pc' = "poll"
    BY <2>1 DEF Iterate, WantRead
  <2> QED
    BY <1>2, <2>1, <2>3, <2>4, <2>5, SMTT(30) DEF SendUpTo
<1> QED
  BY <1>4, <1>5

\* A turn leaves at most the request it has just submitted waiting.
LEMMA IterateStep == ASSUME ClientInv, Iterate PROVE ClientInv'
<1>1. TypeOK /\ RepliesGiven
  BY DEF ClientInv, OnlyNewestWaits
<1>2. submitted' = submitted + 1 /\ inbox' = <<>> /\ control' = {} /\ UNCHANGED server
  BY DEF Iterate, exec_io, submit_request
<1>3. limit' \in Nat /\ limit' \in Limits \cup {DefaultLimit}
  <2>1. limit' \in Limits \cup {DefaultLimit}
    BY Turn
  <2>2. DefaultLimit \in Nat
    BY DEF DefaultLimit
  <2> QED
    BY <2>1, <2>2, ClientAssumption
<1>4. sent' \in Nat /\ sent <= sent' /\ sent' <= submitted
  BY <1>1, <1>3, Turn DEF TypeOK, Min2
<1>5. closed' \subseteq answered
  <2>1. closed' = closed \cup {s \in 1..sent : Reply(s) \in Received}
    BY DEF Iterate, exec_io
  <2>2. closed \subseteq answered /\ 1..sent \subseteq Nat
    BY <1>1 DEF TypeOK
  <2> QED
    BY <1>1, <2>1, <2>2 DEF RepliesGiven
<1>6. events' \subseteq {"POLLIN", "POLLOUT"}
  BY DEF Iterate, ctl_poll
<1>7. TypeOK'
  BY <1>1, <1>2, <1>3, <1>4, <1>5, <1>6, Turn, SMTT(30) DEF TypeOK, server
<1>8. ASSUME pc' = "poll", sent' - Cardinality(closed') < limit'
      PROVE  submitted' - sent' <= 1
  <2>1. Cardinality(closed') = 0
    BY <1>8, Turn, FS_EmptySet
  <2>2. sent' < limit'
    BY <1>4, <1>8, <2>1
  <2>3. sent' = submitted
    BY <1>1, <1>3, <1>8, <2>2, Turn, SMTT(30) DEF TypeOK, Min2
  <2> QED
    BY <1>1, <1>2, <2>3 DEF TypeOK
<1>9. RepliesGiven'
  BY <1>2 DEF RepliesGiven, Received
<1> QED
  BY <1>7, <1>8, <1>9, Turn DEF ClientInv, OnlyNewestWaits, StillOpen

\* Every step keeps the invariant and, after a reply, sends nothing and polls no more.
LEMMA ClientStep ==
  ClientInv /\ [Next]_vars =>
    ClientInv' /\ (closed' # {} => (sent' = sent /\ pc' = "done"))
<1> SUFFICES ASSUME ClientInv, [Next]_vars
             PROVE  ClientInv' /\ (closed' # {} => (sent' = sent /\ pc' = "done"))
  OBVIOUS
<1>1. CASE Connected \/ Server
  BY <1>1, ServerStep DEF client, ClientInv, StillOpen
<1>2. CASE Iterate
  BY <1>2, IterateStep, Turn
<1>3. CASE ExecIoFails
  BY <1>3 DEF ExecIoFails, ClientInv, OnlyNewestWaits, StillOpen, RepliesGiven, Received,
              TypeOK, server
<1>4. CASE UNCHANGED vars
  BY <1>4 DEF vars, server, client, ClientInv, OnlyNewestWaits, StillOpen, RepliesGiven,
              Received, TypeOK
<1> QED
  BY <1>1, <1>2, <1>3, <1>4 DEF Next, Client

\* The state in which main enters its loop.
LEMMA ClientStart == Init => ClientInv
<1> SUFFICES ASSUME Init PROVE ClientInv
  OBVIOUS
<1>1. TypeOK
  <2>1. /\ 0 \in 0..MaxOther /\ 0 \in 0..1
        /\ <<>> \in Seq([kind : {"settings", "other", "eof", "reply"}, stream : Nat])
    BY ClientAssumption
  <2> QED
    BY <2>1, Zenon DEF Init, TypeOK
<1> QED
  BY <1>1 DEF Init, ClientInv, OnlyNewestWaits, StillOpen, RepliesGiven, Received

\* No request but the newest waits while the server would take it, for any limits the
\* server may announce (main.cc:91-108).
THEOREM OnlyTheNewestWaits == Spec => []OnlyNewestWaits
<1>1. ClientInv => OnlyNewestWaits
  BY DEF ClientInv
<1> QED
  BY <1>1, ClientStart, ClientStep, PTL DEF Spec

\* The turn that reads the first reply sends nothing more and is the last one, whatever
\* else the server has sent (nghttp2.h:246-268).
THEOREM FirstReplyEndsTheLoop == Spec => ReplyIsTheEnd
<1>1. ClientInv /\ [Next]_vars => [closed' # {} => sent' = sent /\ pc' = "done"]_vars
  BY ClientStep
<1> QED
  BY <1>1, ClientStart, ClientStep, PTL DEF Spec, ReplyIsTheEnd
-----------------------------------------------------------------------------
(***************************************************************************)
(* The client and the repository's server: PairIsSilent, and the client's  *)
(* own properties in the presence of the server and of an interrupt.  The  *)
(* invariant is the joint control state: the client has sent nothing or    *)
(* one chunk, and the server waits for the connection, serves it, or has   *)
(* seen it end.                                                            *)
(***************************************************************************)

\* The client before and after its only turn, and the connection.
TheClient ==
  /\ inbox = <<>> /\ closed = {} /\ term = "no" /\ limit = DefaultLimit
  /\ \/ /\ sent = 0 /\ submitted = 1 /\ control = {"settings"} /\ events = {"POLLIN", "POLLOUT"}
     \/ /\ sent = 1 /\ submitted = 2 /\ control = {} /\ events = {"POLLIN"} /\ link = "up"
  /\ \/ link = "connecting" /\ cl[Peer] = "none" /\ pc = "poll"
     \/ link = "up" /\ cl[Peer] = "open" /\ pc = "poll"
     \/ link = "up" /\ cl[Peer] = "gone" /\ pc = "failed"

Event(x, h) == [src |-> x, hup |-> h]

Asleep == serverPc = "wait" /\ batch = <<>>

\* The connection has not been accepted: the listening socket reports it once.
Listening ==
  /\ epfd = TRUE /\ session = "none" /\ conn = NoConn
  /\ \/ link = "connecting" /\ queue = <<>> /\ ready = <<>> /\ Asleep
     \/ /\ link = "up" /\ queue = <<Peer>>
        /\ \/ ready = <<Listen>> /\ Asleep
           \/ ready = <<>> /\ serverPc = "event" /\ batch = <<Event(Listen, FALSE)>>

\* An event of the connection, with a hang-up only if the client is gone.
PeerEvent == \E h \in BOOLEAN : batch = <<Event(Peer, h)>> /\ (h => cl[Peer] = "gone")

Serving ==
  /\ epfd = TRUE /\ session = "live" /\ conn = Peer /\ queue = <<>> /\ link = "up"
  /\ ready \in {<<>>, <<Peer>>}
  /\ Asleep \/ (serverPc \in {"event", "read"} /\ PeerEvent)

\* epfd is closed and the session deleted, in order or by freeing garbage.
Over ==
  /\ epfd = FALSE /\ session = "deleted" /\ conn = Peer /\ queue = <<>> /\ ready = <<>>
  /\ link = "up" /\ cl[Peer] = "gone" /\ (Asleep \/ serverPc = "wild")

Wires ==
  /\ cl \in [{Peer} -> {"none", "open", "gone"}] /\ rst = [c \in {Peer} |-> "no"]
  /\ got = [c \in {Peer} |-> <<>>] /\ chunks = [c \in {Peer} |-> sent]
  /\ unread \in [{Peer} -> Seq(S!Chunk)]

Joint == Wires /\ TheClient /\ (Listening \/ Serving \/ Over)

PairInv == host = "own" => Joint

\* An edge of the connection reaches the ready list only once it is accepted.
LEMMA EdgeOfPeer ==
  ASSUME Joint, cl[Peer] = "open", S!WakeConn(Peer)
  PROVE  \/ Listening /\ ready' = ready
         \/ Serving /\ ready' = <<Peer>>
<1>1. CASE Listening
  <2>1. S!Range(queue) = {Peer}
    BY <1>1 DEF Listening, Joint, TheClient, S!Range
  <2> QED
    BY <1>1, <2>1 DEF S!WakeConn, S!Accepted
<1>2. CASE Serving
  <2>1. S!Range(queue) = {} /\ S!Range(<<>>) = {} /\ S!Range(<<Peer>>) = {Peer}
    BY <1>2 DEF Serving, S!Range
  <2>2. S!Accepted(Peer)
    BY <2>1 DEF S!Accepted
  <2>3. Append(<<>>, Peer) = <<Peer>>
    OBVIOUS
  <2> QED
    BY <1>2, <2>1, <2>2, <2>3 DEF S!WakeConn, S!Wake, Serving
<1> QED
  BY <1>1, <1>2 DEF Joint, Over

\* The client's only turn sends SETTINGS and the first request, and submits the next.
LEMMA OnlyTurn ==
  ASSUME Joint, Client
  PROVE  /\ sent = 0 /\ cl[Peer] = "open" /\ control # {} /\ link = "up"
         /\ inbox' = <<>> /\ closed' = {} /\ term' = "no" /\ limit' = limit /\ pc' = "poll"
         /\ sent' = 1 /\ submitted' = 2 /\ control' = {} /\ events' = {"POLLIN"}
         /\ UNCHANGED server
<1>. USE DEF Joint, TheClient
<1>1. Received = {}
  BY DEF Received
<1>2. Iterate
  BY <1>1 DEF Client, ExecIoFails
<1>3. pc = "poll" /\ link = "up" /\ cl[Peer] = "open"
  BY <1>2 DEF Iterate, PollReady
<1>4. sent = 0 /\ submitted = 1 /\ control = {"settings"}
  BY <1>2, <1>3 DEF Iterate, PollReady
<1>5. closed' = {} /\ inbox' = <<>> /\ control' = {} /\ limit' = 100
  BY <1>1, <1>2 DEF Iterate, exec_io, DefaultLimit
<1>6. ~Terminates
  BY <1>1 DEF Terminates
<1>7. Cardinality(closed') = 0
  BY <1>5, FS_EmptySet
<1>8. term' = "no"
  BY <1>2, <1>6 DEF Iterate, exec_io
<1>9. sent' = 1
  <2>1. sent' = IF 0 - 0 < 100 THEN SendUpTo("no", 0 - 0, 100) ELSE 0
    BY <1>2, <1>4, <1>5, <1>6, <1>7 DEF Iterate, exec_io
  <2> QED
    BY <1>4, <2>1 DEF SendUpTo, Min2
<1>10. submitted' = 2
  BY <1>2, <1>4 DEF Iterate, submit_request
<1>11. events' = {"POLLIN"}
  <2>1. ~WantWriteAfter(submitted)
    BY <1>4, <1>5, <1>9 DEF WantWriteAfter, WantWrite
  <2>2. WantRead(term')
    BY <1>8 DEF WantRead
  <2> QED
    BY <1>2, <2>1, <2>2 DEF Iterate, ctl_poll
<1>12. pc' = "poll" /\ UNCHANGED server
  BY <1>2, <1>8 DEF Iterate, WantRead
<1> QED
  BY <1>3, <1>4, <1>5, <1>8, <1>9, <1>10, <1>11, <1>12 DEF DefaultLimit

\* epoll_wait on a ready list of one: one event, or none when it is stale.
LEMMA WaitForOne ==
  ASSUME NEW x, ready = <<x>>, S!EpollWait
  PROVE  batch' = IF S!Live(x) THEN <<Event(x, x # Listen /\ S!HangUp(x))>> ELSE <<>>
<1> DEFINE at == {i \in DOMAIN ready : S!Live(ready[i])}
<1>1. S!Cardinality(at) = Cardinality(at)
  BY DEF S!Cardinality, Cardinality
<1>2. PICK f \in [1..S!Cardinality(at) -> at] :
        /\ \A i, j \in DOMAIN f : i < j => f[i] < f[j]
        /\ batch' = [i \in DOMAIN f |->
                       [src |-> ready[f[i]],
                        hup |-> ready[f[i]] # Listen /\ S!HangUp(ready[f[i]])]]
  BY Zenon DEF S!EpollWait
<1>3. DOMAIN ready = {1} /\ ready[1] = x
  OBVIOUS
<1>4. CASE S!Live(x)
  <2>1. at = {1}
    BY <1>3, <1>4
  <2>2. Cardinality(at) = 1
    BY <2>1, FS_Singleton
  <2>3. DOMAIN f = 1..1 /\ f[1] = 1
    BY <1>1, <1>2, <2>1, <2>2
  <2>4. 1..1 = {1}
    OBVIOUS
  <2>5. batch' = [i \in {1} |-> Event(x, x # Listen /\ S!HangUp(x))]
    BY <1>2, <1>3, <2>1, <2>2, <2>3, <2>4 DEF Event
  <2>6. \A e : [i \in {1} |-> e] = <<e>>
    BY <2>4
  <2> QED
    BY <1>4, <2>5, <2>6
<1>5. CASE ~S!Live(x)
  <2>1. at = {}
    BY <1>3, <1>5
  <2>2. Cardinality(at) = 0
    BY <2>1, FS_EmptySet
  <2>3. DOMAIN f = {}
    BY <1>1, <1>2, <2>2
  <2> QED
    BY <1>2, <1>5, <2>3
<1> QED
  BY <1>4, <1>5

\* The server's steps: it accepts once, reads until the client is gone, and stops at most
\* in the deletion of the session.
LEMMA ServerMoves ==
  ASSUME Joint, S!Server, UNCHANGED vars
  PROVE  Joint'
<1>. USE PairAssumption DEF Joint, Wires
<1>1. /\ UNCHANGED <<inbox, closed, term, limit, sent, submitted, control, events, link, pc>>
  BY DEF vars, server, client
<1>2. CASE S!EpollWait
  <2>1. Asleep /\ epfd = TRUE /\ ready # <<>>
    BY <1>2 DEF S!EpollWait, Listening, Serving, Over, Asleep
  <2>2. /\ serverPc' = IF batch' = <<>> THEN "wait" ELSE "event"
        /\ ready' = <<>> /\ UNCHANGED <<cl, chunks, unread, got, rst, queue, epfd, conn, session>>
    BY <1>2 DEF S!EpollWait
  <2>3. TheClient' /\ Wires'
    BY <1>1, <2>2 DEF TheClient
  <2>4. CASE Listening
    <3>1. ready = <<Listen>> /\ link = "up" /\ queue = <<Peer>>
      BY <2>1, <2>4 DEF Listening, Asleep
    <3>2. S!Live(Listen)
      BY <3>1 DEF S!Live
    <3>3. batch' = <<Event(Listen, FALSE)>>
      BY <1>2, <3>1, <3>2, WaitForOne, Zenon
    <3>4. batch' # <<>>
      BY <3>3
    <3> QED
      BY <1>1, <2>2, <2>3, <2>4, <3>1, <3>3, <3>4 DEF Listening
  <2>5. CASE Serving
    <3>1. ready = <<Peer>>
      BY <2>1, <2>5 DEF Serving
    <3>2. S!HangUp(Peer) \in BOOLEAN /\ (S!HangUp(Peer) => cl[Peer] = "gone")
      BY DEF S!HangUp
    <3>3. batch' \in {<<>>, <<Event(Peer, S!HangUp(Peer))>>}
      <4>1. (Peer # Listen /\ S!HangUp(Peer)) = S!HangUp(Peer)
        BY <3>2
      <4> QED
        BY <1>2, <3>1, <4>1, WaitForOne, Zenon
    <3>4. <<Event(Peer, S!HangUp(Peer))>> # <<>>
      OBVIOUS
    <3>5. Asleep' \/ (serverPc' = "event" /\ PeerEvent')
      BY <2>2, <3>2, <3>3, <3>4 DEF Asleep, PeerEvent
    <3>6. Serving'
      BY <1>1, <2>2, <2>5, <3>5 DEF Serving
    <3> QED
      BY <2>3, <3>6
  <2> QED
    BY <2>1, <2>4, <2>5 DEF Over
<1>3. CASE S!Accept
  <2>1. Listening /\ serverPc = "event" /\ batch = <<Event(Listen, FALSE)>>
    BY <1>3 DEF S!Accept, Listening, Serving, Over, Asleep
  <2>2. link = "up" /\ queue = <<Peer>> /\ ready = <<>> /\ epfd = TRUE
    BY <2>1 DEF Listening, Asleep
  <2>3. /\ conn' = Peer /\ queue' = <<>> /\ session' = "live"
        /\ UNCHANGED <<cl, chunks, unread, got, rst, epfd>>
    BY <1>3, <2>2 DEF S!Accept, S!initialize_nghttp2_session
  <2>4. ready' \in {<<>>, <<Peer>>}
    <3>1. Append(<<>>, Peer) = <<Peer>>
      OBVIOUS
    <3> QED
      BY <1>3, <2>2, <2>3, <3>1 DEF S!Accept
  <2>5. Asleep'
    BY <1>3, <2>1, <2>2 DEF S!Accept, S!NextEvent, Asleep
  <2>6. TheClient' /\ Wires' /\ Serving'
    BY <1>1, <2>2, <2>3, <2>4, <2>5 DEF TheClient, Serving
  <2> QED
    BY <2>6
<1>4. CASE S!ConnEvent
  <2>1. serverPc = "event" /\ Serving /\ PeerEvent
    BY <1>4 DEF S!ConnEvent, Listening, Serving, Over, Asleep, Event
  <2>2. /\ serverPc' = "read"
        /\ UNCHANGED <<cl, chunks, unread, got, rst, queue, ready, epfd, conn, batch, session>>
    BY <1>4 DEF S!ConnEvent, S!net
  <2>3. TheClient' /\ Wires' /\ PeerEvent'
    BY <1>1, <2>1, <2>2 DEF TheClient, PeerEvent
  <2> QED
    BY <1>1, <2>1, <2>2, <2>3 DEF Serving
<1>5. CASE S!Discard
  <2>1. serverPc = "read" /\ Serving /\ PeerEvent
    BY <1>5 DEF S!Discard, Listening, Serving, Over, Asleep
  <2>2. UNCHANGED <<cl, chunks, got, rst, queue, ready, epfd, conn, batch, session, serverPc>>
    BY <1>5 DEF S!Discard
  <2>3. unread' \in [{Peer} -> Seq(S!Chunk)]
    BY <1>5, <2>1 DEF S!Discard, Serving
  <2>4. TheClient' /\ Wires' /\ PeerEvent'
    BY <1>1, <2>1, <2>2, <2>3 DEF TheClient, PeerEvent
  <2> QED
    BY <1>1, <2>1, <2>2, <2>4 DEF Serving
<1>6. CASE S!SessionEnd
  <2>1. serverPc = "read" /\ Serving /\ PeerEvent
    BY <1>6 DEF S!SessionEnd, Listening, Serving, Over, Asleep
  <2>2. PICK h \in BOOLEAN : batch = <<Event(Peer, h)>> /\ (h => cl[Peer] = "gone")
    BY <2>1 DEF PeerEvent
  <2>3. Head(batch).hup = h /\ Tail(batch) = <<>> /\ Len(batch) = 1
    BY <2>2 DEF Event
  <2>4. UNCHANGED <<cl, chunks, unread, got, rst, queue, conn>>
    BY <1>6 DEF S!SessionEnd
  <2>5. TheClient' /\ Wires'
    BY <1>1, <2>4 DEF TheClient
  <2>6. S!NextEvent => Asleep'
    BY <2>3 DEF S!NextEvent, Asleep
  <2>7. session = "live" /\ epfd = TRUE /\ conn = Peer /\ queue = <<>> /\ link = "up"
        /\ ready \in {<<>>, <<Peer>>}
    BY <2>1 DEF Serving
  <2>8. CASE h = TRUE
    <3>1. /\ epfd' = FALSE /\ ready' = <<>> /\ session' = "deleted"
          /\ S!NextEvent \/ serverPc' = "wild"
      BY <1>6, <2>3, <2>7, <2>8 DEF S!SessionEnd, S!delete_http2_session_data
    <3> QED
      BY <1>1, <2>2, <2>4, <2>5, <2>6, <2>7, <2>8, <3>1 DEF Over
  <2>9. CASE h = FALSE
    <3>1. S!NextEvent /\ UNCHANGED <<epfd, ready, session>>
      BY <1>6, <2>3, <2>7, <2>9 DEF S!SessionEnd
    <3> QED
      BY <1>1, <2>4, <2>5, <2>6, <2>7, <3>1 DEF Serving
  <2> QED
    BY <2>2, <2>8, <2>9
<1> QED
  BY <1>2, <1>3, <1>4, <1>5, <1>6 DEF S!Server, S!Echo, S!ReadEnd

\* Every step of the pair keeps the joint state.
LEMMA PairStep == PairInv /\ [PairNext]_duoVars => PairInv'
<1> SUFFICES ASSUME PairInv, [PairNext]_duoVars, host' = "own" PROVE Joint'
  BY DEF PairInv
<1>1. host' = host
  BY DEF PairNext, PairConnect, PairTurn, Interrupt, ServerTurn, Next, Connected, Server, Settings,
         OtherFrame, CloseLink, Answer, Client, Iterate, ExecIoFails, server, vars, duoVars
<1>2. Joint /\ host = "own"
  BY <1>1 DEF PairInv
<1>. USE PairAssumption DEF Joint, Wires
<1>3. CASE PairConnect
  <2>1. /\ link = "connecting" /\ link' = "up" /\ UNCHANGED <<client, inbox>>
        /\ cl' = [cl EXCEPT ![Peer] = "open"] /\ queue' = Append(queue, Peer) /\ S!Wake(Listen)
        /\ UNCHANGED <<chunks, unread, got, rst, epfd, conn, batch, session, serverPc>>
    BY <1>3 DEF PairConnect, Connected, S!Connect
  <2>2. Listening /\ queue = <<>> /\ ready = <<>> /\ epfd = TRUE /\ Asleep
    BY <1>2, <2>1 DEF Listening, Serving, Over
  <2>3. queue' = <<Peer>>
    BY <2>1, <2>2
  <2>4. ready' = <<Listen>>
    <3>1. S!Range(<<>>) = {}
      BY DEF S!Range
    <3>2. Append(<<>>, Listen) = <<Listen>>
      OBVIOUS
    <3> QED
      BY <2>1, <2>2, <3>1, <3>2 DEF S!Wake
  <2>5. cl' \in [{Peer} -> {"none", "open", "gone"}] /\ cl'[Peer] = "open"
    BY <1>2, <2>1
  <2>6. TheClient' /\ Wires'
    BY <1>2, <2>1, <2>5 DEF TheClient, client
  <2>7. Listening'
    BY <2>1, <2>2, <2>3, <2>4 DEF Listening, Asleep
  <2> QED
    BY <2>6, <2>7
<1>4. CASE PairTurn
  <2>1. Client
    BY <1>4 DEF PairTurn
  <2>2. Sends
    BY <1>2, <2>1, OnlyTurn DEF Sends
  <2>3. S!Send(Peer)
    BY <1>4, <2>2 DEF PairTurn
  <2>4. /\ chunks' = [chunks EXCEPT ![Peer] = @ + 1]
        /\ unread' = [unread EXCEPT ![Peer] = Append(@, [from |-> Peer, n |-> chunks[Peer] + 1])]
        /\ S!WakeConn(Peer)
        /\ UNCHANGED <<cl, got, rst, queue, epfd, conn, batch, session, serverPc>>
    BY <2>3 DEF S!Send
  <2>5. chunks' = [c \in {Peer} |-> sent']
    <3>1. sent = 0 /\ sent' = 1
      BY <1>2, <2>1, OnlyTurn
    <3>2. chunks = [c \in {Peer} |-> 0]
      BY <1>2, <3>1
    <3>3. chunks' = [c \in {Peer} |-> 1]
      <4>1. chunks' = [c \in {Peer} |-> IF c = Peer THEN chunks[Peer] + 1 ELSE chunks[c]]
        BY <2>4, <3>2, Zenon
      <4>2. chunks[Peer] + 1 = 1
        BY <3>2
      <4> QED
        BY <4>1, <4>2
    <3> QED
      BY <3>1, <3>3
  <2>6. unread' \in [{Peer} -> Seq(S!Chunk)]
    <3>1. [from |-> Peer, n |-> chunks[Peer] + 1] \in S!Chunk
      <4>1. chunks[Peer] + 1 \in Nat
        BY <1>2, <2>1, OnlyTurn
      <4> QED
        BY <4>1 DEF S!Chunk
    <3>2. unread[Peer] \in Seq(S!Chunk)
      BY <1>2
    <3>3. Append(unread[Peer], [from |-> Peer, n |-> chunks[Peer] + 1]) \in Seq(S!Chunk)
      BY <3>1, <3>2
    <3> QED
      BY <1>2, <2>4, <3>3
  <2>7. TheClient' /\ Wires' /\ link' = link
    BY <1>2, <2>1, <2>4, <2>5, <2>6, OnlyTurn DEF TheClient, server
  <2>8. Listening' \/ Serving'
    BY <1>2, <2>1, <2>4, <2>7, OnlyTurn, EdgeOfPeer DEF Listening, Serving, Asleep, PeerEvent
  <2> QED
    BY <2>7, <2>8
<1>5. CASE Interrupt
  <2>1. /\ cl[Peer] = "open" /\ cl' = [cl EXCEPT ![Peer] = "gone"] /\ S!WakeConn(Peer)
        /\ UNCHANGED <<chunks, unread, got, rst, queue, epfd, conn, batch, session, serverPc>>
    BY <1>5 DEF Interrupt, S!Leave
  <2>2. /\ pc' = "failed"
        /\ UNCHANGED <<link, inbox, submitted, sent, closed, control, limit, term, events>>
    BY <1>5 DEF Interrupt, server
  <2>3. cl' \in [{Peer} -> {"none", "open", "gone"}] /\ cl'[Peer] = "gone"
    BY <1>2, <2>1
  <2>4. TheClient' /\ Wires'
    BY <1>2, <2>1, <2>2, <2>3 DEF TheClient
  <2>5. Listening' \/ Serving'
    BY <1>2, <2>1, <2>2, <2>3, EdgeOfPeer DEF Listening, Serving, Asleep, PeerEvent
  <2> QED
    BY <2>4, <2>5
<1>6. CASE ServerTurn
  BY <1>2, <1>6, ServerMoves DEF ServerTurn
<1>7. CASE UNCHANGED duoVars
  BY <1>2, <1>7 DEF duoVars, vars, server, client, ownServer, TheClient, Listening, Serving, Over,
                    Asleep, PeerEvent
<1> QED
  BY <1>2, <1>3, <1>4, <1>5, <1>6, <1>7 DEF PairNext

\* The client and the server start before the connection is made.
LEMMA PairStart == PairInit => PairInv
<1> SUFFICES ASSUME PairInit PROVE Joint
  BY DEF PairInv
<1>1. TheClient /\ Listening
  BY DEF PairInit, Init, S!Init, TheClient, Listening, Asleep
<1>2. Wires
  BY DEF PairInit, Init, S!Init, Wires
<1> QED
  BY <1>1, <1>2 DEF Joint

\* The client and the server of the repository, connected to each other, exchange one
\* chunk and no reply: the client never sends a second request and leaves its loop only
\* when it is interrupted, and the server stops only after that, in the deletion of the
\* session (nghttp2_client/main.cc:91-108, nghttp2_server/main.cc:123-175).
THEOREM OwnServerIsSilent == PairSpec => []PairIsSilent
<1>1. PairInv => PairIsSilent
  <2> SUFFICES ASSUME Joint PROVE host = "own" => PairIsSilent
    BY DEF PairInv, PairIsSilent
  <2>1. /\ inbox = <<>> /\ closed = {} /\ got[Peer] = <<>>
        /\ sent <= 1 /\ submitted = sent + 1 /\ chunks[Peer] = sent
    BY DEF Joint, Wires, TheClient
  <2>2. pc = "poll" \/ (pc = "failed" /\ cl[Peer] = "gone")
    BY DEF Joint, TheClient
  <2>3. S!Running \/ (cl[Peer] = "gone" /\ serverPc = "wild")
    BY DEF Joint, Listening, Serving, Over, Asleep, S!Running
  <2> QED
    BY <2>1, <2>2, <2>3 DEF PairIsSilent
<1> QED
  BY <1>1, PairStart, PairStep, PTL DEF PairSpec

\* A step of the pair is a step of the client, of the server, or the interrupt, so the
\* client's invariant holds in the pair, too.
LEMMA PairKeepsClient ==
  ClientInv /\ [PairNext]_duoVars =>
    ClientInv' /\ (closed' # {} => (sent' = sent /\ pc' = "done") \/ UNCHANGED vars)
<1> SUFFICES ASSUME ClientInv, [PairNext]_duoVars
             PROVE  ClientInv' /\ (closed' # {} => (sent' = sent /\ pc' = "done") \/ UNCHANGED vars)
  OBVIOUS
<1>1. CASE [Next]_vars
  BY <1>1, ClientStep, Zenon
<1>2. CASE Interrupt
  <2>1. /\ pc = "poll" /\ pc' = "failed"
        /\ UNCHANGED <<server, inbox, submitted, sent, closed, control, limit, term, events>>
    BY <1>2 DEF Interrupt
  <2>2. closed = {}
    BY <2>1 DEF ClientInv, StillOpen
  <2> QED
    BY <2>1, <2>2 DEF ClientInv, OnlyNewestWaits, StillOpen, RepliesGiven, Received, TypeOK, server
<1> QED
  BY <1>1, <1>2, Zenon DEF PairNext, PairConnect, PairTurn, ServerTurn, Next, Client, duoVars

\* With the repository's own server, too, and with interrupts, only the newest request
\* waits and the first reply ends the loop (nghttp2_client/main.cc:91-108, nghttp2.h:
\* 246-268).
THEOREM ClientInPair == PairSpec => []OnlyNewestWaits /\ ReplyIsTheEnd
<1>1. ClientInv => OnlyNewestWaits
  BY DEF ClientInv
<1>2. PairInit => ClientInv
  BY ClientStart DEF PairInit
<1>3. ClientInv /\ [PairNext]_duoVars => [closed' # {} => sent' = sent /\ pc' = "done"]_vars
  BY PairKeepsClient
<1> QED
  BY <1>1, <1>2, <1>3, PairKeepsClient, PTL DEF PairSpec, ReplyIsTheEnd
-----------------------------------------------------------------------------
(***************************************************************************)
(* TimersApart for any number of handles and timers.  The invariant says   *)
(* what the frames of CreateTimer hold: a timer is in the frame of the     *)
(* thread that made it until its copy is in the map, and a thread makes    *)
(* its next timer only then.  So when it takes an id larger than every key *)
(* of the map, that id differs from those of all the timers it made.       *)
(***************************************************************************)

\* A thread has a Timer in its frame exactly while it is in CreateTimer.
Frames ==
  \A c \in Threads : IF where[c] = "made" THEN frame[c] \in 1..made /\ owner[frame[c]] = c
                                          ELSE frame[c] = 0

\* A timer is in its maker's frame or in the map.
Kept == \A t \in 1..made : frame[owner[t]] = t \/ m_id[t] \in m_Timers

\* The threads that have started, and those that have called timerTriggered.
Started ==
  \A t \in Timers : /\ t > made <=> where[t] = "none"
                    /\ where[t] \in {"lib", "made", "back"} => t \in driven

CurlInv == TimersApart /\ Frames /\ Kept /\ Started

\* The facts about ranges that the steps below need.
LEMMA Ranges ==
  ASSUME CurlInv
  PROVE  /\ made \in Nat /\ made <= MaxTimers
         /\ 1..made \subseteq Timers /\ Timers \subseteq Threads /\ 0 \in Threads
         /\ \A t \in 1..made : owner[t] \in Threads /\ where[t] # "none"
         /\ 0 \notin Timers
<1>1. made \in 0..MaxTimers /\ owner \in [Timers -> Threads]
  BY DEF CurlInv, TimersApart, CurlTypeOK
<1>2. made \in Nat /\ made <= MaxTimers /\ 0 \in Threads /\ 0 \notin Timers
  BY <1>1, CurlAssumption DEF Timers, Threads
<1>3. 1..made \subseteq Timers /\ Timers \subseteq Threads
  BY <1>1, CurlAssumption DEF Timers, Threads
<1>4. \A t \in 1..made : where[t] # "none"
  <2>1. \A t \in 1..made : ~(t > made)
    BY <1>2
  <2> QED
    BY <1>3, <2>1 DEF CurlInv, Started
<1> QED
  BY <1>1, <1>2, <1>3, <1>4

States == {"out", "none", "new", "asleep", "lib", "made", "back", "ended"}

\* A thread moves, outside CreateTimer: entering or leaving libcurl, going to sleep, ending.
LEMMA Move ==
  ASSUME CurlInv, NEW c \in Threads, NEW w \in States \ {"made", "none"},
         where' = [where EXCEPT ![c] = w], where[c] \notin {"made", "none"},
         UNCHANGED <<made, owner, m_id, frame, m_Timers, process>>,
         handles' \in 0..CNT, driven' \subseteq Timers, driven \subseteq driven',
         c \in Timers /\ w \in {"lib", "back"} => c \in driven',
         c \in Timers /\ w = "ended" /\ c \notin driven' => m_id[c] \in m_Timers
  PROVE  CurlInv'
<1> USE Ranges
<1>1. where \in [Threads -> States] /\ where' \in [Threads -> States]
  BY DEF CurlInv, TimersApart, CurlTypeOK, States
<1>2. where'[c] = w /\ \A d \in Threads : d # c => where'[d] = where[d]
  BY <1>1
<1>3. CurlTypeOK'
  BY <1>1 DEF CurlInv, TimersApart, CurlTypeOK, States
<1>4. TimersApart'
  <2>1. \A t \in 1..made : where'[t] = "ended" /\ t \notin driven' => m_id[t] \in m_Timers
    BY <1>2 DEF CurlInv, TimersApart
  <2> QED
    BY <1>3, <2>1 DEF CurlInv, TimersApart
<1>5. Frames'
  BY <1>2 DEF CurlInv, Frames
<1>6. Kept'
  BY DEF CurlInv, Kept
<1>7. Started'
  BY <1>2 DEF CurlInv, Started
<1> QED
  BY <1>4, <1>5, <1>6, <1>7 DEF CurlInv

\* CreateTimer: the new id is not that of another timer of the same thread.
LEMMA Create ==
  ASSUME CurlInv, NEW c \in Threads, CreateTimer(c)
  PROVE  CurlInv'
<1> USE Ranges
<1> DEFINE t == made + 1
<1>1. /\ where[c] = "lib" /\ made < MaxTimers /\ made' = t
      /\ owner' = [owner EXCEPT ![t] = c]
      /\ frame' = [frame EXCEPT ![c] = t]
      /\ where' = [where EXCEPT ![c] = "made", ![t] = "new"]
      /\ UNCHANGED <<handles, m_Timers, driven, process>>
  BY DEF CreateTimer
<1>2. PICK n \in 1..MaxTimers + 1 : NextId(n) /\ m_id' = [m_id EXCEPT ![t] = n]
  BY Zenon DEF CreateTimer
<1>3. t \in Timers /\ t \in Threads /\ t \notin 1..made /\ n \in Nat
  BY <1>1, <1>2, CurlAssumption DEF Timers, Threads
<1>4. where[t] = "none" /\ c # t
  BY <1>1, <1>3 DEF CurlInv, Started
<1>5. frame[c] = 0
  BY <1>1 DEF CurlInv, Frames
<1>6. \A u \in 1..made : owner[u] = c => m_id[u] \in m_Timers /\ m_id[u] # n
  <2>1. m_Timers \subseteq Nat /\ \A k \in m_Timers : k < n
    BY <1>2 DEF NextId, CurlInv, TimersApart, CurlTypeOK
  <2>2. \A u \in 1..made : owner[u] = c => m_id[u] \in m_Timers
    BY <1>5 DEF CurlInv, Kept
  <2> QED
    BY <1>3, <2>1, <2>2
<1>7. /\ owner \in [Timers -> Threads] /\ m_id \in [Timers -> Nat]
      /\ frame \in [Threads -> 0..MaxTimers] /\ where \in [Threads -> States]
  BY DEF CurlInv, TimersApart, CurlTypeOK, States
<1>8. /\ owner'[t] = c /\ m_id'[t] = n /\ frame'[c] = t /\ where'[c] = "made" /\ where'[t] = "new"
      /\ \A u \in Timers \ {t} : owner'[u] = owner[u] /\ m_id'[u] = m_id[u]
      /\ \A d \in Threads \ {c} : frame'[d] = frame[d]
      /\ \A d \in Threads \ {c, t} : where'[d] = where[d]
  BY <1>1, <1>2, <1>3, <1>4, <1>7
<1>9. 1..made' = 1..made \cup {t}
  BY <1>1
<1> HIDE DEF t
<1>10. CurlTypeOK'
  <2>1. made' \in 0..MaxTimers /\ t \in 0..MaxTimers
    BY <1>1, Ranges, CurlAssumption DEF t
  <2>2. owner' \in [Timers -> Threads] /\ m_id' \in [Timers -> Nat]
    BY <1>1, <1>2, <1>3, <1>7
  <2>3. frame' \in [Threads -> 0..MaxTimers] /\ where' \in [Threads -> States]
    BY <1>1, <1>7, <2>1, Zenon DEF States
  <2> QED
    BY <1>1, <2>1, <2>2, <2>3 DEF CurlInv, TimersApart, CurlTypeOK, States
<1>11. TimersApart'
  <2>1. \A u, v \in 1..made' : u # v /\ m_id'[u] = m_id'[v] => owner'[u] # owner'[v]
    BY <1>3, <1>6, <1>8, <1>9, SMTT(30) DEF CurlInv, TimersApart
  <2>2. \A u \in 1..made' : where'[u] = "ended" /\ u \notin driven' => m_id'[u] \in m_Timers'
    BY <1>1, <1>3, <1>8, <1>9 DEF CurlInv, TimersApart
  <2> QED
    BY <1>10, <2>1, <2>2 DEF TimersApart
<1>12. Frames'
  <2>1. ASSUME NEW d \in Threads, d # c
        PROVE IF where'[d] = "made" THEN frame'[d] \in 1..made' /\ owner'[frame'[d]] = d
              ELSE frame'[d] = 0
    <3>1. frame'[d] = frame[d] /\ (d # t => where'[d] = where[d])
      BY <1>8, <2>1
    <3>2. IF where[d] = "made" THEN frame[d] \in 1..made /\ owner[frame[d]] = d
          ELSE frame[d] = 0
      BY DEF CurlInv, Frames
    <3> QED
      BY <1>3, <1>4, <1>8, <1>9, <3>1, <3>2, SMTT(30)
  <2> QED
    BY <1>8, <1>9, <2>1 DEF Frames
<1>13. Kept'
  <2>1. \A u \in 1..made : owner[u] # c => frame'[owner[u]] = frame[owner[u]]
    BY <1>8
  <2> QED
    BY <1>1, <1>3, <1>6, <1>8, <1>9, <2>1 DEF CurlInv, Kept
<1>14. Started'
  <2>1. \A u \in Timers : u > made' <=> (u > made /\ u # t)
    BY <1>1 DEF t, Timers
  <2>2. c \in Timers => c \in driven /\ ~(c > made)
    BY <1>1 DEF CurlInv, Started
  <2>3. ~(t > made')
    BY <1>1 DEF t
  <2> QED
    BY <1>1, <1>3, <1>4, <1>8, <2>1, <2>2, <2>3, ZenonT(40) DEF CurlInv, Started
<1> QED
  BY <1>11, <1>12, <1>13, <1>14 DEF CurlInv

\* The rest of CreateTimer: the Timer leaves the frame as its copy enters the map.
LEMMA Insert ==
  ASSUME CurlInv, NEW c \in Threads, InsertTimer(c)
  PROVE  CurlInv'
<1> USE Ranges
<1> DEFINE f == frame[c]
<1>1. /\ where[c] = "made" /\ m_Timers' = m_Timers \cup {m_id[f]}
      /\ frame' = [frame EXCEPT ![c] = 0] /\ where' = [where EXCEPT ![c] = "back"]
      /\ UNCHANGED <<handles, made, owner, m_id, driven, process>>
  BY DEF InsertTimer
<1>2. f \in 1..made /\ owner[f] = c
  BY <1>1 DEF CurlInv, Frames
<1>3. /\ owner \in [Timers -> Threads] /\ m_id \in [Timers -> Nat]
      /\ frame \in [Threads -> 0..MaxTimers] /\ where \in [Threads -> States]
  BY DEF CurlInv, TimersApart, CurlTypeOK, States
<1>4. /\ frame'[c] = 0 /\ where'[c] = "back"
      /\ \A d \in Threads \ {c} : frame'[d] = frame[d] /\ where'[d] = where[d]
  BY <1>1, <1>3
<1>5. CurlTypeOK'
  <2>1. m_id[f] \in Nat /\ 0 \in 0..MaxTimers
    BY <1>2, <1>3, CurlAssumption
  <2> QED
    BY <1>1, <1>3, <2>1, Zenon DEF CurlInv, TimersApart, CurlTypeOK, States
<1>6. TimersApart'
  <2>1. \A t \in 1..made : where'[t] = "ended" => where[t] = "ended"
    BY <1>4
  <2> QED
    BY <1>1, <1>5, <2>1 DEF CurlInv, TimersApart
<1>7. Frames'
  BY <1>1, <1>4 DEF CurlInv, Frames
<1>8. Kept'
  BY <1>1, <1>2, <1>4 DEF CurlInv, Kept
<1>9. Started'
  BY <1>1, <1>4 DEF CurlInv, Started
<1> QED
  BY <1>6, <1>7, <1>8, <1>9 DEF CurlInv

\* Every step of http2_multi_client.cc and timer.h keeps the invariant of the frames.
LEMMA CurlStep == CurlInv /\ [CurlNext]_curlVars => CurlInv'
<1> SUFFICES ASSUME CurlInv, [CurlNext]_curlVars PROVE CurlInv'
  OBVIOUS
<1>0. handles \in 0..CNT /\ driven \subseteq Timers
  BY DEF CurlInv, TimersApart, CurlTypeOK
<1>1. CASE AddHandle
  <2>1. handles' \in 0..CNT
    BY <1>0, <1>1, CurlAssumption DEF AddHandle
  <2> QED
    BY <1>0, <1>1, <2>1, Ranges, Move, Zenon DEF AddHandle, States
<1>2. ASSUME NEW c \in Threads, LeaveLibcurl(c) PROVE CurlInv'
  <2>1. c \in Timers => c \in driven
    BY <1>2 DEF LeaveLibcurl, CurlInv, Started
  <2>2. c = 0 \/ c \in Timers
    BY CurlAssumption DEF Threads, Timers
  <2> DEFINE w == IF c = 0 THEN "out" ELSE "ended"
  <2>3. w \in States \ {"made", "none"} /\ w \notin {"lib", "back"}
    BY DEF States
  <2>4. where' = [where EXCEPT ![c] = w] /\ where[c] \notin {"made", "none"}
    BY <1>2 DEF LeaveLibcurl
  <2>5. UNCHANGED <<handles, made, owner, m_id, frame, m_Timers, driven, process>>
    BY <1>2 DEF LeaveLibcurl
  <2> HIDE DEF w
  <2> QED
    BY <1>0, <2>1, <2>2, <2>3, <2>4, <2>5, Move, Zenon
<1>3. ASSUME NEW t \in Timers, TimerGoesOn(t) PROVE CurlInv'
  <2> DEFINE w == IF where[t] = "new" THEN "asleep" ELSE "lib"
  <2>1. t \in Threads /\ where \in [Threads -> States]
    BY Ranges DEF CurlInv, TimersApart, CurlTypeOK, States
  <2>2. where' = [where EXCEPT ![t] = w]
    BY <1>3, <2>1 DEF TimerGoesOn
  <2>3. /\ w \in States \ {"made", "none"} /\ w \notin {"back", "ended"}
        /\ where[t] \notin {"made", "none"}
    BY <1>3 DEF TimerGoesOn, States
  <2>4. driven' \subseteq Timers /\ driven \subseteq driven' /\ (w = "lib" => t \in driven')
    BY <1>0, <1>3 DEF TimerGoesOn
  <2>5. UNCHANGED <<handles, made, owner, m_id, frame, m_Timers, process>>
    BY <1>3 DEF TimerGoesOn
  <2> HIDE DEF w
  <2> QED
    BY <1>0, <2>1, <2>2, <2>3, <2>4, <2>5, Move, Zenon
<1>4. ASSUME NEW t \in Timers, TimerGivesUp(t) PROVE CurlInv'
  <2>1. t \in Threads /\ where[t] \notin {"made", "none"}
    BY <1>4, Ranges DEF TimerGivesUp
  <2>2. t \in 1..made
    BY <2>1, Ranges, CurlAssumption DEF CurlInv, Started, Timers
  <2>3. m_id[t] \in m_Timers
    BY <1>4, <2>2 DEF TimerGivesUp, Lost, CurlInv, Kept
  <2> QED
    BY <1>0, <1>4, <2>1, <2>3, Move, Zenon DEF TimerGivesUp, States
<1>5. CASE UNCHANGED <<handles, where, made, owner, m_id, frame, m_Timers, driven>>
           /\ process' \in {"running", "exited", "crashed"}
  BY <1>5 DEF CurlInv, TimersApart, CurlTypeOK, Frames, Kept, Started
<1>6. CASE UNCHANGED curlVars
  BY <1>6 DEF curlVars, CurlInv, TimersApart, CurlTypeOK, Frames, Kept, Started
<1>7. ASSUME Race \/ CurlMainReturns \/ \E t \in Timers : TimerCrashes(t) PROVE CurlInv'
  BY <1>5, <1>7 DEF Race, CurlMainReturns, TimerCrashes
<1>8. ASSUME NEW c \in Threads, InLibcurl(c) PROVE CurlInv'
  BY <1>2, <1>8, Create, Insert DEF InLibcurl
<1> QED
  BY <1>1, <1>3, <1>4, <1>6, <1>7, <1>8, Ranges DEF CurlNext, CurlMain, TimerThread

\* Timers made by one thread have different ids, and a timer's thread gives up only after
\* CreateTimer has returned, for any number of handles and timers (timer.h:32-59).
THEOREM TimersStayApart == CurlSpec => []TimersApart
<1>1. CurlInit => CurlInv
  BY CurlAssumption DEF CurlInit, CurlInv, TimersApart, CurlTypeOK, Frames, Kept, Started,
                        Timers, Threads
<1>2. CurlInv => TimersApart
  BY DEF CurlInv
<1> QED
  BY <1>1, <1>2, CurlStep, PTL DEF CurlSpec
=============================================================================
