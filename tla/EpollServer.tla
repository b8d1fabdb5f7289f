----------------------------- MODULE EpollServer -----------------------------
(***************************************************************************)
(* The two servers built on one epoll loop: the echo server                *)
(* sockets/epoll/epoll_server.cc and the HTTP/2 server                     *)
(* http2/nghttp2_server/main.cc, with their clients and the part of the    *)
(* kernel they talk to: the accept queue, the receive buffers, and the     *)
(* ready list of an edge-triggered epoll instance.                         *)
(*                                                                         *)
(* Three things follow from how the code calls the kernel.  fcntl is given *)
(* F_SETFD, not F_SETFL, so accept and read block.  A connection is        *)
(* registered with data.fd = epfd, so its events do not tell which         *)
(* connection they are about: the server reads and writes conn_sock, the   *)
(* connection it accepted last, and on a hang-up it closes epfd.  The      *)
(* number of epfd is then the lowest free one, so the next accept returns  *)
(* it, and epoll_ctl fails for a descriptor that is no epoll instance.     *)
(*                                                                         *)
(* The unit of data is a chunk that fits into the 256 bytes of buf.  Every *)
(* client reads what is echoed, so write never waits.  The HTTP/2 server   *)
(* throws away what it reads (only the 0 of the last read reaches          *)
(* nghttp2), never writes, and keeps the session of the latest connection  *)
(* only.                                                                   *)
(***************************************************************************)
EXTENDS Naturals, Sequences, FiniteSets, Functions

CONSTANTS Clients,
          MaxSend,   \* bound: chunks sent by all clients together
          Listen,    \* the listening socket, in the ready list and in events
          None

ASSUME EpollAssumption == /\ Listen \notin Clients /\ None \notin Clients
                          /\ IsFiniteSet(Clients) /\ MaxSend \in Nat

VARIABLES
  app,     \* which server this is: echo or http2
  cl,      \* cl[c]: none, open, half (its FIN is sent) or gone (closed)
  sent,    \* sent[c]: the number of chunks c has sent
  inbox,   \* inbox[c]: the receive buffer of c's socket in the server
  got,     \* got[c]: the chunks echoed to c
  rst,     \* rst[c]: no, due (the server wrote to a closed peer) or in
  queue,   \* the accept queue
  ready,   \* the ready list of epfd: Listen and clients
  epfd,    \* epfd is open
  conn,    \* conn_sock
  batch,   \* events[i..nfds - 1]: the source, and whether RDHUP or HUP is set
  session, \* what session_data points to: nothing, a live or a deleted session
  pc       \* wait, event, read; exited (return -1), killed (SIGPIPE), wild (an
           \* uninitialized pointer is freed), stale (a deleted session is used)

net == <<cl, sent, inbox, got, rst, queue, ready>>
vars == <<app, net, epfd, conn, batch, session, pc>>

Chunk == [from : Clients, n : Nat]

TypeOK ==
  /\ app \in {"echo", "http2"}
  /\ cl \in [Clients -> {"none", "open", "half", "gone"}]
  /\ sent \in [Clients -> Nat]
  /\ inbox \in [Clients -> Seq(Chunk)]
  /\ got \in [Clients -> Seq(Chunk)]
  /\ rst \in [Clients -> {"no", "due", "in"}]
  /\ queue \in Seq(Clients)
  /\ ready \in Seq(Clients \cup {Listen})
  /\ epfd \in BOOLEAN
  /\ conn \in Clients \cup {None}
  /\ batch \in Seq([src : Clients \cup {Listen}, hup : BOOLEAN])
  /\ session \in {"none", "live", "deleted"}
  /\ pc \in {"wait", "event", "read", "exited", "killed", "wild", "stale"}

Init ==
  /\ app \in {"echo", "http2"}
  /\ cl = [c \in Clients |-> "none"]
  /\ sent = [c \in Clients |-> 0]
  /\ inbox = [c \in Clients |-> <<>>]
  /\ got = [c \in Clients |-> <<>>]
  /\ rst = [c \in Clients |-> "no"]
  /\ queue = <<>>
  /\ ready = <<>>
  /\ epfd = TRUE
  /\ conn = None
  /\ batch = <<>>
  /\ session = "none"
  /\ pc = "wait"

Running == pc \in {"wait", "event", "read"}
Accepted(c) == cl[c] # "none" /\ c \notin Range(queue)
HangUp(c) == cl[c] \in {"half", "gone"} \/ rst[c] = "in"

\* A read of c's socket returns at once.  The kernel sets EPOLLIN with RDHUP and
\* HUP too, so this is also the condition for an event of c, and every event of a
\* connection has EPOLLIN: the "unexpected event" branch is not reached.
Readable(c) == inbox[c] # <<>> \/ HangUp(c)

\* An edge: x goes to the end of the ready list unless it is on it.
Wake(x) == ready' = IF epfd /\ x \notin Range(ready) THEN Append(ready, x) ELSE ready
WakeConn(c) == IF Accepted(c) THEN Wake(c) ELSE UNCHANGED ready
-----------------------------------------------------------------------------
(* The clients. *)

Connect(c) ==
  /\ Running /\ cl[c] = "none"
  /\ cl' = [cl EXCEPT ![c] = "open"]
  /\ queue' = Append(queue, c)
  /\ Wake(Listen)
  /\ UNCHANGED <<sent, inbox, got, rst, epfd, conn, batch, session, pc, app>>

\* The bound on what the clients send.
MaySend == FoldFunction(+, 0, sent) < MaxSend

Send(c) ==
  /\ Running /\ cl[c] = "open" /\ MaySend
  /\ sent' = [sent EXCEPT ![c] = @ + 1]
  /\ inbox' = [inbox EXCEPT ![c] = Append(@, [from |-> c, n |-> sent[c] + 1])]
  /\ WakeConn(c)
  /\ UNCHANGED <<cl, got, rst, queue, epfd, conn, batch, session, pc, app>>

\* shutdown(SHUT_WR) or close: the server gets a FIN.
Leave(c, how) ==
  /\ Running /\ cl[c] = "open"
  /\ cl' = [cl EXCEPT ![c] = how]
  /\ WakeConn(c)
  /\ UNCHANGED <<sent, inbox, got, rst, queue, epfd, conn, batch, session, pc, app>>

\* The closed peer answers what the server wrote with a RST.
Reset(c) ==
  /\ Running /\ rst[c] = "due"
  /\ rst' = [rst EXCEPT ![c] = "in"]
  /\ WakeConn(c)
  /\ UNCHANGED <<cl, sent, inbox, got, queue, epfd, conn, batch, session, pc, app>>
-----------------------------------------------------------------------------
(* The server. *)

\* What epoll_wait finds when it looks at x again: x is still readable.
Live(x) == IF x = Listen THEN queue # <<>> ELSE Readable(x)

\* epoll_wait takes everything from the ready list and reports what is still readable,
\* in the order of the list: f numbers those places upwards.  When epfd is closed it
\* returns -1 at once and the loop goes round for ever.
EpollWait ==
  /\ pc = "wait" /\ epfd /\ ready # <<>>
  /\ LET at == {i \in DOMAIN ready : Live(ready[i])}
     IN \E f \in [1..Cardinality(at) -> at] :
          /\ \A i, j \in DOMAIN f : i < j => f[i] < f[j]
          /\ batch' = [i \in DOMAIN f |->
                         [src |-> ready[f[i]],
                          hup |-> ready[f[i]] # Listen /\ HangUp(ready[f[i]])]]
  /\ pc' = IF batch' = <<>> THEN "wait" ELSE "event"
  /\ ready' = <<>>
  /\ UNCHANGED <<app, cl, sent, inbox, got, rst, queue, epfd, conn, session>>

\* The end of the body of the for loop.
NextEvent ==
  /\ batch' = Tail(batch)
  /\ pc' = IF Len(batch) = 1 THEN "wait" ELSE "event"

\* Mutant: accept until the queue is drained, as an edge-triggered non-blocking
\* listening socket would ask for: the event is kept for another accept.
AcceptAgain ==
  /\ pc = "event" /\ Head(batch).src = Listen /\ queue # <<>>
  /\ conn' = Head(queue)
  /\ queue' = Tail(queue)
  /\ ready' = IF Readable(conn') THEN Append(ready, conn') ELSE ready
  /\ UNCHANGED <<app, cl, sent, inbox, got, rst, epfd, batch, session, pc>>

initialize_nghttp2_session == session' = IF app = "http2" THEN "live" ELSE session

\* accept and epoll_ctl(EPOLL_CTL_ADD), which puts a socket that is readable
\* already on the ready list.  The HTTP/2 server makes a new session and forgets
\* the one before.
Accept ==
  /\ pc = "event" /\ Head(batch).src = Listen /\ queue # <<>>
  /\ conn' = Head(queue)
  /\ queue' = Tail(queue)
  /\ IF epfd
     THEN /\ ready' = IF Readable(conn') THEN Append(ready, conn') ELSE ready
          /\ initialize_nghttp2_session
          /\ NextEvent
     ELSE /\ pc' = "exited"
          /\ UNCHANGED <<ready, session, batch>>
  /\ UNCHANGED <<app, cl, sent, inbox, got, rst, epfd>>

ConnEvent ==
  /\ pc = "event" /\ Head(batch).src # Listen
  /\ pc' = "read"
  /\ UNCHANGED <<app, net, epfd, conn, batch, session>>

\* Mutant: the read is from the connection of the event, the write to conn_sock.
EchoCrossed ==
  LET c == Head(batch).src IN
  /\ pc = "read" /\ inbox[c] # <<>>
  /\ inbox' = [inbox EXCEPT ![c] = Tail(@)]
  /\ got' = [got EXCEPT ![conn] = Append(@, Head(inbox[c]))]
  /\ UNCHANGED <<cl, sent, rst, queue, ready, epfd, conn, batch, session, pc, app>>

\* Mutant: an event reads once, with no loop around the read.
EchoOnce ==
  /\ pc = "read" /\ inbox[conn] # <<>>
  /\ inbox' = [inbox EXCEPT ![conn] = Tail(@)]
  /\ got' = [got EXCEPT ![conn] = Append(@, Head(inbox[conn]))]
  /\ NextEvent
  /\ UNCHANGED <<app, cl, sent, rst, queue, ready, epfd, conn, session>>

\* One turn of the do loop with data: read and write.  A write to a peer that has
\* reset the connection raises SIGPIPE, which the server does not ignore.
Echo ==
  /\ app = "echo" /\ pc = "read" /\ inbox[conn] # <<>>
  /\ inbox' = [inbox EXCEPT ![conn] = Tail(@)]
  /\ got' = IF cl[conn] = "gone" THEN got
            ELSE [got EXCEPT ![conn] = Append(@, Head(inbox[conn]))]
  /\ rst' = IF cl[conn] = "gone" /\ rst[conn] = "no" THEN [rst EXCEPT ![conn] = "due"]
            ELSE rst
  /\ pc' = IF rst[conn] = "in" THEN "killed" ELSE "read"
  /\ UNCHANGED <<app, cl, sent, queue, ready, epfd, conn, batch, session>>

\* Mutant: the loop ends as soon as the buffer is empty, as with EAGAIN.
ReadEndNonBlocking ==
  /\ pc = "read" /\ inbox[conn] = <<>>
  /\ epfd' = FALSE
  /\ ready' = <<>>
  /\ NextEvent
  /\ UNCHANGED <<app, cl, sent, inbox, got, rst, queue, conn, session>>

\* The HTTP/2 server reads into buf and goes round the loop.
Discard ==
  /\ app = "http2" /\ pc = "read" /\ inbox[conn] # <<>>
  /\ inbox' = [inbox EXCEPT ![conn] = Tail(@)]
  /\ UNCHANGED <<app, cl, sent, got, rst, queue, ready, epfd, conn, batch, session, pc>>

\* The last turn: read returns 0 or an error once the peer hung up and waits until
\* then.  If the event had RDHUP or HUP, epfd is closed.
ReadEnd ==
  /\ app = "echo" /\ pc = "read" /\ inbox[conn] = <<>> /\ HangUp(conn)
  /\ epfd' = (epfd /\ ~Head(batch).hup)
  /\ ready' = IF epfd' THEN ready ELSE <<>>
  /\ NextEvent
  /\ UNCHANGED <<app, cl, sent, inbox, got, rst, queue, conn, session>>

\* Mutant: the session is deleted before the 0 bytes are given to it.
SessionEndSwapped ==
  /\ app = "http2" /\ pc = "read" /\ inbox[conn] = <<>> /\ HangUp(conn)
  /\ IF session = "deleted" \/ Head(batch).hup
     THEN pc' = "stale" /\ UNCHANGED <<epfd, ready, session, batch>>
     ELSE NextEvent /\ UNCHANGED <<epfd, ready, session>>
  /\ UNCHANGED <<app, cl, sent, inbox, got, rst, queue, conn>>

\* malloc left stream_data undefined: it may be freed too.
delete_http2_session_data == session' = "deleted" /\ (NextEvent \/ (pc' = "wild" /\ UNCHANGED batch))

\* The same in the HTTP/2 server: the 0 bytes go to the session, then a hang-up
\* closes epfd and deletes the session.
SessionEnd ==
  /\ app = "http2" /\ pc = "read" /\ inbox[conn] = <<>> /\ HangUp(conn)
  /\ \/ /\ session = "deleted"
        /\ pc' = "stale"
        /\ UNCHANGED <<epfd, ready, session, batch>>
     \/ /\ session = "live" /\ Head(batch).hup
        /\ epfd' = FALSE
        /\ ready' = <<>>
        /\ delete_http2_session_data
     \/ /\ session = "live" /\ ~Head(batch).hup
        /\ NextEvent
        /\ UNCHANGED <<epfd, ready, session>>
  /\ UNCHANGED <<app, cl, sent, inbox, got, rst, queue, conn>>
-----------------------------------------------------------------------------
Client(c) == Connect(c) \/ Send(c) \/ Leave(c, "half") \/ Leave(c, "gone") \/ Reset(c)

Server == EpollWait \/ Accept \/ ConnEvent \/ Echo \/ Discard \/ ReadEnd \/ SessionEnd

Next == Server \/ \E c \in Clients : Client(c)

Spec == Init /\ [][Next]_vars

\* The server is one thread that the operating system schedules.
LiveSpec == Spec /\ WF_vars(Server)
-----------------------------------------------------------------------------
\* What a client receives is a prefix of what it sent: no chunk is lost, repeated,
\* reordered or sent to another client, although events of one connection make the
\* server read another (epoll_server.cc:123-141).  Every variable keeps its type.
EchoesInOrder ==
  /\ TypeOK
  /\ \A c \in Clients :
       /\ \A i \in DOMAIN got[c] : got[c][i] = [from |-> c, n |-> i]
       /\ Len(got[c]) <= sent[c]

\* The blocking accept never waits: an event of the listening socket is reported
\* only with a connection in the queue, and it is followed by one accept
\* (epoll_server.cc:100-102).
AcceptNeverBlocks ==
  pc = "event" /\ Head(batch).src = Listen => queue # <<>>

\* The server stops only after a client has left: the epoll_ctl of a new connection
\* fails only when a hang-up has closed epfd, and only a write to a closed peer
\* raises SIGPIPE (epoll_server.cc:116-118, 134, 148-153).
StopsOnlyAfterLeave ==
  ~Running => \E c \in Clients : cl[c] \in {"half", "gone"} /\ Accepted(c)

\* Every chunk that reaches the connection the server is reading is read, unless a
\* signal kills the server first (epoll_server.cc:123-141).
LatestIsRead ==
  (pc = "read" /\ inbox[conn] # <<>>) ~> (pc = "killed" \/ (pc = "read" /\ inbox[conn] = <<>>))

\* The other side of that: once a later connection has been accepted, an earlier one is
\* not served again.  Its events make the server read conn_sock, so its client gets no
\* further echo and what it sends stays in its buffer (epoll_server.cc:102, 126-134,
\* nghttp2_server/main.cc:123-142).
SupersededIsLeft ==
  [][\A c \in Clients :
       Accepted(c) /\ c # conn =>
         /\ conn' # c /\ got'[c] = got[c]
         /\ Len(inbox[c]) <= Len(inbox'[c])
         /\ inbox[c] = SubSeq(inbox'[c], 1, Len(inbox[c]))]_vars

\* Session data is used after it was deleted only when epoll_wait reports two
\* connections at once, so never with a single client (main.cc:123-175).
StaleSessionNeedsTwo ==
  pc = "stale" => Cardinality({c \in Clients : Accepted(c)}) > 1

\* "we close the socket ourselves" (epoll_server.cc:153): after a hang-up event of
\* a connection the socket is closed, and not epfd.
HangUpKeepsEpoll == epfd
==============================================================================
