------------------------------ MODULE Http2Pair ------------------------------
(***************************************************************************)
(* The HTTP/2 client of the repository connected to its HTTP/2 server      *)
(* (without the proxy that test_http2_client_server.sh puts between):      *)
(* Http2Client with one connection of EpollServer.  What the client sends  *)
(* in one turn of its loop is a chunk for the server; the server never     *)
(* writes, so nothing comes back.  The client may be interrupted.          *)
(***************************************************************************)
EXTENDS Http2Client

CONSTANTS Peer,            \* the client, for the server
          Listen, NoConn

ASSUME PairAssumption == Listen # Peer /\ NoConn # Peer

VARIABLES cl, chunks, unread, got, rst, queue, ready, epfd, conn, batch, session, serverPc

S == INSTANCE EpollServer WITH
       Clients <- {Peer}, MaxSend <- 2, None <- NoConn, app <- "http2",
       sent <- chunks, inbox <- unread, pc <- serverPc

ownServer == <<cl, chunks, unread, got, rst, queue, ready, epfd, conn, batch, session, serverPc>>
duoVars == <<vars, ownServer>>

\* connect() reaches the listening socket.
PairConnect ==
  /\ Connected /\ link' = "up"
  /\ S!Connect(Peer)

\* A turn of the client writes to the socket.
Sends == control # {} \/ sent' # sent

PairTurn ==
  /\ Client
  /\ IF Sends THEN S!Send(Peer) ELSE UNCHANGED ownServer

\* The client is killed; the kernel closes its connection.
Interrupt ==
  /\ pc = "poll"
  /\ pc' = "failed"
  /\ S!Leave(Peer, "gone")
  /\ UNCHANGED <<server, inbox, submitted, sent, closed, control, limit, term, events>>

ServerTurn == S!Server /\ UNCHANGED vars

PairNext ==
  \/ host = "any" /\ Next /\ UNCHANGED ownServer
  \/ host = "own" /\ (PairConnect \/ PairTurn \/ Interrupt \/ ServerTurn)

PairInit == Init /\ S!Init

PairSpec == PairInit /\ [][PairNext]_duoVars

\* In addition to Http2Client's fairness: the server is scheduled.
PairFairness == Fairness /\ WF_duoVars(ServerTurn)
-----------------------------------------------------------------------------
\* Nothing comes back from the repository's server (nghttp2_server/main.cc:123-146), so
\* its client sends its first request in one chunk and never the next, which it submits
\* after ctl_poll; it leaves the loop only when it is interrupted (nghttp2_client/main.cc:
\* 91-108).  After that, and only then, may the server stop, and only in the free of what
\* malloc left in the session (main.cc:163-175): no accept fails, and no deleted session
\* is used.
PairIsSilent ==
  host = "own" =>
    /\ inbox = <<>> /\ closed = {} /\ got[Peer] = <<>>
    /\ sent <= 1 /\ submitted = sent + 1 /\ chunks[Peer] = sent
    /\ pc = "poll" \/ (pc = "failed" /\ cl[Peer] = "gone")
    /\ S!Running \/ (cl[Peer] = "gone" /\ serverPc = "wild")

\* Once connected they end up, for good, with the client in poll and one request sent,
\* the next one queued, and the server in the read that waits for the connection to end.
\* If the client is interrupted there, the server stops serving: its epoll instance is
\* closed or the session's garbage freed.
PairHangs ==
  /\ []PairIsSilent
  /\ host = "own" ~>
       [](\/ /\ pc = "poll" /\ sent = 1 /\ submitted = 2
             /\ serverPc = "read" /\ unread[Peer] = <<>>
          \/ cl[Peer] = "gone")
  /\ cl[Peer] = "gone" ~> ~epfd \/ serverPc = "wild"
==============================================================================
