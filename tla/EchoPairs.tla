----------------------------- MODULE EchoPairs -----------------------------
(***************************************************************************)
(* The three client/server pairs of the repository that exchange messages  *)
(* over stream sockets.  `pair` says which one this is:                    *)
(*                                                                         *)
(*   blocking   sockets/socket_server.cc serves one connection at a time,  *)
(*              with blocking reads and writes; sockets/socket_client.cc   *)
(*              sends for ever and never reads                             *)
(*   asio       sockets/asio/server.cc runs one coroutine per connection   *)
(*              until SIGINT or SIGTERM; asio/client.cc sends one message, *)
(*              reads once and exits                                       *)
(*   tls        crypto/server/tls_server.go runs one goroutine per         *)
(*              connection; crypto/client/tls_client.go is one process     *)
(*              that dials a new connection per message and closes none    *)
(*              before it returns                                          *)
(*                                                                         *)
(* A connection is an element of Conns.  inbox and outbox are the messages *)
(* in flight to the server and to the client: the two socket buffers of a  *)
(* direction, Cap messages together.                                       *)
(***************************************************************************)
EXTENDS Naturals, FiniteSets

CONSTANTS Conns,   \* connections that can be open at once
          Cap      \* messages that fit into one direction of a connection

ASSUME PairsAssumption == IsFiniteSet(Conns) /\ Cap \in Nat \ {0}

VARIABLES pair,
          client,   \* per connection: new, sending, reading, idle (tls: open and unused), gone
                    \* or never (tls: the process ended before it dialled)
          peer,     \* the server's view: open, fin, rst (ECONNRESET is due) or pipe (writes raise EPIPE)
          inbox, outbox,
          handler,  \* per connection: none, read, write, spin (tls: retrying a dead read) or ended
          server,   \* up, stopped (asio) or killed (SIGPIPE)
          answered  \* connections whose client has read a reply

pairVars == <<pair, client, peer, inbox, outbox, handler, server, answered>>

PairsInit ==
  /\ pair \in {"blocking", "asio", "tls"}
  /\ client = [c \in Conns |-> "new"]
  /\ peer = [c \in Conns |-> "open"]
  /\ inbox = [c \in Conns |-> 0]
  /\ outbox = [c \in Conns |-> 0]
  /\ handler = [c \in Conns |-> "none"]
  /\ server = "up"
  /\ answered = {}

Open(c)   == client[c] \in {"sending", "reading", "idle"}
Served(c) == handler[c] \in {"read", "write", "spin"}

\* Closing a socket sends FIN, or RST when it holds unread data.
Closed(c) == IF outbox[c] > 0 THEN "rst" ELSE "fin"
-----------------------------------------------------------------------------
\* The client connects, into the listen backlog.  The TLS client dials only at the
\* top of its loop: its earlier connections are open and unused.
Connect(c) ==
  /\ server = "up" /\ client[c] = "new"
  /\ pair = "tls" => \A d \in Conns : client[d] \in {"new", "idle"}
  /\ client' = [client EXCEPT ![c] = "sending"]
  /\ UNCHANGED <<pair, peer, inbox, outbox, handler, server, answered>>

\* The client writes one message; the call waits while the buffers are full.
ClientSend(c) ==
  /\ client[c] = "sending" /\ server = "up" /\ handler[c] # "ended"
  /\ inbox[c] < Cap
  /\ inbox' = [inbox EXCEPT ![c] = @ + 1]
  /\ client' = [client EXCEPT ![c] = IF pair = "blocking" THEN "sending" ELSE "reading"]
  /\ UNCHANGED <<pair, peer, outbox, handler, server, answered>>

\* The client reads the reply.  The asio client then exits; the TLS client sleeps
\* and goes on with a new connection.
ClientRead(c) ==
  /\ client[c] = "reading" /\ outbox[c] > 0
  /\ outbox' = [outbox EXCEPT ![c] = 0]
  /\ answered' = answered \cup {c}
  /\ client' = [client EXCEPT ![c] = IF pair = "tls" THEN "idle" ELSE "gone"]
  /\ peer' = [peer EXCEPT ![c] = IF pair = "tls" THEN @ ELSE "fin"]
  /\ UNCHANGED <<pair, inbox, handler, server>>

\* A client process ends with its connections: it is killed, or it is waiting to
\* read from a server that is no longer there.  The TLS client is one process.
ClientEnds(c) ==
  /\ Open(c)
  /\ LET own == IF pair = "tls" THEN {d \in Conns : Open(d)} ELSE {c}
     IN /\ client' = [d \in Conns |-> CASE d \in own -> "gone"
                                        [] d \notin own /\ pair = "tls" -> "never"
                                        [] OTHER -> client[d]]
        /\ peer' = [d \in Conns |-> IF d \in own THEN Closed(d) ELSE peer[d]]
        /\ outbox' = [d \in Conns |-> IF d \in own THEN 0 ELSE outbox[d]]
  /\ UNCHANGED <<pair, inbox, handler, server, answered>>
-----------------------------------------------------------------------------
\* Mutant: every server finishes with a connection before it accepts the next.
AcceptOneAtATime(c) ==
  /\ server = "up" /\ client[c] \notin {"new", "never"} /\ handler[c] = "none"
  /\ \A d \in Conns : ~Served(d)
  /\ handler' = [handler EXCEPT ![c] = "read"]
  /\ UNCHANGED <<pair, client, peer, inbox, outbox, server, answered>>

\* accept().  The blocking server is there only when its last read returned no
\* data; the others hand the connection over at once.
Accept(c) ==
  /\ server = "up" /\ client[c] \notin {"new", "never"} /\ handler[c] = "none"
  /\ pair = "blocking" => \A d \in Conns : ~Served(d)
  /\ handler' = [handler EXCEPT ![c] = "read"]
  /\ UNCHANGED <<pair, client, peer, inbox, outbox, server, answered>>

\* A read returns data: whatever has arrived, or one line for the TLS server.
Read(c) ==
  /\ server = "up" /\ handler[c] = "read" /\ inbox[c] > 0
  /\ \E n \in IF pair = "tls" THEN {1} ELSE 1..inbox[c] :
       inbox' = [inbox EXCEPT ![c] = @ - n]
  /\ handler' = [handler EXCEPT ![c] = "write"]
  /\ UNCHANGED <<pair, client, peer, outbox, server, answered>>

\* Mutant: a read that would wait is taken for the end of the stream.
ReadFailsEmpty(c) ==
  /\ server = "up" /\ handler[c] = "read" /\ inbox[c] = 0
  /\ handler' = [handler EXCEPT ![c] = IF pair = "tls" THEN "spin" ELSE "ended"]
  /\ UNCHANGED <<pair, client, peer, inbox, outbox, server, answered>>

\* A read finds the end of the stream or the reset.  The blocking server goes back
\* to accept (and leaks the socket), the coroutine ends with an exception, the
\* goroutine logs the error and reads again, for ever.
ReadFails(c) ==
  /\ server = "up" /\ handler[c] = "read" /\ inbox[c] = 0 /\ peer[c] # "open"
  /\ handler' = [handler EXCEPT ![c] = IF pair = "tls" THEN "spin" ELSE "ended"]
  /\ UNCHANGED <<pair, client, peer, inbox, outbox, server, answered>>

\* Mutant: a reply that does not fit is dropped.
WriteDropping(c) ==
  /\ server = "up" /\ handler[c] = "write" /\ peer[c] = "open"
  /\ outbox' = [outbox EXCEPT ![c] = IF @ < Cap THEN @ + 1 ELSE @]
  /\ handler' = [handler EXCEPT ![c] = "read"]
  /\ UNCHANGED <<pair, client, peer, inbox, server, answered>>

\* The handler writes its reply to an open connection; the call waits while the
\* buffers are full.
Write(c) ==
  /\ server = "up" /\ handler[c] = "write" /\ peer[c] = "open" /\ outbox[c] < Cap
  /\ outbox' = [outbox EXCEPT ![c] = @ + 1]
  /\ handler' = [handler EXCEPT ![c] = "read"]
  /\ UNCHANGED <<pair, client, peer, inbox, server, answered>>

\* The handler writes to a client that is gone.  After a FIN the write succeeds and
\* draws a reset, which comes before the next write or later, and makes that one fail
\* with EPIPE.  After a reset the first write fails with ECONNRESET, the next with
\* EPIPE.  Only the blocking server ignores the failure, and for it alone does EPIPE
\* come with SIGPIPE.
WriteDead(c) ==
  /\ server = "up" /\ handler[c] = "write" /\ peer[c] # "open"
  /\ \E p \in IF peer[c] = "fin" THEN {"fin", "pipe"} ELSE {"pipe"} :
       peer' = [peer EXCEPT ![c] = p]
  /\ IF peer[c] = "fin" \/ (pair = "blocking" /\ peer[c] = "rst")
     THEN handler' = [handler EXCEPT ![c] = "read"] /\ UNCHANGED server
     ELSE IF pair = "blocking"
          THEN server' = "killed" /\ handler' = [d \in Conns |-> "ended"]
          ELSE handler' = [handler EXCEPT ![c] = "ended"] /\ UNCHANGED server
  /\ UNCHANGED <<pair, client, inbox, outbox, answered>>

\* SIGINT or SIGTERM: io_context.stop(), run() returns, the coroutines are destroyed.
Stop ==
  /\ pair = "asio" /\ server = "up"
  /\ server' = "stopped"
  /\ handler' = [c \in Conns |-> "ended"]
  /\ UNCHANGED <<pair, client, peer, inbox, outbox, answered>>

ClientStep(c) == Connect(c) \/ ClientSend(c) \/ ClientRead(c)
ServerStep(c) == Accept(c) \/ Read(c) \/ ReadFails(c) \/ Write(c) \/ WriteDead(c)

PairsNext == Stop \/ \E c \in Conns : ClientStep(c) \/ ClientEnds(c) \/ ServerStep(c)

PairsSpec == PairsInit /\ [][PairsNext]_pairVars

\* Running clients and handlers are scheduled; nothing has to end a client or to
\* stop the server.
PairsFairness == \A c \in Conns : WF_pairVars(ClientStep(c)) /\ WF_pairVars(ServerStep(c))
-----------------------------------------------------------------------------
PairsTypeOK ==
  /\ pair \in {"blocking", "asio", "tls"}
  /\ client \in [Conns -> {"new", "sending", "reading", "idle", "gone", "never"}]
  /\ peer \in [Conns -> {"open", "fin", "rst", "pipe"}]
  /\ inbox \in [Conns -> 0..Cap] /\ outbox \in [Conns -> 0..Cap]
  /\ handler \in [Conns -> {"none", "read", "write", "spin", "ended"}]
  /\ server \in {"up", "stopped", "killed"}
  /\ answered \subseteq Conns

\* The messages of c that are on their way or in the handler's buffer.
InFlight(c) == inbox[c] + outbox[c] + (IF handler[c] = "write" THEN 1 ELSE 0)

\* While the server runs it gives up no connection whose client is there, so a client of
\* the asio or the TLS server that waits for its reply has exactly one message under way,
\* which no FIN, reset or end of another client takes from it (asio/server.cc:17-34,
\* tls_server.go:70-105).  The blocking server holds one connection at a time, its client
\* never sees a reply, and only a write to a client that is gone kills it; the others are
\* not killed (socket_server.cc:32-43).  Every variable keeps its type.
NoReplyLost ==
  /\ PairsTypeOK
  /\ server = "up" =>
       \A c \in Conns : /\ handler[c] \in {"spin", "ended"} => client[c] = "gone"
                        /\ pair # "blocking" /\ client[c] = "reading" => InFlight(c) = 1
  /\ pair = "blocking" =>
       answered = {} /\ \A c, d \in Conns : Served(c) /\ Served(d) => c = d
  /\ server = "killed" =>
       pair = "blocking" /\ \E c \in Conns : client[c] = "gone" /\ peer[c] = "pipe"

\* A client of the blocking server is served, or goes away, or the server is killed by
\* SIGPIPE, unless another client that stays connected keeps the server to itself:
\* a dead client is always given up (socket_server.cc:32-43).  A client that is served
\* and does not go away ends up waiting for the server to read while the server waits
\* for it to read: both directions are full (socket_server.cc:37-42, socket_client.cc:
\* 28-37).
PairBlocksItself ==
  \A c \in Conns :
    /\ pair = "blocking" /\ client[c] = "sending" ~>
         \/ handler[c] # "none" \/ client[c] = "gone" \/ server = "killed"
         \/ \E d \in Conns \ {c} : Served(d) /\ Open(d)
    /\ pair = "blocking" /\ Served(c) ~>
         \/ client[c] = "gone" \/ server = "killed"
         \/ inbox[c] = Cap /\ outbox[c] = Cap /\ handler[c] = "write"

\* Every connection of the asio and the TLS server gets its reply, however slow the
\* other clients are, unless its client ends or the server is stopped
\* (asio/server.cc:17-34, tls_server.go:70-105).  The TLS client never frees one while
\* it runs: left alone, it ends with every descriptor it may have in use and none to
\* dial with (tls_client.go:59-85).  Once it has ended, the goroutine of each answered
\* connection reads again for ever: the server gives nothing back (tls_server.go:84-89).
EveryClientAnswered ==
  /\ \A c \in Conns :
       pair # "blocking" /\ client[c] = "sending" ~>
         c \in answered \/ client[c] = "gone" \/ server # "up"
  /\ pair = "tls" ~> (\A c \in Conns : client[c] \in {"gone", "never"})
                       \/ (\A c \in Conns : client[c] = "idle")
  /\ \A c \in Conns :
       pair = "tls" /\ c \in answered /\ client[c] = "gone" ~> [](handler[c] = "spin")
==============================================================================
