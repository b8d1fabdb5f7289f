----------------------------- MODULE Http2Client -----------------------------
(***************************************************************************)
(* The HTTP/2 client http2/nghttp2_client (main.cc, nghttp2.h): a poll     *)
(* loop on one non-blocking socket around an nghttp2 session.              *)
(*                                                                         *)
(*   while (want_read || want_write) {                                     *)
(*     poll; exec_io (receive all, send all); ctl_poll; submit_request }   *)
(*                                                                         *)
(* The session and the server are external.  The session queues frames;    *)
(* it sends control frames before requests, no more requests at once than  *)
(* the server allows, and none once terminate_session was called; when its *)
(* GOAWAY is sent it wants neither to read nor to write.  The server       *)
(* sends SETTINGS first, answers requests in any order, may send other     *)
(* frames (PING, WINDOW_UPDATE) and may close the connection at any time.  *)
(* Frames are small: the socket always takes them.  Or the client talks to *)
(* the repository's own server (Http2Pair), which never sends anything.    *)
(***************************************************************************)
EXTENDS Naturals, Sequences, FiniteSets

CONSTANTS MaxOther,   \* bound: other frames the server sends
          Limits      \* values of the server's MAX_CONCURRENT_STREAMS

ASSUME ClientAssumption == MaxOther \in Nat /\ Limits \subseteq Nat \ {0}

DefaultLimit == 100   \* nghttp2's assumption until the server's SETTINGS arrive

VARIABLES
  host,      \* the server: any HTTP/2 server, or the repository's own
  link,      \* connecting, up, refused or closed (by the server)
  inbox,     \* frames and the end of the stream on their way to the client
  other,     \* the number of other frames sent
  greeted,   \* the server has sent its SETTINGS
  submitted, \* requests submitted: streams 1..submitted
  sent,      \* requests sent: streams 1..sent
  closed,    \* streams answered, as the client knows
  answered,  \* streams answered by the server
  control,   \* control frames queued in the session
  limit,     \* the concurrency limit the session knows
  term,      \* no, queued (terminate_session was called) or sent (GOAWAY sent)
  events,    \* pollfds[0].events
  pc         \* poll, done (the loop ended) or failed (diec, or return -1)

server == <<host, link, other, greeted, answered>>
client == <<submitted, sent, closed, control, limit, term, events, pc>>
vars == <<server, inbox, client>>

Reply(s) == [kind |-> "reply", stream |-> s]
Frame(k) == [kind |-> k, stream |-> 0]

TypeOK ==
  /\ host \in {"any", "own"}
  /\ link \in {"connecting", "up", "refused", "closed"}
  /\ inbox \in Seq([kind : {"settings", "other", "eof", "reply"}, stream : Nat])
  /\ other \in 0..MaxOther
  /\ greeted \in BOOLEAN
  /\ submitted \in Nat /\ sent \in 0..submitted
  /\ answered \subseteq 1..sent /\ closed \subseteq answered
  /\ control \subseteq {"settings", "ack", "goaway"}
  /\ limit \in Limits \cup {DefaultLimit}
  /\ term \in {"no", "queued", "sent"}
  /\ events \subseteq {"POLLIN", "POLLOUT"}
  /\ pc \in {"poll", "done", "failed"}

(* nghttp2_session_want_read and want_write, in terms of the session. *)
WantRead(t) == t # "sent"
WantWrite(t, ctl, waiting, open, max) ==
  t # "sent" /\ (ctl # {} \/ (waiting > 0 /\ open < max))

\* main up to the loop: SETTINGS and one request are queued, then ctl_poll.
Init ==
  /\ host \in {"any", "own"}
  /\ link = "connecting"
  /\ inbox = <<>>
  /\ other = 0
  /\ greeted = FALSE
  /\ submitted = 1
  /\ sent = 0
  /\ closed = {}
  /\ answered = {}
  /\ control = {"settings"}
  /\ limit = DefaultLimit
  /\ term = "no"
  /\ events = {"POLLIN", "POLLOUT"}
  /\ pc = "poll"
-----------------------------------------------------------------------------
(* The server and the network. *)

Connected ==
  /\ link = "connecting"
  /\ link' \in {"up", "refused"}
  /\ UNCHANGED <<client, inbox, host, other, greeted, answered>>

Settings ==
  /\ host = "any" /\ link = "up" /\ ~greeted
  /\ greeted' = TRUE
  /\ inbox' = Append(inbox, Frame("settings"))
  /\ UNCHANGED <<client, host, link, other, answered>>

Answer(s) ==
  /\ host = "any" /\ link = "up" /\ greeted /\ s \in (1..sent) \ answered
  /\ answered' = answered \cup {s}
  /\ inbox' = Append(inbox, Reply(s))
  /\ UNCHANGED <<client, host, link, other, greeted>>

OtherFrame ==
  /\ host = "any" /\ link = "up" /\ greeted /\ other < MaxOther
  /\ other' = other + 1
  /\ inbox' = Append(inbox, Frame("other"))
  /\ UNCHANGED <<client, host, link, greeted, answered>>

CloseLink ==
  /\ host = "any" /\ link = "up"
  /\ link' = "closed"
  /\ inbox' = Append(inbox, Frame("eof"))
  /\ UNCHANGED <<client, host, other, greeted, answered>>
-----------------------------------------------------------------------------
(* The client. *)

Received == {inbox[i] : i \in DOMAIN inbox}

\* poll returns: something the client asked for, or a failed connection.
PollReady ==
  \/ link = "refused"
  \/ "POLLIN" \in events /\ inbox # <<>>
  \/ "POLLOUT" \in events /\ link \in {"up", "closed"}

\* Mutant: the end of the stream is taken for "no data yet".
ExecIoIgnoringEof ==
  /\ pc = "poll" /\ link = "refused"
  /\ pc' = "failed"
  /\ UNCHANGED <<server, inbox, submitted, sent, closed, control, limit, term, events>>

\* recv_callback fails or reports the end of the stream, and exec_io ends the program.
ExecIoFails ==
  /\ pc = "poll" /\ PollReady
  /\ link = "refused" \/ Frame("eof") \in Received
  /\ pc' = "failed"
  /\ UNCHANGED <<server, inbox, submitted, sent, closed, control, limit, term, events>>

\* Mutant: the reply is printed and the session goes on.
NeverTerminates == FALSE

\* on_stream_close_callback: the first stream that closes terminates the session.
Terminates == term = "no" /\ \E s \in 1..sent : Reply(s) \in Received

Min2(a, b) == IF a < b THEN a ELSE b

\* Mutant: exec_io returns after it has received something.
SendIfIdle(t, open, max) ==
  IF t = "no" /\ inbox = <<>> THEN Min2(submitted, sent + (max - open)) ELSE sent

\* nghttp2_session_send: the requests sent so far, after sending what is allowed.
SendUpTo(t, open, max) == IF t = "no" THEN Min2(submitted, sent + (max - open)) ELSE sent

\* Every frame is received, then what the session allows is sent.
exec_io ==
  /\ inbox' = <<>>
  /\ closed' = closed \cup {s \in 1..sent : Reply(s) \in Received}
  /\ limit' \in IF Frame("settings") \in Received THEN Limits ELSE {limit}
  /\ LET queued == IF Terminates THEN "queued" ELSE term
         open == sent - Cardinality(closed')
     IN /\ sent' = IF open < limit' THEN SendUpTo(queued, open, limit') ELSE sent
        /\ term' = IF queued = "queued" THEN "sent" ELSE queued
  /\ control' = {}                               \* SETTINGS, its ACK and GOAWAY are sent

\* The session after exec_io wants to write, with n requests submitted.
WantWriteAfter(n) ==
  WantWrite(term', control', n - sent', sent' - Cardinality(closed'), limit')

ctl_poll == events' = {e \in {"POLLIN", "POLLOUT"} :
                         IF e = "POLLIN" THEN WantRead(term') ELSE WantWriteAfter(submitted)}

submit_request == submitted' = submitted + 1

\* One turn of the event loop, and the condition of the next.
Iterate ==
  /\ pc = "poll" /\ PollReady
  /\ link # "refused" /\ Frame("eof") \notin Received
  /\ exec_io /\ ctl_poll /\ submit_request
  /\ pc' = IF WantRead(term') \/ WantWriteAfter(submitted') THEN "poll" ELSE "done"
  /\ UNCHANGED server
-----------------------------------------------------------------------------
Server == Settings \/ OtherFrame \/ CloseLink \/ \E s \in 1..sent : Answer(s)
Client == Iterate \/ ExecIoFails

Next == Connected \/ Server \/ Client

Spec == Init /\ [][Next]_vars

\* The client is scheduled, the network connects or refuses, and the server answers
\* what it has received unless it closes the connection.
Fairness == /\ WF_vars(Client) /\ WF_vars(Connected) /\ WF_vars(Settings)
            /\ WF_vars(\E s \in 1..sent : Answer(s))
-----------------------------------------------------------------------------
\* The loop ends: the first reply, or the loss of the connection, ends the program
\* although every turn submits another request (main.cc:91-108, nghttp2.h:252-268).
ClientStops == host = "any" ~> pc \in {"done", "failed"}

\* "after reception of the response, we submit GOAWAY and close the session"
\* (nghttp2.h:246-251): no request is sent once a reply has been read, and the turn
\* that reads it is the last one.
ReplyIsTheEnd ==
  [][closed' # {} => sent' = sent /\ pc' = "done"]_vars

\* ctl_poll looks at the session before submit_request (main.cc:104-107), so the
\* newest request may wait for the server's next frame; no older one does while
\* the server would take it.  Every variable keeps its type, and no answer is known
\* that was not given.
OnlyNewestWaits ==
  /\ TypeOK
  /\ pc = "poll" /\ sent > 0 /\ sent - Cardinality(closed) < limit => submitted - sent <= 1
==============================================================================
