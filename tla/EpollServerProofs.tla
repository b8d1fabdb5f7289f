-------------------------- MODULE EpollServerProofs --------------------------
(***************************************************************************)
(* The four invariants of the epoll servers, for any finite set of         *)
(* clients and any number of chunks.  Each of them rests on an inductive   *)
(* invariant about a part of the state:                                    *)
(*                                                                         *)
(*   ListsInv    who is in the accept queue, on the ready list and in the  *)
(*               batch of events, each at most once                        *)
(*   ChunksInv   where the chunks of a client are                          *)
(*   LeftInv     what a closed epfd or a stopped server says of clients    *)
(*   SessionInv  who else was reported when the session was deleted        *)
(***************************************************************************)
EXTENDS EpollServer, FiniteSetTheorems, TLAPS

\* No element of s occurs twice.
Distinct(s) == \A i, j \in DOMAIN s : s[i] = s[j] => i = j

\* The clients that were accepted.
Served == {c \in Clients : Accepted(c)}

\* The accept queue holds clients that have connected.
QueueInv ==
  /\ Distinct(queue)
  /\ \A i \in DOMAIN queue : cl[queue[i]] # "none"

\* A connection is on the ready list only after it was accepted.
ReadyInv ==
  /\ Distinct(ready)
  /\ \A i \in DOMAIN ready : ready[i] # Listen => ready[i] \in Served

\* What an event says is true when the server comes to it: somebody waits to be
\* accepted, or the connection was accepted and has hung up if the event says so.
EventTrue(e) ==
  /\ e.src = Listen => queue # <<>> /\ ~e.hup
  /\ e.src # Listen => /\ e.src \in Served
                       /\ e.hup => cl[e.src] \in {"half", "gone"}

\* The events that are left have different sources.
BatchInv ==
  /\ \A i, j \in DOMAIN batch : batch[i].src = batch[j].src => i = j
  /\ \A i \in DOMAIN batch : EventTrue(batch[i])
  /\ pc \in {"event", "read"} => batch # <<>>
  /\ pc = "read" => Head(batch).src # Listen

\* conn_sock is a connection as soon as one was accepted.
ConnInv ==
  /\ conn # None => conn \in Served
  /\ conn = None => Served = {}

\* Only a closed peer answers with a RST.
ResetInv == \A c \in Clients : rst[c] # "no" => cl[c] = "gone"

ListsInv == /\ TypeOK /\ QueueInv /\ ResetInv
            /\ Running => ReadyInv /\ BatchInv /\ ConnInv

\* The receive buffer of c holds the last chunks that c sent; those before it were
\* echoed, unless c is gone or the server is the one that does not echo.
InOrder(c, k, in, out) ==
  /\ \A i \in DOMAIN in : in[i] = [from |-> c, n |-> k - Len(in) + i]
  /\ \A i \in DOMAIN out : out[i] = [from |-> c, n |-> i]
  /\ Len(out) + Len(in) <= k

ChunksInv ==
  \A c \in Clients :
    /\ InOrder(c, sent[c], inbox[c], got[c])
    /\ app = "echo" /\ cl[c] # "gone" => Len(got[c]) + Len(inbox[c]) = sent[c]

\* An accepted client has left.
SomeoneLeft == \E c \in Served : cl[c] \in {"half", "gone"}

\* epfd is closed, and the server stops, only after an accepted client has left.
LeftInv ==
  ~epfd \/ ~Running => SomeoneLeft

\* A session is deleted at the hang-up of a client d that is not in the batch any more,
\* and no events are taken afterwards; so another client's event comes to it, if any.
SessionInv ==
  /\ session = "deleted" => ~epfd
  /\ Running /\ session = "deleted" =>
       \E d \in Served : \A i \in DOMAIN batch : batch[i].src # d
  /\ pc = "stale" => \E c, d \in Served : c # d

EpollInv == ListsInv /\ ChunksInv /\ LeftInv /\ SessionInv
-----------------------------------------------------------------------------
(* Sequences. *)

LEMMA Elements ==
  ASSUME NEW S, NEW s \in Seq(S)
  PROVE  /\ Len(s) \in Nat /\ DOMAIN s = 1..Len(s)
         /\ \A i \in DOMAIN s : s[i] \in S
         /\ \A x : x \in Range(s) <=> \E i \in DOMAIN s : s[i] = x
  BY DEF Range

LEMMA HeadTail ==
  ASSUME NEW S, NEW s \in Seq(S), s # <<>>
  PROVE  /\ 1 \in DOMAIN s /\ Head(s) = s[1] /\ s[1] \in S
         /\ Len(s) \in Nat /\ Len(s) > 0 /\ DOMAIN s = 1..Len(s)
         /\ Tail(s) \in Seq(S) /\ Len(Tail(s)) = Len(s) - 1
         /\ DOMAIN Tail(s) = 1..(Len(s) - 1)
         /\ \A i \in DOMAIN Tail(s) : i + 1 \in DOMAIN s /\ Tail(s)[i] = s[i + 1]
  OBVIOUS

LEMMA Appended ==
  ASSUME NEW S, NEW s \in Seq(S), NEW x \in S
  PROVE  /\ Append(s, x) \in Seq(S) /\ Append(s, x) # <<>>
         /\ Len(s) \in Nat /\ DOMAIN s = 1..Len(s)
         /\ Len(Append(s, x)) = Len(s) + 1 /\ DOMAIN Append(s, x) = 1..(Len(s) + 1)
         /\ Append(s, x)[Len(s) + 1] = x
         /\ \A i \in DOMAIN s : i \in DOMAIN Append(s, x) /\ Append(s, x)[i] = s[i]
         /\ \A i \in DOMAIN Append(s, x) : i \in DOMAIN s \/ Append(s, x)[i] = x
  OBVIOUS

\* What is in a sequence, before and after its first element is taken.
LEMMA TailDistinct ==
  ASSUME NEW S, NEW s \in Seq(S), s # <<>>, Distinct(s)
  PROVE  /\ Distinct(Tail(s))
         /\ \A x : x \in Range(Tail(s)) <=> x \in Range(s) /\ x # s[1]
<1>1. Distinct(Tail(s))
  BY HeadTail DEF Distinct
<1>2. ASSUME NEW x
      PROVE  x \in Range(Tail(s)) <=> x \in Range(s) /\ x # s[1]
  <2>1. ASSUME x \in Range(Tail(s))
        PROVE  x \in Range(s) /\ x # s[1]
    BY <2>1, HeadTail DEF Range, Distinct
  <2>2. ASSUME x \in Range(s), x # s[1]
        PROVE  x \in Range(Tail(s))
    <3>1. PICK i \in 1..Len(s) : s[i] = x
      BY <2>2 DEF Range
    <3>2. i - 1 \in DOMAIN Tail(s) /\ Tail(s)[i - 1] = x
      BY <2>2, <3>1, HeadTail
    <3> QED
      BY <3>2, HeadTail, Zenon DEF Range
  <2> QED
    BY <2>1, <2>2
<1> QED
  BY <1>1, <1>2

LEMMA AppendDistinct ==
  ASSUME NEW S, NEW s \in Seq(S), NEW x \in S
  PROVE  /\ Distinct(s) /\ x \notin Range(s) => Distinct(Append(s, x))
         /\ \A y : y \in Range(Append(s, x)) <=> y \in Range(s) \/ y = x
<1>1. ASSUME Distinct(s), x \notin Range(s)
      PROVE  Distinct(Append(s, x))
  BY <1>1, Appended DEF Distinct, Range
<1>2. ASSUME NEW y
      PROVE  y \in Range(Append(s, x)) <=> y \in Range(s) \/ y = x
  BY Appended DEF Range
<1> QED
  BY <1>1, <1>2
-----------------------------------------------------------------------------
(* Types. *)

LEMMA InitTypes == Init => TypeOK
  BY DEF Init, TypeOK

LEMMA WakeTypes ==
  ASSUME TypeOK
  PROVE  /\ Wake(Listen) => ready' \in Seq(Clients \cup {Listen})
         /\ \A c \in Clients : WakeConn(c) => ready' \in Seq(Clients \cup {Listen})
<1>1. ASSUME NEW x \in Clients \cup {Listen}, Wake(x)
      PROVE  ready' \in Seq(Clients \cup {Listen})
  <2>1. Append(ready, x) \in Seq(Clients \cup {Listen})
    BY DEF TypeOK
  <2> QED
    BY <1>1, <2>1 DEF TypeOK, Wake
<1> QED
  BY <1>1 DEF TypeOK, WakeConn

\* The steps of a client.
LEMMA ClientTypes ==
  ASSUME TypeOK, NEW c \in Clients, Client(c)
  PROVE  TypeOK'
<1>1. ready' \in Seq(Clients \cup {Listen})
  BY WakeTypes DEF Client, Connect, Send, Leave, Reset
<1>2. CASE Connect(c)
  BY <1>1, <1>2 DEF TypeOK, Connect
<1>3. CASE Send(c)
  <2>1. [from |-> c, n |-> sent[c] + 1] \in Chunk /\ sent[c] + 1 \in Nat
    BY DEF TypeOK, Chunk
  <2>2. /\ sent' \in [Clients -> Nat]
        /\ inbox' \in [Clients -> Seq(Chunk)]
    BY <1>3, <2>1 DEF TypeOK, Send
  <2> QED
    BY <1>1, <1>3, <2>2 DEF TypeOK, Send
<1>4. ASSUME NEW how \in {"half", "gone"}, Leave(c, how)
      PROVE  TypeOK'
  BY <1>1, <1>4 DEF TypeOK, Leave
<1>5. CASE Reset(c)
  BY <1>1, <1>5 DEF TypeOK, Reset
<1> QED
  BY <1>2, <1>3, <1>4, <1>5 DEF Client

\* The end of an event keeps the types of the rest of the batch.
LEMMA NextEventTypes ==
  ASSUME TypeOK, batch # <<>>, NextEvent
  PROVE  /\ batch' \in Seq([src : Clients \cup {Listen}, hup : BOOLEAN])
         /\ pc' \in {"wait", "event"}
  BY DEF TypeOK, NextEvent

\* What a batch is made of: some places of the ready list, in order.
LEMMA WaitFacts ==
  ASSUME TypeOK, EpollWait
  PROVE  \E n \in Nat : \E f \in [1..n -> DOMAIN ready] :
           /\ \A i, j \in 1..n : i < j => f[i] < f[j]
           /\ \A i \in 1..n : Live(ready[f[i]])
           /\ batch' = [i \in 1..n |->
                          [src |-> ready[f[i]],
                           hup |-> ready[f[i]] # Listen /\ HangUp(ready[f[i]])]]
<1> DEFINE at == {i \in DOMAIN ready : Live(ready[i])}
           n == Cardinality(at)
<1>1. n \in Nat
  <2>1. IsFiniteSet(1..Len(ready)) /\ at \subseteq 1..Len(ready)
    <3>1. Len(ready) \in Nat /\ DOMAIN ready = 1..Len(ready)
      BY DEF TypeOK
    <3> QED
      BY <3>1, FS_Interval
  <2> QED
    BY <2>1, FS_Subset, FS_CardinalityType
<1>2. PICK f \in [1..n -> at] :
        /\ \A i, j \in DOMAIN f : i < j => f[i] < f[j]
        /\ batch' = [i \in DOMAIN f |->
                       [src |-> ready[f[i]],
                        hup |-> ready[f[i]] # Listen /\ HangUp(ready[f[i]])]]
  BY Zenon DEF EpollWait
<1> HIDE DEF n
<1>3. f \in [1..n -> DOMAIN ready] /\ \A i \in 1..n : Live(ready[f[i]])
  BY <1>2
<1> QED
  BY <1>1, <1>2, <1>3, SMTT(30)

\* The event that the server is at.
LEMMA ReadFacts ==
  ASSUME TypeOK, BatchInv, ConnInv, pc = "read"
  PROVE  /\ conn \in Served /\ conn \in Clients
         /\ 1 \in DOMAIN batch /\ Head(batch) = batch[1]
         /\ batch[1].src \in Served /\ batch[1].hup \in BOOLEAN /\ EventTrue(batch[1])
<1>1. /\ 1 \in DOMAIN batch /\ Head(batch) = batch[1]
      /\ batch[1] \in [src : Clients \cup {Listen}, hup : BOOLEAN]
  BY HeadTail, Zenon DEF TypeOK, BatchInv
<1>2. batch[1].src # Listen /\ EventTrue(batch[1])
  BY <1>1 DEF BatchInv
<1>3. batch[1].src \in Served
  BY <1>1, <1>2 DEF EventTrue
<1> QED
  BY <1>1, <1>2, <1>3 DEF ConnInv, TypeOK

LEMMA ServerTypes ==
  ASSUME TypeOK, Server, BatchInv /\ ConnInv
  PROVE  TypeOK'
<1>1. pc = "read" => conn \in Clients
  BY ReadFacts
<1>2. CASE Accept
  <2>1. conn' \in Clients /\ queue' \in Seq(Clients)
    BY <1>2 DEF TypeOK, Accept
  <2>2. Append(ready, conn') \in Seq(Clients \cup {Listen})
    BY <2>1 DEF TypeOK
  <2>3. ready' \in Seq(Clients \cup {Listen})
    BY <1>2, <2>2, Zenon DEF TypeOK, Accept
  <2>4. /\ batch' \in Seq([src : Clients \cup {Listen}, hup : BOOLEAN])
        /\ pc' \in {"wait", "event", "exited"}
    BY <1>2, NextEventTypes DEF TypeOK, Accept, BatchInv
  <2>5. session' \in {"none", "live", "deleted"}
    BY <1>2 DEF TypeOK, Accept, initialize_nghttp2_session
  <2> QED
    BY <1>2, <2>1, <2>3, <2>4, <2>5, Zenon DEF TypeOK, Accept
<1>3. CASE ConnEvent
  BY <1>3 DEF TypeOK, ConnEvent, net
<1>4. CASE Echo
  BY <1>1, <1>4 DEF TypeOK, Echo
<1>5. CASE Discard
  BY <1>1, <1>5 DEF TypeOK, Discard
<1>6. CASE ReadEnd
  <2>1. epfd' \in BOOLEAN
    BY <1>6, Zenon DEF ReadEnd
  <2>2. ready' \in Seq(Clients \cup {Listen})
    BY <1>6 DEF TypeOK, ReadEnd
  <2> QED
    BY <1>6, <2>1, <2>2, NextEventTypes, SMTT(30) DEF TypeOK, ReadEnd, BatchInv
<1>7. CASE SessionEnd
  <2>1. /\ batch' \in Seq([src : Clients \cup {Listen}, hup : BOOLEAN])
        /\ pc' \in {"wait", "event", "wild", "stale"}
    BY <1>7, NextEventTypes DEF TypeOK, SessionEnd, BatchInv, delete_http2_session_data
  <2>2. /\ ready' \in {ready, <<>>} /\ session' \in {"none", "live", "deleted"}
    BY <1>7 DEF TypeOK, SessionEnd, delete_http2_session_data
  <2>3. epfd' \in BOOLEAN
    BY <1>7, Zenon DEF TypeOK, SessionEnd
  <2>4. ready' \in Seq(Clients \cup {Listen})
    <3>1. ready \in Seq(Clients \cup {Listen}) /\ <<>> \in Seq(Clients \cup {Listen})
      BY DEF TypeOK
    <3> QED
      BY <2>2, <3>1, Zenon
  <2> QED
    BY <1>7, <2>1, <2>2, <2>3, <2>4 DEF TypeOK, SessionEnd
<1>8. CASE EpollWait
  <2>1. PICK n \in Nat : \E f \in [1..n -> DOMAIN ready] :
          batch' = [i \in 1..n |->
                      [src |-> ready[f[i]],
                       hup |-> ready[f[i]] # Listen /\ HangUp(ready[f[i]])]]
    BY <1>8, WaitFacts
  <2>2. PICK f \in [1..n -> DOMAIN ready] :
          batch' = [i \in 1..n |->
                      [src |-> ready[f[i]],
                       hup |-> ready[f[i]] # Listen /\ HangUp(ready[f[i]])]]
    BY <2>1
  <2>3. \A i \in 1..n : ready[f[i]] \in Clients \cup {Listen}
    BY DEF TypeOK
  <2>4. batch' \in Seq([src : Clients \cup {Listen}, hup : BOOLEAN])
    BY <2>2, <2>3
  <2> QED
    BY <1>8, <2>4 DEF TypeOK, EpollWait
<1> QED
  BY <1>2, <1>3, <1>4, <1>5, <1>6, <1>7, <1>8 DEF Server
-----------------------------------------------------------------------------
(* The accept queue, the ready list and the batch. *)

\* No step of a client changes who is accepted, and none that has left comes back.
LEMMA ClientServed ==
  ASSUME TypeOK, QueueInv, NEW c \in Clients, Client(c)
  PROVE  /\ Served' = Served
         /\ \A d \in Clients : /\ cl[d] # "none" => cl'[d] # "none"
                               /\ cl[d] \in {"half", "gone"} => cl'[d] \in {"half", "gone"}
                               /\ cl[d] = "gone" => cl'[d] = "gone"
<1>1. CASE Connect(c)
  <2>1. /\ cl[c] = "none" /\ cl' = [cl EXCEPT ![c] = "open"]
        /\ queue' = Append(queue, c)
    BY <1>1 DEF Connect
  <2>2. \A d : d \in Range(queue') <=> d \in Range(queue) \/ d = c
    BY <2>1, AppendDistinct DEF TypeOK
  <2>3. cl'[c] = "open" /\ \A d \in Clients : d # c => cl'[d] = cl[d]
    BY <2>1 DEF TypeOK
  <2> QED
    BY <2>1, <2>2, <2>3 DEF Served, Accepted
<1>2. CASE Send(c) \/ Reset(c)
  BY <1>2 DEF Send, Reset, Served, Accepted
<1>3. ASSUME NEW how \in {"half", "gone"}, Leave(c, how)
      PROVE  /\ Served' = Served
             /\ \A d \in Clients : /\ cl[d] # "none" => cl'[d] # "none"
                                   /\ cl[d] \in {"half", "gone"} => cl'[d] \in {"half", "gone"}
                                   /\ cl[d] = "gone" => cl'[d] = "gone"
  <2>1. cl[c] = "open" /\ cl'[c] = how /\ \A d \in Clients : d # c => cl'[d] = cl[d]
    BY <1>3 DEF TypeOK, Leave
  <2> QED
    BY <1>3, <2>1 DEF Leave, Served, Accepted
<1> QED
  BY <1>1, <1>2, <1>3 DEF Client

\* An edge puts an accepted connection, or the listening socket, on the list once.
LEMMA WakeKeeps ==
  ASSUME TypeOK, ReadyInv, NEW x \in Served \cup {Listen}, Wake(x), Served' = Served
  PROVE  ReadyInv'
<1>1. CASE ready' = ready
  BY <1>1 DEF ReadyInv
<1>2. CASE ready' = Append(ready, x) /\ x \notin Range(ready)
  <2>1. x \in Clients \cup {Listen} /\ ready \in Seq(Clients \cup {Listen})
    BY DEF TypeOK, Served
  <2>2. Distinct(ready')
    BY <1>2, <2>1, AppendDistinct DEF ReadyInv
  <2>3. \A i \in DOMAIN ready' : ready'[i] # Listen => ready'[i] \in Served
    BY <1>2, <2>1, Appended DEF ReadyInv
  <2> QED
    BY <2>2, <2>3 DEF ReadyInv
<1> QED
  BY <1>1, <1>2 DEF Wake

LEMMA ClientLists ==
  ASSUME TypeOK, QueueInv, ReadyInv, BatchInv, ConnInv, NEW c \in Clients, Client(c)
  PROVE  QueueInv' /\ ReadyInv' /\ BatchInv' /\ ConnInv'
<1>1. /\ Served' = Served
      /\ \A d \in Clients : /\ cl[d] # "none" => cl'[d] # "none"
                            /\ cl[d] \in {"half", "gone"} => cl'[d] \in {"half", "gone"}
  BY ClientServed
<1>2. QueueInv'
  <2>1. CASE Connect(c)
    <3>1. /\ cl[c] = "none" /\ cl' = [cl EXCEPT ![c] = "open"]
          /\ queue' = Append(queue, c) /\ queue \in Seq(Clients)
      BY <2>1 DEF Connect, TypeOK
    <3>2. c \notin Range(queue)
      BY <3>1, Elements DEF QueueInv
    <3>3. Distinct(queue')
      BY <3>1, <3>2, AppendDistinct DEF QueueInv
    <3>4. cl'[c] = "open"
      BY <3>1 DEF TypeOK
    <3>5. \A i \in DOMAIN queue' : cl'[queue'[i]] # "none"
      BY <1>1, <3>1, <3>4, Appended, Elements DEF QueueInv
    <3> QED
      BY <3>3, <3>5 DEF QueueInv
  <2>2. CASE queue' = queue
    BY <1>1, <2>2, Elements DEF QueueInv, TypeOK
  <2> QED
    BY <2>1, <2>2 DEF Client, Send, Leave, Reset
<1>3. ReadyInv'
  <2>1. CASE Wake(Listen)
    BY <1>1, <2>1, WakeKeeps
  <2>2. CASE Accepted(c) /\ Wake(c)
    BY <1>1, <2>2, WakeKeeps DEF Served
  <2>3. CASE ready' = ready
    BY <1>1, <2>3 DEF ReadyInv
  <2> QED
    BY <2>1, <2>2, <2>3 DEF Client, Connect, Send, Leave, Reset, WakeConn
<1>4. UNCHANGED <<batch, pc, conn>>
  BY DEF Client, Connect, Send, Leave, Reset
<1>5. queue # <<>> => queue' # <<>>
  BY Appended, SMTT(30) DEF TypeOK, Client, Connect, Send, Leave, Reset
<1>6. BatchInv'
  <2>1. ASSUME NEW i \in DOMAIN batch
        PROVE  EventTrue(batch[i])'
    BY <1>1, <1>4, <1>5 DEF BatchInv, EventTrue, Served
  <2> QED
    BY <1>4, <2>1 DEF BatchInv
<1>7. ConnInv'
  BY <1>1, <1>4 DEF ConnInv
<1> QED
  BY <1>2, <1>3, <1>6, <1>7

\* The rest of the batch is still true after an event: the events for which the queue
\* may have become empty are gone.
LEMMA NextEventKeeps ==
  ASSUME TypeOK, BatchInv, batch # <<>>, NextEvent, UNCHANGED cl, Served \subseteq Served',
         queue' = queue \/ batch[1].src = Listen
  PROVE  BatchInv'
<1>1. /\ batch' = Tail(batch) /\ 1 \in DOMAIN batch /\ Len(batch) \in Nat
      /\ Len(batch') = Len(batch) - 1
      /\ \A i \in DOMAIN batch' : i \in Nat /\ i > 0 /\ i + 1 \in DOMAIN batch
                                 /\ batch'[i] = batch[i + 1]
  BY HeadTail DEF TypeOK, NextEvent
<1>2. \A i, j \in DOMAIN batch' : batch'[i].src = batch'[j].src => i = j
  BY <1>1 DEF BatchInv
<1>3. \A i \in DOMAIN batch' : batch'[i].src # batch[1].src
  BY <1>1 DEF BatchInv
<1>4. ASSUME NEW i \in DOMAIN batch'
      PROVE  EventTrue(batch[i])'
  <2>1. EventTrue(batch[i + 1]) /\ batch'[i] = batch[i + 1]
    BY <1>1 DEF BatchInv
  <2> QED
    BY <1>3, <2>1 DEF EventTrue
<1>5. pc' \in {"wait", "event"} /\ (pc' = "event" => batch' # <<>>)
  BY <1>1 DEF NextEvent
<1> QED
  BY <1>2, <1>4, <1>5 DEF BatchInv

\* Accepting the first client of the queue.
LEMMA AcceptFacts ==
  ASSUME TypeOK, QueueInv, Accept
  PROVE  /\ conn' = queue[1] /\ conn' \in Clients /\ conn' \notin Served
         /\ Served' = Served \cup {conn'} /\ QueueInv'
<1>1. /\ queue \in Seq(Clients) /\ queue # <<>> /\ queue' = Tail(queue) /\ conn' = queue[1]
      /\ conn' \in Clients /\ 1 \in DOMAIN queue /\ cl' = cl
  BY HeadTail DEF TypeOK, Accept
<1>2. /\ Distinct(queue')
      /\ \A x : x \in Range(queue') <=> x \in Range(queue) /\ x # conn'
  BY <1>1, TailDistinct DEF QueueInv
<1>3. conn' \in Range(queue) /\ cl[conn'] # "none"
  BY <1>1, Elements DEF QueueInv
<1>4. \A i \in DOMAIN queue' : cl'[queue'[i]] # "none"
  BY <1>1, HeadTail DEF QueueInv
<1> QED
  BY <1>1, <1>2, <1>3, <1>4 DEF QueueInv, Served, Accepted

LEMMA ServerLists ==
  ASSUME ListsInv, Server
  PROVE  QueueInv' /\ (Running' => ReadyInv' /\ BatchInv' /\ ConnInv')
<1> SUFFICES ASSUME TypeOK, QueueInv, ResetInv, ReadyInv, BatchInv, ConnInv
             PROVE  QueueInv' /\ (Running' => ReadyInv' /\ BatchInv' /\ ConnInv')
  BY DEF ListsInv, Running, Server, EpollWait, Accept, ConnEvent, Echo, Discard, ReadEnd,
         SessionEnd
<1>1. CASE Accept
  <2>1. /\ conn' = queue[1] /\ conn' \in Clients /\ conn' \notin Served
        /\ Served' = Served \cup {conn'} /\ QueueInv'
    BY <1>1, AcceptFacts
  <2>2. CASE epfd
    <3>1. ReadyInv'
      <4>1. conn' \in Clients \cup {Listen} /\ ready \in Seq(Clients \cup {Listen})
        BY <2>1 DEF TypeOK
      <4>2. conn' \notin Range(ready)
        BY <2>1, <4>1, Elements, EpollAssumption DEF ReadyInv
      <4>3. CASE ready' = Append(ready, conn')
        <5>1. Distinct(ready')
          BY <4>1, <4>2, <4>3, AppendDistinct DEF ReadyInv
        <5>2. \A i \in DOMAIN ready' : ready'[i] # Listen => ready'[i] \in Served'
          BY <2>1, <4>1, <4>3, Appended DEF ReadyInv
        <5> QED
          BY <5>1, <5>2 DEF ReadyInv
      <4>4. CASE ready' = ready
        BY <2>1, <4>4 DEF ReadyInv
      <4> QED
        BY <1>1, <2>2, <4>3, <4>4 DEF Accept
    <3>2. BatchInv'
      <4>1. batch # <<>> /\ NextEvent /\ UNCHANGED cl /\ batch[1].src = Listen
        BY <1>1, <2>2, HeadTail DEF Accept, BatchInv, TypeOK
      <4> QED
        BY <2>1, <4>1, NextEventKeeps
    <3>3. ConnInv'
      BY <2>1, EpollAssumption DEF ConnInv
    <3> QED
      BY <2>1, <3>1, <3>2, <3>3
  <2>3. CASE ~epfd
    BY <1>1, <2>1, <2>3 DEF Accept, Running
  <2> QED
    BY <2>2, <2>3
<1>2. ASSUME UNCHANGED <<cl, queue>>
      PROVE  QueueInv' /\ Served' = Served
  BY <1>2 DEF QueueInv, Served, Accepted
<1>3. CASE ConnEvent
  BY <1>2, <1>3 DEF ConnEvent, net, ReadyInv, BatchInv, ConnInv, EventTrue
<1>4. CASE Echo \/ Discard
  BY <1>2, <1>4 DEF Echo, Discard, ReadyInv, BatchInv, ConnInv, EventTrue, Running
<1>5. ASSUME UNCHANGED <<cl, queue, conn>>, pc = "read", ready' \in {ready, <<>>}, NextEvent
      PROVE  QueueInv' /\ ReadyInv' /\ BatchInv' /\ ConnInv'
  <2>1. QueueInv' /\ Served' = Served
    BY <1>2, <1>5
  <2>2. ReadyInv'
    BY <1>5, <2>1 DEF ReadyInv, Distinct
  <2>3. BatchInv'
    BY <1>5, <2>1, NextEventKeeps DEF BatchInv
  <2> QED
    BY <1>5, <2>1, <2>2, <2>3 DEF ConnInv
<1>6. CASE ReadEnd
  BY <1>5, <1>6 DEF ReadEnd
<1>7. CASE SessionEnd
  <2>1. /\ UNCHANGED <<cl, queue, conn>> /\ pc = "read"
        /\ (ready' \in {ready, <<>>} /\ NextEvent) \/ pc' \in {"stale", "wild"}
    BY <1>7 DEF SessionEnd, delete_http2_session_data
  <2> QED
    BY <1>2, <1>5, <2>1 DEF Running
<1>8. CASE EpollWait
  <2>1. /\ ready' = <<>> /\ UNCHANGED <<cl, queue, conn>>
        /\ pc' = IF batch' = <<>> THEN "wait" ELSE "event"
    BY <1>8 DEF EpollWait
  <2>2. PICK n \in Nat : \E f \in [1..n -> DOMAIN ready] :
           /\ \A i, j \in 1..n : i < j => f[i] < f[j]
           /\ \A i \in 1..n : Live(ready[f[i]])
           /\ batch' = [i \in 1..n |->
                          [src |-> ready[f[i]],
                           hup |-> ready[f[i]] # Listen /\ HangUp(ready[f[i]])]]
    BY <1>8, WaitFacts, Zenon
  <2>3. PICK f \in [1..n -> DOMAIN ready] :
           /\ \A i, j \in 1..n : i < j => f[i] < f[j]
           /\ \A i \in 1..n : Live(ready[f[i]])
           /\ batch' = [i \in 1..n |->
                          [src |-> ready[f[i]],
                           hup |-> ready[f[i]] # Listen /\ HangUp(ready[f[i]])]]
    BY <2>2
  <2>4. Served' = Served /\ QueueInv'
    BY <1>2, <2>1
  <2>5. /\ DOMAIN batch' = 1..n
        /\ \A i \in 1..n : /\ f[i] \in DOMAIN ready /\ f[i] \in Nat
                            /\ ready[f[i]] \in Clients \cup {Listen}
                            /\ batch'[i].src = ready[f[i]]
                            /\ batch'[i].hup = (ready[f[i]] # Listen /\ HangUp(ready[f[i]]))
    BY <2>3, Elements DEF TypeOK
  <2>6. \A i, j \in 1..n : batch'[i].src = batch'[j].src => i = j
    <3>1. \A i, j \in 1..n : batch'[i].src = batch'[j].src => f[i] = f[j]
      BY <2>5 DEF ReadyInv, Distinct
    <3> QED
      BY <2>3, <2>5, <3>1
  <2>7. ASSUME NEW i \in 1..n
        PROVE  EventTrue(batch[i])'
    <3>1. Live(ready[f[i]]) /\ ready[f[i]] \in Clients \cup {Listen}
      BY <2>3, <2>5
    <3>2. CASE ready[f[i]] = Listen
      BY <2>1, <2>5, <3>1, <3>2, Zenon DEF EventTrue, Live
    <3>3. CASE ready[f[i]] # Listen
      <4>1. ready[f[i]] \in Served'
        BY <2>4, <2>5, <3>3 DEF ReadyInv
      <4>2. HangUp(ready[f[i]]) => cl'[ready[f[i]]] \in {"half", "gone"}
        BY <2>1, <3>1, <3>3, SMTT(30) DEF HangUp, ResetInv
      <4> QED
        BY <2>5, <3>3, <4>1, <4>2, Zenon DEF EventTrue
    <3> QED
      BY <3>2, <3>3
  <2> QED
    BY <2>1, <2>4, <2>5, <2>6, <2>7, SMTT(30) DEF ReadyInv, Distinct, BatchInv, ConnInv
<1> QED
  BY <1>1, <1>3, <1>4, <1>6, <1>7, <1>8, SMTT(30) DEF Server

LEMMA ResetKeeps ==
  ASSUME TypeOK, QueueInv, ResetInv, Server \/ \E c \in Clients : Client(c),
         pc = "read" => conn \in Clients
  PROVE  ResetInv'
<1>1. ASSUME NEW c \in Clients, Client(c)
      PROVE  ResetInv'
  <2>1. \A d \in Clients : cl[d] = "gone" => cl'[d] = "gone"
    BY <1>1, ClientServed, SMTT(30)
  <2>2. \A d \in Clients : rst'[d] # "no" => rst[d] # "no"
    BY <1>1 DEF TypeOK, Client, Connect, Send, Leave, Reset
  <2> QED
    BY <2>1, <2>2 DEF ResetInv
<1>2. CASE Echo
  BY <1>2 DEF TypeOK, ResetInv, Echo
<1>3. CASE UNCHANGED <<cl, rst>>
  BY <1>3 DEF ResetInv
<1> QED
  BY <1>1, <1>2, <1>3
  DEF Server, EpollWait, Accept, ConnEvent, Discard, ReadEnd, SessionEnd, net

\* The queue, the ready list and the batch, through any step.
LEMMA ListsKeep ==
  ASSUME ListsInv, [Next]_vars
  PROVE  ListsInv'
<1>1. CASE UNCHANGED vars
  BY <1>1, ZenonT(40) DEF vars, net, ListsInv, TypeOK, QueueInv, ResetInv, Running, ReadyInv, BatchInv,
              EventTrue, ConnInv, Served, Accepted
<1>2. CASE Server
  <2>1. Running
    BY <1>2 DEF Running, Server, EpollWait, Accept, ConnEvent, Echo, Discard, ReadEnd,
                SessionEnd
  <2>2. TypeOK /\ QueueInv /\ ResetInv /\ BatchInv /\ ConnInv
    BY <2>1 DEF ListsInv
  <2>3. TypeOK' /\ ResetInv'
    BY <1>2, <2>2, ServerTypes, ReadFacts, ResetKeeps
  <2> QED
    BY <1>2, <2>3, ServerLists DEF ListsInv
<1>3. ASSUME NEW c \in Clients, Client(c)
      PROVE  ListsInv'
  <2>1. Running
    BY <1>3 DEF Client, Connect, Send, Leave, Reset
  <2>2. TypeOK /\ QueueInv /\ ResetInv /\ ReadyInv /\ BatchInv /\ ConnInv
    BY <2>1 DEF ListsInv
  <2>3. TypeOK' /\ ResetInv'
    BY <1>3, <2>2, ClientTypes, ReadFacts, ResetKeeps, SMTT(30)
  <2> QED
    BY <1>3, <2>2, <2>3, ClientLists DEF ListsInv
<1> QED
  BY <1>1, <1>2, <1>3 DEF Next
-----------------------------------------------------------------------------
(* The chunks. *)

\* A chunk is sent.
LEMMA SendChunk ==
  ASSUME NEW c \in Clients, NEW k \in Nat, NEW in \in Seq(Chunk), NEW out \in Seq(Chunk),
         InOrder(c, k, in, out)
  PROVE  LET more == Append(in, [from |-> c, n |-> k + 1])
         IN InOrder(c, k + 1, more, out) /\ Len(more) = Len(in) + 1
<1> DEFINE x == [from |-> c, n |-> k + 1]
           m == Len(in)
<1>1. x \in Chunk /\ m \in Nat /\ Len(out) \in Nat
  BY DEF Chunk
<1>2. /\ Len(Append(in, x)) = m + 1 /\ Append(in, x)[m + 1] = x /\ DOMAIN in = 1..m
      /\ DOMAIN Append(in, x) = 1..(m + 1)
      /\ \A i \in DOMAIN in : Append(in, x)[i] = in[i]
  BY <1>1, Appended
<1>3. \A i \in 1..m : (k + 1) - (m + 1) + i = k - m + i
  BY <1>1
<1>4. (k + 1) - (m + 1) + (m + 1) = k + 1
  BY <1>1
<1>5. \A i \in DOMAIN in : in[i] = [from |-> c, n |-> k - m + i]
  BY DEF InOrder
<1> HIDE DEF m
<1>6. ASSUME NEW i \in 1..(m + 1)
      PROVE  Append(in, x)[i] = [from |-> c, n |-> (k + 1) - (m + 1) + i]
  <2>1. CASE i \in 1..m
    BY <1>2, <1>3, <1>5, <2>1, SMTT(30)
  <2>2. CASE i = m + 1
    BY <1>2, <1>4, <2>2
  <2>3. i \in 1..m \/ i = m + 1
    BY <1>1
  <2> QED
    BY <2>1, <2>2, <2>3, Zenon
<1>7. Len(out) + (m + 1) <= k + 1
  BY <1>1 DEF InOrder, m
<1> QED
  BY <1>2, <1>6, <1>7 DEF InOrder, m

\* The first chunk of a buffer is taken; if all that came before it was echoed, it is
\* the next one to echo.
LEMMA TakeChunk ==
  ASSUME NEW c \in Clients, NEW k \in Nat, NEW in \in Seq(Chunk), NEW out \in Seq(Chunk),
         in # <<>>, InOrder(c, k, in, out)
  PROVE  /\ Len(Tail(in)) = Len(in) - 1 /\ Len(in) \in Nat /\ Len(out) \in Nat
         /\ InOrder(c, k, Tail(in), out)
         /\ Len(out) + Len(in) = k =>
              /\ InOrder(c, k, Tail(in), Append(out, Head(in)))
              /\ Len(Append(out, Head(in))) = Len(out) + 1
<1> DEFINE m == Len(in)
           n == Len(out)
           x == Head(in)
<1>1. /\ m \in Nat /\ m > 0 /\ n \in Nat /\ DOMAIN in = 1..m /\ Len(Tail(in)) = m - 1
      /\ DOMAIN Tail(in) = 1..(m - 1) /\ x = in[1] /\ x \in Chunk
      /\ \A i \in 1..(m - 1) : Tail(in)[i] = in[i + 1] /\ i + 1 \in 1..m
  BY HeadTail
<1>2. /\ \A i \in 1..m : in[i] = [from |-> c, n |-> k - m + i]
      /\ \A i \in DOMAIN out : out[i] = [from |-> c, n |-> i]
      /\ n + m <= k
  BY <1>1 DEF InOrder
<1> HIDE DEF m, n, x
<1>3. \A i \in 1..(m - 1) : k - m + (i + 1) = k - (m - 1) + i
  BY <1>1
<1>4. \A i \in 1..(m - 1) : Tail(in)[i] = [from |-> c, n |-> k - (m - 1) + i]
  BY <1>1, <1>2, <1>3
<1>5. n + (m - 1) <= k
  BY <1>1, <1>2
<1>6. InOrder(c, k, Tail(in), out)
  BY <1>1, <1>2, <1>4, <1>5, SMTT(30) DEF InOrder, n
<1>7. ASSUME n + m = k
      PROVE  InOrder(c, k, Tail(in), Append(out, x)) /\ Len(Append(out, x)) = n + 1
  <2>1. k - m + 1 = n + 1
    BY <1>1, <1>7
  <2>2. x = [from |-> c, n |-> n + 1]
    BY <1>1, <1>2, <2>1, SMTT(30)
  <2>3. /\ Len(Append(out, x)) = n + 1 /\ DOMAIN Append(out, x) = 1..(n + 1)
        /\ Append(out, x)[n + 1] = x /\ DOMAIN out = 1..n
        /\ \A i \in DOMAIN out : Append(out, x)[i] = out[i]
    BY <1>1, Appended DEF n
  <2>4. ASSUME NEW i \in 1..(n + 1)
        PROVE  Append(out, x)[i] = [from |-> c, n |-> i]
    <3>1. CASE i \in 1..n
      BY <1>2, <2>3, <3>1
    <3>2. CASE i = n + 1
      BY <2>2, <2>3, <3>2
    <3>3. i \in 1..n \/ i = n + 1
      BY <1>1
    <3> QED
      BY <3>1, <3>2, <3>3, Zenon
  <2>5. (n + 1) + (m - 1) <= k
    BY <1>1, <1>7
  <2> QED
    BY <1>1, <1>4, <2>3, <2>4, <2>5, SMTT(30) DEF InOrder
<1> QED
  BY <1>1, <1>6, <1>7 DEF m, n, x

LEMMA Counting ==
  ASSUME NEW a \in Nat, NEW b \in Nat
  PROVE  a + (b + 1) = (a + b) + 1 /\ (a + 1) + (b - 1) = a + b
  BY SMTT(30)

LEMMA ChunksKeep ==
  ASSUME ListsInv, ChunksInv, [Next]_vars
  PROVE  ChunksInv'
<1> DEFINE In(d) == InOrder(d, sent[d], inbox[d], got[d])
           Exact(d) == app = "echo" /\ cl[d] # "gone" => Len(got[d]) + Len(inbox[d]) = sent[d]
<1> SUFFICES ASSUME NEW d \in Clients
             PROVE  In(d)' /\ Exact(d)'
  BY Zenon DEF ChunksInv
<1>1. /\ TypeOK /\ inbox[d] \in Seq(Chunk) /\ got[d] \in Seq(Chunk) /\ sent[d] \in Nat
      /\ In(d) /\ Exact(d)
  BY DEF ListsInv, ChunksInv, TypeOK
<1>2. ASSUME sent'[d] = sent[d], inbox'[d] = inbox[d], got'[d] = got[d], app' = app,
             cl'[d] # "gone" => cl[d] # "gone"
      PROVE  In(d)' /\ Exact(d)'
  BY <1>1, <1>2, Zenon
<1>3. ASSUME NEW c \in Clients, Client(c)
      PROVE  In(d)' /\ Exact(d)'
  <2>1. app' = app /\ got' = got /\ (cl'[d] # "gone" => cl[d] # "gone")
    BY <1>1, <1>3, ClientServed, Zenon DEF ListsInv, Client, Connect, Send, Leave, Reset
  <2>2. CASE Send(c) /\ c = d
    <3>1. /\ sent'[d] = sent[d] + 1 /\ cl' = cl
          /\ inbox'[d] = Append(inbox[d], [from |-> d, n |-> sent[d] + 1])
      BY <1>1, <2>2 DEF Send, TypeOK
    <3>2. InOrder(d, sent'[d], inbox'[d], got[d]) /\ Len(inbox'[d]) = Len(inbox[d]) + 1
      BY <1>1, <3>1, SendChunk
    <3>3. Len(got[d]) \in Nat /\ Len(inbox[d]) \in Nat
      BY <1>1
    <3>4. In(d)'
      BY <2>1, <3>2
    <3>5. Len(got[d]) + Len(inbox[d]) = sent[d]
            => Len(got[d]) + (Len(inbox[d]) + 1) = sent[d] + 1
      BY <3>3, Counting, ZenonT(40)
    <3>6. Exact(d)'
      BY <1>1, <2>1, <3>1, <3>2, <3>5, Zenon
    <3> QED
      BY <3>4, <3>6, Zenon
  <2>3. CASE ~(Send(c) /\ c = d)
    <3>1. sent'[d] = sent[d] /\ inbox'[d] = inbox[d]
      BY <1>1, <1>3, <2>3, ZenonT(40) DEF TypeOK, Client, Connect, Send, Leave, Reset
    <3> QED
      BY <1>2, <2>1, <3>1, Zenon
  <2> QED
    BY <2>2, <2>3, Zenon
<1>4. CASE Echo \/ Discard
  <2>1. conn \in Clients
    BY <1>1, <1>4, ReadFacts DEF ListsInv, Running, Echo, Discard
  <2>2. app' = app /\ cl' = cl /\ sent' = sent
    BY <1>4 DEF Echo, Discard
  <2>3. CASE conn # d
    <3>1. inbox'[d] = inbox[d] /\ got'[d] = got[d]
      BY <1>1, <1>4, <2>1, <2>3 DEF Echo, Discard, TypeOK
    <3> QED
      BY <1>2, <2>2, <3>1, Zenon
  <2>4. CASE conn = d
    <3>1. inbox[d] # <<>> /\ inbox'[d] = Tail(inbox[d])
      BY <1>1, <1>4, <2>1, <2>4 DEF Echo, Discard, TypeOK
    <3>2. /\ Len(inbox'[d]) = Len(inbox[d]) - 1 /\ Len(inbox[d]) \in Nat
          /\ Len(got[d]) \in Nat /\ InOrder(d, sent[d], inbox'[d], got[d])
          /\ Len(got[d]) + Len(inbox[d]) = sent[d] =>
               /\ InOrder(d, sent[d], inbox'[d], Append(got[d], Head(inbox[d])))
               /\ Len(Append(got[d], Head(inbox[d]))) = Len(got[d]) + 1
      BY <1>1, <3>1, TakeChunk, ZenonT(40)
    <3>3. CASE got'[d] = got[d] /\ (app # "echo" \/ cl[d] = "gone")
      BY <2>2, <3>2, <3>3, Zenon
    <3>4. CASE app = "echo" /\ cl[d] # "gone" /\ got'[d] = Append(got[d], Head(inbox[d]))
      <4>1. Len(got[d]) + Len(inbox[d]) = sent[d]
        BY <1>1, <3>4, Zenon
      <4>2. (Len(got[d]) + 1) + (Len(inbox[d]) - 1) = sent[d]
        BY <3>2, <4>1, Counting, Zenon
      <4>3. In(d)'
        BY <2>2, <3>2, <3>4, <4>1
      <4>4. Exact(d)'
        BY <2>2, <3>2, <3>4, <4>1, <4>2, Zenon
      <4> QED
        BY <4>3, <4>4, Zenon
    <3> QED
      BY <1>1, <1>4, <2>1, <2>4, <3>3, <3>4, Zenon DEF Echo, Discard, TypeOK
  <2> QED
    BY <2>3, <2>4, Zenon
<1>5. CASE UNCHANGED <<app, cl, sent, inbox, got>>
  BY <1>2, <1>5, ZenonT(40)
<1> QED
  BY <1>3, <1>4, <1>5, Zenon
  DEF Next, Server, EpollWait, Accept, ConnEvent, ReadEnd, SessionEnd, vars, net
-----------------------------------------------------------------------------
(* Who has left, and the session. *)

\* What the server does with the lists, for the two invariants below.
LEMMA ServerServes ==
  ASSUME TypeOK, QueueInv, Server
  PROVE  Served \subseteq Served' /\ cl' = cl
<1>1. CASE Accept
  BY <1>1, AcceptFacts, Zenon DEF Accept
<1>2. CASE UNCHANGED <<cl, queue>>
  BY <1>2 DEF Served, Accepted
<1> QED
  BY <1>1, <1>2 DEF Server, EpollWait, ConnEvent, Echo, Discard, ReadEnd, SessionEnd, net

LEMMA LeftKeeps ==
  ASSUME ListsInv, LeftInv, [Next]_vars
  PROVE  LeftInv'
<1>1. CASE UNCHANGED vars
  BY <1>1 DEF vars, net, LeftInv, SomeoneLeft, Served, Accepted, Running
<1>2. ASSUME NEW c \in Clients, Client(c)
      PROVE  LeftInv'
  <2>1. /\ Served' = Served /\ UNCHANGED <<epfd, pc>>
        /\ \A d \in Clients : cl[d] \in {"half", "gone"} => cl'[d] \in {"half", "gone"}
    BY <1>2, ClientServed DEF ListsInv, Client, Connect, Send, Leave, Reset
  <2> QED
    BY <2>1, SMTT(30) DEF LeftInv, SomeoneLeft, Running, Served
<1>3. CASE Server
  <2>1. Running
    BY <1>3, Zenon DEF Running, Server, EpollWait, Accept, ConnEvent, Echo, Discard, ReadEnd,
                SessionEnd
  <2>2. TypeOK /\ QueueInv /\ ResetInv /\ BatchInv /\ ConnInv
    BY <2>1 DEF ListsInv
  <2>3. Served \subseteq Served' /\ cl' = cl
    BY <1>3, <2>2, ServerServes
  <2>4. CASE ~epfd
    BY <2>3, <2>4 DEF LeftInv, SomeoneLeft
  <2>5. ASSUME HangUp(conn), pc = "read"
        PROVE  SomeoneLeft'
    <3>1. conn \in Served /\ conn \in Clients
      BY <2>2, <2>5, ReadFacts
    <3>2. cl[conn] \in {"half", "gone"}
      BY <2>2, <2>5, <3>1 DEF HangUp, ResetInv
    <3> QED
      BY <2>3, <3>1, <3>2 DEF SomeoneLeft
  <2>6. CASE ReadEnd \/ SessionEnd
    BY <2>5, <2>6 DEF ReadEnd, SessionEnd, LeftInv
  <2>7. CASE Echo
    BY <2>1, <2>4, <2>5, <2>7, SMTT(30) DEF Echo, HangUp, LeftInv, Running
  <2>8. CASE Accept \/ EpollWait \/ ConnEvent \/ Discard
    BY <2>1, <2>4, <2>8, Zenon DEF Accept, NextEvent, EpollWait, ConnEvent, Discard, LeftInv, Running
  <2> QED
    BY <1>3, <2>6, <2>7, <2>8, SMTT(30) DEF Server
<1> QED
  BY <1>1, <1>2, <1>3 DEF Next

LEMMA SessionKeeps ==
  ASSUME ListsInv, SessionInv, [Next]_vars
  PROVE  SessionInv'
<1>1. CASE UNCHANGED vars
  BY <1>1, Zenon DEF vars, net, SessionInv, Served, Accepted, Running
<1>2. ASSUME NEW c \in Clients, Client(c)
      PROVE  SessionInv'
  <2>1. Served' = Served /\ UNCHANGED <<epfd, pc, session, batch>>
    BY <1>2, ClientServed DEF ListsInv, Client, Connect, Send, Leave, Reset
  <2> QED
    BY <2>1, SMTT(30) DEF SessionInv, Running
<1>3. CASE Server
  <2>1. Running
    BY <1>3, Zenon DEF Running, Server, EpollWait, Accept, ConnEvent, Echo, Discard, ReadEnd,
                SessionEnd
  <2>2. TypeOK /\ QueueInv /\ BatchInv /\ ConnInv
    BY <2>1 DEF ListsInv
  <2>3. Served \subseteq Served'
    BY <1>3, <2>2, ServerServes
  <2>4. CASE Accept
    BY <2>4 DEF Accept, NextEvent, initialize_nghttp2_session, SessionInv, Running
  <2>5. CASE EpollWait
    BY <2>5 DEF EpollWait, SessionInv, Running
  <2>6. CASE ConnEvent \/ Echo \/ Discard
    <3>1. UNCHANGED <<epfd, session, batch>> /\ pc' # "stale"
      BY <2>6 DEF ConnEvent, Echo, Discard, net
    <3> QED
      BY <2>1, <2>3, <3>1, SMTT(30) DEF SessionInv
  <2>7. ASSUME pc = "read", NextEvent
        PROVE  /\ pc' # "stale"
               /\ \A i \in DOMAIN batch' : /\ batch'[i].src # batch[1].src
                                           /\ \E j \in DOMAIN batch : batch'[i] = batch[j]
    <3>1. /\ batch' = Tail(batch) /\ 1 \in DOMAIN batch
          /\ \A i \in DOMAIN batch' : i \in Nat /\ i > 0 /\ i + 1 \in DOMAIN batch
                                     /\ batch'[i] = batch[i + 1]
      BY <2>2, <2>7, HeadTail DEF NextEvent, TypeOK, BatchInv
    <3> QED
      BY <2>2, <2>7, <3>1 DEF BatchInv, NextEvent
  <2>8. CASE ReadEnd
    <3>1. session' = session /\ pc = "read" /\ NextEvent
      BY <2>8 DEF ReadEnd
    <3>2. ~epfd => ~epfd'
      BY <2>8, Zenon DEF ReadEnd
    <3> QED
      BY <2>1, <2>3, <2>7, <3>1, <3>2 DEF SessionInv
  <2>9. CASE SessionEnd
    <3>1. batch[1].src \in Served /\ 1 \in DOMAIN batch
      BY <2>2, <2>9, ReadFacts DEF SessionEnd
    <3>2. CASE session = "deleted"
      <4>1. pc' = "stale" /\ UNCHANGED <<epfd, session>>
        BY <2>9, <3>2 DEF SessionEnd
      <4>2. PICK d \in Served : \A i \in DOMAIN batch : batch[i].src # d
        BY <2>1, <3>2 DEF SessionInv
      <4> QED
        BY <2>3, <3>1, <4>1, <4>2 DEF SessionInv, Running
    <3>3. CASE session' = "deleted" /\ epfd' = FALSE /\ NextEvent
      BY <2>3, <2>7, <2>9, <3>1, <3>3 DEF SessionEnd, SessionInv
    <3>4. CASE epfd' = FALSE /\ pc' = "wild"
      BY <3>4 DEF SessionInv, Running
    <3>5. CASE session = "live" /\ session' = session /\ NextEvent
      BY <2>7, <2>9, <3>5 DEF SessionEnd, SessionInv
    <3>6. \/ session = "deleted"
          \/ session' = "deleted" /\ epfd' = FALSE /\ (NextEvent \/ pc' = "wild")
          \/ session = "live" /\ session' = session /\ NextEvent
      BY <2>9, Zenon DEF SessionEnd, delete_http2_session_data
    <3> QED
      BY <3>2, <3>3, <3>4, <3>5, <3>6, Zenon
  <2> QED
    BY <1>3, <2>4, <2>5, <2>6, <2>8, <2>9, SMTT(30) DEF Server
<1> QED
  BY <1>1, <1>2, <1>3 DEF Next
-----------------------------------------------------------------------------
(* The theorems. *)

\* Both servers keep the inductive invariant, whatever the clients do.
THEOREM EpollInvariant == Spec => []EpollInv
<1>1. Init => EpollInv
  <2> SUFFICES ASSUME Init
               PROVE  EpollInv
    OBVIOUS
  <2>1. TypeOK
    BY InitTypes
  <2>2. Served = {} /\ QueueInv /\ ResetInv
    BY DEF Init, Served, Accepted, QueueInv, Distinct, ResetInv
  <2>3. ReadyInv /\ BatchInv /\ ConnInv
    BY <2>2 DEF Init, ReadyInv, Distinct, BatchInv, ConnInv
  <2>4. ChunksInv
    BY DEF Init, ChunksInv, InOrder
  <2>5. LeftInv /\ SessionInv
    BY DEF Init, LeftInv, SessionInv, Running
  <2> QED
    BY <2>1, <2>2, <2>3, <2>4, <2>5 DEF EpollInv, ListsInv
<1>2. EpollInv /\ [Next]_vars => EpollInv'
  BY ListsKeep, ChunksKeep, LeftKeeps, SessionKeeps DEF EpollInv
<1> QED
  BY <1>1, <1>2, PTL DEF Spec

\* What a client receives is a prefix of what it sent, for any clients and any number
\* of chunks (epoll_server.cc:123-141).
THEOREM EchoesAreInOrder == Spec => []EchoesInOrder
<1>1. EpollInv => EchoesInOrder
  <2> SUFFICES ASSUME EpollInv, NEW c \in Clients
               PROVE  /\ TypeOK
                      /\ \A i \in DOMAIN got[c] : got[c][i] = [from |-> c, n |-> i]
                      /\ Len(got[c]) <= sent[c]
    BY DEF EpollInv, ListsInv, EchoesInOrder
  <2>1. TypeOK /\ InOrder(c, sent[c], inbox[c], got[c])
    BY Zenon DEF EpollInv, ListsInv, ChunksInv
  <2>2. Len(got[c]) \in Nat /\ Len(inbox[c]) \in Nat /\ sent[c] \in Nat
    BY <2>1 DEF TypeOK
  <2>3. \A a, b, k \in Nat : a + b <= k => a <= k
    OBVIOUS
  <2>4. Len(got[c]) <= sent[c]
    BY <2>1, <2>2, <2>3, Zenon DEF InOrder
  <2> QED
    BY <2>1, <2>4 DEF InOrder
<1> QED
  BY <1>1, EpollInvariant, PTL

\* When the server comes to an event of the listening socket there is a connection to
\* accept, so the accept that blocks does not (epoll_server.cc:100-102).
THEOREM AcceptDoesNotBlock == Spec => []AcceptNeverBlocks
<1>1. EpollInv => AcceptNeverBlocks
  BY HeadTail DEF EpollInv, ListsInv, Running, TypeOK, BatchInv, EventTrue, AcceptNeverBlocks
<1> QED
  BY <1>1, EpollInvariant, PTL

\* Neither server exits, is killed or runs into undefined behaviour before a client that
\* it accepted has left (epoll_server.cc:116-118, 134, 148-153; main.cc:123-175).
THEOREM ServerOutlivesItsClients == Spec => []StopsOnlyAfterLeave
<1>1. EpollInv => StopsOnlyAfterLeave
  BY DEF EpollInv, LeftInv, SomeoneLeft, Served, StopsOnlyAfterLeave
<1> QED
  BY <1>1, EpollInvariant, PTL

\* A deleted session is used only if two accepted connections were reported together
\* (main.cc:123-175).
THEOREM OneClientKeepsSession == Spec => []StaleSessionNeedsTwo
<1>1. EpollInv => StaleSessionNeedsTwo
  <2> SUFFICES ASSUME EpollInv, pc = "stale"
               PROVE  Cardinality(Served) > 1
    BY DEF StaleSessionNeedsTwo, Served
  <2>1. PICK c \in Served, d \in Served : c # d
    BY DEF EpollInv, SessionInv
  <2>2. IsFiniteSet(Served)
    BY EpollAssumption, FS_Subset DEF Served
  <2>3. IsFiniteSet({c}) /\ Cardinality({c}) = 1
    BY FS_Singleton
  <2>4. IsFiniteSet({c} \cup {d}) /\ Cardinality({c} \cup {d}) = 2
    BY <2>1, <2>3, FS_AddElement
  <2>5. {c} \cup {d} \subseteq Served
    OBVIOUS
  <2>6. Cardinality({c} \cup {d}) <= Cardinality(Served) /\ Cardinality(Served) \in Nat
    BY <2>2, <2>5, FS_Subset, FS_CardinalityType
  <2> QED
    BY <2>4, <2>6
<1> QED
  BY <1>1, EpollInvariant, PTL

\* A sequence begins itself and what is appended to it.
LEMMA Prefixes ==
  ASSUME NEW S, NEW s \in Seq(S), NEW x \in S
  PROVE  /\ s = SubSeq(s, 1, Len(s)) /\ s = SubSeq(Append(s, x), 1, Len(s))
         /\ Len(s) <= Len(s) /\ Len(s) <= Len(Append(s, x))
  OBVIOUS

\* With any number of connections, the one accepted last is the only one that is read and
\* answered from then on (epoll_server.cc:102, 126-134).
THEOREM LatestAloneIsServed == Spec => SupersededIsLeft
<1> DEFINE Left(c) == /\ conn' # c /\ got'[c] = got[c]
                      /\ Len(inbox[c]) <= Len(inbox'[c])
                      /\ inbox[c] = SubSeq(inbox'[c], 1, Len(inbox[c]))
           Step == \A c \in Clients : Accepted(c) /\ c # conn => Left(c)
<1>1. EpollInv /\ [Next]_vars => [Step]_vars
  <2> SUFFICES ASSUME TypeOK, Next, NEW c \in Clients, Accepted(c), c # conn
               PROVE  Left(c)
    BY DEF EpollInv, ListsInv
  <2>1. /\ inbox[c] \in Seq(Chunk) /\ inbox[c] = SubSeq(inbox[c], 1, Len(inbox[c]))
        /\ Len(inbox[c]) <= Len(inbox[c])
        /\ DOMAIN inbox = Clients /\ DOMAIN got = Clients
    BY Prefixes DEF TypeOK
  <2>2. ASSUME conn' = conn, got' = got, inbox' = inbox PROVE Left(c)
    BY <2>1, <2>2
  <2>3. CASE Accept
    <3>1. queue # <<>> /\ conn' = Head(queue) /\ got' = got /\ inbox' = inbox
      BY <2>3, Zenon DEF Accept
    <3>2. Head(queue) \in Range(queue)
      BY <3>1, HeadTail DEF TypeOK, Range
    <3>3. conn' # c
      BY <3>1, <3>2 DEF Accepted
    <3> QED
      BY <2>1, <3>1, <3>3
  <2>4. CASE Echo \/ Discard
    <3>1. /\ conn' = conn
          /\ inbox' = [inbox EXCEPT ![conn] = Tail(inbox[conn])]
          /\ got' = got \/ got' = [got EXCEPT ![conn] = Append(got[conn], Head(inbox[conn]))]
      BY <2>4, Zenon DEF Echo, Discard
    <3>2. inbox'[c] = inbox[c] /\ got'[c] = got[c]
      BY <2>1, <3>1
    <3> QED
      BY <2>1, <3>1, <3>2
  <2>5. ASSUME NEW d \in Clients, Send(d) PROVE Left(c)
    <3> DEFINE x == [from |-> d, n |-> sent[d] + 1]
    <3>1. conn' = conn /\ got' = got /\ inbox' = [inbox EXCEPT ![d] = Append(inbox[d], x)]
      BY <2>5, Zenon DEF Send
    <3>2. x \in Chunk
      BY DEF TypeOK, Chunk
    <3> HIDE DEF x
    <3>3. CASE d = c
      <4>1. inbox'[c] = Append(inbox[c], x)
        BY <2>1, <3>1, <3>3
      <4>2. /\ inbox[c] = SubSeq(Append(inbox[c], x), 1, Len(inbox[c]))
            /\ Len(inbox[c]) <= Len(Append(inbox[c], x))
        BY <2>1, <3>2, Prefixes
      <4> QED
        BY <3>1, <4>1, <4>2
    <3>4. CASE d # c
      <4>1. inbox'[c] = inbox[c]
        BY <2>1, <3>1, <3>4
      <4> QED
        BY <2>1, <3>1, <4>1
    <3> QED
      BY <3>3, <3>4
  <2>6. ASSUME NEW d \in Clients, Client(d) PROVE Left(c)
    BY <2>2, <2>5, <2>6, Zenon DEF Client, Connect, Leave, Reset
  <2>7. CASE EpollWait \/ ConnEvent \/ ReadEnd \/ SessionEnd
    BY <2>2, <2>7, Zenon DEF EpollWait, ConnEvent, ReadEnd, SessionEnd, net
  <2> QED
    BY <2>3, <2>4, <2>6, <2>7, Zenon DEF Next, Server
<1>2. Spec => [][Step]_vars
  BY <1>1, EpollInvariant, PTL DEF Spec
<1> QED
  BY <1>2 DEF SupersededIsLeft
=============================================================================
