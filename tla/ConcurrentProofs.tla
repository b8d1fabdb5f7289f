-------------------------- MODULE ConcurrentProofs --------------------------
(***************************************************************************)
(* The programs in which threads or processes wait for one another: the    *)
(* handlers of the pet store for its lock, the lookups for their thread,   *)
(* the clients and the servers of the socket pairs for each other.         *)
(***************************************************************************)
EXTENDS PetStoreLock, AsyncDns, EchoPairs, TLAPS
-----------------------------------------------------------------------------
(***************************************************************************)
(* The lock of the pet store, for every number of concurrent requests and  *)
(* all handlers: LockInv is inductive, so the holders of Lock are alone,   *)
(* and every field that is written is written under Lock and used under a  *)
(* lock (LocksFitFields), so no two handlers race for it.                  *)
(***************************************************************************)

\* Each handler's first statement fits the fields it uses: who writes takes Lock, and
\* who takes no lock touches nothing (handlers.go:14-388).
LEMMA LocksFitFields ==
  ASSUME NEW o \in Handlers
  PROVE  /\ Writes(o) # {} => LockOf(o) = "Lock"
         /\ Reads(o) # {} => LockOf(o) \in {"Lock", "RLock"}
<1>1. CASE o \in PetHandlers
  BY <1>1 DEF PetHandlers, Writes, Reads, LockOf
<1>2. CASE o \in OrderHandlers
  BY <1>2 DEF OrderHandlers, Writes, Reads, LockOf
<1>3. CASE o \in UserHandlers
  BY <1>3 DEF UserHandlers, Writes, Reads, LockOf
<1>. QED
  BY <1>1, <1>2, <1>3 DEF Handlers

\* Before the first request nobody is inside or waiting.
LEMMA LockInit == Init => LockInv
<1>1. Init => TypeOK
  BY Zenon DEF Init, TypeOK, Handlers, UserHandlers
<1>. QED
  BY <1>1, LockAssumption, Zenon DEF Init, LockInv, NoLostWakeup, Inside

\* A handler that returns (deferred Unlock or RUnlock, or none) keeps LockInv: the
\* readers that Unlock wakes find no writer inside.
LEMMA ReleaseKeepsInv ==
  ASSUME LockInv, NEW r \in Reqs, UNCHANGED <<op, body>>, pc[r] = "inside", Release(r)
  PROVE  LockInv'
<1>1. CASE LockOf(op[r]) = "Lock" /\ Unlock(r)
  <2>1. TypeOK'
    BY <1>1, Zenon DEF LockInv, TypeOK, Unlock
  <2>2. \A q \in Reqs : pc'[q] = "inside" => LockOf(op[q]) # "Lock"
    BY <1>1 DEF LockInv, TypeOK, Unlock, Inside
  <2>3. \A q \in Reqs : pc'[q] # "blocked" /\ pc'[q] # "drain"
    BY <1>1 DEF LockInv, TypeOK, Unlock, Inside
  <2>. QED
    BY <1>1, <2>1, <2>2, <2>3 DEF LockInv, TypeOK, Unlock, Inside, NoLostWakeup
<1>2. CASE LockOf(op[r]) # "Lock" /\ RUnlock(r)
  BY <1>2 DEF LockInv, TypeOK, RUnlock, Inside, NoLostWakeup
<1>. QED
  BY <1>1, <1>2 DEF Release

\* Every step of every request keeps LockInv.
LEMMA LockStep == LockInv /\ [Next]_vars => LockInv'
<1>. SUFFICES ASSUME LockInv, [Next]_vars PROVE LockInv'
  OBVIOUS
<1>. USE LockAssumption
<1>1. CASE UNCHANGED vars
  BY <1>1 DEF vars, LockInv, TypeOK, NoLostWakeup, Inside
<1>2. ASSUME NEW r \in Reqs, NEW o \in Ops, Request(r, o) PROVE LockInv'
  BY <1>2 DEF Request, LockInv, TypeOK, NoLostWakeup, Inside
<1>3. ASSUME NEW r \in Reqs, SendBody(r) PROVE LockInv'
  BY <1>3 DEF SendBody, LockInv, TypeOK, NoLostWakeup, Inside
<1>4. ASSUME NEW r \in Reqs, RLock(r) PROVE LockInv'
  <2>1. ~pending => Inside("Lock") = {}
    BY DEF LockInv, TypeOK, NoLostWakeup, Inside
  <2>. QED
    BY <1>4, <2>1 DEF RLock, LockInv, TypeOK, NoLostWakeup, Inside
<1>5. ASSUME NEW r \in Reqs, Begin(r) PROVE LockInv'
  BY <1>5 DEF Begin, LockInv, TypeOK, NoLostWakeup, Inside
<1>6. ASSUME NEW r \in Reqs, Lock(r) PROVE LockInv'
  BY <1>6 DEF Lock, LockInv, TypeOK, NoLostWakeup, Inside
<1>7. ASSUME NEW r \in Reqs, Announce(r) PROVE LockInv'
  BY <1>7 DEF Announce, LockInv, TypeOK, NoLostWakeup, Inside
<1>8. ASSUME NEW r \in Reqs, Enter(r) PROVE LockInv'
  BY <1>8 DEF Enter, LockInv, TypeOK, NoLostWakeup, Inside
<1>9. ASSUME NEW r \in Reqs, Return(r) PROVE LockInv'
  BY <1>9, ReleaseKeepsInv DEF Return
<1>10. ASSUME NEW r \in Reqs, ReturnNotFound(r) PROVE LockInv'
  BY <1>10, ReleaseKeepsInv DEF ReturnNotFound
<1>. QED
  BY <1>1, <1>2, <1>3, <1>4, <1>5, <1>6, <1>7, <1>8, <1>9, <1>10 DEF Next, Client, Handler

\* The invariant of ps.mu holds in every state of the server.
THEOREM LockInvariant == Spec => []LockInv
  BY LockInit, LockStep, PTL DEF Spec

\* No handler reads or writes a map or a counter of the store while another handler may
\* be writing it, for all handlers and any number of concurrent requests (the first
\* statements of handlers.go against the fields that the handlers use).
THEOREM HandlersDoNotRace == Spec => []NoFieldRace
<1>1. LockInv => NoFieldRace
  <2>1. SUFFICES ASSUME LockInv, NEW q \in Reqs, NEW r \in Reqs, q # r,
                        pc[q] = "inside", pc[r] = "inside",
                        Writes(op[q]) # {}, Reads(op[r]) \cup Writes(op[r]) # {}
                 PROVE  FALSE
    BY DEF NoFieldRace
  <2>2. op[q] \in Handlers /\ op[r] \in Handlers
    BY <2>1 DEF LockInv, TypeOK
  <2>3. LockOf(op[q]) = "Lock" /\ LockOf(op[r]) \in {"Lock", "RLock"}
    BY <2>1, <2>2, LocksFitFields
  <2>. QED
    BY <2>1, <2>3 DEF LockInv, Inside
<1>. QED
  BY <1>1, LockInvariant, PTL

\* A blocked reader waits for a writer that is on its way in or inside, and that
\* wakes it when it returns (the deferred Unlock calls of handlers.go).
THEOREM WaitersAreWoken == Spec => []NoLostWakeup
<1>1. LockInv => NoLostWakeup
  BY Zenon DEF LockInv
<1>. QED
  BY <1>1, LockInvariant, PTL
-----------------------------------------------------------------------------
(***************************************************************************)
(* The six programs that resolve a name.                                   *)
(***************************************************************************)

\* Why the programs that wait for their lookup are safe: main leaves its wait only with
\* a notice, or a gai_error(), that the lookup thread gave after its last write, unless
\* it misses the answer; so the lookup runs beside a main that has freed the request
\* only after an answer was missed.
DnsInv ==
  /\ SafeIfJoinedAndChecked
  /\ mainAt = "start" => lookup = "none"
  /\ mainAt = "wait" /\ program = "thread" => lookup # "none"
  /\ notice # "none" => lookup \in {"ok", "failed"}
  /\ program \in {"poll", "signal", "future"} /\ lookup = "running" =>
       mainAt = "wait" \/ missed
  /\ memory = "freed" /\ lookup = "running" => missed
  /\ memory = "freed" => program \in {"signal", "thread", "future"}
  /\ mainAt \in {"start", "wait"} => memory = "valid"
  /\ memory = "valid" => wild = {}
  /\ missed => program \in {"signal", "thread"}
  /\ mainAt = "unwinding" => program = "future"

\* One step keeps the invariant.
LEMMA DnsStep == DnsInv /\ [DnsNext]_dnsVars => DnsInv'
<1> SUFFICES ASSUME DnsInv, [DnsNext]_dnsVars
             PROVE  DnsInv'
  OBVIOUS
<1> USE DEF DnsInv, SafeIfJoinedAndChecked, DnsTypeOK, Programs
<1>1. CASE LookupEnds
  <2>1. /\ lookup = "running" /\ lookup' \in {"ok", "failed"} /\ mainAt # "exited"
        /\ notice' = IF program \in {"signal", "thread", "future"} THEN "sent" ELSE "none"
        /\ UNCHANGED <<program, memory, worker, fired, missed, shown, mainAt>>
    BY <1>1 DEF LookupEnds, Alive
  <2>2. wild' \subseteq {"lookup", "callback", "run"} /\ (memory = "valid" => wild' = {})
    BY <1>1, Zenon DEF LookupEnds
  <2>3. memory = "freed" => missed /\ program \in {"signal", "thread", "future"}
    BY <2>1
  <2> QED
    BY <2>1, <2>2, <2>3
<1>2. CASE Submit
  BY <1>2 DEF Submit, LookupStarted
<1>3. CASE PollSees
  BY <1>3 DEF PollSees, Checked
<1>4. CASE SignalRead
  <2>1. missed' \in BOOLEAN
    BY <1>4, Zenon DEF SignalRead
  <2> QED
    BY <1>4, <2>1 DEF SignalRead, SignalPending, Unchecked, FreeRequest
<1>5. CASE SignalInterrupted
  BY <1>5 DEF SignalInterrupted, FreeRequest
<1>6. CASE SuspendReturns
  <2>1. missed' \in BOOLEAN /\ (missed' <=> lookup = "running")
    BY <1>6, Zenon DEF SuspendReturns
  <2>2. /\ program = "thread" /\ mainAt = "wait" /\ memory' = "freed" /\ mainAt' = "leaving"
        /\ UNCHANGED <<program, lookup, notice, worker, fired, shown, wild>>
    BY <1>6, Zenon DEF SuspendReturns, FreeRequest
  <2> QED
    BY <2>1, <2>2
<1>7. CASE DnsCallback
  <2>1. /\ program = "thread" /\ mainAt # "exited" /\ notice = "sent" /\ notice' = "taken"
        /\ shown' \in {shown, Unchecked}
        /\ UNCHANGED <<program, lookup, memory, worker, fired, missed, mainAt>>
    BY <1>7, Zenon DEF DnsCallback, Alive
  <2>2. wild' = wild \/ wild' = wild \cup {"callback"}
    BY <1>7, Zenon DEF DnsCallback
  <2>3. memory = "valid" => wild' = {}
    BY <1>7, Zenon DEF DnsCallback
  <2> QED
    BY <2>1, <2>2, <2>3 DEF Unchecked
<1>8. CASE FutureReady
  BY <1>8, Zenon DEF FutureReady, Checked
<1>9. CASE RunReturns
  <2>1. worker' \in BOOLEAN
    BY <1>9, Zenon DEF RunReturns
  <2>2. UNCHANGED <<program, lookup, notice, memory, fired, missed, shown, wild, mainAt>>
    BY <1>9, Zenon DEF RunReturns
  <2> QED
    BY <2>1, <2>2
<1>10. CASE ServiceDestroyed
  BY <1>10 DEF ServiceDestroyed
<1>11. CASE TimerFires
  <2>1. fired' \in BOOLEAN
    BY <1>11, Zenon DEF TimerFires
  <2>2. /\ program = "timer" /\ shown' \in {"nothing", Checked}
        /\ UNCHANGED <<program, lookup, notice, memory, worker, missed, wild, mainAt>>
    BY <1>11, Zenon DEF TimerFires
  <2> QED
    BY <2>1, <2>2 DEF Checked
<1>12. CASE ExitMain
  BY <1>12 DEF ExitMain
<1>13. CASE UNCHANGED dnsVars
  BY <1>13 DEF dnsVars
<1>14. QED
  BY <1>1, <1>2, <1>3, <1>4, <1>5, <1>6, <1>7, <1>8, <1>9, <1>10, <1>11, <1>12, <1>13
  DEF DnsNext, DnsMain

\* The lookup thread uses a freed request only when main missed the answer, and no
\* program without such a wait or a thread of its own uses freed memory; an
\* uninitialized addrinfo is printed only after a failed lookup by the two programs that
\* do not ask for its error; a lookup that succeeded and was not missed is shown by
\* those that wait for it (async_dns.cc:40-44, async_dns_signal.cc:86-110,
\* async_dns_thread.cc:25-28 and 76-93, dns.cc:14-29).
THEOREM LookupsAreSafe == DnsSpec => []SafeIfJoinedAndChecked
<1>1. DnsInit => DnsInv
  BY Zenon DEF DnsInit, DnsInv, SafeIfJoinedAndChecked, DnsTypeOK, Programs
<1>2. DnsInv => SafeIfJoinedAndChecked
  BY DEF DnsInv
<1>3. QED
  BY <1>1, <1>2, DnsStep, PTL DEF DnsSpec
-----------------------------------------------------------------------------
(***************************************************************************)
(* The three socket pairs, for any number of connections and any capacity  *)
(* of the buffers.  The invariant adds to NoReplyLost what a client that   *)
(* does not wait for a reply has under way, and that the server sees only  *)
(* the end of clients that are gone; those of the TLS client end together. *)
(***************************************************************************)

\* A client of the asio or the TLS server that does not wait has nothing under way.
NothingUnderWay ==
  pair # "blocking" /\ server = "up" =>
    \A c \in Conns : client[c] \in {"new", "sending", "idle"} => InFlight(c) = 0

EndsAreSeen ==
  /\ \A c \in Conns : peer[c] # "open" => client[c] = "gone"
  /\ pair = "blocking" => \A c \in Conns : client[c] \notin {"reading", "idle"}
  /\ pair = "tls" /\ (\E c \in Conns : client[c] = "gone") => \A c \in Conns : ~Open(c)

PairsInv == NoReplyLost /\ NothingUnderWay /\ EndsAreSeen

\* The client connects, sends or reads.
LEMMA ClientKeepsReplies ==
  ASSUME PairsInv, NEW c \in Conns, ClientStep(c) PROVE PairsInv'
<1> USE PairsAssumption DEF PairsInv, NoReplyLost, NothingUnderWay, EndsAreSeen
<1>1. CASE Connect(c)
  <2>1. PairsTypeOK'
    BY <1>1 DEF Connect, PairsTypeOK
  <2>2. \A d \in Conns : client'[d] = IF d = c THEN "sending" ELSE client[d]
    BY <1>1 DEF Connect, PairsTypeOK
  <2> QED
    BY <1>1, <2>1, <2>2 DEF Connect, InFlight, Served, Open
<1>2. CASE ClientSend(c)
  <2>1. PairsTypeOK'
    BY <1>2 DEF ClientSend, PairsTypeOK
  <2>2. /\ client[c] = "sending" /\ server = "up"
        /\ \A d \in Conns :
             /\ client'[d] = IF d # c THEN client[d]
                             ELSE IF pair = "blocking" THEN "sending" ELSE "reading"
             /\ inbox'[d] = IF d = c THEN inbox[d] + 1 ELSE inbox[d]
        /\ UNCHANGED <<pair, peer, outbox, handler, server, answered>>
    BY <1>2 DEF ClientSend, PairsTypeOK
  <2>3. \A d \in Conns : inbox[d] \in Nat /\ outbox[d] \in Nat
    BY DEF PairsTypeOK
  <2> QED
    BY <2>1, <2>2, <2>3 DEF InFlight, Served, Open
<1>3. CASE ClientRead(c)
  <2>1. PairsTypeOK'
    BY <1>3 DEF ClientRead, PairsTypeOK
  <2>2. /\ client[c] = "reading" /\ outbox[c] > 0
        /\ \A d \in Conns :
             /\ client'[d] = IF d # c THEN client[d]
                             ELSE IF pair = "tls" THEN "idle" ELSE "gone"
             /\ outbox'[d] = IF d = c THEN 0 ELSE outbox[d]
             /\ peer'[d] = IF d = c /\ pair # "tls" THEN "fin" ELSE peer[d]
        /\ UNCHANGED <<pair, inbox, handler, server>>
    BY <1>3 DEF ClientRead, PairsTypeOK
  <2>3. \A d \in Conns : inbox[d] \in Nat /\ outbox[d] \in Nat
    BY DEF PairsTypeOK
  <2>4. pair # "blocking"
    BY <2>2
  <2> QED
    BY <2>1, <2>2, <2>3, <2>4 DEF InFlight, Served, Open
<1> QED
  BY <1>1, <1>2, <1>3 DEF ClientStep

\* A client process ends: nothing changes for the clients of other processes.
LEMMA EndKeepsReplies ==
  ASSUME PairsInv, NEW c \in Conns, ClientEnds(c) PROVE PairsInv'
<1> USE PairsAssumption DEF PairsInv, NoReplyLost, NothingUnderWay, EndsAreSeen
<1> DEFINE own == IF pair = "tls" THEN {d \in Conns : Open(d)} ELSE {c}
<1>1. /\ Open(c) /\ c \in own
      /\ client' = [d \in Conns |-> CASE d \in own -> "gone"
                                      [] d \notin own /\ pair = "tls" -> "never"
                                      [] OTHER -> client[d]]
      /\ peer' = [d \in Conns |-> IF d \in own THEN Closed(d) ELSE peer[d]]
      /\ outbox' = [d \in Conns |-> IF d \in own THEN 0 ELSE outbox[d]]
      /\ UNCHANGED <<pair, inbox, handler, server, answered>>
  BY DEF ClientEnds
<1> HIDE DEF own
<1>2. \A d \in Conns :
        /\ client'[d] = IF d \in own THEN "gone" ELSE IF pair = "tls" THEN "never" ELSE client[d]
        /\ peer'[d] = IF d \in own THEN Closed(d) ELSE peer[d]
        /\ outbox'[d] = IF d \in own THEN 0 ELSE outbox[d]
  BY <1>1
<1>3. PairsTypeOK'
  BY <1>1 DEF PairsTypeOK, Closed
<1>4. pair = "tls" => \A d \in Conns : client[d] # "gone" /\ (Open(d) <=> d \in own)
  BY <1>1 DEF own
<1>5. pair # "tls" => own = {c} /\ client[c] # "gone"
  BY <1>1 DEF own, Open
<1> QED
  BY <1>1, <1>2, <1>3, <1>4, <1>5, SMTT(30) DEF InFlight, Served, Open

\* A handler takes a connection, reads, or writes.
LEMMA ServerKeepsReplies ==
  ASSUME PairsInv, NEW c \in Conns, ServerStep(c) PROVE PairsInv'
<1> USE PairsAssumption DEF PairsInv, NoReplyLost, NothingUnderWay, EndsAreSeen
<1>1. \A d \in Conns : inbox[d] \in Nat /\ outbox[d] \in Nat
  BY DEF PairsTypeOK
<1>2. CASE Accept(c)
  <2>1. PairsTypeOK'
    BY <1>2 DEF Accept, PairsTypeOK
  <2>2. /\ server = "up" /\ handler[c] = "none"
        /\ pair = "blocking" => \A d \in Conns : ~Served(d)
        /\ \A d \in Conns : handler'[d] = IF d = c THEN "read" ELSE handler[d]
        /\ UNCHANGED <<pair, client, peer, inbox, outbox, server, answered>>
    BY <1>2 DEF Accept, PairsTypeOK
  <2> QED
    BY <2>1, <2>2 DEF InFlight, Served, Open
<1>3. CASE Read(c)
  <2>1. PICK n \in IF pair = "tls" THEN {1} ELSE 1..inbox[c] :
             inbox' = [inbox EXCEPT ![c] = inbox[c] - n]
    BY <1>3, Zenon DEF Read
  <2>2. /\ server = "up" /\ handler[c] = "read" /\ inbox[c] > 0
        /\ \A d \in Conns : /\ handler'[d] = IF d = c THEN "write" ELSE handler[d]
                            /\ inbox'[d] = IF d = c THEN inbox[d] - n ELSE inbox[d]
        /\ UNCHANGED <<pair, client, peer, outbox, server, answered>>
    BY <1>3, <2>1 DEF Read, PairsTypeOK
  <2>3. n \in 1..inbox[c]
    BY <1>1, <2>1, <2>2
  <2>4. PairsTypeOK'
    BY <1>3, <2>1, <2>3 DEF Read, PairsTypeOK
  <2>5. pair # "blocking" /\ client[c] = "reading" => n = inbox[c] /\ inbox[c] = 1
    BY <1>1, <2>2, <2>3 DEF InFlight
  <2>6. pair # "blocking" => client[c] \notin {"new", "sending", "idle"}
    BY <1>1, <2>2 DEF InFlight
  <2>7. pair # "blocking" =>
          \A d \in Conns : client[d] \in {"new", "sending", "reading", "idle"} =>
                             InFlight(d)' = InFlight(d)
    BY <1>1, <2>2, <2>5, <2>6 DEF InFlight
  <2> QED
    BY <2>2, <2>4, <2>6, <2>7 DEF Served, Open
<1>4. CASE ReadFails(c)
  <2>1. PairsTypeOK'
    BY <1>4 DEF ReadFails, PairsTypeOK
  <2>2. /\ handler[c] = "read" /\ client[c] = "gone"
        /\ \A d \in Conns : handler'[d] = IF d # c THEN handler[d]
                                          ELSE IF pair = "tls" THEN "spin" ELSE "ended"
        /\ UNCHANGED <<pair, client, peer, inbox, outbox, server, answered>>
    BY <1>4 DEF ReadFails, PairsTypeOK
  <2> QED
    BY <2>1, <2>2 DEF InFlight, Served, Open
<1>5. CASE Write(c)
  <2>1. PairsTypeOK'
    BY <1>5 DEF Write, PairsTypeOK
  <2>2. /\ handler[c] = "write"
        /\ \A d \in Conns : /\ handler'[d] = IF d = c THEN "read" ELSE handler[d]
                            /\ outbox'[d] = IF d = c THEN outbox[d] + 1 ELSE outbox[d]
        /\ UNCHANGED <<pair, client, peer, inbox, server, answered>>
    BY <1>5 DEF Write, PairsTypeOK
  <2> QED
    BY <1>1, <2>1, <2>2 DEF InFlight, Served, Open
<1>6. CASE WriteDead(c)
  <2>0. PICK p \in IF peer[c] = "fin" THEN {"fin", "pipe"} ELSE {"pipe"} :
             peer' = [peer EXCEPT ![c] = p]
    BY <1>6, Zenon DEF WriteDead
  <2>1. PairsTypeOK'
    BY <1>6, <2>0 DEF WriteDead, PairsTypeOK
  <2>2. /\ server = "up" /\ handler[c] = "write" /\ client[c] = "gone"
        /\ \A d \in Conns : peer'[d] = IF d # c THEN peer[d] ELSE p
        /\ peer[c] # "fin" => p = "pipe"
        /\ UNCHANGED <<pair, client, inbox, outbox, answered>>
    BY <1>6, <2>0 DEF WriteDead, PairsTypeOK
  <2>3. \/ /\ server' = "killed" /\ pair = "blocking" /\ peer[c] # "fin"
           /\ \A d \in Conns : handler'[d] = "ended"
        \/ /\ server' = server
           /\ \E h \in {"read", "ended"} :
                \A d \in Conns : handler'[d] = IF d = c THEN h ELSE handler[d]
    BY <1>6 DEF WriteDead, PairsTypeOK
  <2> QED
    BY <2>1, <2>2, <2>3 DEF InFlight, Served, Open
<1> QED
  BY <1>2, <1>3, <1>4, <1>5, <1>6 DEF ServerStep

\* For any number of connections and any buffers, the asio and the TLS server lose no
\* reply that a client waits for, and the blocking server is killed only by a client that
\* is gone (asio/server.cc:17-34, tls_server.go:70-105, socket_server.cc:32-43).
THEOREM PairsLoseNoReply == PairsSpec => []NoReplyLost
<1>1. PairsInit => PairsInv
  BY PairsAssumption DEF PairsInit, PairsInv, NoReplyLost, PairsTypeOK, NothingUnderWay, EndsAreSeen,
     InFlight, Served, Open
<1>2. PairsInv /\ [PairsNext]_pairVars => PairsInv'
  <2> SUFFICES ASSUME PairsInv, [PairsNext]_pairVars PROVE PairsInv'
    OBVIOUS
  <2>1. CASE Stop
    BY <2>1 DEF Stop, PairsInv, NoReplyLost, PairsTypeOK, NothingUnderWay, EndsAreSeen, Served, Open
  <2>2. CASE UNCHANGED pairVars
    BY <2>2 DEF pairVars, PairsInv, NoReplyLost, PairsTypeOK, NothingUnderWay, EndsAreSeen, InFlight,
                Served, Open
  <2> QED
    BY <2>1, <2>2, ClientKeepsReplies, EndKeepsReplies, ServerKeepsReplies DEF PairsNext
<1>3. PairsInv => NoReplyLost
  BY DEF PairsInv
<1> QED
  BY <1>1, <1>2, <1>3, PTL DEF PairsSpec
=============================================================================
