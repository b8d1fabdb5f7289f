----------------------------- MODULE ThreadPool -----------------------------
(***************************************************************************)
(* The Rust web server of concurrency/rust/rust_web_server: the main       *)
(* thread accepts connections and sends one job per connection into an     *)
(* mpsc channel (ThreadPool::execute); the workers share the receiving     *)
(* end behind a mutex and each runs                                        *)
(*                                                                         *)
(*   loop { let job = receiver.lock().unwrap().recv().unwrap(); job(); }   *)
(*                                                                         *)
(* The guard returned by lock() is a temporary of the `let` statement: a   *)
(* worker holds the mutex while it is blocked in recv() and has released   *)
(* it when job() runs.  A job panics on every unwrap() that fails; the     *)
(* panic unwinds and ends its worker.  The receiver is dropped with the    *)
(* last worker, and execute() then panics in the main thread.              *)
(***************************************************************************)
EXTENDS Naturals, Sequences, FiniteSets

CONSTANTS Workers,   \* the worker threads (ThreadPool::new(4))
          Conns,     \* the client connections
          Lines,     \* first lines: "root" is GET /, "invalid" is not UTF-8
          Readable   \* the lines whose html file can be read

NoWorker == "NoWorker"   \* the mutex is free
NoConn   == "NoConn"     \* nothing in hand

ASSUME PoolAssumption ==
  /\ IsFiniteSet(Workers)
  /\ Workers # {}                       \* assert!(size > 0), pool.rs:19
  /\ NoWorker \notin Workers
  /\ NoConn \notin Conns
  /\ Readable \subseteq Lines \ {"invalid"}
  /\ "none" \notin Lines

VARIABLES
  st,       \* st[c]: where connection c is on its way through the server
  line,     \* line[c]: the first line client c has sent, or "none"
  open,     \* open[c]: client c has not closed its end
  backlog,  \* connections waiting in the listener
  mainPc,   \* the main thread
  held,     \* the stream the main thread is about to execute()
  queue,    \* jobs in the channel
  lock,     \* the worker that holds the receiver's mutex
  poisoned, \* the mutex is poisoned
  pc,       \* pc[w]: the statement worker w is at
  job,      \* job[w]: the connection worker w serves
  sent,     \* history: the connections sent into the channel, in order
  started   \* history: the connections taken from it, in order

clientVars == <<line, open>>
mainVars   == <<mainPc, held, backlog>>
workerVars == <<lock, poisoned, pc, job>>
vars == <<st, clientVars, mainVars, queue, workerVars, sent, started>>

Status == {"new", "backlog", "held", "queued", "running",
           "answered", "panicked", "dropped"}

TypeOK ==
  /\ st \in [Conns -> Status]
  /\ line \in [Conns -> Lines \cup {"none"}]
  /\ open \in [Conns -> BOOLEAN]
  /\ backlog \in Seq(Conns)
  /\ mainPc \in {"accept", "execute", "unwinding", "dropped", "exited"}
  /\ held \in Conns \cup {NoConn}
  /\ queue \in Seq(Conns)
  /\ lock \in Workers \cup {NoWorker}
  /\ poisoned \in BOOLEAN
  /\ pc \in [Workers -> {"lock", "recv", "run", "dead"}]
  /\ job \in [Workers -> Conns \cup {NoConn}]
  /\ sent \in Seq(Conns)
  /\ started \in Seq(Conns)

Init ==
  /\ st = [c \in Conns |-> "new"]
  /\ line = [c \in Conns |-> "none"]
  /\ open = [c \in Conns |-> TRUE]
  /\ backlog = <<>>
  /\ mainPc = "accept"
  /\ held = NoConn
  /\ queue = <<>>
  /\ lock = NoWorker
  /\ poisoned = FALSE
  /\ pc = [w \in Workers |-> "lock"]
  /\ job = [w \in Workers |-> NoConn]
  /\ sent = <<>>
  /\ started = <<>>

Running == mainPc # "exited"                       \* the process exists
Dead    == {w \in Workers : pc[w] = "dead"}
ReceiverAlive == Dead # Workers                    \* some Arc<Mutex<Receiver>> is left
SenderAlive   == mainPc \in {"accept", "execute", "unwinding"}
-----------------------------------------------------------------------------
(* The clients. *)

Connect(c) ==
  /\ Running
  /\ st[c] = "new"
  /\ st' = [st EXCEPT ![c] = "backlog"]
  /\ backlog' = Append(backlog, c)
  /\ UNCHANGED <<clientVars, mainPc, held, queue, workerVars, sent, started>>

SendLine(c, l) ==
  /\ st[c] # "new" /\ open[c] /\ line[c] = "none"
  /\ line' = [line EXCEPT ![c] = l]
  /\ UNCHANGED <<st, open, mainVars, queue, workerVars, sent, started>>

Close(c) ==
  /\ st[c] # "new" /\ open[c]
  /\ open' = [open EXCEPT ![c] = FALSE]
  /\ UNCHANGED <<st, line, mainVars, queue, workerVars, sent, started>>
-----------------------------------------------------------------------------
(* The main thread. *)

Accept ==
  /\ mainPc = "accept" /\ backlog # <<>>
  /\ held' = Head(backlog)
  /\ backlog' = Tail(backlog)
  /\ st' = [st EXCEPT ![Head(backlog)] = "held"]
  /\ mainPc' = "execute"
  /\ UNCHANGED <<clientVars, queue, workerVars, sent, started>>

\* incoming() yields an Err (for instance EMFILE) and stream.unwrap() panics.
AcceptFails ==
  /\ mainPc = "accept"
  /\ mainPc' = "unwinding"
  /\ UNCHANGED <<st, clientVars, held, backlog, queue, workerVars, sent, started>>

\* sender.send(job).unwrap(): fails, and drops the job, only without a receiver.
Execute ==
  /\ mainPc = "execute"
  /\ held' = NoConn
  /\ \/ /\ ReceiverAlive
        /\ st' = [st EXCEPT ![held] = "queued"]
        /\ queue' = Append(queue, held)
        /\ sent' = Append(sent, held)
        /\ mainPc' = "accept"
     \/ /\ ~ReceiverAlive
        /\ st' = [st EXCEPT ![held] = "dropped"]
        /\ mainPc' = "unwinding"
        /\ UNCHANGED <<queue, sent>>
  /\ UNCHANGED <<clientVars, backlog, workerVars, started>>

\* Unwinding main drops `pool`, and with it the only Sender ...
DropPool ==
  /\ mainPc = "unwinding"
  /\ mainPc' = "dropped"
  /\ UNCHANGED <<st, clientVars, held, backlog, queue, workerVars, sent, started>>

\* ... and returning from main ends the process and every connection.
Exit ==
  /\ mainPc = "dropped"
  /\ mainPc' = "exited"
  /\ backlog' = <<>>
  /\ queue' = <<>>
  /\ st' = [c \in Conns |-> IF st[c] \in {"backlog", "queued", "running"}
                            THEN "dropped" ELSE st[c]]
  /\ UNCHANGED <<clientVars, held, workerVars, sent, started>>
-----------------------------------------------------------------------------
(* The workers. *)

\* Mutant: the pool keeps an Arc of its own, so the receiver outlives the workers.
DieKeepingReceiver(w, s) ==
  /\ pc' = [pc EXCEPT ![w] = "dead"]
  /\ queue' = queue
  /\ st' = s

\* Worker w unwinds.  Its Arc is released; the last one drops the receiver
\* and with it every job still in the channel.  s is st with w's own job ended.
Die(w, s) ==
  /\ pc' = [pc EXCEPT ![w] = "dead"]
  /\ IF Dead \cup {w} = Workers
     THEN /\ queue' = <<>>
          /\ st' = [c \in Conns |-> IF s[c] = "queued" THEN "dropped" ELSE s[c]]
     ELSE /\ queue' = queue
          /\ st' = s

\* A panic in worker w: a guard that is alive is dropped by the unwinding, which
\* releases the mutex and poisons it.
Unwind(w, s) ==
  /\ poisoned' = (poisoned \/ lock = w)
  /\ lock' = IF lock = w THEN NoWorker ELSE lock
  /\ Die(w, s)

Lock(w) ==
  /\ Running /\ pc[w] = "lock" /\ lock = NoWorker
  /\ \/ /\ ~poisoned
        /\ lock' = w
        /\ pc' = [pc EXCEPT ![w] = "recv"]
        /\ UNCHANGED <<queue, st>>
     \/ /\ poisoned                        \* lock() is an Err: unwrap() panics
        /\ Die(w, st)
        /\ UNCHANGED lock
  /\ UNCHANGED <<clientVars, mainVars, poisoned, job, sent, started>>

\* Mutant: `while let Ok(job) = receiver.lock().unwrap().recv()` keeps the guard
\* alive until the body of the loop is done.
RecvKeepingGuard(w) ==
  /\ Running /\ pc[w] = "recv" /\ queue # <<>>
  /\ job' = [job EXCEPT ![w] = Head(queue)]
  /\ st' = [st EXCEPT ![Head(queue)] = "running"]
  /\ started' = Append(started, Head(queue))
  /\ queue' = Tail(queue)
  /\ pc' = [pc EXCEPT ![w] = "run"]
  /\ UNCHANGED <<clientVars, mainVars, lock, poisoned, sent>>

\* Mutant: the job is read but stays in the channel.
RecvPeeking(w) ==
  /\ Running /\ pc[w] = "recv" /\ queue # <<>>
  /\ job' = [job EXCEPT ![w] = Head(queue)]
  /\ st' = [st EXCEPT ![Head(queue)] = "running"]
  /\ started' = Append(started, Head(queue))
  /\ lock' = NoWorker
  /\ pc' = [pc EXCEPT ![w] = "run"]
  /\ UNCHANGED <<clientVars, mainVars, poisoned, sent, queue>>

\* recv() returns a job; the guard is dropped at the end of the statement.
Recv(w) ==
  /\ Running /\ pc[w] = "recv" /\ queue # <<>>
  /\ job' = [job EXCEPT ![w] = Head(queue)]
  /\ st' = [st EXCEPT ![Head(queue)] = "running"]
  /\ started' = Append(started, Head(queue))
  /\ queue' = Tail(queue)
  /\ lock' = NoWorker
  /\ pc' = [pc EXCEPT ![w] = "run"]
  /\ UNCHANGED <<clientVars, mainVars, poisoned, sent>>

\* The channel is empty and has no sender: recv().unwrap() panics in the statement
\* whose temporary is the guard.
RecvDisconnected(w) ==
  /\ Running /\ pc[w] = "recv" /\ queue = <<>> /\ ~SenderAlive
  /\ Unwind(w, st)
  /\ UNCHANGED <<clientVars, mainVars, job, sent, started>>

\* handle_connection can answer: there is a first line, its page is readable.
\* A client that closed early may or may not fail the write.
CanAnswer(c) == line[c] \in Readable

\* handle_connection can panic: no first line, not UTF-8, no page, or the
\* write fails because the client is gone.
CanPanic(c) ==
  \/ ~open[c]
  \/ line[c] \in Lines \ Readable

\* job() returns and the worker goes back to lock().
Finish(w) ==
  /\ Running /\ pc[w] = "run" /\ CanAnswer(job[w])
  /\ st' = [st EXCEPT ![job[w]] = "answered"]
  /\ job' = [job EXCEPT ![w] = NoConn]
  /\ pc' = [pc EXCEPT ![w] = "lock"]
  /\ UNCHANGED <<clientVars, mainVars, queue, lock, poisoned, sent, started>>

\* job() panics.
Panic(w) ==
  /\ Running /\ pc[w] = "run" /\ CanPanic(job[w])
  /\ Unwind(w, [st EXCEPT ![job[w]] = "panicked"])
  /\ job' = [job EXCEPT ![w] = NoConn]
  /\ UNCHANGED <<clientVars, mainVars, sent, started>>
-----------------------------------------------------------------------------
Client(c) == Connect(c) \/ Close(c) \/ \E l \in Lines : SendLine(c, l)
Main      == Accept \/ AcceptFails \/ Execute \/ DropPool \/ Exit
Worker(w) == Lock(w) \/ Recv(w) \/ RecvDisconnected(w) \/ Finish(w) \/ Panic(w)

Next ==
  \/ \E c \in Conns : Client(c)
  \/ Main
  \/ \E w \in Workers : Worker(w)

Spec == Init /\ [][Next]_vars

\* The scheduler runs every thread that can run.  std::sync::Mutex promises no
\* order among waiters: only that a free mutex goes to some worker.
ServerFairness ==
  /\ WF_vars(Accept) /\ WF_vars(Execute) /\ WF_vars(DropPool) /\ WF_vars(Exit)
  /\ WF_vars(\E w \in Workers : Lock(w))
  /\ \A w \in Workers : WF_vars(Recv(w) \/ RecvDisconnected(w) \/ Finish(w) \/ Panic(w))

\* Clients that do not stay silent for ever: each sends a line or goes away.
ClientFairness ==
  \A c \in Conns : WF_vars(Close(c) \/ \E l \in Lines : SendLine(c, l))

LiveSpec == Spec /\ ServerFairness
-----------------------------------------------------------------------------
(* Properties. *)

\* The channel is first-in first-out across all workers: while the process runs
\* with a receiver, the jobs taken followed by the jobs queued are exactly the
\* jobs sent (pool.rs:43 and pool.rs:53); what was taken is always a prefix.
ChannelFifo ==
  /\ Running /\ ReceiverAlive => started \o queue = sent
  /\ Len(started) <= Len(sent)
  /\ \A i \in 1..Len(started) : started[i] = sent[i]

\* A panicking job never poisons the receiver's mutex, so the other workers go on: the
\* guard of a worker is gone whenever its job runs (pool.rs:53-55), and what unwinds
\* with a guard alive is only a recv() without a sender.
PanicNeverPoisons == poisoned => ~SenderAlive

\* A worker that serves a connection does not hold the mutex, and a worker holds
\* it exactly while it waits in recv() (pool.rs:53): slow clients block no one.
MutexOnlyInRecv == \A w \in Workers : lock = w <=> pc[w] = "recv"

\* Every connection has one place: it is in the channel iff it is "queued", and
\* in the hands of one live worker iff it is "running" (no job is lost or run twice
\* between pool.rs:43 and pool.rs:55); no variable leaves its type.
NoJobLost ==
  /\ TypeOK
  /\ Running =>
       \A c \in Conns :
         /\ st[c] = "queued" <=> \E i \in 1..Len(queue) : queue[i] = c
         /\ st[c] = "running" <=> \E w \in Workers : pc[w] = "run" /\ job[w] = c
         /\ \A v, w \in Workers : job[v] = c /\ job[w] = c => v = w

\* Some worker takes a queued connection unless every worker is serving another
\* or has died, even when clients stay silent for ever (pool.rs:53-55).
QueuedStarts ==
  \A c \in Conns :
    st[c] = "queued" ~> \/ st[c] # "queued"
                       \/ \A w \in Workers : pc[w] \in {"run", "dead"}

\* With clients that speak or hang up, every connection is eventually answered,
\* ended by a panic, or dropped with the receiver or the process.
EveryConnectionSettles ==
  ClientFairness =>
    \A c \in Conns : st[c] # "new" ~> st[c] \in {"answered", "panicked", "dropped"}

-----------------------------------------------------------------------------
(* Refinement: the mutex, the channel and the unwinding implement JobPool. *)

OutcomeOf(s) ==
  CASE s \in {"new", "backlog", "held"} -> "new"
    [] s = "queued"   -> "pending"
    [] s = "running"  -> "active"
    [] s = "answered" -> "finished"
    [] s = "panicked" -> "failed"
    [] s = "dropped"  -> "dropped"

Outcome  == [c \in Conns |-> OutcomeOf(st[c])]
Capacity == Cardinality(Workers) - Cardinality(Dead)   \* workers left

Pool == INSTANCE JobPool WITH Jobs <- Conns, Size <- Cardinality(Workers),
          outcome <- Outcome, pending <- queue, capacity <- Capacity

\* The worker loop, the shared mutex and the panics implement the abstract pool:
\* FIFO start, bounded concurrency, one worker lost per failed job (pool.rs:37-59).
ImplementsJobPool == Pool!Spec
=============================================================================
