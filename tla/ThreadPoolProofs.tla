-------------------------- MODULE ThreadPoolProofs --------------------------
(***************************************************************************)
(* The thread pool of the Rust web server, for any set of workers, of      *)
(* connections and of first lines: its invariants, and that it implements  *)
(* JobPool.                                                                *)
(***************************************************************************)
EXTENDS ThreadPool, FiniteSetTheorems, TLAPS

\* What TypeOK lacks to be inductive: main has a stream in hand whenever it is
\* about to execute() it, and a worker has a job while it runs one.
Hands ==
  /\ mainPc = "execute" => held \in Conns
  /\ \A w \in Workers : pc[w] = "run" => job[w] \in Conns

\* The inductive invariant of the mutex and of the types.
PoolInv == TypeOK /\ Hands /\ MutexOnlyInRecv /\ PanicNeverPoisons

\* The state main sets up (pool.rs:16-35) satisfies the invariant.
LEMMA PoolInit == Init => PoolInv
<1>. SUFFICES ASSUME Init PROVE PoolInv
  OBVIOUS
<1>1. TypeOK
  <2>1. poisoned \in BOOLEAN /\ open \in [Conns -> BOOLEAN]
    BY Zenon DEF Init
  <2>2. lock \in Workers \cup {NoWorker} /\ held \in Conns \cup {NoConn}
    BY DEF Init
  <2>3. job \in [Workers -> Conns \cup {NoConn}]
    BY DEF Init
  <2>4. /\ backlog \in Seq(Conns) /\ queue \in Seq(Conns)
        /\ sent \in Seq(Conns) /\ started \in Seq(Conns)
    BY DEF Init
  <2>. QED
    BY <2>1, <2>2, <2>3, <2>4 DEF Init, TypeOK, Status
<1>2. Hands
  BY DEF Init, Hands
<1>3. MutexOnlyInRecv
  BY PoolAssumption DEF Init, MutexOnlyInRecv
<1>4. PanicNeverPoisons
  BY DEF Init, PanicNeverPoisons
<1>. QED
  BY <1>1, <1>2, <1>3, <1>4 DEF PoolInv

\* The end of worker w, from a status function s of the right type, touches no other
\* worker's program counter and keeps queue and st well typed (pool.rs:47-59).
LEMMA DieTypes ==
  ASSUME TypeOK, NEW w \in Workers, NEW s \in [Conns -> Status], Die(w, s)
  PROVE  /\ pc' = [pc EXCEPT ![w] = "dead"]
         /\ queue' \in Seq(Conns)
         /\ st' \in [Conns -> Status]
<1>1. CASE Dead \cup {w} = Workers
  BY <1>1 DEF Die, TypeOK, Status
<1>2. CASE Dead \cup {w} # Workers
  BY <1>2 DEF Die, TypeOK, Status
<1>. QED
  BY <1>1, <1>2

\* A panic poisons the mutex when the guard is alive, in recv() (pool.rs:53), and not
\* when it is gone, in the job (pool.rs:55): both follow from who holds the mutex.
LEMMA UnwindPoisons ==
  ASSUME PoolInv, NEW w \in Workers, NEW s, Unwind(w, s)
  PROVE  /\ Die(w, s)
         /\ pc[w] = "recv" => poisoned' = TRUE /\ lock' = NoWorker
         /\ pc[w] = "run" => poisoned' = poisoned /\ lock' = lock
<1>1. Die(w, s) /\ poisoned \in BOOLEAN
  BY DEF Unwind, PoolInv, TypeOK
<1>2. ASSUME pc[w] = "recv" PROVE poisoned' = TRUE /\ lock' = NoWorker
  <2>1. lock = w
    BY <1>2 DEF PoolInv, MutexOnlyInRecv
  <2>. QED
    BY <2>1, Zenon DEF Unwind
<1>3. ASSUME pc[w] = "run" PROVE poisoned' = poisoned /\ lock' = lock
  <2>1. lock # w
    BY <1>3 DEF PoolInv, MutexOnlyInRecv
  <2>. QED
    BY <1>1, <2>1, Zenon DEF Unwind
<1>. QED
  BY <1>1, <1>2, <1>3

\* Steps of clients and of the main thread leave the workers alone (main.rs:10-24).
LEMMA OutsideStep ==
  ASSUME PoolInv, (\E c \in Conns : Client(c)) \/ Main
  PROVE  PoolInv'
<1>1. ASSUME NEW c \in Conns, Connect(c) PROVE PoolInv'
  BY <1>1 DEF Connect, clientVars, workerVars, PoolInv, TypeOK, Hands, MutexOnlyInRecv,
     PanicNeverPoisons, SenderAlive, Status
<1>2. ASSUME NEW c \in Conns, Close(c) PROVE PoolInv'
  BY <1>2 DEF Close, mainVars, workerVars, PoolInv, TypeOK, Hands, MutexOnlyInRecv,
     PanicNeverPoisons, SenderAlive
<1>3. ASSUME NEW c \in Conns, NEW l \in Lines, SendLine(c, l) PROVE PoolInv'
  BY <1>3 DEF SendLine, mainVars, workerVars, PoolInv, TypeOK, Hands, MutexOnlyInRecv,
     PanicNeverPoisons, SenderAlive
<1>4. CASE Accept
  BY <1>4 DEF Accept, clientVars, workerVars, PoolInv, TypeOK, Hands, MutexOnlyInRecv,
     PanicNeverPoisons, SenderAlive, Status
<1>5. CASE AcceptFails
  BY <1>5 DEF AcceptFails, clientVars, workerVars, PoolInv, TypeOK, Hands, MutexOnlyInRecv,
     PanicNeverPoisons, SenderAlive
<1>6. CASE Execute
  <2>1. TypeOK'
    <3>1. held \in Conns
      BY <1>6 DEF Execute, PoolInv, Hands
    <3>2. CASE ReceiverAlive
      <4>1. Append(queue, held) \in Seq(Conns) /\ Append(sent, held) \in Seq(Conns)
        BY <3>1 DEF PoolInv, TypeOK
      <4>2. [st EXCEPT ![held] = "queued"] \in [Conns -> Status]
        BY Zenon DEF PoolInv, TypeOK, Status
      <4>. QED
        BY <1>6, <3>2, <4>1, <4>2, Zenon DEF Execute, clientVars, workerVars, PoolInv, TypeOK
    <3>3. CASE ~ReceiverAlive
      BY <1>6, <3>1, <3>3 DEF Execute, clientVars, workerVars, PoolInv, TypeOK, Status
    <3>. QED
      BY <3>2, <3>3
  <2>2. Hands' /\ MutexOnlyInRecv'
    BY <1>6 DEF Execute, workerVars, PoolInv, Hands, MutexOnlyInRecv
  <2>3. PanicNeverPoisons'
    BY <1>6 DEF Execute, workerVars, PoolInv, PanicNeverPoisons, SenderAlive
  <2>. QED
    BY <2>1, <2>2, <2>3 DEF PoolInv
<1>7. CASE DropPool
  BY <1>7 DEF DropPool, clientVars, workerVars, PoolInv, TypeOK, Hands, MutexOnlyInRecv,
     PanicNeverPoisons, SenderAlive
<1>8. CASE Exit
  BY <1>8 DEF Exit, clientVars, workerVars, PoolInv, TypeOK, Hands, MutexOnlyInRecv,
     PanicNeverPoisons, SenderAlive, Status
<1>. QED
  BY <1>1, <1>2, <1>3, <1>4, <1>5, <1>6, <1>7, <1>8 DEF Client, Main

\* A step of a worker keeps the invariant: the mutex moves only between lock() and the
\* end of the recv() statement (pool.rs:53).
LEMMA WorkerStep ==
  ASSUME PoolInv, NEW w \in Workers, Worker(w)
  PROVE  PoolInv'
<1>. USE PoolAssumption
<1>1. CASE Lock(w)
  <2>1. CASE ~poisoned
    <3>1. /\ lock' = w /\ pc' = [pc EXCEPT ![w] = "recv"]
          /\ UNCHANGED <<queue, st, clientVars, mainVars, poisoned, job, sent, started>>
      BY <1>1, <2>1 DEF Lock
    <3>2. TypeOK'
      BY <3>1 DEF clientVars, mainVars, PoolInv, TypeOK
    <3>3. Hands'
      BY <3>1 DEF mainVars, PoolInv, TypeOK, Hands
    <3>4. MutexOnlyInRecv'
      BY <1>1, <3>1 DEF Lock, PoolInv, TypeOK, MutexOnlyInRecv
    <3>5. PanicNeverPoisons'
      BY <3>1 DEF mainVars, PoolInv, PanicNeverPoisons, SenderAlive
    <3>. QED
      BY <3>2, <3>3, <3>4, <3>5 DEF PoolInv
  <2>2. CASE poisoned
    <3>1. Die(w, st) /\ lock' = lock /\ lock = NoWorker
      BY <1>1, <2>2 DEF Lock
    <3>2. /\ pc' = [pc EXCEPT ![w] = "dead"]
          /\ queue' \in Seq(Conns)
          /\ st' \in [Conns -> Status]
      BY <3>1, DieTypes DEF PoolInv, TypeOK
    <3>. QED
      BY <1>1, <3>1, <3>2 DEF Lock, clientVars, mainVars, PoolInv, TypeOK, Hands,
         MutexOnlyInRecv, PanicNeverPoisons, SenderAlive
  <2>. QED
    BY <2>1, <2>2
<1>2. CASE Recv(w)
  <2>1. Head(queue) \in Conns /\ Tail(queue) \in Seq(Conns)
    BY <1>2 DEF Recv, PoolInv, TypeOK
  <2>. QED
    BY <1>2, <2>1 DEF Recv, clientVars, mainVars, PoolInv, TypeOK, Hands, MutexOnlyInRecv,
       PanicNeverPoisons, SenderAlive, Status
<1>3. CASE RecvDisconnected(w)
  <2>1. /\ pc' = [pc EXCEPT ![w] = "dead"]
        /\ queue' \in Seq(Conns)
        /\ st' \in [Conns -> Status]
    BY <1>3, UnwindPoisons, DieTypes DEF RecvDisconnected, PoolInv, TypeOK
  <2>2. poisoned' = TRUE /\ lock' = NoWorker
    BY <1>3, UnwindPoisons DEF RecvDisconnected
  <2>. QED
    BY <1>3, <2>1, <2>2 DEF RecvDisconnected, clientVars, mainVars, PoolInv, TypeOK, Hands,
       MutexOnlyInRecv, PanicNeverPoisons, SenderAlive
<1>4. CASE Finish(w)
  BY <1>4 DEF Finish, clientVars, mainVars, PoolInv, TypeOK, Hands, MutexOnlyInRecv,
     PanicNeverPoisons, SenderAlive, Status
<1>5. CASE Panic(w)
  <2>1. [st EXCEPT ![job[w]] = "panicked"] \in [Conns -> Status]
    BY Zenon DEF PoolInv, TypeOK, Status
  <2>2. /\ pc' = [pc EXCEPT ![w] = "dead"]
        /\ queue' \in Seq(Conns)
        /\ st' \in [Conns -> Status]
    BY <1>5, <2>1, UnwindPoisons, DieTypes, Zenon DEF Panic, PoolInv
  <2>3. poisoned' = poisoned /\ lock' = lock
    BY <1>5, UnwindPoisons DEF Panic
  <2>. QED
    BY <1>5, <2>2, <2>3 DEF Panic, clientVars, mainVars, PoolInv, TypeOK, Hands, MutexOnlyInRecv,
       PanicNeverPoisons, SenderAlive
<1>. QED
  BY <1>1, <1>2, <1>3, <1>4, <1>5 DEF Worker

\* PoolInv is inductive.
LEMMA PoolStep == PoolInv /\ [Next]_vars => PoolInv'
<1>. SUFFICES ASSUME PoolInv, [Next]_vars PROVE PoolInv'
  OBVIOUS
<1>1. CASE UNCHANGED vars
  BY <1>1 DEF vars, clientVars, mainVars, workerVars, PoolInv, TypeOK, Hands,
     MutexOnlyInRecv, PanicNeverPoisons, SenderAlive
<1>. QED
  BY <1>1, OutsideStep, WorkerStep DEF Next

\* PoolInv holds in every reachable state, whatever the number of workers.
THEOREM PoolInvariant == Spec => []PoolInv
  BY PoolInit, PoolStep, PTL DEF Spec

\* Type correctness of the pool.
THEOREM PoolTypeCorrect == Spec => []TypeOK
<1>1. PoolInv => TypeOK
  BY DEF PoolInv
<1>. QED
  BY <1>1, PoolInvariant, PTL

\* A worker holds the receiver's mutex exactly while it waits in recv(): never while
\* it serves a connection (pool.rs:53-55).
THEOREM MutexReleasedBeforeJob == Spec => []MutexOnlyInRecv
<1>1. PoolInv => MutexOnlyInRecv
  BY DEF PoolInv
<1>. QED
  BY <1>1, PoolInvariant, PTL

\* No panicking job poisons the mutex: that takes a dropped sender (pool.rs:53-55).
THEOREM JobsDoNotPoison == Spec => []PanicNeverPoisons
<1>1. PoolInv => PanicNeverPoisons
  BY DEF PoolInv
<1>. QED
  BY <1>1, PoolInvariant, PTL
-----------------------------------------------------------------------------
(* First in, first out. *)

\* Appending to the second of two concatenated sequences.
LEMMA AppendConcat ==
  ASSUME NEW S, NEW s \in Seq(S), NEW t \in Seq(S), NEW e \in S
  PROVE  s \o Append(t, e) = Append(s \o t, e)
  OBVIOUS

\* Moving the head of the second of two sequences to the end of the first.
LEMMA MoveHead ==
  ASSUME NEW S, NEW s \in Seq(S), NEW t \in Seq(S), t # <<>>
  PROVE  Append(s, Head(t)) \o Tail(t) = s \o t
  OBVIOUS

\* The jobs taken are a prefix of the jobs sent.
Prefix == /\ Len(started) <= Len(sent)
          /\ \A i \in 1..Len(started) : started[i] = sent[i]

\* A worker that ends leaves the channel as it is, or takes the receiver with it
\* (pool.rs:47-59).
LEMMA DieKeepsFifo ==
  ASSUME PoolInv, ChannelFifo, NEW w \in Workers, pc[w] # "dead",
         NEW s, Die(w, s), UNCHANGED <<mainPc, sent, started>>
  PROVE  ChannelFifo'
<1>1. Dead' = Dead \cup {w}
  BY DEF Die, Dead, PoolInv, TypeOK
<1>2. w \notin Dead /\ Dead # Workers
  BY DEF Dead
<1>3. CASE Dead \cup {w} = Workers
  BY <1>1, <1>3 DEF ChannelFifo, ReceiverAlive
<1>4. CASE Dead \cup {w} # Workers
  BY <1>2, <1>4 DEF Die, ChannelFifo, ReceiverAlive, Running
<1>. QED
  BY <1>3, <1>4

\* Every step keeps the channel in order: send appends at one end, recv takes from the
\* other, and only with the mutex (pool.rs:43, pool.rs:53).
LEMMA FifoStep == PoolInv /\ PoolInv' /\ ChannelFifo /\ [Next]_vars => ChannelFifo'
<1>. SUFFICES ASSUME PoolInv, PoolInv', ChannelFifo, [Next]_vars PROVE ChannelFifo'
  OBVIOUS
<1>1. CASE UNCHANGED <<mainPc, pc, queue, sent, started>>
  BY <1>1 DEF ChannelFifo, Running, ReceiverAlive, Dead
<1>2. CASE Accept \/ AcceptFails \/ DropPool
  BY <1>2, Zenon DEF Accept, AcceptFails, DropPool, ChannelFifo, Running, ReceiverAlive, Dead,
     workerVars
<1>3. CASE Execute
  <2>1. held \in Conns /\ Running
    BY <1>3 DEF Execute, PoolInv, Hands, Running
  <2>2. CASE ReceiverAlive
    <3>1. /\ queue' = Append(queue, held) /\ sent' = Append(sent, held)
          /\ started' = started
      BY <1>3, <2>2 DEF Execute
    <3>2. started' \o queue' = sent'
      <4>1. started \in Seq(Conns) /\ queue \in Seq(Conns)
        BY DEF PoolInv, TypeOK
      <4>2. started \o Append(queue, held) = Append(started \o queue, held)
        BY <2>1, <4>1, AppendConcat
      <4>3. started \o queue = sent
        BY <2>1, <2>2 DEF ChannelFifo
      <4>. QED
        BY <3>1, <4>2, <4>3
    <3>3. Prefix'
      BY <3>1, <2>1 DEF ChannelFifo, Prefix, PoolInv, TypeOK
    <3>. QED
      BY <3>2, <3>3 DEF ChannelFifo, Prefix
  <2>3. CASE ~ReceiverAlive
    BY <1>3, <2>3 DEF Execute, ChannelFifo, ReceiverAlive, Dead, workerVars
  <2>. QED
    BY <2>2, <2>3
<1>4. CASE Exit
  BY <1>4 DEF Exit, ChannelFifo, Running
<1>5. ASSUME NEW w \in Workers, Lock(w) PROVE ChannelFifo'
  <2>1. CASE ~poisoned
    <3>1. Dead' = Dead
      BY <1>5, <2>1 DEF Lock, Dead, PoolInv, TypeOK
    <3>. QED
      BY <1>5, <2>1, <3>1 DEF Lock, mainVars, ChannelFifo, Running, ReceiverAlive
  <2>2. CASE poisoned
    BY <1>5, <2>2, DieKeepsFifo DEF Lock, mainVars
  <2>. QED
    BY <2>1, <2>2
<1>6. ASSUME NEW w \in Workers, Recv(w) PROVE ChannelFifo'
  <2>1. ReceiverAlive /\ Running
    BY <1>6 DEF Recv, ReceiverAlive, Dead
  <2>2. started' \o queue' = sent'
    <3>1. started \in Seq(Conns) /\ queue \in Seq(Conns) /\ queue # <<>>
      BY <1>6 DEF Recv, PoolInv, TypeOK
    <3>2. Append(started, Head(queue)) \o Tail(queue) = started \o queue
      BY <3>1, MoveHead
    <3>3. started \o queue = sent
      BY <2>1 DEF ChannelFifo
    <3>. QED
      BY <1>6, <3>2, <3>3 DEF Recv
  <2>3. Prefix'
    <3>1. TypeOK'
      BY DEF PoolInv
    <3>. QED
      BY <2>2, <3>1 DEF TypeOK, Prefix
  <2>. QED
    BY <2>2, <2>3 DEF ChannelFifo, Prefix
<1>7. ASSUME NEW w \in Workers, RecvDisconnected(w) PROVE ChannelFifo'
  BY <1>7, DieKeepsFifo DEF RecvDisconnected, Unwind, mainVars
<1>8. ASSUME NEW w \in Workers, Finish(w) PROVE ChannelFifo'
  <2>1. Dead' = Dead
    BY <1>8 DEF Finish, Dead, PoolInv, TypeOK
  <2>. QED
    BY <1>8, <2>1 DEF Finish, mainVars, ChannelFifo, Running, ReceiverAlive
<1>9. ASSUME NEW w \in Workers, Panic(w) PROVE ChannelFifo'
  BY <1>9, DieKeepsFifo DEF Panic, Unwind, mainVars
<1>10. ASSUME NEW c \in Conns, Client(c) PROVE ChannelFifo'
  BY <1>1, <1>10 DEF Client, Connect, Close, SendLine, mainVars, workerVars
<1>11. CASE UNCHANGED vars
  BY <1>1, <1>11 DEF vars, mainVars, workerVars
<1>. QED
  BY <1>2, <1>3, <1>4, <1>5, <1>6, <1>7, <1>8, <1>9, <1>10, <1>11 DEF Next, Main, Worker

\* Jobs are taken in the order in which they were sent, whichever workers take them,
\* for any number of workers and connections (pool.rs:43, pool.rs:53).
THEOREM JobsTakenInOrder == Spec => []ChannelFifo
<1>1. Init => ChannelFifo
  BY DEF Init, ChannelFifo
<1>. QED
  BY <1>1, PoolInvariant, FifoStep, PTL DEF Spec
-----------------------------------------------------------------------------
(* Every connection has one place. *)

In(s, c) == \E i \in 1..Len(s) : s[i] = c
Once(s)  == \A i, j \in 1..Len(s) : s[i] = s[j] => i = j

\* A connection is in a sequence, once, exactly while it has the status x.
Holds(s, f, x) == Once(s) /\ \A c \in Conns : f[c] = x <=> In(s, c)

\* What is sent into a channel that does not hold it is in it once.
LEMMA AppendOnce ==
  ASSUME NEW s \in Seq(Conns), NEW e \in Conns, Once(s), ~In(s, e)
  PROVE  Once(Append(s, e)) /\ \A c \in Conns : In(Append(s, e), c) <=> In(s, c) \/ c = e
<1> DEFINE t == Append(s, e)
<1>1. /\ Len(t) = Len(s) + 1 /\ t[Len(s) + 1] = e /\ Len(s) \in Nat
      /\ \A i \in 1..Len(s) : t[i] = s[i]
  OBVIOUS
<1>2. \A i \in 1..Len(t) : i \in 1..Len(s) \/ i = Len(s) + 1
  BY <1>1
<1>3. 1..Len(s) \subseteq 1..Len(t) /\ Len(s) + 1 \in 1..Len(t)
  BY <1>1
<1> HIDE DEF t
<1>4. Once(t)
  BY <1>1, <1>2 DEF Once, In
<1>5. \A c \in Conns : In(t, c) <=> In(s, c) \/ c = e
  BY <1>1, <1>2, <1>3 DEF In
<1> QED
  BY <1>4, <1>5 DEF t

\* What is taken from the front is no longer in it.
LEMMA TailOnce ==
  ASSUME NEW s \in Seq(Conns), s # <<>>, Once(s)
  PROVE  /\ Once(Tail(s)) /\ In(s, Head(s))
         /\ \A c \in Conns : In(Tail(s), c) <=> In(s, c) /\ c # Head(s)
<1> DEFINE t == Tail(s)
<1>1. /\ Len(s) \in Nat \ {0} /\ Len(t) = Len(s) - 1 /\ Head(s) = s[1]
      /\ \A i \in 1..Len(t) : t[i] = s[i + 1]
  OBVIOUS
<1>2. \A i \in 1..Len(t) : i + 1 \in 1..Len(s) /\ i + 1 # 1
  BY <1>1
<1>3. \A i \in 1..Len(s) : i = 1 \/ (i - 1 \in 1..Len(t) /\ (i - 1) + 1 = i)
  BY <1>1
<1>4. 1 \in 1..Len(s) /\ \A i, j \in 1..Len(t) : i + 1 = j + 1 => i = j
  BY <1>1
<1> HIDE DEF t
<1>5. Once(t)
  BY <1>1, <1>2, <1>4 DEF Once
<1>6. In(s, Head(s))
  BY <1>1, <1>4 DEF In
<1>7. ASSUME NEW c \in Conns PROVE In(t, c) <=> In(s, c) /\ c # Head(s)
  <2>1. In(t, c) => In(s, c) /\ c # Head(s)
    BY <1>1, <1>2, <1>4 DEF In, Once
  <2>2. ASSUME In(s, c), c # Head(s) PROVE In(t, c)
    <3>1. PICK i \in 1..Len(s) : s[i] = c
      BY <2>2 DEF In
    <3>2. i - 1 \in 1..Len(t) /\ (i - 1) + 1 = i
      BY <1>1, <1>3, <2>2, <3>1
    <3>3. t[i - 1] = c
      BY <1>1, <3>1, <3>2
    <3> QED
      BY <3>2, <3>3 DEF In
  <2> QED
    BY <2>1, <2>2
<1> QED
  BY <1>5, <1>6, <1>7 DEF t

\* Where the connections are while the process runs: in the listener, in main's hand,
\* in the channel, or in the hands of one worker.
Jobs ==
  /\ \A c \in Conns : st[c] = "running" <=> \E w \in Workers : pc[w] = "run" /\ job[w] = c
  /\ \A w \in Workers : job[w] \in Conns => pc[w] = "run"
  /\ \A v, w \in Workers : job[v] \in Conns /\ job[v] = job[w] => v = w

Places ==
  Running => /\ Holds(backlog, st, "backlog")
             /\ Holds(queue, st, "queued")
             /\ mainPc = "execute" => st[held] = "held"
             /\ Jobs

\* A worker that ends takes only queued jobs with it, and all of them or none
\* (pool.rs:47-59).
LEMMA DieDrops ==
  ASSUME PoolInv, NEW w \in Workers, NEW s \in [Conns -> Status], Die(w, s),
         Holds(queue, s, "queued")
  PROVE  /\ Holds(queue', st', "queued")
         /\ \A c \in Conns : st'[c] = s[c] \/ (s[c] = "queued" /\ st'[c] = "dropped")
<1>1. CASE Dead \cup {w} = Workers
  <2>1. queue' = <<>> /\ st' = [c \in Conns |-> IF s[c] = "queued" THEN "dropped" ELSE s[c]]
    BY <1>1 DEF Die
  <2>2. Once(<<>>) /\ \A c \in Conns : ~In(<<>>, c)
    BY DEF Once, In
  <2> QED
    BY <2>1, <2>2 DEF Holds
<1>2. CASE Dead \cup {w} # Workers
  BY <1>2 DEF Die
<1> QED
  BY <1>1, <1>2

\* A connection that is neither in the listener nor in the channel, before and after.
LEMMA MoveOne ==
  ASSUME NEW s, NEW f \in [Conns -> Status], NEW c \in Conns, NEW x, NEW y \in Status,
         Holds(s, f, x), f[c] # x, y # x
  PROVE  Holds(s, [f EXCEPT ![c] = y], x)
  BY DEF Holds

\* Connect and send: the connection goes to the end of the sequence of its new status.
LEMMA MoveIn ==
  ASSUME NEW s \in Seq(Conns), NEW f \in [Conns -> Status], NEW c \in Conns,
         NEW x \in Status, Holds(s, f, x), f[c] # x
  PROVE  Holds(Append(s, c), [f EXCEPT ![c] = x], x)
<1>1. Once(s) /\ ~In(s, c)
  BY DEF Holds
<1> QED
  BY <1>1, AppendOnce DEF Holds

\* Accept and recv: the connection at the front leaves the sequence of its old status.
LEMMA MoveOut ==
  ASSUME NEW s \in Seq(Conns), NEW f \in [Conns -> Status], NEW x, NEW y \in Status,
         Holds(s, f, x), s # <<>>, y # x
  PROVE  /\ Head(s) \in Conns /\ f[Head(s)] = x
         /\ Holds(Tail(s), [f EXCEPT ![Head(s)] = y], x)
<1>1. Head(s) \in Conns
  OBVIOUS
<1>2. Once(s)
  BY DEF Holds
<1>3. /\ Once(Tail(s)) /\ In(s, Head(s))
      /\ \A c \in Conns : In(Tail(s), c) <=> In(s, c) /\ c # Head(s)
  BY <1>2, TailOnce
<1> QED
  BY <1>1, <1>3 DEF Holds

\* Clients and the main thread move a connection from the listener to the channel
\* (main.rs:10-24, pool.rs:37-44).
LEMMA OutsidePlaces ==
  ASSUME PoolInv, Places, (\E c \in Conns : Client(c)) \/ Main
  PROVE  Places'
<1>1. TypeOK
  BY DEF PoolInv
<1>2. ASSUME NEW c \in Conns, Connect(c) PROVE Places'
  <2>1. /\ Running /\ st[c] = "new" /\ st' = [st EXCEPT ![c] = "backlog"]
        /\ backlog' = Append(backlog, c) /\ UNCHANGED <<mainPc, held, queue, pc, job>>
    BY <1>2, SMTT(30) DEF Connect, workerVars
  <2>2. Holds(backlog', st', "backlog")
    BY <1>1, <2>1, MoveIn, Zenon DEF Places, TypeOK, Status
  <2>3. Holds(queue', st', "queued")
    BY <1>1, <2>1, MoveOne, Zenon DEF Places, TypeOK, Status
  <2>4. Jobs'
    BY <1>1, <2>1 DEF Places, Jobs, TypeOK
  <2>5. mainPc' = "execute" => st'[held'] = "held"
    BY <1>1, <2>1 DEF Places, PoolInv, Hands, TypeOK
  <2> QED
    BY <2>2, <2>3, <2>4, <2>5 DEF Places
<1>3. CASE UNCHANGED <<st, backlog, mainPc, held, queue, pc, job>>
  BY <1>3 DEF Places, Running, Holds, Jobs
<1>4. CASE Accept
  <2>1. /\ Running /\ backlog # <<>> /\ held' = Head(backlog) /\ backlog' = Tail(backlog)
        /\ st' = [st EXCEPT ![Head(backlog)] = "held"] /\ UNCHANGED <<queue, pc, job>>
    BY <1>4 DEF Accept, Running, workerVars
  <2>2. /\ Head(backlog) \in Conns /\ st[Head(backlog)] = "backlog"
        /\ Holds(backlog', st', "backlog")
    BY <1>1, <2>1, MoveOut, ZenonT(40) DEF Places, TypeOK, Status
  <2>3. Holds(queue', st', "queued")
    BY <1>1, <2>1, <2>2, MoveOne, Zenon DEF Places, TypeOK, Status
  <2>4. Jobs' /\ st'[held'] = "held"
    BY <1>1, <2>1, <2>2 DEF Places, Jobs, TypeOK
  <2> QED
    BY <2>2, <2>3, <2>4 DEF Places
<1>5. CASE AcceptFails \/ DropPool
  BY <1>5 DEF AcceptFails, DropPool, workerVars, Places, Running, Holds, Jobs
<1>6. CASE Execute
  <2>1. held \in Conns /\ Running /\ st[held] = "held" /\ mainPc' # "execute"
    BY <1>6 DEF Execute, PoolInv, Hands, Places, Running
  <2>2. UNCHANGED <<backlog, pc, job>>
    BY <1>6 DEF Execute, workerVars
  <2>3. st' = [st EXCEPT ![held] = "queued"] \/ st' = [st EXCEPT ![held] = "dropped"]
    BY <1>6 DEF Execute
  <2>4. /\ Holds(backlog, st, "backlog") /\ Holds(queue, st, "queued")
        /\ st \in [Conns -> Status] /\ queue \in Seq(Conns)
        /\ "queued" \in Status /\ "dropped" \in Status
    BY <1>1, <2>1 DEF Places, TypeOK, Status
  <2>5. Holds(backlog', st', "backlog") /\ Holds(queue', st', "queued")
    <3>1. CASE ReceiverAlive
      <4>1. queue' = Append(queue, held) /\ st' = [st EXCEPT ![held] = "queued"]
        BY <1>6, <3>1 DEF Execute
      <4>2. Holds(Append(queue, held), [st EXCEPT ![held] = "queued"], "queued")
        BY <2>1, <2>4, MoveIn, Zenon
      <4>3. Holds(backlog, [st EXCEPT ![held] = "queued"], "backlog")
        BY <2>1, <2>4, MoveOne, Zenon
      <4> QED
        BY <2>2, <4>1, <4>2, <4>3
    <3>2. CASE ~ReceiverAlive
      <4>1. queue' = queue /\ st' = [st EXCEPT ![held] = "dropped"]
        BY <1>6, <3>2 DEF Execute
      <4>2. Holds(queue, [st EXCEPT ![held] = "dropped"], "queued")
        BY <2>1, <2>4, MoveOne, Zenon
      <4>3. Holds(backlog, [st EXCEPT ![held] = "dropped"], "backlog")
        BY <2>1, <2>4, MoveOne, Zenon
      <4> QED
        BY <2>2, <4>1, <4>2, <4>3
    <3> QED
      BY <3>1, <3>2
  <2>6. Jobs'
    BY <1>1, <2>1, <2>2, <2>3 DEF Places, Jobs, TypeOK
  <2> QED
    BY <2>1, <2>5, <2>6 DEF Places
<1>7. CASE Exit
  BY <1>7 DEF Exit, Places, Running
<1> QED
  BY <1>2, <1>3, <1>4, <1>5, <1>6, <1>7
     DEF Client, Main, Close, SendLine, mainVars, workerVars

\* st with the job of worker w ended.
Ended(w, y) == [st EXCEPT ![job[w]] = y]

\* The job of worker w has ended: the connection leaves the hands of w and goes nowhere
\* else (pool.rs:55).
LEMMA JobEnds ==
  ASSUME PoolInv, Places, Running, NEW w \in Workers, pc[w] = "run",
         NEW y \in {"answered", "panicked"}
  PROVE  /\ job[w] \in Conns /\ Ended(w, y) \in [Conns -> Status]
         /\ Holds(backlog, Ended(w, y), "backlog") /\ Holds(queue, Ended(w, y), "queued")
         /\ mainPc = "execute" => Ended(w, y)[held] = "held"
         /\ \A c \in Conns : Ended(w, y)[c] = "running" <=>
              \E v \in Workers \ {w} : pc[v] = "run" /\ job[v] = c
<1> DEFINE s == Ended(w, y)
<1>1. /\ job[w] \in Conns /\ st \in [Conns -> Status]
      /\ y \in Status /\ y \notin {"backlog", "queued", "running"}
  BY DEF PoolInv, Hands, TypeOK, Status
<1>2. st[job[w]] = "running"
  BY <1>1 DEF Places, Jobs
<1>3. Holds(backlog, st, "backlog") /\ Holds(queue, st, "queued") /\ Jobs
  BY DEF Places
<1> USE DEF Ended
<1>4. Holds(backlog, s, "backlog")
  BY <1>1, <1>2, <1>3, MoveOne, Zenon
<1>5. Holds(queue, s, "queued")
  BY <1>1, <1>2, <1>3, MoveOne, Zenon
<1>6. mainPc = "execute" => s[held] = "held"
  BY <1>1, <1>2 DEF Places, PoolInv, Hands
<1>7. ASSUME NEW c \in Conns
      PROVE  s[c] = "running" <=> \E v \in Workers \ {w} : pc[v] = "run" /\ job[v] = c
  <2>1. CASE c = job[w]
    <3>1. s[c] # "running"
      BY <1>1, <2>1
    <3>2. \A v \in Workers \ {w} : job[v] # c
      BY <1>1, <1>3, <2>1 DEF Jobs
    <3> QED
      BY <3>1, <3>2
  <2>2. CASE c # job[w]
    <3>1. s[c] = st[c]
      BY <1>1, <2>2
    <3> QED
      BY <1>3, <2>2, <3>1 DEF Jobs
  <2> QED
    BY <2>1, <2>2
<1>8. s \in [Conns -> Status]
  BY <1>1
<1> QED
  BY <1>1, <1>4, <1>5, <1>6, <1>7, <1>8

\* A worker without a job changes its statement, or dies, and moves no job.
LEMMA IdlePlaces ==
  ASSUME PoolInv, Places, Running, NEW w \in Workers, pc[w] # "run",
         NEW x \in {"recv", "dead"}, pc' = [pc EXCEPT ![w] = x], UNCHANGED <<job, mainVars>>,
         (queue' = queue /\ st' = st) \/ Die(w, st)
  PROVE  Places'
<1>1. TypeOK /\ Holds(queue, st, "queued") /\ Holds(backlog, st, "backlog") /\ Jobs
  BY DEF PoolInv, Places
<1>2. /\ Holds(queue', st', "queued")
      /\ \A c \in Conns : st'[c] = st[c] \/ (st[c] = "queued" /\ st'[c] = "dropped")
  BY <1>1, DieDrops DEF TypeOK
<1>3. Holds(backlog', st', "backlog")
  BY <1>1, <1>2 DEF Holds, mainVars
<1>4. mainPc' = "execute" => st'[held'] = "held"
  BY <1>2 DEF mainVars, Places, PoolInv, Hands
<1>5. \A v \in Workers : pc'[v] = "run" <=> pc[v] = "run"
  BY <1>1 DEF TypeOK
<1>6. \A c \in Conns : st'[c] = "running" <=> st[c] = "running"
  BY <1>2
<1>7. Jobs'
  BY <1>1, <1>5, <1>6 DEF Jobs
<1> QED
  BY <1>2, <1>3, <1>4, <1>7 DEF Places

\* Worker w takes the first job of the channel, and it alone has it (pool.rs:53).
LEMMA RecvPlaces ==
  ASSUME PoolInv, Places, NEW w \in Workers, Recv(w)
  PROVE  Places'
<1> DEFINE c == Head(queue)
<1>1. /\ Running /\ pc[w] = "recv" /\ queue # <<>> /\ queue' = Tail(queue)
      /\ job' = [job EXCEPT ![w] = c] /\ st' = [st EXCEPT ![c] = "running"]
      /\ pc' = [pc EXCEPT ![w] = "run"] /\ UNCHANGED <<mainPc, held, backlog>>
  BY DEF Recv, mainVars
<1>2. /\ TypeOK /\ Holds(queue, st, "queued") /\ Holds(backlog, st, "backlog") /\ Jobs
      /\ queue \in Seq(Conns) /\ st \in [Conns -> Status] /\ "running" \in Status
  BY <1>1 DEF PoolInv, Places, TypeOK, Status
<1>3. c \in Conns /\ st[c] = "queued" /\ Holds(queue', st', "queued")
  <2>1. /\ Head(queue) \in Conns /\ st[Head(queue)] = "queued"
        /\ Holds(Tail(queue), [st EXCEPT ![Head(queue)] = "running"], "queued")
    BY <1>1, <1>2, MoveOut, Zenon
  <2> QED
    BY <1>1, <2>1
<1> HIDE DEF c
<1>4. Holds(backlog', st', "backlog")
  BY <1>1, <1>2, <1>3, MoveOne, Zenon
<1>5. mainPc' = "execute" => st'[held'] = "held"
  BY <1>1, <1>2, <1>3 DEF Places, PoolInv, Hands
<1>6. \A v \in Workers : job[v] # c
  BY <1>2, <1>3 DEF Jobs
<1>7. /\ job'[w] = c /\ pc'[w] = "run" /\ st'[c] = "running"
      /\ \A v \in Workers \ {w} : job'[v] = job[v] /\ pc'[v] = pc[v]
      /\ \A d \in Conns \ {c} : st'[d] = st[d]
  BY <1>1, <1>2, <1>3 DEF TypeOK
<1>8. job[w] \notin Conns
  BY <1>1, <1>2 DEF Jobs
<1>9. ASSUME NEW d \in Conns
      PROVE  st'[d] = "running" <=> \E v \in Workers : pc'[v] = "run" /\ job'[v] = d
  <2>1. CASE d = c
    BY <1>7, <2>1
  <2>2. CASE d # c
    BY <1>1, <1>2, <1>7, <1>8, <2>2, SMTT(30) DEF Jobs
  <2> QED
    BY <2>1, <2>2
<1>10. /\ \A v \in Workers : job'[v] \in Conns => pc'[v] = "run"
       /\ \A u, v \in Workers : job'[u] \in Conns /\ job'[u] = job'[v] => u = v
  <2>1. /\ \A v \in Workers : job[v] \in Conns => pc[v] = "run"
        /\ \A u, v \in Workers : job[u] \in Conns /\ job[u] = job[v] => u = v
    BY <1>2, Zenon DEF Jobs
  <2> QED
    BY <1>6, <1>7, <2>1
<1> QED
  BY <1>3, <1>4, <1>5, <1>9, <1>10 DEF Places, Jobs

\* Every step of a worker leaves every connection in one place (pool.rs:47-59).
LEMMA WorkerPlaces ==
  ASSUME PoolInv, Places, NEW w \in Workers, Worker(w)
  PROVE  Places'
<1>1. CASE Lock(w)
  BY <1>1, IdlePlaces DEF Lock, Die
<1>2. CASE Recv(w)
  BY <1>2, RecvPlaces
<1>3. CASE RecvDisconnected(w)
  BY <1>3, IdlePlaces, Zenon DEF RecvDisconnected, Unwind, Die
<1>4. ASSUME NEW y \in {"answered", "panicked"}, NEW x \in {"lock", "dead"},
             Running, pc[w] = "run", job' = [job EXCEPT ![w] = NoConn],
             pc' = [pc EXCEPT ![w] = x], UNCHANGED mainVars,
             \/ queue' = queue /\ st' = [st EXCEPT ![job[w]] = y]
             \/ Die(w, [st EXCEPT ![job[w]] = y])
      PROVE  Places'
  <2> DEFINE s == Ended(w, y)
  <2>1. /\ job[w] \in Conns /\ s \in [Conns -> Status]
        /\ Holds(backlog, s, "backlog") /\ Holds(queue, s, "queued")
        /\ mainPc = "execute" => s[held] = "held"
        /\ \A c \in Conns : s[c] = "running" <=>
             \E v \in Workers \ {w} : pc[v] = "run" /\ job[v] = c
    BY <1>4, JobEnds
  <2>2. (queue' = queue /\ st' = s) \/ Die(w, s)
    BY <1>4 DEF Ended
  <2> HIDE DEF s
  <2>3. /\ Holds(queue', st', "queued")
        /\ \A c \in Conns : st'[c] = s[c] \/ (s[c] = "queued" /\ st'[c] = "dropped")
    BY <2>1, <2>2, DieDrops
  <2>4. Holds(backlog', st', "backlog") /\ (mainPc' = "execute" => st'[held'] = "held")
    BY <1>4, <2>1, <2>3 DEF Holds, mainVars, PoolInv, Hands
  <2>5. /\ job'[w] \notin Conns /\ pc'[w] # "run"
        /\ \A v \in Workers \ {w} : job'[v] = job[v] /\ pc'[v] = pc[v]
    BY <1>4, PoolAssumption DEF PoolInv, TypeOK
  <2>6. Jobs
    BY <1>4 DEF Places
  <2>7. \A c \in Conns : st'[c] = "running" <=>
          \E v \in Workers : pc'[v] = "run" /\ job'[v] = c
    BY <2>1, <2>3, <2>5
  <2>8. /\ \A v \in Workers : job'[v] \in Conns => pc'[v] = "run"
        /\ \A u, v \in Workers : job'[u] \in Conns /\ job'[u] = job'[v] => u = v
    BY <2>5, <2>6 DEF Jobs
  <2> QED
    BY <2>3, <2>4, <2>7, <2>8 DEF Places, Jobs
<1>5. CASE Finish(w)
  BY <1>4, <1>5 DEF Finish
<1>6. CASE Panic(w)
  BY <1>4, <1>6 DEF Panic, Unwind, Die
<1> QED
  BY <1>1, <1>2, <1>3, <1>5, <1>6 DEF Worker

\* Every connection is in one place in every reachable state.
THEOREM PlacesInvariant == Spec => []Places
<1>1. Init => Places
  <2> SUFFICES ASSUME Init PROVE Places
    OBVIOUS
  <2>1. \A c \in Conns : ~In(<<>>, c)
    BY DEF In
  <2>2. Holds(backlog, st, "backlog") /\ Holds(queue, st, "queued")
    BY <2>1 DEF Init, Holds, Once
  <2>3. Jobs
    BY PoolAssumption DEF Init, Jobs
  <2> QED
    BY <2>2, <2>3 DEF Init, Places
<1>2. PoolInv /\ Places /\ [Next]_vars => Places'
  <2> SUFFICES ASSUME PoolInv, Places, [Next]_vars PROVE Places'
    OBVIOUS
  <2>1. CASE UNCHANGED vars
    <3>1. UNCHANGED <<st, mainPc, held, backlog, queue, pc, job>>
      BY <2>1 DEF vars, mainVars, workerVars
    <3>2. /\ Holds(backlog, st, "backlog")' = Holds(backlog, st, "backlog")
          /\ Holds(queue, st, "queued")' = Holds(queue, st, "queued")
      BY <3>1, Zenon DEF Holds
    <3>3. Jobs => Jobs'
      BY <3>1, SMTT(30) DEF Jobs
    <3> QED
      BY <3>1, <3>2, <3>3, Zenon DEF Places, Running
  <2> QED
    BY <2>1, OutsidePlaces, WorkerPlaces DEF Next
<1> QED
  BY <1>1, <1>2, PoolInvariant, PTL DEF Spec

\* No job is lost or run twice, for any number of workers and connections: a connection
\* is queued exactly while it is in the channel and running exactly while one live worker
\* has it (pool.rs:43-55).
THEOREM NoJobIsLost == Spec => []NoJobLost
<1>1. ASSUME PoolInv, Places PROVE NoJobLost
  <2>1. TypeOK /\ (Running => Holds(queue, st, "queued") /\ Jobs)
    BY <1>1, Zenon DEF PoolInv, Places
  <2>2. Holds(queue, st, "queued") =>
          \A c \in Conns : st[c] = "queued" <=> \E i \in 1..Len(queue) : queue[i] = c
    BY Zenon DEF Holds, In
  <2> QED
    <3>1. ASSUME Running, NEW c \in Conns
          PROVE  /\ st[c] = "queued" <=> \E i \in 1..Len(queue) : queue[i] = c
                 /\ st[c] = "running" <=> \E w \in Workers : pc[w] = "run" /\ job[w] = c
      BY <2>1, <2>2, <3>1, Zenon DEF Jobs
    <3>2. ASSUME Running, NEW c \in Conns, NEW v \in Workers, NEW w \in Workers,
                 job[v] = c, job[w] = c
          PROVE  v = w
      BY <2>1, <3>2 DEF Jobs
    <3> QED
      BY <2>1, <3>1, <3>2, Zenon DEF NoJobLost
<1> QED
  BY <1>1, PoolInvariant, PlacesInvariant, PTL
-----------------------------------------------------------------------------
(***************************************************************************)
(* The worker loop with its mutex, channel and panics implements JobPool,  *)
(* for any finite set of workers and any connections.  Every step of       *)
(* ThreadPool is a step of JobPool or a stutter:                           *)
(*                                                                         *)
(*   Execute -> Submit, Refuse    Recv -> Start    Finish -> Finish        *)
(*   Panic -> Fail                Exit -> Halt                             *)
(*   RecvDisconnected, Lock of a poisoned mutex -> Retire                  *)
(*                                                                         *)
(* It rests on the places of the connections (NoJobIsLost), which bound    *)
(* the running jobs by the workers left, and on one more invariant: a      *)
(* worker dies without a job only when the channel is empty for good.      *)
(***************************************************************************)

\* A poisoned mutex means that the channel is empty, and stays so.
PoisonedIsEmpty == poisoned => queue = <<>>

\* What the refinement rests on.
RefineInv == PoolInv /\ Places /\ PoisonedIsEmpty

\* What the status of a connection says about its job.
LEMMA OutcomeValues ==
  \A x \in Status : /\ OutcomeOf(x) = "new" <=> x \in {"new", "backlog", "held"}
                    /\ OutcomeOf(x) = "pending" <=> x = "queued"
                    /\ OutcomeOf(x) = "active" <=> x = "running"
                    /\ x = "answered" => OutcomeOf(x) = "finished"
                    /\ x = "panicked" => OutcomeOf(x) = "failed"
                    /\ x = "dropped" => OutcomeOf(x) = "dropped"
  BY DEF OutcomeOf, Status

\* A connection that changes its status changes the outcome of its job.
LEMMA OutcomeChanges ==
  ASSUME TypeOK, NEW c \in Conns, NEW y \in Status, st' = [st EXCEPT ![c] = y]
  PROVE  Outcome' = [Outcome EXCEPT ![c] = OutcomeOf(y)]
  BY Zenon DEF Outcome, TypeOK

\* The workers left are counted by Capacity.
LEMMA CapacityCounts ==
  ASSUME TypeOK
  PROVE  /\ IsFiniteSet(Dead) /\ Capacity \in Nat
         /\ Capacity = Cardinality(Workers \ Dead)
         /\ Capacity = 0 <=> Dead = Workers
<1>1. Dead \subseteq Workers /\ IsFiniteSet(Workers)
  BY PoolAssumption DEF Dead
<1>2. /\ IsFiniteSet(Dead) /\ IsFiniteSet(Workers \ Dead)
      /\ Cardinality(Workers \ Dead) = Cardinality(Workers) - Cardinality(Workers \cap Dead)
  BY <1>1, FS_Subset, FS_Difference, Zenon
<1>3. Workers \cap Dead = Dead
  BY <1>1
<1>4. Cardinality(Workers \ Dead) \in Nat
  BY <1>2, FS_CardinalityType
<1>5. Cardinality(Workers \ Dead) = 0 <=> Workers \ Dead = {}
  BY <1>2, FS_EmptySet
<1> QED
  BY <1>1, <1>2, <1>3, <1>4, <1>5, Zenon DEF Capacity

\* The end of a worker costs one.
LEMMA CapacityDrops ==
  ASSUME TypeOK, NEW w \in Workers, pc[w] # "dead", pc' = [pc EXCEPT ![w] = "dead"]
  PROVE  /\ Capacity' = Capacity - 1 /\ Capacity \in Nat \ {0}
         /\ Capacity = 1 <=> Dead \cup {w} = Workers
<1>1. w \notin Dead /\ Dead' = Dead \cup {w} /\ Dead \subseteq Workers
  BY DEF TypeOK, Dead
<1>2. IsFiniteSet(Dead) /\ Capacity \in Nat /\ Capacity # 0 /\ IsFiniteSet(Workers)
  BY <1>1, CapacityCounts, PoolAssumption
<1>3. /\ IsFiniteSet(Dead \cup {w})
      /\ Cardinality(Dead \cup {w}) = Cardinality(Dead) + 1
  BY <1>1, <1>2, FS_AddElement
<1>4. /\ Cardinality(Dead) \in Nat /\ Cardinality(Workers) \in Nat
  BY <1>2, FS_CardinalityType
<1>5. Capacity' = Cardinality(Workers) - Cardinality(Dead \cup {w})
  BY <1>1 DEF Capacity
<1>6. Cardinality(Workers) = Cardinality(Dead \cup {w}) => Dead \cup {w} = Workers
  BY <1>1, <1>2, FS_Subset
<1> QED
  BY <1>2, <1>3, <1>4, <1>5, <1>6 DEF Capacity

\* JobPool counts as this module does.
LEMMA SameCardinality == \A S : Pool!Cardinality(S) = Cardinality(S)
  BY Zenon DEF Pool!Cardinality, Cardinality

\* Fewer jobs run than there are workers left while some live worker has no job.
LEMMA ActiveBound ==
  ASSUME RefineInv, Running, NEW w \in Workers, pc[w] \notin {"run", "dead"}
  PROVE  Cardinality(Pool!Active) < Capacity
<1> DEFINE R == {v \in Workers : pc[v] = "run"}
           A == {c \in Conns : st[c] = "running"}
           f == [v \in R |-> job[v]]
<1>1. TypeOK /\ Jobs /\ Hands
  BY DEF RefineInv, PoolInv, Places
<1>2. Pool!Active = A
  BY <1>1, OutcomeValues DEF Pool!Active, Outcome, TypeOK
<1>3. IsFiniteSet(R) /\ IsFiniteSet(Workers \ Dead)
  BY PoolAssumption, FS_Subset
<1>4. f \in Surjection(R, A)
  BY <1>1 DEF Surjection, Jobs, Hands
<1>5. IsFiniteSet(A) /\ Cardinality(A) <= Cardinality(R)
  BY <1>3, <1>4, FS_Surjection
<1>6. R \subseteq Workers \ Dead /\ w \in (Workers \ Dead) \ R
  BY DEF Dead
<1>7. Cardinality(R) <= Cardinality(Workers \ Dead) /\ Cardinality(R) # Cardinality(Workers \ Dead)
  BY <1>3, <1>6, FS_Subset
<1>8. /\ Cardinality(A) \in Nat /\ Cardinality(R) \in Nat
      /\ Cardinality(Workers \ Dead) \in Nat
  BY <1>3, <1>5, FS_CardinalityType
<1>9. Capacity = Cardinality(Workers \ Dead)
  BY <1>1, CapacityCounts
<1> QED
  BY <1>2, <1>5, <1>7, <1>8, <1>9

\* Without a sender nothing enters the channel, so poisoning is final (pool.rs:43, 53).
LEMMA PoisonStep == PoolInv /\ PoisonedIsEmpty /\ [Next]_vars => PoisonedIsEmpty'
<1> SUFFICES ASSUME PoolInv, PoisonedIsEmpty, [Next]_vars PROVE PoisonedIsEmpty'
  OBVIOUS
<1>1. CASE UNCHANGED <<poisoned, queue>>
  BY <1>1 DEF PoisonedIsEmpty
<1>2. CASE Execute
  BY <1>2 DEF Execute, PoolInv, PanicNeverPoisons, SenderAlive, PoisonedIsEmpty, workerVars
<1>3. CASE Exit
  BY <1>3 DEF Exit, PoisonedIsEmpty
<1>4. ASSUME NEW w \in Workers, Worker(w) PROVE PoisonedIsEmpty'
  <2>1. CASE RecvDisconnected(w)
    BY <2>1, Zenon DEF RecvDisconnected, Unwind, Die, PoisonedIsEmpty
  <2>2. CASE Panic(w)
    <3>1. poisoned' = poisoned
      BY <2>2, UnwindPoisons DEF Panic
    <3>2. queue' = queue \/ queue' = <<>>
      BY <2>2, Zenon DEF Panic, Unwind, Die
    <3> QED
      BY <3>1, <3>2 DEF PoisonedIsEmpty
  <2> QED
    BY <1>4, <2>1, <2>2, Zenon DEF Worker, Lock, Recv, Finish, Die, PoisonedIsEmpty
<1> QED
  BY <1>1, <1>2, <1>3, <1>4
     DEF Next, Main, Client, Connect, Close, SendLine, Accept, AcceptFails, DropPool,
         vars, workerVars, mainVars

\* Steps that JobPool does not see.
LEMMA Stutter ==
  ASSUME TypeOK, UNCHANGED queue, Dead' = Dead,
         \A c \in Conns : OutcomeOf(st'[c]) = OutcomeOf(st[c])
  PROVE  UNCHANGED Pool!vars
<1>1. Outcome' = Outcome
  BY DEF Outcome
<1>2. Capacity' = Capacity
  BY DEF Capacity
<1> QED
  BY <1>1, <1>2 DEF Pool!vars

\* Clients and the listener do not show; execute() submits a job or is refused, and the
\* end of main halts the pool (main.rs:10-24, pool.rs:37-44).
LEMMA OutsideRefines ==
  ASSUME RefineInv, (\E c \in Conns : Client(c)) \/ Main
  PROVE  [Pool!Next]_(Pool!vars)
<1>1. TypeOK /\ st \in [Conns -> Status]
  BY DEF RefineInv, PoolInv, TypeOK
<1>2. ASSUME NEW c \in Conns, NEW x \in {"backlog", "held"}, st[c] \in {"new", "backlog"},
             st' = [st EXCEPT ![c] = x], UNCHANGED <<queue, pc>>
      PROVE  UNCHANGED Pool!vars
  <2>1. \A d \in Conns : OutcomeOf(st'[d]) = OutcomeOf(st[d])
    BY <1>1, <1>2, Zenon DEF OutcomeOf
  <2> QED
    BY <1>1, <1>2, <2>1, Stutter DEF Dead
<1>3. ASSUME NEW c \in Conns, Connect(c) PROVE UNCHANGED Pool!vars
  BY <1>2, <1>3, Zenon DEF Connect, workerVars
<1>4. CASE Accept
  <2>1. /\ Head(backlog) \in Conns /\ st[Head(backlog)] = "backlog"
    <3>1. /\ Holds(backlog, st, "backlog") /\ backlog \in Seq(Conns) /\ backlog # <<>>
          /\ "held" \in Status
      BY <1>4 DEF Accept, RefineInv, PoolInv, TypeOK, Places, Running, Status
    <3> QED
      BY <1>1, <3>1, MoveOut, Zenon
  <2> QED
    BY <1>2, <1>4, <2>1, Zenon DEF Accept, workerVars
<1>5. CASE UNCHANGED <<st, queue, pc>>
  BY <1>1, <1>5, Stutter DEF Dead
<1>6. CASE Execute
  <2>1. held \in Conns /\ st[held] = "held" /\ UNCHANGED pc
    BY <1>6 DEF Execute, RefineInv, PoolInv, Hands, Places, Running, workerVars
  <2>2. Outcome[held] = "new" /\ Capacity' = Capacity
    BY <1>1, <2>1, OutcomeValues DEF Outcome, Capacity, Dead
  <2>3. CASE ReceiverAlive
    <3>1. queue' = Append(queue, held) /\ st' = [st EXCEPT ![held] = "queued"]
      BY <1>6, <2>3 DEF Execute
    <3>2. Outcome' = [Outcome EXCEPT ![held] = "pending"]
      BY <1>1, <2>1, <3>1, OutcomeChanges, Zenon DEF Status, OutcomeOf
    <3>3. Capacity > 0
      BY <1>1, <2>3, CapacityCounts DEF ReceiverAlive
    <3>4. Pool!Submit(held)
      BY <2>2, <3>1, <3>2, <3>3 DEF Pool!Submit
    <3> QED
      BY <2>1, <3>4 DEF Pool!Next
  <2>4. CASE ~ReceiverAlive
    <3>1. queue' = queue /\ st' = [st EXCEPT ![held] = "dropped"]
      BY <1>6, <2>4 DEF Execute
    <3>2. Outcome' = [Outcome EXCEPT ![held] = "dropped"]
      BY <1>1, <2>1, <3>1, OutcomeChanges, Zenon DEF Status, OutcomeOf
    <3>3. Capacity = 0
      BY <1>1, <2>4, CapacityCounts DEF ReceiverAlive
    <3>4. Pool!Refuse(held)
      BY <2>2, <3>1, <3>2, <3>3 DEF Pool!Refuse
    <3> QED
      BY <2>1, <3>4 DEF Pool!Next
  <2> QED
    BY <2>3, <2>4
<1>7. CASE Exit
  <2> DEFINE U == {c \in Conns : st[c] = "backlog"}
  <2>1. /\ queue' = <<>> /\ UNCHANGED pc
        /\ st' = [c \in Conns |-> IF st[c] \in {"backlog", "queued", "running"}
                                  THEN "dropped" ELSE st[c]]
    BY <1>7 DEF Exit, workerVars
  <2>2. \A c \in Conns : c \in Pool!Waiting \cup Pool!Active \cup U
                           <=> st[c] \in {"backlog", "queued", "running"}
    BY <1>1, OutcomeValues DEF Pool!Waiting, Pool!Active, Outcome
  <2>3. OutcomeOf("dropped") = "dropped"
    BY DEF OutcomeOf
  <2>4. Outcome' = Pool!Drop(Outcome, Pool!Waiting \cup Pool!Active \cup U)
    BY <2>1, <2>2, <2>3 DEF Pool!Drop, Outcome
  <2>5. U \in SUBSET {c \in Conns : Outcome[c] = "new"}
    BY <1>1, OutcomeValues DEF Outcome
  <2>6. Capacity' = Capacity
    BY <2>1 DEF Capacity, Dead
  <2>7. Pool!Halt
    BY <2>1, <2>4, <2>5, <2>6, Zenon DEF Pool!Halt
  <2> QED
    BY <2>7 DEF Pool!Next
<1> QED
  BY <1>3, <1>4, <1>5, <1>6, <1>7
     DEF Client, Main, Close, SendLine, AcceptFails, DropPool, workerVars

\* A worker that dies without a job retires: nothing waits, so nothing is dropped.
LEMMA IdleDeathRetires ==
  ASSUME RefineInv, Running, NEW w \in Workers, pc[w] \notin {"run", "dead"},
         queue = <<>>, Die(w, st)
  PROVE  Pool!Retire
<1>1. TypeOK /\ st \in [Conns -> Status] /\ Holds(queue, st, "queued")
  BY DEF RefineInv, PoolInv, TypeOK, Places
<1>2. \A c \in Conns : st[c] # "queued"
  BY <1>1 DEF Holds, In
<1>3. queue' = queue /\ \A c \in Conns : st'[c] = st[c]
  BY <1>1, <1>2 DEF Die
<1>4. Outcome' = Outcome
  BY <1>3 DEF Outcome
<1>5. Capacity' = Capacity - 1
  BY <1>1, CapacityDrops, Zenon DEF Die
<1>6. Cardinality(Pool!Active) < Capacity
  BY ActiveBound
<1> QED
  BY <1>3, <1>4, <1>5, <1>6, SameCardinality DEF Pool!Retire

\* A panic fails its job and costs one worker; the last worker takes the channel with it
\* (pool.rs:47-59).
LEMMA PanicFails ==
  ASSUME RefineInv, NEW w \in Workers, Panic(w)
  PROVE  job[w] \in Conns /\ Pool!Fail(job[w])
<1> DEFINE c == job[w]
           failed == [Outcome EXCEPT ![c] = "failed"]
<1>1. TypeOK /\ st \in [Conns -> Status] /\ Running /\ pc[w] = "run" /\ c \in Conns
  BY DEF Panic, RefineInv, PoolInv, Hands, TypeOK
<1>2. st[c] = "running"
  BY <1>1 DEF RefineInv, Places, Jobs
<1>3. Die(w, [st EXCEPT ![c] = "panicked"])
  BY DEF Panic, Unwind
<1> HIDE DEF c
<1>4. c \in Pool!Active
  BY <1>1, <1>2, OutcomeValues DEF Pool!Active, Outcome
<1>5. /\ Capacity' = Capacity - 1 /\ Capacity \in Nat \ {0}
      /\ Capacity = 1 <=> Dead \cup {w} = Workers
  BY <1>1, <1>3, CapacityDrops, Zenon DEF Die
<1>6. CASE Dead \cup {w} # Workers
  <2>1. queue' = queue /\ st' = [st EXCEPT ![c] = "panicked"]
    BY <1>3, <1>6 DEF Die
  <2>2. Outcome' = failed
    BY <1>1, <2>1, OutcomeChanges, Zenon DEF Status, OutcomeOf
  <2>3. Capacity > 1
    BY <1>5, <1>6
  <2>4. Pool!Fail(c)
    BY <1>4, <1>5, <2>1, <2>2, <2>3 DEF Pool!Fail
  <2> QED
    BY <1>1, <2>4 DEF c
<1>7. CASE Dead \cup {w} = Workers
  <2>1. /\ queue' = <<>>
        /\ st' = [d \in Conns |-> IF [st EXCEPT ![c] = "panicked"][d] = "queued"
                                  THEN "dropped" ELSE [st EXCEPT ![c] = "panicked"][d]]
    BY <1>3, <1>7 DEF Die
  <2>2. \A d \in Conns : d \in Pool!Waiting <=> st[d] = "queued"
    BY <1>1, OutcomeValues DEF Pool!Waiting, Outcome
  <2>3. ASSUME NEW d \in Conns
        PROVE  OutcomeOf(st'[d]) = IF d \in Pool!Waiting THEN "dropped" ELSE failed[d]
    <3>1. CASE d = c
      <4>1. st'[d] = "panicked" /\ d \notin Pool!Waiting /\ failed[d] = "failed"
        BY <1>1, <1>2, <2>1, <2>2, <3>1 DEF Outcome
      <4> QED
        BY <4>1 DEF OutcomeOf
    <3>2. CASE d # c
      <4>1. /\ st'[d] = IF st[d] = "queued" THEN "dropped" ELSE st[d]
            /\ failed[d] = OutcomeOf(st[d])
        BY <1>1, <2>1, <3>2 DEF Outcome
      <4>2. OutcomeOf("dropped") = "dropped"
        BY DEF OutcomeOf
      <4> QED
        BY <2>2, <4>1, <4>2
    <3> QED
      BY <3>1, <3>2
  <2>4. Outcome' = Pool!Drop(failed, Pool!Waiting)
    BY <2>3 DEF Pool!Drop, Outcome
  <2>5. Pool!Fail(c)
    BY <1>4, <1>5, <1>7, <2>1, <2>4 DEF Pool!Fail
  <2> QED
    BY <1>1, <2>5 DEF c
<1> QED
  BY <1>6, <1>7

\* Every step of a worker is one of JobPool's, or hidden (pool.rs:47-59).
LEMMA WorkerRefines ==
  ASSUME RefineInv, NEW w \in Workers, Worker(w)
  PROVE  [Pool!Next]_(Pool!vars)
<1>1. TypeOK /\ st \in [Conns -> Status]
  BY DEF RefineInv, PoolInv, TypeOK
<1>2. CASE Lock(w)
  <2>1. CASE ~poisoned
    <3>1. UNCHANGED <<queue, st>> /\ Dead' = Dead
      BY <1>1, <1>2, <2>1 DEF Lock, Dead, TypeOK
    <3> QED
      BY <1>1, <3>1, Stutter
  <2>2. CASE poisoned
    BY <1>2, <2>2, IdleDeathRetires DEF Lock, RefineInv, PoisonedIsEmpty, Pool!Next
  <2> QED
    BY <2>1, <2>2
<1>3. CASE Recv(w)
  <2>1. /\ Running /\ pc[w] = "recv" /\ queue # <<>> /\ queue' = Tail(queue)
        /\ st' = [st EXCEPT ![Head(queue)] = "running"] /\ pc' = [pc EXCEPT ![w] = "run"]
    BY <1>3 DEF Recv
  <2>2. Head(queue) \in Conns
    BY <1>1, <2>1 DEF TypeOK
  <2>3. Outcome' = [Outcome EXCEPT ![Head(queue)] = "active"]
    BY <1>1, <2>1, <2>2, OutcomeChanges, Zenon DEF Status, OutcomeOf
  <2>4. Capacity' = Capacity
    BY <1>1, <2>1, Zenon DEF Capacity, Dead, TypeOK
  <2>5. Cardinality(Pool!Active) < Capacity
    BY <2>1, ActiveBound
  <2>6. Pool!Start
    BY <2>1, <2>3, <2>4, <2>5, SameCardinality DEF Pool!Start
  <2> QED
    BY <2>6 DEF Pool!Next
<1>4. CASE RecvDisconnected(w)
  BY <1>4, IdleDeathRetires DEF RecvDisconnected, Unwind, Pool!Next
<1>5. CASE Finish(w)
  <2>1. /\ job[w] \in Conns /\ st[job[w]] = "running" /\ queue' = queue
        /\ st' = [st EXCEPT ![job[w]] = "answered"] /\ pc' = [pc EXCEPT ![w] = "lock"]
    BY <1>5 DEF Finish, RefineInv, PoolInv, Hands, Places, Jobs
  <2>2. Outcome' = [Outcome EXCEPT ![job[w]] = "finished"]
    BY <1>1, <2>1, OutcomeChanges, Zenon DEF Status, OutcomeOf
  <2>3. job[w] \in Pool!Active
    BY <1>1, <2>1, OutcomeValues DEF Pool!Active, Outcome
  <2>4. Capacity' = Capacity
    <3>1. Dead' = Dead
      BY <1>1, <1>5 DEF Finish, Dead, TypeOK
    <3> QED
      BY <3>1 DEF Capacity
  <2>5. Pool!Finish(job[w])
    BY <2>1, <2>2, <2>3, <2>4 DEF Pool!Finish
  <2> QED
    BY <2>1, <2>5 DEF Pool!Next
<1>6. CASE Panic(w)
  BY <1>6, PanicFails DEF Pool!Next
<1> QED
  BY <1>2, <1>3, <1>4, <1>5, <1>6 DEF Worker

\* main starts with all workers and no job (pool.rs:16-35).
LEMMA RefineInit == Init => Pool!Init /\ PoisonedIsEmpty
<1> SUFFICES ASSUME Init PROVE Pool!Init /\ PoisonedIsEmpty
  OBVIOUS
<1>1. Dead = {} /\ Cardinality({}) = 0 /\ Cardinality(Workers) \in Nat
  BY FS_EmptySet, FS_CardinalityType, PoolAssumption DEF Init, Dead
<1>2. Capacity = Cardinality(Workers)
  BY <1>1 DEF Capacity
<1>3. Outcome = [c \in Conns |-> "new"]
  BY DEF Init, Outcome, OutcomeOf
<1> QED
  BY <1>2, <1>3 DEF Init, Pool!Init, PoisonedIsEmpty

\* The threads, the mutex and the channel of the web server implement the abstract pool,
\* for any number of workers: first in first out, no more jobs at once than workers left,
\* one worker lost per failed job, jobs dropped only with the last worker or the process
\* (pool.rs:16-59, main.rs:10-24).
THEOREM PoolRefinement == Spec => ImplementsJobPool
<1>1. RefineInv /\ [Next]_vars => [Pool!Next]_(Pool!vars)
  <2> SUFFICES ASSUME RefineInv, [Next]_vars PROVE [Pool!Next]_(Pool!vars)
    OBVIOUS
  <2>1. CASE UNCHANGED vars
    <3>1. UNCHANGED <<st, queue, pc>> /\ TypeOK
      BY <2>1 DEF vars, workerVars, RefineInv, PoolInv
    <3> QED
      BY <3>1, Stutter DEF Dead
  <2> QED
    BY <2>1, OutsideRefines, WorkerRefines DEF Next
<1> QED
  BY <1>1, RefineInit, PoolInvariant, PlacesInvariant, PoisonStep, PTL
     DEF Spec, RefineInv, ImplementsJobPool, Pool!Spec
==============================================================================
