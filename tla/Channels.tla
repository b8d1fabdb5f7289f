------------------------------ MODULE Channels ------------------------------
(***************************************************************************)
(* concurrency/rust/examples/example_project/src/main.rs: main runs four   *)
(* examples in order.  The first three each make a channel and detached    *)
(* producer threads that own its senders:                                  *)
(*                                                                         *)
(*   1  basic_channel       one producer; main receives until the channel  *)
(*                          is closed                                      *)
(*   2  multiple_producers  one producer per sender; main receives as many *)
(*                          messages as they send, and gives up when none  *)
(*                          comes for a second                             *)
(*   3  bounded_channel     one producer, at most Capacity messages queued *)
(*   4  mutex_example       threads add to a counter under a mutex and are *)
(*                          joined                                         *)
(*                                                                         *)
(* Leaving an example drops its receiver, but not its producers.           *)
(***************************************************************************)
EXTENDS Naturals, Sequences, FiniteSets

CONSTANTS Messages,  \* per channel: how many messages each of its producers sends
          Senders,   \* producers of example 2 (the others have one)
          Capacity,  \* of the bounded channel
          Adders     \* threads of example 4

ASSUME ChannelsAssumption ==
  /\ Messages \in [1..3 -> Nat] /\ Capacity \in Nat \ {0}
  /\ IsFiniteSet(Senders) /\ Senders # {} /\ IsFiniteSet(Adders) /\ "none" \notin Adders

VARIABLES stage,     \* the example main is in; 5: main has returned
          chan,      \* per example: the queued messages, <<producer, index>>
          sent,      \* per producer: messages it has sent
          producer,  \* per producer: running, ended or panicked
          received,  \* per example: what main has received, in order
          gaveUp,    \* the receive of example 2 timed out
          counter, holder, adder  \* example 4: the value, who holds the lock, the threads

chanVars == <<stage, chan, sent, producer, received, gaveUp, counter, holder, adder>>

\* The producers of channel k.
Of(k) == {<<k, p>> : p \in IF k = 2 THEN Senders ELSE {"p"}}
Producers == UNION {Of(k) : k \in 1..3}
Started == {q \in Producers : q[1] <= stage}

ChannelsTypeOK ==
  /\ stage \in 1..5
  /\ chan \in [1..3 -> Seq(Producers \X Nat)]
  /\ Len(chan[3]) <= Capacity
  /\ sent \in [Producers -> Nat]
  /\ \A q \in Producers : sent[q] <= Messages[q[1]]
  /\ producer \in [Producers -> {"running", "ended", "panicked"}]
  /\ received \in [1..3 -> Seq(Producers \X Nat)]
  /\ gaveUp \in BOOLEAN
  /\ counter \in 0..Cardinality(Adders)
  /\ holder \in Adders \cup {"none"}
  /\ adder \in [Adders -> {"running", "ended"}]

ChannelsInit ==
  /\ stage = 1
  /\ chan = [k \in 1..3 |-> <<>>]
  /\ sent = [q \in Producers |-> 0]
  /\ producer = [q \in Producers |-> "running"]
  /\ received = [k \in 1..3 |-> <<>>]
  /\ gaveUp = FALSE
  /\ counter = 0 /\ holder = "none"
  /\ adder = [a \in Adders |-> "running"]

\* Mutant: an empty channel is taken for a closed one.
DisconnectedIfEmpty(k) == TRUE

\* Mutant: main sends through a clone and keeps tx.
DisconnectedNever(k) == k # 1 /\ \A q \in Of(k) : producer[q] # "running"

\* Every sender of channel k is dropped: main has moved tx, or dropped it.
Disconnected(k) == \A q \in Of(k) : producer[q] # "running"
-----------------------------------------------------------------------------
\* tx.send(msg).unwrap(): queues the message, waits for room in the bounded channel,
\* panics when the receiver is dropped.
Send(q) ==
  LET k == q[1] IN
  /\ q \in Started /\ stage < 5 /\ producer[q] = "running" /\ sent[q] < Messages[k]
  /\ IF stage > k
     THEN producer' = [producer EXCEPT ![q] = "panicked"] /\ UNCHANGED <<chan, sent>>
     ELSE /\ k = 3 => Len(chan[k]) < Capacity
          /\ chan' = [chan EXCEPT ![k] = Append(@, <<q, sent[q]>>)]
          /\ sent' = [sent EXCEPT ![q] = @ + 1]
          /\ UNCHANGED producer
  /\ UNCHANGED <<stage, received, gaveUp, counter, holder, adder>>

\* The producer's closure returns and its sender is dropped.
ProducerEnds(q) ==
  /\ q \in Started /\ stage < 5 /\ producer[q] = "running" /\ sent[q] = Messages[q[1]]
  /\ producer' = [producer EXCEPT ![q] = "ended"]
  /\ UNCHANGED <<stage, chan, sent, received, gaveUp, counter, holder, adder>>

\* How many messages example 2 asks for.
Wanted == Cardinality(Senders) * Messages[2]

\* Main takes the oldest message.
Receive ==
  /\ stage \in 1..3 /\ chan[stage] # <<>>
  /\ stage = 2 => Len(received[2]) < Wanted
  /\ received' = [received EXCEPT ![stage] = Append(@, Head(chan[stage]))]
  /\ chan' = [chan EXCEPT ![stage] = Tail(@)]
  /\ UNCHANGED <<stage, sent, producer, gaveUp, counter, holder, adder>>

\* `for received in rx` ends when the channel is empty and every sender is dropped.
Leave ==
  /\ stage \in {1, 3} /\ chan[stage] = <<>> /\ Disconnected(stage)
  /\ stage' = stage + 1
  /\ UNCHANGED <<chan, sent, producer, received, gaveUp, counter, holder, adder>>

\* Example 2 has all its messages, or recv_timeout returns an error: a second passed
\* with nothing queued, or the channel is closed.  The queue goes with the receiver.
LeaveSecond ==
  /\ stage = 2
  /\ \/ Len(received[2]) = Wanted /\ UNCHANGED gaveUp
     \/ Len(received[2]) < Wanted /\ chan[2] = <<>> /\ gaveUp' = TRUE
  /\ stage' = 3
  /\ chan' = [chan EXCEPT ![2] = <<>>]
  /\ UNCHANGED <<sent, producer, received, counter, holder, adder>>
-----------------------------------------------------------------------------
\* counter.lock()
Lock(a) ==
  /\ stage = 4 /\ adder[a] = "running" /\ holder = "none"
  /\ holder' = a
  /\ UNCHANGED <<stage, chan, sent, producer, received, gaveUp, counter, adder>>

\* *num += 1, and the guard is dropped at the end of the closure.
AddAndUnlock(a) ==
  /\ holder = a
  /\ counter' = counter + 1
  /\ holder' = "none"
  /\ adder' = [adder EXCEPT ![a] = "ended"]
  /\ UNCHANGED <<stage, chan, sent, producer, received, gaveUp>>

\* Every handle is joined; main locks the counter, prints it and returns.
Finish ==
  /\ stage = 4 /\ holder = "none" /\ \A a \in Adders : adder[a] = "ended"
  /\ stage' = 5
  /\ UNCHANGED <<chan, sent, producer, received, gaveUp, counter, holder, adder>>

ChannelsMain == Receive \/ Leave \/ LeaveSecond \/ Finish
ProducerStep(q) == Send(q) \/ ProducerEnds(q)
AdderStep(a) == Lock(a) \/ AddAndUnlock(a)

ChannelsNext == \/ ChannelsMain
                \/ \E q \in Producers : ProducerStep(q)
                \/ \E a \in Adders : AdderStep(a)

ChannelsSpec == ChannelsInit /\ [][ChannelsNext]_chanVars

\* The threads are scheduled.  Each takes the lock once: a fair lock is not needed.
ChannelsFairness ==
  /\ WF_chanVars(ChannelsMain)
  /\ \A q \in Producers : WF_chanVars(ProducerStep(q))
  /\ WF_chanVars(\E a \in Adders : AdderStep(a))
-----------------------------------------------------------------------------
\* What main has received through channel k, and then what is queued.
History(k) == received[k] \o chan[k]

\* How many of the first i - 1 messages of s are from q.
Before(s, i, q) == Cardinality({j \in 1..i - 1 : s[j][1] = q})

\* What main has received from a producer, and then what is queued, are its messages
\* in the order it sent them, whatever the other producers do (main.rs:39,66,75,84),
\* and the bounded channel keeps its bound.  Examples 1, 3 and 4 give their whole
\* result: main leaves the first two with every message and the last counts every
\* thread (main.rs:45-47,118-121,142-146).  A producer's send fails only if main
\* stopped waiting before all the messages of example 2 had come (main.rs:91-98).
ResultsAreExact ==
  /\ ChannelsTypeOK
  /\ \A k \in 1..3 : \A i \in DOMAIN History(k) :
       LET m == History(k)[i] IN m[1] \in Of(k) /\ m[2] = Before(History(k), i, m[1])
  /\ \A k \in {1, 3} :
       stage > k => received[k] = [i \in 1..Messages[k] |-> <<<<k, "p">>, i - 1>>]
  /\ stage = 5 => counter = Cardinality(Adders)
  /\ (\E q \in Producers : producer[q] = "panicked") => gaveUp

\* main returns: no receive waits for a sender that is never dropped, and no send for
\* a receive that never comes.
MainReturns == <>(stage = 5)
==============================================================================
