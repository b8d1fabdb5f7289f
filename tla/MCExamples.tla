----------------------------- MODULE MCExamples -----------------------------
(***************************************************************************)
(* The small programs, which share nothing, in one instance.  `running`    *)
(* says which of them this behaviour is about; the others stay where they  *)
(* are: a lookup and the channel examples in a state they may end in, the  *)
(* socket pairs without a client, the rest in their initial states.        *)
(***************************************************************************)
EXTENDS AsyncDns, Channels, EchoPairs, RedisModule, DscpFilter, MetricsRegistry, Sampler,
        RawPacket

VARIABLE running

\* The channel examples, scaled down: two messages for channels 1 and 2, and one more
\* than the capacity for the bounded channel.
MCMessages == <<2, 2, 3>>

\* Arguments of EXAMPLE.PARSE: the words, a text, and numbers at both ends of the range.
MCArguments == {<<"SUM">>, <<"PROD">>, <<"text">>} \cup ({"long"} \X {-2, 1})

\* Headers at both ends of the range of DSCP and next to it.
MCNumbers == {0, 46, 63, 64, 255}

\* Both ends of the range, its middle, and words with which the first fold of the sum carries.
MCAddressWords == {0, 18914, 18915, 32768, 65535}

DnsOver ==
  /\ program = "poll" /\ lookup = "ok" /\ shown = "addresses" /\ mainAt = "exited"
  /\ notice = "none" /\ memory = "valid"
  /\ worker = FALSE /\ fired = FALSE /\ missed = FALSE /\ wild = {}

ChannelsOver ==
  /\ stage = 5
  /\ chan = [k \in 1..3 |-> <<>>]
  /\ sent = [q \in Producers |-> Messages[q[1]]]
  /\ producer = [q \in Producers |-> "ended"]
  /\ received = [k \in 1..3 |->
       IF k = 2 THEN <<>> ELSE [i \in 1..Messages[k] |-> <<<<k, "p">>, i - 1>>]]
  /\ gaveUp = TRUE
  /\ counter = Cardinality(Adders) /\ holder = "none"
  /\ adder = [a \in Adders |-> "ended"]

PairsOver ==
  /\ pair = "blocking" /\ server = "up" /\ answered = {}
  /\ client = [c \in Conns |-> "never"] /\ handler = [c \in Conns |-> "none"]
  /\ peer = [c \in Conns |-> "open"]
  /\ inbox = [c \in Conns |-> 0] /\ outbox = [c \in Conns |-> 0]

Init ==
  /\ running \in {"lookup", "channels", "pairs", "redis", "dscp", "metrics", "sampler",
                  "raw"}
  /\ IF running = "lookup" THEN DnsInit ELSE DnsOver
  /\ IF running = "channels" THEN ChannelsInit ELSE ChannelsOver
  /\ IF running = "pairs" THEN PairsInit ELSE PairsOver
  /\ RedisInit /\ DscpInit /\ MetricsInit /\ SamplerInit /\ RawInit

threadVars == <<dnsVars, chanVars, pairVars>>
callVars   == <<redisVars, dscpVars, metricsVars, samplerVars, rawVars>>

Concurrent ==
  \/ running = "lookup" /\ DnsNext /\ UNCHANGED <<chanVars, pairVars>>
  \/ running = "channels" /\ ChannelsNext /\ UNCHANGED <<dnsVars, pairVars>>
  \/ running = "pairs" /\ PairsNext /\ UNCHANGED <<dnsVars, chanVars>>

Calls ==
  \/ /\ running = "redis" /\ argv = <<>> /\ Command
     /\ UNCHANGED <<dscpVars, metricsVars, samplerVars, rawVars>>
  \/ running = "dscp" /\ DscpNext /\ UNCHANGED <<redisVars, metricsVars, samplerVars, rawVars>>
  \/ running = "metrics" /\ MetricsNext /\ UNCHANGED <<redisVars, dscpVars, samplerVars, rawVars>>
  \/ /\ running = "sampler" /\ ratio = 0 /\ SamplerNext
     /\ UNCHANGED <<redisVars, dscpVars, metricsVars, rawVars>>
  \/ running = "raw" /\ RawNext /\ UNCHANGED <<redisVars, dscpVars, metricsVars, samplerVars>>

Next ==
  /\ UNCHANGED running
  /\ \/ Concurrent /\ UNCHANGED callVars
     \/ Calls /\ UNCHANGED threadVars

vars == <<threadVars, callVars, running>>

Spec == Init /\ [][Next]_vars /\ DnsFairness /\ ChannelsFairness /\ PairsFairness
==============================================================================
