# TLA+ models of Client-Server

The repository is a collection of small clients, servers and experiments. They
share no code, so this project has one module per program or pair of programs
and composes the two ends of a pair where both are in the repository. Paths are
relative to `src/`.

## 1. Inventory

| Part | Source | State and concurrency | Module |
|---|---|---|---|
| Rust web server | `concurrency/rust/rust_web_server` | main thread, workers, channel, mutex | `ThreadPool`, `JobPool` |
| Pet store, data | `k8s/example-pod/handlers.go`, `main.go` | three maps, two counters | `PetStoreUsers`, `PetStore` |
| Pet store, lock | same | one goroutine per request around `ps.mu` | `PetStoreLock` |
| epoll echo server | `sockets/epoll/epoll_server.cc` | one thread, edge-triggered epoll, many clients | `EpollServer` |
| nghttp2 server | `http2/nghttp2_server` | the same loop and one session pointer; helpers for paths | `EpollServer` (`app = "http2"`), `ServerPaths` |
| nghttp2 client | `http2/nghttp2_client` | poll loop, session queue | `Http2Client` |
| nghttp2 client with nghttp2 server | both | two processes and a connection | `Http2Pair` |
| libcurl multi client | `http2/libcurl_client` | detached timer threads over a dead stack frame, a map shared by threads | `CurlTimers` |
| libcurl easy client | same | depends on a private libcurl | not modelled |
| Raw socket client | `sockets/raw_socket_client.cc` | checksum arithmetic | `RawPacket` |
| Blocking socket pair | `sockets/socket_server.cc`, `socket_client.cc` | two processes, full socket buffers, SIGPIPE | `EchoPairs` |
| Asio pair | `sockets/asio` | one coroutine per connection | `EchoPairs` |
| TLS pair | `crypto/server`, `crypto/client` | one goroutine per connection, a client that dials for ever | `EchoPairs` |
| Name lookups | `sockets/dns_lookup/posix_async`, `boost` | lookup thread, signal, callback, future, timer | `AsyncDns` |
| Channel examples | `concurrency/rust/examples` | producers, bounded channel, timeout, mutex | `Channels` |
| ARP ping | `sockets/dns_lookup/arp.cc` | one socket, failures at every call | `ArpPing` |
| Metrics registry | `opentelemetry/prometheus` | two maps, raw and shared pointers | `MetricsRegistry` |
| Sampler | `opentelemetry/jaeger/sampler.h` | arithmetic in doubles | `Sampler` |
| DSCP filter | `proxy/envoy/dynamic_modules/dscp_filter` | streams that share a downstream socket | `DscpFilter` |
| Redis module | `database/redis/module` | a function of its arguments | `RedisModule` |
| Everything else | see section 7 | no state of its own | not modelled |

`PROJECT.json` has the same list with a note for each part, the source lines
behind every definition, and the hazards, each at the line where it bites.

## 2. The modules

**ThreadPool** models `pool.rs` and `main.rs`. `st[c]` follows a connection from
the backlog through the channel to its outcome; `mainPc` and `pc[w]` are the
statements the threads are at. The one-line worker loop is split where another
thread can come in between: `Lock`, `Recv` (the guard is dropped at the end of
the statement), `Finish` or `Panic`. `Unwind` is a panic in a worker wherever it
happens: it releases and poisons the mutex if the worker's guard is alive
(`lock = w`), and `Die` drops the worker's `Arc`, with the last one the receiver
and all queued jobs. When the
main thread unwinds, the sender is dropped first (`DropPool`) and the process
ends later (`Exit`); the workers run in between. `sent` and `started` are
history variables.

**JobPool** is the abstract pool: jobs are pending in order, at most `capacity`
are active, a failed job costs one unit of capacity, and without capacity
nothing is pending. `ThreadPool!ImplementsJobPool` is the refinement, with the
queue as `pending` and the live workers as `capacity`.

**PetStoreUsers** and **PetStore** have one action per handler. A handler holds
`ps.mu` from its first statement to its return, so it is atomic here. `resp` is
the last response. The stored `Id` is kept as the pointer it is: `Alias` is
`&ps.nextPetID`, and `Deref` reads through it at the time the id is shown.
Names, tags and photos are left out, and so are bodies of pet and order requests
that do not bind, which are refused before anything is changed.

**PetStoreLock** is the same server one level down. Three tables follow the
handlers: `LockOf` is the call on `ps.mu` in the first statement, `Writes` and
`Reads` are the fields of the store that the handler uses, read off its body and
independent of its lock. A handler is inside from its first statement to its
return, `LogoutUser` too, which takes no lock. The
steps of the RWMutex (`Announce`, `Enter`, `Unlock`) are those of Go's
implementation: writers exclude one another by a mutex, an announced writer
keeps new readers out, and its release lets all waiting readers in.

**EpollServer** is both epoll loops with the kernel they rely on: accept queue,
receive buffers and an edge-triggered ready list. Three facts of the code shape
it: `F_SETFD` instead of `F_SETFL` (calls block), `ev.data.fd = epfd` (an event
does not name its connection), and `close(events[i].data.fd)` (the epoll
instance is what is closed). In the HTTP/2 server the session is `none`, `live`
or `deleted`.

**Http2Client** is the poll loop around an nghttp2 session. One action,
`Iterate`, is one turn: receive all, send what the session allows, `ctl_poll`,
submit one more request, evaluate the loop condition. The session and the server
are external and described by how the client uses them. `host` says whether the
server is any HTTP/2 server or the repository's own.

**Http2Pair** composes `Http2Client` with one connection of `EpollServer`
(`S == INSTANCE EpollServer WITH ...`): a turn of the client that writes is a
`Send` of the server's client, and a client that is killed is a `Leave`. Nothing
comes back: `PairIsSilent` says what each of them has done and may still do.

**ServerPaths** has `percent_decode` and `check_path` as functions of byte
sequences, beside a reference definition of each. The final copy of
`percent_decode` may read two bytes behind its argument, so these are an
argument of the model.

**CurlTimers** follows the threads of the multi client through `CreateTimer`.
`frame[c]` is the `Timer` on the stack of thread `c`, whose address the timer's
thread keeps; `m_Timers` are the keys of the map. A look at a `Timer` that is
gone is undefined behaviour: the thread goes on, gives up, or crashes
(`TimerGoesOn`, `TimerGivesUp`, `TimerCrashes`), and two threads inside libcurl
or the map at once may crash too (`Race`). libcurl is external.

**RawPacket** is the header as ten words with the checksum's two folds, and
the calls of `main` that may fail.

**EchoPairs** has one state machine for three pairs; `pair` is chosen in `Init`
and the guards say where they differ. A connection has a bounded buffer in each
direction; `peer` is what the server's TCP knows of the client. A write
after the client's FIN succeeds and draws a reset, which arrives before the next
write, and makes that one EPIPE, or later. A reset that the client sent itself
fails the first write with ECONNRESET and the next with EPIPE. Only the blocking
server takes EPIPE with SIGPIPE.

**AsyncDns** does the same for six lookup programs with `program`. `memory` is
what main may free while another thread uses it, `wild` records which threads
used it after that, and `shown` is what is printed, garbage included: a failed
lookup leaves `ar_result` at an uninitialized `addrinfo`. `missed` says that
main's wait ended without the answer: an interrupted `epoll_wait` or a failed
`read` in `async_dns_signal.cc`, a `gai_suspend` that returns early in
`async_dns_thread.cc`. Neither is checked, and main frees the request.

**Channels** runs the four examples in order. Producers are detached, so they
live on while main is in a later example, and their next send panics.

**RedisModule** is `ParseCommand` with the helpers it calls, as a function of the
argument list and of what `x` and `y` hold: they are out parameters, declared
without a value and shared by SUM and PROD, and a parse that fails half way has
written the first of them. Integers have `Bits` bits and wrap.

**DscpFilter** follows the streams of one downstream connection. A stream has a
filter, and an upstream connection to mark, of its own; the downstream socket is
shared, so a response without `x-dscp` goes out with the mark of an earlier one.

**MetricsRegistry** follows the instruments by object, so that it can tell a
pointer to a live one from a pointer to a freed one: a second
`CreateSyncInstrument` of a name returns a pointer that is dead from the start.

**Sampler** does the arithmetic of `CalculateThreshold` in integers and rounds
where a double would. The widths are constants: 32 bits for half a threshold, 53
for the mantissa and 1074 below the point in the code, which `SamplerAssumption`
allows, and fewer in the instance.

**ArpPing** follows which sockets are open through the stages of `test_arping`.

`MC*` modules instantiate these for TLC. `*Proofs` modules hold the theorems.
Operators whose comment starts with "Mutant" are plausible wrong versions of the
definition after them. No specification uses them; they show that a property
fails when the code is wrong in that way.

## 3. Runs

| Run | Instance | Distinct states | Shows |
|---|---|---|---|
| `pool` | 4 connections, 2 workers, a good and an undecodable line | 337,278 (with symmetry) | order, exactly-once, no lost job, mutex, cost of a panic, refinement of `JobPool` |
| `pool_live` | 3 connections, 2 workers | 136,614 | queued jobs start; every connection settles |
| `store` | 5 pet ids, 3 order ids, 2 names, arrays of up to 2 | 26,817 | ids, keys, inventory, orphans, users |
| `pet_get` | same handlers | violation | a pet shows another id than the one asked for |
| `petlock` | 3 requests | 57,959 | no race on a field of the store, no lost wake-up, every request answered |
| `petlock_health` | 2 requests | violation | an unfinished body blocks the health check |
| `epoll` | 3 clients, 2 chunks | 171,361 | echoes, which connection is served, blocking accept, why the server stops, stale sessions |
| `epoll_hangup` | 2 clients | violation | a hang-up closes the epoll instance |
| `http2` | the HTTP/2 programs, one in each behaviour | 57,988 | the first reply ends the client, and nothing is sent after it; client and server of the repository exchange one request and wait for each other; timer ids; decoded paths |
| `curl_multi` | 4 handles, 3 timers | violation | the multi client ends before a request is sent |
| `examples` | the other small programs, one in each behaviour | 35,680 | use after free and garbage only where the answer was missed or nobody joins or checks; no message lost; who waits for whom in the echo pairs, no awaited reply lost, SIGPIPE, leaks; Redis replies; DSCP marks; instrument pointers; sampled share; IP checksum |
| `arp` | no bounds | violation | a successful bind closes its socket |

Bounds and why they are enough:

- `pool`: four connections let both workers die while one connection is queued
  and another is about to be sent. Workers and connections are symmetric. Two
  workers are the least that can contend for the mutex.
- `store`: ids 1 to 5 leave room for two automatic pets beside the samples and
  for a client that claims id 4 first. No handler touches both users and
  pets or orders, so `OneMapAtATime` stops exploring where both have changed;
  `resp` is not part of the view because no action reads it.
- `petlock`: three requests give a reader inside, a writer announced and a
  third request that has to wait. The six handlers have between them every
  kind of lock, handlers with and without a body and an early return, all three
  maps and both counters; the proof is for all handlers.
- `epoll`: three connections give batches with two connections in them and one
  that is accepted later. `MaxSend` counts chunks of all clients. The clients
  differ only in when they arrive, so `ArriveInOrder` explores one order of
  arrival; a symmetry set would not be sound for `LatestIsRead`.
- `http2`: every turn that goes on needs a frame from the server or
  POLLOUT, so the number of other frames bounds the turns. Limit 1 makes
  requests wait and 100 never does. With the repository's server nothing needs a
  bound: the pair comes to rest by itself. Three timers let main and two timer
  threads be in `CreateTimer` at once; three handles (the code has four, as
  `curl_multi` does) give main a turn between two timers. Paths have up to
  five bytes of `%`, `/`, `.`, `0`, `2` and `e`, enough for an escape before the
  last two bytes and across them, for an escaped dot, for an escaped zero, which
  ends the C string, and for `/../`.
- `examples`: the programs share nothing, so `MCExamples` runs one of them in
  each behaviour. The bounded channel gets one message more than it holds.
  Redis commands have up to five arguments, enough for a SUM that fails after its
  first operand before a good PROD; `x` and `y` start with any two numbers, and
  numbers have two bits, so both operations overflow. Two streams share a
  socket. Three instruments under two names give a name that is created, created
  again, destroyed and created once more. A threshold has 10 bits instead of 64
  and a double 6 instead of 53, so ids are still wider than a double and every
  id can be counted; the sampled share is off by at most two steps of a double.
  In the echo pairs, three connections of the TLS client give one that is served
  while another waits, and `Cap = 2` is the least with which a dead client has
  left the two messages that end in SIGPIPE. The address words include the two
  that make the first fold carry again.

Deadlock checking is off where a program may really end or come to rest: when
the web server has exited, when the epoll server waits or has stopped, when the
HTTP/2 client is done or waits for ever, and in the small programs. It is on for the store and its lock.

### Fairness

- Threads, goroutines and processes that can run are scheduled: weak fairness
  of their steps.
- `std::sync::Mutex` promises no order, so only "some worker gets the lock" is
  fair. Go's `sync.Mutex` has a starvation mode that hands the lock to the
  longest waiter, which justifies strong fairness of `Announce`.
- Clients owe nothing. `EveryConnectionSettles` assumes as a premise that
  clients speak or hang up, and `EveryRequestAnswered` that they finish their
  bodies. `petlock_health` drops that assumption.
- `getaddrinfo` ends, with an answer or with its own timeout. An HTTP/2 server
  answers the requests it has received unless it closes the connection; the
  repository's own server gets only the fairness of its thread.
- Every thread of the libcurl client is scheduled, main included. Nothing says
  that a timer's sleep ends before main returns.

## 4. Disagreements between the code and its documentation

1. **`pet_get`**: `AddPet` stores a pointer to the counter
   (`handlers.go:25`), so after two automatic adds `GET /pet/4` returns a pet
   with id 5. The API description says "ID of pet to return".
2. **`petlock_health`**: bodies are read under `ps.mu` without a timeout. One
   unfinished body leaves `/store/inventory`, the health check of the image,
   unanswered for ever.
3. **`epoll_hangup`**: the comment at `epoll_server.cc:153` says that the socket
   is closed; what is closed is the epoll instance.
4. **`arp`**: the comment at `arp.cc:169` says that `bind_arp` creates a socket
   that listens; `ret` stays -1 and the cleanup closes the socket each time, so
   the request is never sent.
5. **`curl_multi`**: the comment at `http2_multi_client.cc:3-5` says "Here we use
   curl multi interface to send many requests together". Only the timer threads
   call `curl_multi_socket_action`, and `main` returns without waiting for them.

Some passing properties describe conduct that a reader may not expect, and hold
of the code as it is: `PairBlocksItself`, `EveryClientAnswered`,
`PairHangs`, `SafeIfJoinedAndChecked`, `StaleSessionNeedsTwo`,
`SupersededIsLeft` (a connection that is not the latest is never read again), the
last parts of `EveryClientAnswered` (the TLS client runs out of descriptors, and
each of its connections leaves a spinning goroutine) and of
`PointersDieByDestroyOnly` (which pointers are dead when they are handed out).
They say exactly when the conduct occurs, not that it is wanted.
`PathsAreDecoded` leaves out paths with an escape in their last two bytes, which
`percent_decode` leaves behind or steps over; the function has no caller. `tracer_test.cc:57` expects ten
exported spans with a ratio of 0.1; the forced sampling it relies on is commented
out in `sampler.h:80`, so what it sees depends on the trace ids.

## 5. What is proved

TLAPS checks these for every value of the constants that meets the named
assumptions (`PoolAssumption`, `LockAssumption`, `StoreAssumption`,
`UsersAssumption`, `EpollAssumption`, `ClientAssumption`, `PathsAssumption`,
`PairAssumption`, `CurlAssumption`, `RawAssumption`, `ChannelsAssumption`,
`DscpAssumption`, `RedisAssumption`, `PairsAssumption`, `SamplerAssumption`).

- **ThreadPoolProofs**. `PoolInv` is `TypeOK`, `Hands`, `MutexOnlyInRecv` and
  `PanicNeverPoisons` together. `Hands` (main has a stream when it is about to
  execute it, a worker has a job while it runs one) is what `TypeOK` lacks to be
  inductive: without it `Execute` and `Finish` might index `st` outside its
  domain. The poisoning fact depends on the mutex fact: `Unwind` poisons when the
  guard is alive, a worker in a job does not hold it (`UnwindPoisons`), and so only
  the `unwrap` of `recv` in a pool that is being dropped does. From it: `PoolTypeCorrect`,
  `MutexReleasedBeforeJob`, `JobsDoNotPoison`. `JobsTakenInOrder` (`ChannelFifo`)
  is inductive relative to `PoolInv`; its lemmas are about moving the head of
  one sequence to the end of another, and about what the death of the last
  worker leaves of the order. `NoJobIsLost` (`NoJobLost`) needs more: that a
  connection is in the channel once says nothing after the next `Execute` unless
  main's connection is known to be in no other place. `Places` therefore follows
  every connection from the listener on: `Holds(s, f, x)` says that a sequence
  has exactly the connections of status `x`, each once, and `MoveIn`, `MoveOut`
  and `MoveOne` say what a move does to it.
  `PoolRefinement`: every step of `ThreadPool` is a step of `JobPool` or a
  stutter. `Places` gives a surjection from the workers that run a
  job to the running jobs, so there are fewer of these than live workers while
  one worker has none (`ActiveBound`); this is the guard of `Start` and
  `Retire`. `PoisonedIsEmpty` is the other invariant: a worker that dies at
  `lock()` drops nothing, because a poisoned mutex means an empty channel.
- **PetStoreProofs**. `StoreInv` is the types of pets, orders and counters and
  `IdsCoherent`; the counter is at least 3 because the sample pets have taken 1
  and 2. Results: `StoreInvariant`, `StoredIdsCoherent`, and the action property
  `NoIdGivenTwice` (`AutomaticIdsDistinct`): by `IdsCoherent` every automatic
  key is at most the counter, and the new key is one more than it.
  `OrphansOnlyByDeletePet` (`OrphansComeFromDeletePet`) goes through the handlers:
  only one of them takes a pet out of the map, and `PlaceOrder` looks first.
  `InventoryAgrees` (`InventoryMatchesSearch`) has both read the same set of pets,
  status by status; a status that no pet has is missing in the inventory.
  `UserInv` is the type of `users` and `UsernamesCoherent`. The loop over an array
  is a recursive function: `RoundsExist` shows that it has a value for every
  length and `LastOfEachName` what that value is, from which
  `UsersUnderTheirNames` (`UsernamesCoherent`) and `UsersChangeByName`
  (`OnlyNamedUsersChange`) follow.
- **EpollServerProofs**. `EpollInv` has four parts. `ListsInv` says who may be in
  the accept queue, on the ready list and in the batch, each once, and that an
  event is still true when the server comes to it. This is what
  `AcceptDoesNotBlock` (`AcceptNeverBlocks`) needs, and it is inductive only
  because the listening socket is in a batch at most once. `ChunksInv` says where
  the chunks of a client are: the last ones in its buffer, the ones before echoed.
  It gives `EchoesAreInOrder` (`EchoesInOrder`) although an event may make the
  server read another connection. `LeftInv` ties a closed `epfd` to a client that
  left, for `ServerOutlivesItsClients` (`StopsOnlyAfterLeave`). `SessionInv` keeps,
  from the deletion of the session on, a client that is no longer in the batch;
  the next event is therefore a second client's, which is `OneClientKeepsSession`
  (`StaleSessionNeedsTwo`). `LatestAloneIsServed` (`SupersededIsLeft`) goes through
  the actions: what is read and answered is always `conn`, and `Accept` sets it to
  a connection that was still in the queue.
- **Http2ClientProofs**. The nghttp2 client: while it polls, no reply has been read and the
  session is not terminated (`StillOpen`); so each turn sends up to the limit or
  reads the reply that ends it (`Turn`). `RepliesGiven` keeps the known answers
  among those given. Results: `OnlyTheNewestWaits`, `FirstReplyEndsTheLoop`, and
  `ClientInPair`, the same two with the repository's server and with interrupts.
  `OwnServerIsSilent` (`PairIsSilent`, the first conjunct of `PairHangs`) has the
  joint control state as its invariant: the client is before or after its only turn
  (`OnlyTurn`), and the server waits for the connection (`Listening`), serves it
  (`Serving`) or has seen it end (`Over`). An event with a hang-up is reported only
  after the client is gone, so the session is deleted once and never used after.
  The libcurl multi client: a thread has a `Timer` in its frame exactly while it is in
  `CreateTimer`, and a timer is in its maker's frame or in the map; so a thread
  that takes an id above all keys takes a new one: `TimersStayApart`.
- **ServerPathsProofs**. `EveryPathIsDecoded` (`PathsAreDecoded`) for
  paths of any length and any two bytes behind them. `percent_decode` and the
  reference are both scans from the end of the path; `ScanExists` and `ScanType`
  are their induction, `EscapeValue` shows that the two hexadecimal digits mean
  the byte the reference looks for, and `LoopIsReference` that the scans agree
  where no escape ends in the last two bytes. `CheckPathIsExact` compares the
  searches of `check_path` with a definition by the segments of the path.
- **ConcurrentProofs**. Programs whose threads or processes wait for one another.
  - The lock of the pet store: `LockInv` adds to exclusion and wake-up who may be in
    which state: a writer that drains or is inside owns the mutex, and only
    readers block. Release is one lemma, used by both ways of returning.
    `HandlersDoNotRace` (`NoFieldRace`) joins this with the tables: every handler
    that writes a field takes `Lock`, and every handler that touches one takes a
    lock. Results: `LockInvariant`, `HandlersDoNotRace`, `WaitersAreWoken`.
  - The lookups: main leaves its wait only with a notice, or a `gai_error`, that the
    lookup gave after its last write, unless it misses the answer; so a lookup runs
    beside a freed request only after a missed answer (`DnsInv`). Result:
    `LookupsAreSafe` (`SafeIfJoinedAndChecked`).
  - The socket pairs: a client of the asio or the TLS server has one message under
    way while it waits and none otherwise (`NothingUnderWay`), and a server sees
    only the end of clients that are gone (`EndsAreSeen`; the connections of the
    TLS client end together). Result: `PairsLoseNoReply` (`NoReplyLost`).
- **TelemetryProofs**.
  - Metrics: a pointer to a live instrument points to the one that the map owns
    under the pointer's name, and no two names own the same (`Owned`). `BornDead`:
    the pointer that `CreateSyncInstrument` returns is dead at once exactly when the
    map kept an earlier object of that name. Result: `PointersOutliveOtherCalls`
    (`PointersDieByDestroyOnly`).
  - Sampler: `SamplerHonoursRatio` (`RatioIsHonoured`) for any widths that
    `SamplerAssumption` allows. The provers know nothing of powers of two, so their
    laws come from counting subsets (`TwoToCounts`). `RoundNear` bounds what a
    rounding moves and `RoundBelow` says what it does not pass; `HalvesAddUp` and
    `HalvesFit` show that the two halves add up to the ratio's share of 2^64
    without a wrap (`ThresholdNear`). The threshold of a trace id is the id up to
    the last bit of a double (`IdNear`), since `(double)UINT64_MAX` is 2^64;
    `SampledCount` turns both into the number of ids that are sampled.
- **ExamplesProofs**. Four programs that share nothing.
  - Raw packet: `ChecksumVerifies` is the arithmetic: two folds leave a number
    below 65536 that is congruent to the sum modulo 65535, so the sum with its
    complement is a positive multiple of 65535. `SentHeaderVerifies` applies it
    to `main`.
  - DSCP filter: `MarksAreAskedFor` (`MarksComeFromTheirHeaders`) needs that a
    stream that has not responded has no response header, so that no later
    callback takes away the header a mark came from.
  - Redis: `FirstWordDecides` (`RepliesFollowFirstWord`) for argument lists of any
    length and any values left in `x` and `y`; the search for a word stops at its
    least place, and a parse that succeeds has written both operands (`ParsedAfter`).
  - Channels: every message carries the number of its producer's messages before
    it (`HistoryInv`), and while the receiver lives a producer has as many messages
    in the history as it has sent (`CountInv`). So when main has all the messages
    of example 2 no producer has one left, and a send fails only after a timeout.
    The counter counts the threads that have ended (`CounterInv`). Results:
    `ChannelsInvariant`, `ExamplesGiveTheirResults` (`ResultsAreExact`).

The library's induction rules take a predicate as a parameter, which these
provers cannot instantiate. Where a proof needs induction over data it takes the
set of the numbers for which the claim holds and shows that no least number is
outside it (`Induction` and `Least` in the modules that use them).

Only model-checked:

- every liveness property, since the prover has neither fairness nor `ENABLED`:
  `QueuedStarts`, `EveryConnectionSettles`, `EveryRequestAnswered`,
  `LatestIsRead`, `ClientStops`, `PairHangs` (its first conjunct apart),
  `LookupProgramEnds`, `MainReturns`, `PairBlocksItself`, `EveryClientAnswered`;
- the module `ArpPing`, whose run shows a disagreement.

Every invariant and every action property of the passing runs is a theorem.

## 6. Assumptions of the models

- epoll clients read their echoes, so the server's `write` does not wait; no
  client aborts a connection with `SO_LINGER`.
- HTTP/2 frames are small enough for the socket to take, and the server sends
  no GOAWAY. A poll that reports an error after a good turn counts as a failed
  connection.
- `socket_client` is connected when it sends (its `connect` failure is ignored
  by the code and leads to sends that fail for ever).
- In the echo pairs, descriptors run out in the client that dials (TLS); that the
  blocking server, which leaks its sockets too, runs out is left out.
- libcurl asks for a timer when the first handle is added and may do so in any
  later call; it is not safe to enter from two threads.
- `test_http2_client_server.sh` puts a proxy between the HTTP/2 client and
  server; `Http2Pair` connects them directly.
- Envoy runs the callbacks of one stream in order, request before response.
- The instruments of a name, and the SDK's own table of them, are not shared
  between threads.
- The text of messages, pages, logs and certificates is left out everywhere.
- The handlers of the pet store carry the build tag `tools` and call generated
  code; the model is of the handlers as written.

## 7. Not modelled

- **nghttp2 server, session callbacks** (`on_header`, `on_frame_recv`,
  `error_reply` and the stream list): only the empty buffer of the last `read`
  reaches the session, so no callback is ever entered and a model of them would
  be of states the program cannot be in.
- **libcurl easy client**: whether a heap cell is freed once, twice or never depends
  on how often libcurl calls `sockopt_callback`. It is registered with
  `CURLOPT_HTTP2_SOCKOPTFUNCTION` (`http2_easy_client.cc:27`), an option of a private
  libcurl (`http2.mk:1-2`) that the repository neither has nor describes.
- **libcurl multi client**: `setInterval` and `CurlSocketCallback` have no caller, and
  `util.h` only prints.
- **Tracer** (`tracer.h`, `tracer.cc`): forwards to the SDK. Its span map and
  deques are never filled (`SaveSpan` and `ResumeSpan` are commented out); the
  sampler is the part with a decision in it.
- **gRPC hello, Go HTTP/2 client and server, xDS server, Kubernetes operator,
  wasm filters, blocking lookup, logging**: one call into a framework each, whose
  behaviour is the framework's. The reconciler of the operator is the generated
  skeleton and changes nothing.
- **Postgres script, debugging examples, argument helpers**: no state that
  outlives a call.
