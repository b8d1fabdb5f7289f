------------------------------ MODULE AsyncDns ------------------------------
(***************************************************************************)
(* The six programs of sockets/dns_lookup that resolve a name without      *)
(* blocking.  A lookup thread of the library does the work; the programs   *)
(* differ in how they wait for it and in who frees what it works on:       *)
(*                                                                         *)
(*   poll       posix_async/async_dns.cc: gai_error() in a loop            *)
(*   signal     posix_async/async_dns_signal.cc: a signalfd under epoll    *)
(*   thread     posix_async/async_dns_thread.cc: a callback thread, with   *)
(*              main in gai_suspend() for at most 15 s                     *)
(*   future     boost/dns.cc: a detached thread in io_service.run(), main  *)
(*              in future.get(); the io_service is a local of main         *)
(*   timer      boost/dns_poll_timer.cc: dns_io is polled when a timer     *)
(*              fires; the handler sets a new expiry but starts no wait    *)
(*   coroutine  boost/dns_coroutine.cc: nobody runs the io_service         *)
(*                                                                         *)
(* The programs are independent; `program` says which one this is.         *)
(***************************************************************************)
EXTENDS Naturals

VARIABLES program,
          lookup,   \* none, running, ok or failed
          notice,   \* none, sent or taken: the signal, callback or completion
          memory,   \* valid or freed: the request, or the io_service
          worker,   \* the thread in io_service.run() has not returned (future)
          fired,    \* the timer has fired
          missed,   \* the wait of main ended without the answer (signal, thread)
          shown,    \* nothing, addresses, or garbage (an uninitialized addrinfo)
          wild,     \* the threads that used freed memory
          mainAt    \* start, wait, unwinding (future: work is gone), leaving or exited

dnsVars == <<program, lookup, notice, memory, worker, fired, missed, shown, wild, mainAt>>

Programs == {"poll", "signal", "thread", "future", "timer", "coroutine"}

DnsTypeOK ==
  /\ program \in Programs
  /\ lookup \in {"none", "running", "ok", "failed"}
  /\ notice \in {"none", "sent", "taken"}
  /\ memory \in {"valid", "freed"}
  /\ worker \in BOOLEAN /\ fired \in BOOLEAN /\ missed \in BOOLEAN
  /\ wild \subseteq {"lookup", "callback", "run"}
  /\ shown \in {"nothing", "addresses", "garbage"}
  /\ mainAt \in {"start", "wait", "unwinding", "leaving", "exited"}

DnsInit ==
  /\ program \in Programs
  /\ lookup = "none"
  /\ notice = "none"
  /\ memory = "valid"
  /\ worker = (program = "future")
  /\ fired = FALSE
  /\ shown = "nothing"
  /\ missed = FALSE
  /\ wild = {}
  /\ mainAt = "start"

Alive == mainAt # "exited"

\* What a program prints that walks ar_result without asking gai_error(): a failed
\* lookup leaves ar_result at &servinfo, which nobody initialized.
Unchecked == IF lookup = "ok" THEN "addresses" ELSE "garbage"
Checked   == IF lookup = "ok" THEN "addresses" ELSE "nothing"
-----------------------------------------------------------------------------
\* The coroutine is queued on an io_service that nobody runs, and main spins: its
\* lookup never starts.
LookupStarted == IF program = "coroutine" THEN "none" ELSE "running"

\* main submits the lookup.  getaddrinfo_a, or the signalfd before it, may fail and
\* main returns.
Submit ==
  /\ mainAt = "start"
  /\ \/ /\ mainAt' = "wait"
        /\ lookup' = LookupStarted
     \/ /\ program \in {"poll", "signal", "thread"}
        /\ mainAt' = "leaving"
        /\ UNCHANGED lookup
  /\ UNCHANGED <<program, notice, memory, worker, fired, missed, shown, wild>>

\* The lookup thread writes its result into the request and gives notice.
LookupEnds ==
  /\ Alive /\ lookup = "running"
  /\ lookup' \in {"ok", "failed"}
  /\ notice' = IF program \in {"signal", "thread", "future"} THEN "sent" ELSE "none"
  /\ wild' = IF memory = "freed" THEN wild \cup {"lookup"} ELSE wild
  /\ UNCHANGED <<program, memory, worker, fired, missed, shown, mainAt>>

\* gai_error() is no longer EAI_INPROGRESS: print the result or the error.
PollSees ==
  /\ program = "poll" /\ mainAt = "wait" /\ lookup # "running"
  /\ shown' = Checked
  /\ mainAt' = "leaving"
  /\ UNCHANGED <<program, lookup, notice, memory, worker, fired, missed, wild>>

\* Mutant: only a lookup that succeeded is waited for.
SignalFound == notice = "sent" /\ lookup = "ok"

\* Mutant: epoll_wait does not wait (a timeout of 0).
SignalNotWaited == TRUE

\* epoll_wait returns with the signalfd.
SignalPending == notice = "sent"

\* What main does at the end of async_dns_signal.cc and async_dns_thread.cc.
FreeRequest ==
  /\ mainAt = "wait"
  /\ memory' = "freed"
  /\ mainAt' = "leaving"

\* Main reads the signal and prints, or the read fails; then it frees.
SignalRead ==
  /\ program = "signal" /\ SignalPending
  /\ \/ notice' = "taken" /\ shown' = Unchecked /\ UNCHANGED missed
     \/ missed' = TRUE /\ UNCHANGED <<notice, shown>>
  /\ FreeRequest
  /\ UNCHANGED <<program, lookup, worker, fired, wild>>

\* epoll_wait is interrupted and returns -1, which nobody checks: no event to look at.
SignalInterrupted ==
  /\ program = "signal"
  /\ missed' = TRUE
  /\ FreeRequest
  /\ UNCHANGED <<program, lookup, notice, worker, fired, shown, wild>>

\* gai_suspend returns: the request is done, 15 s are over, a signal came, or the
\* uninitialized tv_nsec made the timeout invalid.
SuspendReturns ==
  /\ program = "thread"
  /\ missed' = (lookup = "running")
  /\ FreeRequest
  /\ UNCHANGED <<program, lookup, notice, worker, fired, shown, wild>>

\* dnsCallback, in a thread of its own.
DnsCallback ==
  /\ program = "thread" /\ Alive /\ notice = "sent"
  /\ notice' = "taken"
  /\ IF memory = "freed"
     THEN wild' = wild \cup {"callback"} /\ UNCHANGED shown
     ELSE shown' = Unchecked /\ UNCHANGED wild
  /\ UNCHANGED <<program, lookup, memory, worker, fired, missed, mainAt>>

\* future.get() returns or throws; the end of the try block destroys the work, and
\* run() has nothing left to wait for.
FutureReady ==
  /\ program = "future" /\ mainAt = "wait" /\ notice = "sent"
  /\ notice' = "taken"
  /\ shown' = Checked
  /\ mainAt' = "unwinding"
  /\ UNCHANGED <<program, lookup, memory, worker, fired, missed, wild>>

\* The detached thread returns from run().
RunReturns ==
  /\ worker /\ mainAt \in {"unwinding", "leaving"}
  /\ worker' = FALSE
  /\ UNCHANGED <<program, lookup, notice, memory, fired, missed, shown, wild, mainAt>>

\* The io_service is destroyed, with the thread still inside run() or not.
ServiceDestroyed ==
  /\ mainAt = "unwinding"
  /\ memory' = "freed"
  /\ wild' = IF worker THEN wild \cup {"run"} ELSE wild
  /\ mainAt' = "leaving"
  /\ UNCHANGED <<program, lookup, notice, worker, fired, missed, shown>>

\* pollDNS, once: poll_one runs the completion handler if it is there by now.
TimerFires ==
  /\ program = "timer" /\ mainAt = "wait" /\ ~fired
  /\ fired' = TRUE
  /\ shown' = IF lookup = "running" THEN "nothing" ELSE Checked
  /\ UNCHANGED <<program, lookup, notice, memory, worker, missed, wild, mainAt>>

\* main returns and the process ends, its other threads with it.
ExitMain ==
  /\ mainAt = "leaving"
  /\ mainAt' = "exited"
  /\ UNCHANGED <<program, lookup, notice, memory, worker, fired, missed, shown, wild>>

DnsMain == \/ Submit \/ PollSees \/ SignalRead \/ SuspendReturns
           \/ FutureReady \/ ServiceDestroyed \/ ExitMain

DnsNext == \/ LookupEnds \/ DnsMain \/ SignalInterrupted
           \/ DnsCallback \/ TimerFires \/ RunReturns

DnsSpec == DnsInit /\ [][DnsNext]_dnsVars

\* getaddrinfo ends in the end, with an answer or with its own timeout, and every
\* thread is scheduled; an interrupt may come or not.
DnsFairness == /\ WF_dnsVars(LookupEnds) /\ WF_dnsVars(DnsMain)
               /\ WF_dnsVars(DnsCallback) /\ WF_dnsVars(TimerFires)
-----------------------------------------------------------------------------
\* The lookup thread writes to a freed request only when main's wait ended without the
\* answer (async_dns_signal.cc:86-110, async_dns_thread.cc:76-93); the programs without
\* such a wait, or a thread of their own, never use freed memory.  An uninitialized
\* addrinfo is printed only after a failed lookup, by the programs that do not ask for
\* its error (async_dns_signal.cc:96-102, async_dns_thread.cc:25-28).  A lookup that
\* succeeded is shown before the program ends, unless the answer was missed, except by
\* the callback thread and the timer (async_dns.cc:40-44, dns.cc:22-28).
SafeIfJoinedAndChecked ==
  /\ DnsTypeOK
  /\ "lookup" \in wild => missed
  /\ wild # {} => program \in {"signal", "thread", "future"}
  /\ shown = "garbage" => lookup = "failed" /\ program \in {"signal", "thread"}
  /\ mainAt # "wait" /\ lookup = "ok" /\ ~missed /\ program \in {"poll", "signal", "future"}
       => shown = "addresses"

\* The program ends, whether the lookup succeeds or fails, in all the variants that
\* wait for it.  The timer variant is done when its only timer has fired: a lookup that
\* is slower is never shown, whenever it ends (dns_poll_timer.cc:7-13, 37-40).
LookupProgramEnds ==
  /\ <>(mainAt = "exited" \/ fired \/ program = "coroutine")
  /\ [](fired /\ lookup = "running" => [](shown = "nothing"))
==============================================================================
