----------------------------- MODULE CurlTimers -----------------------------
(***************************************************************************)
(* The libcurl multi client, http2/libcurl_client: http2_multi_client.cc,  *)
(* CurlMultiInterface.h and timer.h.  main adds CNT handles to the multi   *)
(* handle and returns.  Adding one may make libcurl ask for a timer;       *)
(* CurlTimerCallback then calls CreateTimer, which                         *)
(*                                                                         *)
(*   - takes the largest key of m_Timers plus one for its id,              *)
(*   - starts a detached thread that keeps the address of t, a Timer in    *)
(*     the frame of CreateTimer,                                           *)
(*   - inserts a copy of t into m_Timers, and returns.                     *)
(*                                                                         *)
(* The thread looks at *t before and after its sleep and then calls        *)
(* timerTriggered.  By then t may be gone.  timerTriggered drives the      *)
(* transfers (curl_multi_socket_action), and libcurl may ask for a timer   *)
(* from there.                                                             *)
(*                                                                         *)
(* Thread 0 is main; thread t is that of the t-th timer.  Delays are left  *)
(* out: a sleep only has a shortest length.                                *)
(***************************************************************************)
EXTENDS Naturals

CONSTANTS CNT,        \* handles that main adds
          MaxTimers   \* bound: timers that libcurl asks for

ASSUME CurlAssumption == CNT \in Nat /\ MaxTimers \in Nat \ {0}

Timers  == 1..MaxTimers
Threads == 0..MaxTimers

VARIABLES
  handles,   \* handles added
  where,     \* main: out, or in libcurl (lib, made: in CreateTimer, back: out of it);
             \* a timer's thread: none, new, asleep, in libcurl, or ended
  made,      \* timers made
  owner,     \* of a timer: the thread whose CreateTimer made it
  m_id,      \* of a timer
  frame,     \* of a thread: the Timer in its frame of CreateTimer, 0 if there is none
  m_Timers,  \* the keys of the map
  driven,    \* timers that have called curl_multi_socket_action
  process    \* running, exited or crashed

curlVars == <<handles, where, made, owner, m_id, frame, m_Timers, driven, process>>

CurlInit ==
  /\ handles = 0
  /\ where = [c \in Threads |-> IF c = 0 THEN "out" ELSE "none"]
  /\ made = 0
  /\ owner = [t \in Timers |-> 0]
  /\ m_id = [t \in Timers |-> 0]
  /\ frame = [c \in Threads |-> 0]
  /\ m_Timers = {}
  /\ driven = {}
  /\ process = "running"

Inside(c) == where[c] \in {"lib", "made", "back"}
-----------------------------------------------------------------------------
\* http2POST: main enters curl_multi_add_handle.
AddHandle ==
  /\ process = "running" /\ where[0] = "out" /\ handles < CNT
  /\ handles' = handles + 1
  /\ where' = [where EXCEPT ![0] = "lib"]
  /\ UNCHANGED <<made, owner, m_id, frame, m_Timers, driven, process>>

\* Mutant: begin() for rbegin().
SmallestId(n) == IF m_Timers = {} THEN n = 1
                 ELSE n - 1 \in m_Timers /\ \A k \in m_Timers : n - 1 <= k

\* n is one more than m_Timers.rbegin()->first, or 1 if the map is empty.
NextId(n) == n - 1 \in m_Timers \cup {0} /\ \A k \in m_Timers : k < n

\* The timer callback: CreateTimer up to the return of setTimeout.
CreateTimer(c) ==
  LET t == made + 1 IN
  /\ process = "running" /\ where[c] = "lib" /\ made < MaxTimers
  /\ made' = t
  /\ owner' = [owner EXCEPT ![t] = c]
  /\ \E n \in 1..MaxTimers + 1 : NextId(n) /\ m_id' = [m_id EXCEPT ![t] = n]
  /\ frame' = [frame EXCEPT ![c] = t]
  /\ where' = [where EXCEPT ![c] = "made", ![t] = "new"]
  /\ UNCHANGED <<handles, m_Timers, driven, process>>

\* The rest of CreateTimer: the copy goes into the map, the Timer is destroyed.
InsertTimer(c) ==
  /\ process = "running" /\ where[c] = "made"
  /\ m_Timers' = m_Timers \cup {m_id[frame[c]]}
  /\ frame' = [frame EXCEPT ![c] = 0]
  /\ where' = [where EXCEPT ![c] = "back"]
  /\ UNCHANGED <<handles, made, owner, m_id, driven, process>>

\* libcurl returns, having asked for a timer or not: it always does for the first
\* handle.  A timer's thread is then done.
LeaveLibcurl(c) ==
  /\ process = "running"
  /\ where[c] = "back" \/ (where[c] = "lib" /\ made > 0)
  /\ where' = [where EXCEPT ![c] = IF c = 0 THEN "out" ELSE "ended"]
  /\ UNCHANGED <<handles, made, owner, m_id, frame, m_Timers, driven, process>>

\* Neither m_Timers nor a multi handle may be used by two threads at once.
Race ==
  /\ process = "running"
  /\ \E c, d \in Threads : c # d /\ Inside(c) /\ Inside(d)
  /\ process' = "crashed"
  /\ UNCHANGED <<handles, where, made, owner, m_id, frame, m_Timers, driven>>

Lost(t) == frame[owner[t]] # t   \* the Timer that the thread of t looks at is destroyed

\* The thread goes past a check of m_clear, which is false in every Timer: into its
\* sleep, or to the callback and libcurl.
TimerGoesOn(t) ==
  /\ process = "running" /\ where[t] \in {"new", "asleep"}
  /\ where' = [where EXCEPT ![t] = IF @ = "new" THEN "asleep" ELSE "lib"]
  /\ driven' = IF where[t] = "asleep" THEN driven \cup {t} ELSE driven
  /\ UNCHANGED <<handles, made, owner, m_id, frame, m_Timers, process>>

\* What else is in the place of a destroyed Timer: an m_clear that reads true, or a
\* callback that throws bad_function_call, which is caught.
TimerGivesUp(t) ==
  /\ process = "running" /\ where[t] \in {"new", "asleep"} /\ Lost(t)
  /\ where' = [where EXCEPT ![t] = "ended"]
  /\ UNCHANGED <<handles, made, owner, m_id, frame, m_Timers, driven, process>>

\* Or a callback that jumps anywhere, or the stack of a thread that has ended.
TimerCrashes(t) ==
  /\ process = "running" /\ Lost(t)
  /\ where[t] = "asleep" \/ (where[t] = "new" /\ where[owner[t]] = "ended")
  /\ process' = "crashed"
  /\ UNCHANGED <<handles, where, made, owner, m_id, frame, m_Timers, driven>>

\* The process ends with main.
CurlMainReturns ==
  /\ process = "running" /\ where[0] = "out" /\ handles = CNT
  /\ process' = "exited"
  /\ UNCHANGED <<handles, where, made, owner, m_id, frame, m_Timers, driven>>
-----------------------------------------------------------------------------
InLibcurl(c) == CreateTimer(c) \/ InsertTimer(c) \/ LeaveLibcurl(c)
CurlMain == AddHandle \/ CurlMainReturns \/ InLibcurl(0)
TimerThread(t) == TimerGoesOn(t) \/ TimerGivesUp(t) \/ TimerCrashes(t) \/ InLibcurl(t)

CurlNext == CurlMain \/ Race \/ \E t \in Timers : TimerThread(t)

CurlSpec == CurlInit /\ [][CurlNext]_curlVars

\* The threads are scheduled.
CurlFairness == WF_curlVars(CurlMain) /\ \A t \in Timers : WF_curlVars(TimerThread(t))
CurlLiveSpec == CurlSpec /\ CurlFairness
-----------------------------------------------------------------------------
CurlTypeOK ==
  /\ handles \in 0..CNT /\ made \in 0..MaxTimers
  /\ where \in [Threads -> {"out", "none", "new", "asleep", "lib", "made", "back", "ended"}]
  /\ owner \in [Timers -> Threads] /\ m_id \in [Timers -> Nat]
  /\ frame \in [Threads -> 0..MaxTimers]
  /\ m_Timers \subseteq Nat /\ driven \subseteq Timers
  /\ process \in {"running", "exited", "crashed"}

\* Two timers have the same id only if two threads were in CreateTimer at once, since
\* one thread inserts its timer before it reads the map again (timer.h:33-39).  A
\* timer's thread ends without driving the transfers only once CreateTimer has put the
\* copy into the map and left the frame (timer.h:49-59).  Every variable keeps its type.
TimersApart ==
  /\ CurlTypeOK
  /\ \A t, u \in 1..made : t # u /\ m_id[t] = m_id[u] => owner[t] # owner[u]
  /\ \A t \in 1..made : where[t] = "ended" /\ t \notin driven => m_id[t] \in m_Timers

\* "Here we use curl multi interface to send many requests together"
\* (http2_multi_client.cc:3-5): the transfers are driven, which only
\* curl_multi_socket_action does, unless undefined behaviour ends the process first.
RequestsAreSent == <>(driven # {} \/ process = "crashed")
==============================================================================
