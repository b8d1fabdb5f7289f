------------------------------- MODULE MCHttp2 -------------------------------
(***************************************************************************)
(* The HTTP/2 programs in one instance.  `running` says which this         *)
(* behaviour is about: the nghttp2 client (against any server or the       *)
(* repository's own), the libcurl multi client, or the path helpers.       *)
(***************************************************************************)
EXTENDS Http2Pair, CurlTimers, ServerPaths

VARIABLE running

\* '%', '.', '/', '0', '2' and 'e': "%2e" is a dot and "%00" ends the string; a path ends
\* in memory or "?=" follows.
MCBytes     == {37, 46, 47, 48, 50, 101}
MCFollowing == {<<0, 0>>, <<63, 61>>}

\* A client whose connection was refused.
ClientOver ==
  /\ host = "any" /\ link = "refused" /\ inbox = <<>> /\ other = 0 /\ greeted = FALSE
  /\ submitted = 1 /\ sent = 0 /\ closed = {} /\ answered = {} /\ control = {"settings"}
  /\ limit = DefaultLimit /\ term = "no" /\ events = {"POLLIN", "POLLOUT"} /\ pc = "failed"

MCInit ==
  /\ running \in {"nghttp2", "timers", "paths"}
  /\ IF running = "nghttp2" THEN Init ELSE ClientOver
  /\ S!Init /\ CurlInit /\ PathsInit

MCNext ==
  /\ UNCHANGED running
  /\ \/ running = "nghttp2" /\ PairNext /\ UNCHANGED <<curlVars, pathVars>>
     \/ running = "timers" /\ CurlNext /\ UNCHANGED <<duoVars, pathVars>>
     \/ /\ running = "paths" /\ value = <<>> /\ DecodePath
        /\ UNCHANGED <<duoVars, curlVars>>

MCSpec == /\ MCInit /\ [][MCNext]_<<duoVars, curlVars, pathVars, running>>
          /\ PairFairness
==============================================================================
