---------------------------- MODULE MCEpollServer ----------------------------
(* An instance of EpollServer for TLC. *)
EXTENDS EpollServer

CONSTANTS c1, c2, c3

MCClients == {c1, c2, c3}

\* Nothing but their order of arrival tells the clients apart, and no client has
\* to connect: it is enough to look at behaviours in which c1 is the first to
\* connect and c3 the last.
ArriveInOrder ==
  /\ cl[c2] # "none" => cl[c1] # "none"
  /\ cl[c3] # "none" => cl[c2] # "none"
==============================================================================
