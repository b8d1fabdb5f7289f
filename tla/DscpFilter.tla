----------------------------- MODULE DscpFilter ------------------------------
(***************************************************************************)
(* The Envoy filter of proxy/envoy/dynamic_modules/dscp_filter on one      *)
(* downstream connection: each stream has a filter of its own, but all     *)
(* responses go out through the same socket.  The x-dscp header is absent, *)
(* a number that fits a u8, or text that does not parse.                   *)
(***************************************************************************)
EXTENDS Naturals

CONSTANTS Streams,
          Numbers,          \* header values that parse as a u8
          NoHeader, Text    \* no header, and one that does not parse

ASSUME DscpAssumption == Numbers \subseteq Nat /\ {NoHeader, Text} \cap Numbers = {}

VARIABLES streamAt,   \* of a stream: idle, new, requested or responded
          request_dscp_value,
          response_dscp_value,
          upTos,      \* IP_TOS that a stream's upstream connection is created with
          downTos     \* IP_TOS of the downstream socket

dscpVars == <<streamAt, request_dscp_value, response_dscp_value, upTos, downTos>>

DscpInit ==
  /\ streamAt = [s \in Streams |-> "idle"]
  /\ request_dscp_value = [s \in Streams |-> NoHeader]
  /\ response_dscp_value = [s \in Streams |-> NoHeader]
  /\ upTos = [s \in Streams |-> 0]
  /\ downTos = 0

\* Mutant: the six bits of DSCP are not checked.
UncheckedSocketOption(tos, h, works) ==
  IF h \in Numbers /\ works THEN 4 * h ELSE tos

\* The option a socket has after the attempt to set it from header h.  Nothing is set
\* if h is no number, is above 63, or if Envoy refuses.
set_dscp_socket_option(tos, h, works) ==
  IF h \in Numbers /\ works /\ h <= 63 THEN 4 * h ELSE tos

new_http_filter(s) ==
  /\ streamAt[s] = "idle"
  /\ streamAt' = [streamAt EXCEPT ![s] = "new"]
  /\ UNCHANGED <<request_dscp_value, response_dscp_value, upTos, downTos>>

\* Prebind, upstream: the option goes to the connection that will be created.
on_request_headers(s, h, works) ==
  /\ streamAt[s] = "new"
  /\ streamAt' = [streamAt EXCEPT ![s] = "requested"]
  /\ upTos' = [upTos EXCEPT ![s] = set_dscp_socket_option(@, h, works)]
  /\ request_dscp_value' = [request_dscp_value EXCEPT ![s] = h]
  /\ UNCHANGED <<response_dscp_value, downTos>>

\* Bound, downstream: the option is set on the socket at once.
on_response_headers(s, h, works) ==
  /\ streamAt[s] = "requested"
  /\ streamAt' = [streamAt EXCEPT ![s] = "responded"]
  /\ downTos' = set_dscp_socket_option(downTos, h, works)
  /\ response_dscp_value' = [response_dscp_value EXCEPT ![s] = h]
  /\ UNCHANGED <<request_dscp_value, upTos>>

DscpNext ==
  \E s \in Streams :
    \/ new_http_filter(s)
    \/ \E h \in Numbers \cup {NoHeader, Text}, works \in BOOLEAN :
         on_request_headers(s, h, works) \/ on_response_headers(s, h, works)

DscpSpec == DscpInit /\ [][DscpNext]_dscpVars
-----------------------------------------------------------------------------
\* However the streams of a connection interleave, the mark of an upstream connection
\* is the one its own request asked for, the mark of the downstream socket is one that
\* some response on it asked for, and both leave the two ECN bits alone
\* (dscp_filter.rs:96-107,146-152,178-184).
MarksComeFromTheirHeaders ==
  /\ \A s \in Streams :
       upTos[s] # 0 => upTos[s] = 4 * request_dscp_value[s] /\ upTos[s] < 256
  /\ downTos # 0 =>
       /\ downTos < 256
       /\ \E s \in Streams : /\ response_dscp_value[s] \in Numbers
                            /\ downTos = 4 * response_dscp_value[s]
==============================================================================
