------------------------------ MODULE ArpPing -------------------------------
(***************************************************************************)
(* test_arping of sockets/dns_lookup/arp.cc: look up the interface, open   *)
(* a socket for ARP, send one who-has request and read until a reply       *)
(* comes.  Every system call may fail.  The contents of the packets are    *)
(* not modelled; what is, is which descriptor is open when it is used.     *)
(***************************************************************************)
VARIABLES arpAt,   \* start, bind, send, read or exited
          open,    \* the sockets that are open: "info" and "arp"
          asked,   \* the request has been sent
          status   \* what test_arping returned: none, ok or failed

arpVars == <<arpAt, open, asked, status>>

Init ==
  /\ arpAt = "start"
  /\ open = {}
  /\ asked = FALSE
  /\ status = "none"

\* A return with a nonzero value: whatever is open stays open.
Fail(opened) ==
  /\ arpAt' = "exited"
  /\ open' = opened
  /\ status' = "failed"
  /\ UNCHANGED asked

\* inet_addr refuses the address, or get_if_info asks for index, MAC and address
\* through a socket of its own, which only the last line closes.
GetIfInfo ==
  /\ arpAt = "start"
  /\ \/ Fail({})
     \/ Fail({"info"})
     \/ /\ arpAt' = "bind"
        /\ UNCHANGED <<open, asked, status>>

\* socket() fails, bind() fails, or the socket is bound.  `ret` is -1 to the end, so
\* the cleanup closes a socket that was bound, too, and bind_arp returns 0.
BindArp ==
  /\ arpAt = "bind"
  /\ \/ Fail({})
     \/ Fail({"arp"})
     \/ /\ arpAt' = "send"
        /\ open' = {}
        /\ UNCHANGED <<asked, status>>

\* sendto on a closed descriptor is an error.
SendArp ==
  /\ arpAt = "send"
  /\ \/ Fail(open)
     \/ /\ "arp" \in open
        /\ arpAt' = "read" /\ asked' = TRUE
        /\ UNCHANGED <<open, status>>

\* The loop around read_arp: anything but a reply is skipped.
ReadArp ==
  /\ arpAt = "read"
  /\ arpAt' = "exited"
  /\ open' = open \ {"arp"}
  /\ status' = "ok"
  /\ UNCHANGED asked

Next == GetIfInfo \/ BindArp \/ SendArp \/ ReadArp

Spec == Init /\ [][Next]_arpVars
-----------------------------------------------------------------------------
\* When bind_arp has returned 0 its caller has a socket that listens for ARP traffic
\* (the comment at arp.cc:169; send_arp and read_arp use it at arp.cc:254 and 260).
BoundSocketIsOpen == arpAt = "send" => "arp" \in open
==============================================================================
