----------------------------- MODULE RawPacket ------------------------------
(***************************************************************************)
(* sockets/raw_socket_client.cc: one datagram with a hand-made IP header.  *)
(* The header is ten words of 16 bits in the order of struct iphdr, the    *)
(* sixth its checksum; which byte of a word comes first changes neither    *)
(* the checksum's correctness nor its carries.  The addresses are any of   *)
(* AddressWords, so that the carries vary.                                 *)
(***************************************************************************)
EXTENDS Integers, Sequences

CONSTANT AddressWords   \* the halves of the addresses

ASSUME RawAssumption == \A w \in AddressWords : w \in Nat /\ w < 65536

VARIABLES rawMain,   \* start, open, ready (IP_HDRINCL is set), sent or failed
          header     \* the ten words, or <<>> before main fills them in

rawVars == <<rawMain, header>>

RawInit == rawMain = "start" /\ header = <<>>

\* Mutant: the sum is folded once.
FoldOnce(sum) == (sum \div 65536) + (sum % 65536)

\* Both folds: the carries are added back, and the carry of that addition too.  sum is
\* an unsigned long, which ten words do not overflow.
Fold(sum) == LET s == (sum \div 65536) + (sum % 65536) IN s + (s \div 65536)

\* The complement, cut to an unsigned short.
Complement(sum) == 65535 - (sum % 65536)

\* The loop over the nwords = ip->ihl << 1 = 10 words.
Total(buf) ==
  buf[1] + buf[2] + buf[3] + buf[4] + buf[5] + buf[6] + buf[7] + buf[8] + buf[9] + buf[10]

checksum(buf) == Complement(Fold(Total(buf)))

\* version, ihl and tos; tot_len; id; frag_off; ttl and protocol; check; saddr; daddr.
IpHeader(check, s1, s2, d1, d2) ==
  <<17848, 28, 12345, 0, 16401, check, s1, s2, d1, d2>>

RawSocket ==
  /\ rawMain = "start"
  /\ rawMain' \in {"open", "failed"} /\ UNCHANGED header

IncludeHeader ==
  /\ rawMain = "open"
  /\ rawMain' \in {"ready", "failed"} /\ UNCHANGED header

\* check is zero while the checksum is taken: packet was cleared.
SendPacket ==
  /\ rawMain = "ready"
  /\ \E s1, s2, d1, d2 \in AddressWords :
       header' = IpHeader(checksum(IpHeader(0, s1, s2, d1, d2)), s1, s2, d1, d2)
  /\ rawMain' \in {"sent", "failed"}

RawNext == RawSocket \/ IncludeHeader \/ SendPacket

RawSpec == RawInit /\ [][RawNext]_rawVars
-----------------------------------------------------------------------------
\* "Calculates checksum for IP header" (raw_socket_client.cc:9): every header that is
\* sent is one that a receiver accepts, its ones' complement sum is all ones
\* (a positive multiple of 65535).
HeaderVerifies ==
  rawMain = "sent" => Total(header) > 0 /\ Total(header) % 65535 = 0
==============================================================================
