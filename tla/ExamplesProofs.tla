--------------------------- MODULE ExamplesProofs ---------------------------
(***************************************************************************)
(* Proofs about the small programs, which share nothing: the raw packet,   *)
(* the DSCP filter, the command of the Redis module and the channels.      *)
(***************************************************************************)
EXTENDS RawPacket, DscpFilter, RedisModule, Channels,
        FiniteSetTheorems, WellFoundedInduction, TLAPS
-----------------------------------------------------------------------------
(* The checksum, for every header and not only the instance's. *)

\* Whatever the other words of a header sum to (less than 65536 words are allowed here),
\* two folds and the complement give 16 bits with which the whole header sums to a
\* multiple of 65535: that is how a receiver verifies it (raw_socket_client.cc:15-17).
THEOREM ChecksumVerifies ==
  ASSUME NEW sum \in Nat, 0 < sum, sum < 65536 * 65536 - 65536
  PROVE  /\ Complement(Fold(sum)) \in Nat /\ Complement(Fold(sum)) < 65536
         /\ (sum + Complement(Fold(sum))) % 65535 = 0
<1> DEFINE h == sum \div 65536
           l == sum % 65536
<1>1. h \in Nat /\ l \in Nat /\ h < 65536 /\ l < 65536 /\ sum = 65536 * h + l
  BY SMT
<1> HIDE DEF h, l
<1> DEFINE s == h + l
<1>2. s \in Nat /\ s < 131071
  BY <1>1
<1> HIDE DEF s
<1> DEFINE c == s \div 65536
           m == s % 65536
<1>3. c \in {0, 1} /\ m \in Nat /\ m < 65536 /\ s = 65536 * c + m
  BY <1>2
<1>4. Fold(sum) = s + c
  BY DEF Fold, h, l, s
<1> HIDE DEF c, m
<1>5. m + c < 65536
  BY <1>2, <1>3
<1>6. (s + c) % 65536 = m + c
  <2>1. s + c = 65536 * c + (m + c)
    BY <1>3
  <2> QED
    BY <1>3, <1>5, <2>1, SMT
<1>7. Complement(Fold(sum)) = 65535 - (m + c)
  BY <1>4, <1>6 DEF Complement
<1>8. sum + Complement(Fold(sum)) = 65535 * (h + c + 1)
  <2>1. s = h + l
    BY DEF s
  <2> QED
    BY <1>1, <1>3, <1>7, <2>1
<1>9. (65535 * (h + c + 1)) % 65535 = 0
  <2>1. h + c + 1 \in Nat
    BY <1>1, <1>3
  <2> QED
    BY <2>1
<1> QED
  BY <1>3, <1>5, <1>7, <1>8, <1>9

\* Every header that main sends verifies, whatever the addresses are: the theorem above
\* applied to the ten words of the header (raw_socket_client.cc:38-49).
THEOREM SentHeaderVerifies == RawSpec => []HeaderVerifies
<1>1. RawInit => HeaderVerifies
  BY DEF RawInit, HeaderVerifies
<1>2. HeaderVerifies /\ [RawNext]_rawVars => HeaderVerifies'
  <2> SUFFICES ASSUME HeaderVerifies, [RawNext]_rawVars PROVE HeaderVerifies'
    OBVIOUS
  <2>1. CASE RawSocket
    BY <2>1 DEF RawSocket, HeaderVerifies
  <2>2. CASE IncludeHeader
    BY <2>2 DEF IncludeHeader, HeaderVerifies
  <2>3. CASE SendPacket
    <3>1. PICK s1, s2, d1, d2 \in AddressWords :
            header' = IpHeader(checksum(IpHeader(0, s1, s2, d1, d2)), s1, s2, d1, d2)
      BY <2>3 DEF SendPacket
    <3> DEFINE sum == 46622 + s1 + s2 + d1 + d2
    <3>2. \A w \in AddressWords : w \in Nat /\ w < 65536
      BY RawAssumption
    <3>3. sum \in Nat /\ 0 < sum /\ sum < 65536 * 65536 - 65536
      BY <3>2
    <3>4. Total(IpHeader(0, s1, s2, d1, d2)) = sum
      BY <3>2 DEF Total, IpHeader
    <3> DEFINE check == Complement(Fold(sum))
    <3>5. check \in Nat /\ (sum + check) % 65535 = 0
      BY <3>3, ChecksumVerifies
    <3>6. header' = IpHeader(check, s1, s2, d1, d2)
      BY <3>1, <3>4 DEF checksum
    <3> HIDE DEF check
    <3>7. Total(header') = sum + check
      BY <3>2, <3>5, <3>6 DEF Total, IpHeader
    <3> QED
      BY <3>3, <3>5, <3>7 DEF HeaderVerifies, Total
  <2>4. CASE UNCHANGED rawVars
    BY <2>4 DEF rawVars, HeaderVerifies, Total
  <2> QED
    BY <2>1, <2>2, <2>3, <2>4 DEF RawNext
<1> QED
  BY <1>1, <1>2, PTL DEF RawSpec
-----------------------------------------------------------------------------
(***************************************************************************)
(* The DSCP filter, for any streams and header values: the mark of a       *)
(* socket comes from the header of a stream that has got that far, and no  *)
(* later stream takes that header away.                                    *)
(***************************************************************************)
Headers == Numbers \cup {NoHeader, Text}

DscpInv ==
  /\ streamAt \in [Streams -> {"idle", "new", "requested", "responded"}]
  /\ request_dscp_value \in [Streams -> Headers]
  /\ response_dscp_value \in [Streams -> Headers]
  /\ upTos \in [Streams -> Nat] /\ downTos \in Nat
  /\ \A s \in Streams :
       /\ streamAt[s] \in {"idle", "new"} => upTos[s] = 0
       /\ streamAt[s] # "responded" => response_dscp_value[s] = NoHeader
  /\ MarksComeFromTheirHeaders

\* The option is left alone or set from a header within the six bits of DSCP
\* (dscp_filter.rs:96-107).
LEMMA SocketOption ==
  ASSUME NEW tos \in Nat, NEW h \in Headers, NEW works \in BOOLEAN
  PROVE  LET after == set_dscp_socket_option(tos, h, works)
         IN after \in Nat /\ (after = tos \/ (h \in Numbers /\ after = 4 * h /\ after < 256))
<1>1. CASE h \in Numbers /\ works /\ h <= 63
  <2>1. h \in Nat /\ set_dscp_socket_option(tos, h, works) = 4 * h
    BY <1>1, DscpAssumption DEF set_dscp_socket_option
  <2>2. 4 * h \in Nat /\ 4 * h < 256
    <3>1. h <= 63
      BY <1>1
    <3> QED
      BY <2>1, <3>1
  <2> QED
    BY <1>1, <2>1, <2>2, Zenon
<1>2. CASE ~(h \in Numbers /\ works /\ h <= 63)
  BY <1>2 DEF set_dscp_socket_option
<1> QED
  BY <1>1, <1>2

\* Each callback keeps the invariant (dscp_filter.rs:127-190).
LEMMA DscpStep == DscpInv /\ [DscpNext]_dscpVars => DscpInv'
<1> SUFFICES ASSUME DscpInv, [DscpNext]_dscpVars PROVE DscpInv'
  OBVIOUS
<1>1. ASSUME NEW s \in Streams, new_http_filter(s) PROVE DscpInv'
  BY <1>1 DEF new_http_filter, DscpInv, MarksComeFromTheirHeaders
<1>2. ASSUME NEW s \in Streams, NEW h \in Headers, NEW works \in BOOLEAN,
             on_request_headers(s, h, works)
      PROVE  DscpInv'
  <2> DEFINE after == set_dscp_socket_option(upTos[s], h, works)
  <2>1. upTos[s] = 0 /\ upTos[s] \in Nat
    BY <1>2 DEF on_request_headers, DscpInv
  <2>2. after \in Nat /\ (after = 0 \/ (h \in Numbers /\ after = 4 * h /\ after < 256))
    BY <2>1, SocketOption
  <2>3. upTos' = [upTos EXCEPT ![s] = after]
    BY <1>2 DEF on_request_headers
  <2> HIDE DEF after
  <2>4. /\ upTos' \in [Streams -> Nat] /\ upTos'[s] = after
        /\ request_dscp_value' \in [Streams -> Headers] /\ request_dscp_value'[s] = h
        /\ \A t \in Streams \ {s} : /\ upTos'[t] = upTos[t]
                                    /\ request_dscp_value'[t] = request_dscp_value[t]
    BY <1>2, <2>2, <2>3 DEF on_request_headers, DscpInv
  <2>5. /\ streamAt' \in [Streams -> {"idle", "new", "requested", "responded"}]
        /\ streamAt'[s] = "requested" /\ \A t \in Streams \ {s} : streamAt'[t] = streamAt[t]
        /\ UNCHANGED <<response_dscp_value, downTos>> /\ response_dscp_value[s] = NoHeader
    BY <1>2 DEF on_request_headers, DscpInv
  <2>6. MarksComeFromTheirHeaders'
    <3>1. \A t \in Streams :
             upTos'[t] # 0 => upTos'[t] = 4 * request_dscp_value'[t] /\ upTos'[t] < 256
      BY <2>2, <2>4 DEF DscpInv, MarksComeFromTheirHeaders
    <3> QED
      BY <2>5, <3>1 DEF DscpInv, MarksComeFromTheirHeaders
  <2> QED
    BY <2>4, <2>5, <2>6 DEF DscpInv
<1>3. ASSUME NEW s \in Streams, NEW h \in Headers, NEW works \in BOOLEAN,
             on_response_headers(s, h, works)
      PROVE  DscpInv'
  <2> DEFINE after == set_dscp_socket_option(downTos, h, works)
  <2>1. after \in Nat /\ (after = downTos \/ (h \in Numbers /\ after = 4 * h /\ after < 256))
    BY SocketOption DEF DscpInv
  <2>2. downTos' = after
    BY <1>3 DEF on_response_headers
  <2> HIDE DEF after
  <2>3. /\ response_dscp_value' \in [Streams -> Headers] /\ response_dscp_value'[s] = h
        /\ \A t \in Streams \ {s} : response_dscp_value'[t] = response_dscp_value[t]
        /\ response_dscp_value[s] \notin Numbers
    BY <1>3, DscpAssumption DEF on_response_headers, DscpInv
  <2>4. /\ streamAt' \in [Streams -> {"idle", "new", "requested", "responded"}]
        /\ streamAt[s] = "requested" /\ streamAt'[s] = "responded"
        /\ \A t \in Streams \ {s} : streamAt'[t] = streamAt[t]
        /\ UNCHANGED <<request_dscp_value, upTos>>
    BY <1>3 DEF on_response_headers, DscpInv
  <2>5. MarksComeFromTheirHeaders'
    BY <2>1, <2>2, <2>3, <2>4 DEF DscpInv, MarksComeFromTheirHeaders
  <2> QED
    BY <2>1, <2>2, <2>3, <2>4, <2>5 DEF DscpInv
<1>4. CASE UNCHANGED dscpVars
  BY <1>4 DEF dscpVars, DscpInv, MarksComeFromTheirHeaders
<1> QED
  BY <1>1, <1>2, <1>3, <1>4 DEF DscpNext, Headers

\* However many streams share the downstream connection and however they interleave,
\* every mark is one that its header asked for (dscp_filter.rs:96-107,146-152,178-184).
THEOREM MarksAreAskedFor == DscpSpec => []MarksComeFromTheirHeaders
<1>1. DscpInit => DscpInv
  BY DscpAssumption DEF DscpInit, DscpInv, Headers, MarksComeFromTheirHeaders
<1>2. DscpInv => MarksComeFromTheirHeaders
  BY DEF DscpInv
<1> QED
  BY <1>1, <1>2, DscpStep, PTL DEF DscpSpec
-----------------------------------------------------------------------------
(***************************************************************************)
(* EXAMPLE.PARSE, for any width of a long long, any arguments and any      *)
(* number of them.                                                         *)
(***************************************************************************)

\* A set of natural numbers that is not empty has a least member.
LEMMA Least ==
  ASSUME NEW T, T \subseteq Nat, T # {}
  PROVE  \E x \in T : \A y \in T : x <= y
<1>1. IsWellFoundedOn(OpToRel(<, Nat), Nat)
  BY NatLessThanWellFounded
<1>2. PICK x \in T : \A y \in T : ~(<<y, x>> \in OpToRel(<, Nat))
  BY <1>1, WFMin
<1>3. \A y \in T : ~(y < x)
  BY <1>2, Zenon DEF OpToRel
<1> QED
  BY <1>3

\* argIndex finds the first occurrence (example.c:8-32 through parse_util).
LEMMA FirstOccurrence ==
  ASSUME NEW m \in Nat, NEW args, DOMAIN args = 1..m, NEW word
  PROVE  LET pos == argIndex(word, args)
         IN \/ pos = 0 /\ \A j \in 1..m : args[j] # word
            \/ /\ pos \in 1..m /\ args[pos] = word
               /\ \A j \in 1..m : args[j] = word => pos <= j
<1> DEFINE at == {i \in DOMAIN args : args[i] = word}
<1>1. CASE at = {}
  BY <1>1 DEF argIndex
<1>2. CASE at # {}
  <2>1. \E i \in at : \A j \in at : i <= j
    <3>1. at \subseteq Nat
      OBVIOUS
    <3> HIDE DEF at
    <3> QED
      BY <1>2, <3>1, Least, Zenon
  <2>2. argIndex(word, args) = CHOOSE i \in at : \A j \in at : i <= j
    BY <1>2 DEF argIndex
  <2>3. argIndex(word, args) \in at /\ \A j \in at : argIndex(word, args) <= j
    BY <2>1, <2>2
  <2> QED
    BY <2>3
<1> QED
  BY <1>1, <1>2

\* The format "ll" takes two integers and nothing else, and then its variables hold them.
LEMMA TwoLongs ==
  ASSUME NEW args, Len(args) \in Nat, NEW i \in Nat, NEW out, DOMAIN out = 1..2
  PROVE  LET r == vparseArgs(args, i, <<"l", "l">>, out)
         IN /\ DOMAIN r.out = 1..2
            /\ r.rc = "OK" <=> i + 1 <= Len(args) /\ IsLong(args[i]) /\ IsLong(args[i + 1])
            /\ r.rc = "OK" => r.out[1] = args[i][2] /\ r.out[2] = args[i + 1][2]
<1> DEFINE fmt == <<"l", "l">>
           r == vparseArgs(args, i, fmt, out)
<1>1. Len(fmt) = 2 /\ fmt[1] = "l" /\ fmt[2] = "l" /\ i + 1 - 1 = i /\ i + 2 - 1 = i + 1
  OBVIOUS
<1>2. \A j \in 1..2 : j = 1 \/ j = 2
  OBVIOUS
<1>3. Taken(args, i, fmt, 1) <=> i <= Len(args) /\ IsLong(args[i])
  <2>1. \A j : j \in 1..1 <=> j = 1
    OBVIOUS
  <2> HIDE DEF fmt
  <2> QED
    BY <1>1, <2>1 DEF Taken, Takes
<1>4. Taken(args, i, fmt, 2) <=> i + 1 <= Len(args) /\ IsLong(args[i]) /\ IsLong(args[i + 1])
  <2>1. \A j : j \in 1..2 <=> j = 1 \/ j = 2
    OBVIOUS
  <2>2. i + 1 <= Len(args) => i <= Len(args)
    OBVIOUS
  <2> HIDE DEF fmt
  <2> QED
    BY <1>1, <2>1, <2>2 DEF Taken, Takes
<1>5. /\ r.rc = IF Taken(args, i, fmt, 2) THEN "OK" ELSE "ERR"
      /\ r.out = [k \in 1..2 |->
                    IF Taken(args, i, fmt, k) THEN args[i + k - 1][2] ELSE out[k]]
  <2> HIDE DEF fmt
  <2> QED
    BY <1>1 DEF vparseArgs
<1>6. Taken(args, i, fmt, 2) => Taken(args, i, fmt, 1)
  BY <1>3, <1>4
<1> HIDE DEF fmt, r
<1>7. DOMAIN r.out = 1..2 /\ (r.rc = "OK" <=> Taken(args, i, fmt, 2))
  BY <1>5
<1>8. ASSUME r.rc = "OK" PROVE r.out[1] = args[i][2] /\ r.out[2] = args[i + 1][2]
  <2>1. r.out[1] = args[i + 1 - 1][2] /\ r.out[2] = args[i + 2 - 1][2]
    BY <1>5, <1>6, <1>7, <1>8
  <2> QED
    BY <1>1, <2>1
<1> QED
  BY <1>4, <1>7, <1>8, Zenon DEF r, fmt

\* What Operands says of the arguments of a call.
OperandsOf(args, word, x, y) ==
  \E i \in DOMAIN args :
    /\ args[i] = <<word>> /\ \A j \in 1..i - 1 : args[j] # <<word>>
    /\ i + 2 <= Len(args) /\ args[i + 1] = <<"long", x>> /\ args[i + 2] = <<"long", y>>

\* parseArgsAfter succeeds exactly if two integers follow the first occurrence of the word,
\* and then they are in its variables.
LEMMA ParsedAfter ==
  ASSUME NEW m \in Nat, NEW args, DOMAIN args = 1..m, Len(args) = m, NEW word,
         NEW out, DOMAIN out = 1..2,
         \A j \in 2..m : IsLong(args[j]) => args[j] \in {"long"} \X Long
  PROVE  LET r == parseArgsAfter(word, args, <<"l", "l">>, out)
         IN /\ DOMAIN r.out = 1..2
            /\ r.rc = "OK" => /\ r.out[1] \in Long /\ r.out[2] \in Long
                              /\ OperandsOf(args, word, r.out[1], r.out[2])
            /\ \A v, w \in Long : OperandsOf(args, word, v, w) => r.rc = "OK"
<1> DEFINE pos == argIndex(<<word>>, args)
           r == parseArgsAfter(word, args, <<"l", "l">>, out)
<1>1. \/ pos = 0 /\ \A j \in 1..m : args[j] # <<word>>
      \/ /\ pos \in 1..m /\ args[pos] = <<word>>
         /\ \A j \in 1..m : args[j] = <<word>> => pos <= j
  BY FirstOccurrence
<1> HIDE DEF pos
<1>2. pos \in Nat
  BY <1>1
<1>3. /\ DOMAIN r.out = 1..2
      /\ r.rc = "OK" <=>
           pos # 0 /\ pos + 2 <= m /\ IsLong(args[pos + 1]) /\ IsLong(args[pos + 2])
      /\ r.rc = "OK" => r.out[1] = args[pos + 1][2] /\ r.out[2] = args[pos + 2][2]
  <2>1. pos + 1 \in Nat /\ (pos + 1) + 1 = pos + 2
    BY <1>2
  <2> DEFINE v == vparseArgs(args, pos + 1, <<"l", "l">>, out)
  <2>2. /\ DOMAIN v.out = 1..2
        /\ v.rc = "OK" <=> /\ (pos + 1) + 1 <= Len(args) /\ IsLong(args[pos + 1])
                           /\ IsLong(args[(pos + 1) + 1])
        /\ v.rc = "OK" => v.out[1] = args[pos + 1][2] /\ v.out[2] = args[(pos + 1) + 1][2]
    BY <2>1, TwoLongs
  <2> HIDE DEF v
  <2>3. r = IF pos = 0 THEN [rc |-> "ERR", out |-> out] ELSE v
    BY Zenon DEF parseArgsAfter, pos, v
  <2> HIDE DEF r
  <2>4. CASE pos = 0
    BY <2>3, <2>4
  <2>5. CASE pos # 0
    <3>1. r = v
      BY <2>3, <2>5, Zenon
    <3> QED
      BY <2>1, <2>2, <2>5, <3>1, Zenon
  <2> QED
    BY <2>4, <2>5
<1> HIDE DEF r
<1>4. ASSUME r.rc = "OK"
      PROVE  r.out[1] \in Long /\ r.out[2] \in Long /\ OperandsOf(args, word, r.out[1], r.out[2])
  <2>1. /\ pos \in 1..m /\ pos + 2 <= m /\ args[pos] = <<word>>
        /\ pos + 1 \in 2..m /\ pos + 2 \in 2..m
    BY <1>1, <1>2, <1>3, <1>4
  <2>2. args[pos + 1] \in {"long"} \X Long /\ args[pos + 2] \in {"long"} \X Long
    BY <1>3, <1>4, <2>1
  <2>3. /\ r.out[1] \in Long /\ args[pos + 1] = <<"long", r.out[1]>>
        /\ r.out[2] \in Long /\ args[pos + 2] = <<"long", r.out[2]>>
    BY <1>3, <1>4, <2>2
  <2>4. \A j \in 1..pos - 1 : args[j] # <<word>>
    BY <1>1, <2>1
  <2> QED
    BY <2>1, <2>3, <2>4, Zenon DEF OperandsOf
<1>5. ASSUME NEW v \in Long, NEW w \in Long, OperandsOf(args, word, v, w)
      PROVE  r.rc = "OK"
  <2>1. PICK i \in 1..m :
          /\ args[i] = <<word>> /\ \A j \in 1..i - 1 : args[j] # <<word>>
          /\ i + 2 <= m /\ args[i + 1] = <<"long", v>> /\ args[i + 2] = <<"long", w>>
    BY <1>5, Zenon DEF OperandsOf
  <2>2. pos = i
    BY <1>1, <2>1
  <2>3. IsLong(args[i + 1]) /\ IsLong(args[i + 2])
    BY <2>1 DEF IsLong
  <2> QED
    BY <1>3, <2>1, <2>2, <2>3
<1> QED
  BY <1>3, <1>4, <1>5, Zenon DEF r

\* Every reply, for calls of any length (example.c:8-32).
THEOREM FirstWordDecides == RedisSpec => []RepliesFollowFirstWord
<1>1. RedisInit => RepliesFollowFirstWord
  BY DEF RedisInit, RepliesFollowFirstWord
<1>2. RepliesFollowFirstWord /\ UNCHANGED redisVars => RepliesFollowFirstWord'
  <2> SUFFICES ASSUME RepliesFollowFirstWord, UNCHANGED redisVars
               PROVE  RepliesFollowFirstWord'
    OBVIOUS
  <2>1. argv' = argv /\ reply' = reply
    BY DEF redisVars
  <2>2. RepliesFollowFirstWord' = RepliesFollowFirstWord
    BY <2>1, ZenonT(40) DEF RepliesFollowFirstWord, Operands
  <2> QED
    BY <2>2
<1>3. ASSUME Command PROVE RepliesFollowFirstWord'
  <2>1. PICK n \in 0..MaxArgs : \E a \in [1..n -> Arguments], xy \in [1..2 -> Long] :
          argv' = <<<<"EXAMPLE.PARSE">>>> \o a /\ reply' = ParseCommand(argv', xy)
    BY <1>3, Zenon DEF Command
  <2>2. PICK a \in [1..n -> Arguments], xy \in [1..2 -> Long] :
          argv' = <<<<"EXAMPLE.PARSE">>>> \o a /\ reply' = ParseCommand(argv', xy)
    BY <2>1, Zenon
  <2> DEFINE m == n + 1
             args == argv'
  <2>3. n \in Nat /\ m \in Nat
    BY RedisAssumption
  <2>4. /\ DOMAIN args = 1..m /\ Len(args) = m
        /\ \A j \in 2..m : args[j] = a[j - 1] /\ j - 1 \in 1..n
    <3>1. a \in Seq(Arguments) /\ Len(a) = n
      BY <2>3
    <3> QED
      BY <2>2, <2>3, <3>1
  <2>5. \A j \in 2..m : IsLong(args[j]) => args[j] \in {"long"} \X Long
    <3>1. \A j \in 2..m : args[j] \in Arguments
      BY <2>4
    <3> QED
      BY <3>1, RedisAssumption
  <2> DEFINE sum == parseArgsAfter("SUM", args, <<"l", "l">>, xy)
             prod == parseArgsAfter("PROD", args, <<"l", "l">>, sum.out)
  <2>6. /\ DOMAIN sum.out = 1..2
        /\ sum.rc = "OK" => /\ sum.out[1] \in Long /\ sum.out[2] \in Long
                            /\ OperandsOf(args, "SUM", sum.out[1], sum.out[2])
        /\ \A v, w \in Long : OperandsOf(args, "SUM", v, w) => sum.rc = "OK"
    <3>1. DOMAIN xy = 1..2
      OBVIOUS
    <3> HIDE DEF m, args
    <3> QED
      BY <2>3, <2>4, <2>5, <3>1, ParsedAfter
  <2>7. /\ prod.rc = "OK" => /\ prod.out[1] \in Long /\ prod.out[2] \in Long
                             /\ OperandsOf(args, "PROD", prod.out[1], prod.out[2])
        /\ \A v, w \in Long : OperandsOf(args, "PROD", v, w) => prod.rc = "OK"
    <3> DEFINE left == sum.out
    <3>1. DOMAIN left = 1..2
      BY <2>6
    <3>2. m \in Nat /\ DOMAIN args = 1..m /\ Len(args) = m
      BY <2>3, <2>4
    <3> HIDE DEF m, args, sum, left
    <3>3. LET r == parseArgsAfter("PROD", args, <<"l", "l">>, left)
          IN /\ r.rc = "OK" => /\ r.out[1] \in Long /\ r.out[2] \in Long
                               /\ OperandsOf(args, "PROD", r.out[1], r.out[2])
             /\ \A v, w \in Long : OperandsOf(args, "PROD", v, w) => r.rc = "OK"
      BY <2>5, <3>1, <3>2, ParsedAfter
    <3> QED
      BY <3>3, Zenon DEF left
  <2>8. reply' = IF Len(args) < 4 THEN <<"arity">>
                 ELSE IF sum.rc = "OK" THEN <<"number", Wrap(sum.out[1] + sum.out[2])>>
                 ELSE IF prod.rc = "OK" THEN <<"number", Wrap(prod.out[1] * prod.out[2])>>
                 ELSE <<"invalid">>
    BY <2>2, Zenon DEF ParseCommand
  <2> HIDE DEF sum, prod
  <2> DEFINE answers(word) == \E x, y \in Long : OperandsOf(args, word, x, y)
  <2>9. /\ reply' = <<"invalid">> => ~answers("SUM") /\ ~answers("PROD")
        /\ reply'[1] = "number" =>
             \E x, y \in Long :
               \/ OperandsOf(args, "SUM", x, y) /\ reply'[2] = Wrap(x + y)
               \/ /\ ~answers("SUM") /\ OperandsOf(args, "PROD", x, y)
                  /\ reply'[2] = Wrap(x * y)
    <3>1. CASE Len(args) < 4
      BY <2>8, <3>1
    <3>2. CASE ~(Len(args) < 4) /\ sum.rc = "OK"
      <4>1. reply' = <<"number", Wrap(sum.out[1] + sum.out[2])>>
        BY <2>8, <3>2
      <4>2. reply' # <<"invalid">> /\ reply'[2] = Wrap(sum.out[1] + sum.out[2])
        BY <4>1
      <4> QED
        BY <2>6, <3>2, <4>2
    <3>3. CASE ~(Len(args) < 4) /\ sum.rc # "OK" /\ prod.rc = "OK"
      <4>1. reply' = <<"number", Wrap(prod.out[1] * prod.out[2])>>
        BY <2>8, <3>3
      <4>2. reply' # <<"invalid">> /\ reply'[2] = Wrap(prod.out[1] * prod.out[2])
        BY <4>1
      <4> QED
        BY <2>6, <2>7, <3>3, <4>2
    <3>4. CASE ~(Len(args) < 4) /\ sum.rc # "OK" /\ prod.rc # "OK"
      <4>1. reply' = <<"invalid">>
        BY <2>8, <3>4
      <4>2. reply'[1] # "number"
        BY <4>1
      <4> QED
        BY <2>6, <2>7, <3>4, <4>1, <4>2
    <3> QED
      BY <3>1, <3>2, <3>3, <3>4
  <2> QED
    BY <2>9, Zenon DEF RepliesFollowFirstWord, Operands, OperandsOf
<1> QED
  BY <1>1, <1>2, <1>3, PTL DEF RedisSpec
-----------------------------------------------------------------------------
(***************************************************************************)
(* The channels, for any numbers of messages, of senders and of threads.   *)
(*                                                                         *)
(* Every message carries the number of its producer's messages before it   *)
(* (HistoryInv), and as long as the receiver lives a producer has as many  *)
(* messages in the history as it has sent (CountInv).  So when main has    *)
(* all the messages of example 2, no producer has one left to send.        *)
(***************************************************************************)
Counted(s, O) == \A i \in 1..Len(s) : s[i][1] \in O /\ s[i][2] = Before(s, i, s[i][1])

\* The messages of q in s.
CountOf(s, q) == Before(s, Len(s) + 1, q)

AtMost(s, O, M) == \A q \in O : CountOf(s, q) <= M

HistoryInv == \A k \in 1..3 : Counted(History(k), Of(k))

CountInv ==
  \A k \in 1..3 : stage <= k => \A q \in Of(k) : CountOf(History(k), q) = sent[q]

\* Who has ended has sent everything; who has panicked was left alone by main.
ProducersInv ==
  /\ \A q \in Producers : /\ producer[q] = "ended" => sent[q] = Messages[q[1]]
                          /\ producer[q] = "panicked" => gaveUp /\ q[1] < stage
  /\ stage > 2 /\ ~gaveUp => \A q \in Of(2) : sent[q] = Messages[2]

\* Main leaves examples 1 and 3 with every message.
LeftInv ==
  \A k \in {1, 3} : stage > k =>
    /\ \A q \in Of(k) : producer[q] = "ended"
    /\ received[k] = [i \in 1..Messages[k] |-> <<<<k, "p">>, i - 1>>]

\* The counter counts the threads that have ended.
CounterInv ==
  /\ holder # "none" => adder[holder] = "running"
  /\ counter = Cardinality({a \in Adders : adder[a] = "ended"})
  /\ stage = 5 => \A a \in Adders : adder[a] = "ended"

ChannelsInv ==
  /\ ChannelsTypeOK
  /\ HistoryInv /\ CountInv /\ ProducersInv /\ LeftInv /\ CounterInv

\* Of, channel by channel.
LEMMA ProducersOf ==
  /\ \A k \in 1..3 : Of(k) \subseteq Producers /\ \A q \in Of(k) : q[1] = k
  /\ \A q \in Producers : q[1] \in 1..3 /\ q \in Of(q[1])
  /\ Of(1) = {<<1, "p">>} /\ Of(3) = {<<3, "p">>} /\ Of(2) = {<<2, p>> : p \in Senders}
<1>1. Of(1) = {<<1, "p">>} /\ Of(3) = {<<3, "p">>} /\ Of(2) = {<<2, p>> : p \in Senders}
  BY DEF Of
<1>2. \A k \in 1..3 : \A q \in Of(k) : q[1] = k
  BY DEF Of
<1>3. \A q \in Producers : \E k \in 1..3 : q \in Of(k)
  BY DEF Producers
<1>4. \A k \in 1..3 : Of(k) \subseteq Producers
  BY DEF Producers
<1> QED
  BY <1>1, <1>2, <1>3, <1>4

\* Counting one more message.
LEMMA BeforeNext ==
  ASSUME NEW s, NEW i \in Nat, 0 < i, NEW q
  PROVE  /\ Before(s, i, q) \in Nat
         /\ Before(s, i + 1, q) = IF s[i][1] = q THEN Before(s, i, q) + 1 ELSE Before(s, i, q)
<1> DEFINE old == {j \in 1..i - 1 : s[j][1] = q}
           new == {j \in 1..(i + 1) - 1 : s[j][1] = q}
<1>1. IsFiniteSet(old)
  <2>1. IsFiniteSet(1..i - 1)
    BY FS_Interval
  <2>2. old \subseteq 1..i - 1
    OBVIOUS
  <2> QED
    BY <2>1, <2>2, FS_Subset, Zenon
<1>2. new = IF s[i][1] = q THEN old \cup {i} ELSE old
  OBVIOUS
<1>3. i \notin old
  OBVIOUS
<1>4. Cardinality(old) \in Nat /\ Cardinality(old \cup {i}) = Cardinality(old) + 1
  <2> HIDE DEF old
  <2> QED
    BY <1>1, <1>3, FS_CardinalityType, FS_AddElement, Zenon
<1> HIDE DEF old, new
<1>5. Before(s, i, q) = Cardinality(old) /\ Before(s, i + 1, q) = Cardinality(new)
  BY DEF Before, old, new
<1> QED
  BY <1>2, <1>4, <1>5

\* A later message counts every earlier one.
LEMMA BeforeGrows ==
  ASSUME NEW s, NEW i \in Nat, NEW j \in Nat, 0 < i, i < j, NEW q, s[i][1] = q
  PROVE  Before(s, i, q) < Before(s, j, q)
<1> DEFINE A == {l \in 1..(i + 1) - 1 : s[l][1] = q}
           B == {l \in 1..j - 1 : s[l][1] = q}
<1>1. A \subseteq B
  OBVIOUS
<1>2. IsFiniteSet(B)
  <2>1. IsFiniteSet(1..j - 1)
    BY FS_Interval
  <2>2. B \subseteq 1..j - 1
    OBVIOUS
  <2> QED
    BY <2>1, <2>2, FS_Subset, Zenon
<1> HIDE DEF A, B
<1>3. Cardinality(A) <= Cardinality(B) /\ Cardinality(B) \in Nat
  BY <1>1, <1>2, FS_Subset, FS_CardinalityType
<1>4. Before(s, i + 1, q) = Cardinality(A) /\ Before(s, j, q) = Cardinality(B)
  BY DEF Before, A, B
<1>5. Before(s, i, q) \in Nat /\ Before(s, i + 1, q) = Before(s, i, q) + 1
  BY BeforeNext
<1> QED
  BY <1>3, <1>4, <1>5

\* Sending to the channel appends to the history.
LEMMA Histories ==
  ASSUME NEW S, NEW r \in Seq(S), NEW c \in Seq(S), NEW m \in S
  PROVE  r \o Append(c, m) = Append(r \o c, m) /\ r \o c \in Seq(S)
<1>1. r \o Append(c, m) = Append(r \o c, m)
  OBVIOUS
<1> QED
  BY <1>1

\* Appending q's next message to a history that has counted sent messages of q.
LEMMA AppendCounted ==
  ASSUME NEW S, NEW s \in Seq(S), NEW q, NEW n \in Nat, <<q, n>> \in S,
         CountOf(s, q) = n, NEW O, q \in O, Counted(s, O)
  PROVE  LET t == Append(s, <<q, n>>)
         IN /\ Counted(t, O) /\ CountOf(t, q) = n + 1
            /\ \A p \in O \ {q} : CountOf(t, p) = CountOf(s, p)
<1> DEFINE t == Append(s, <<q, n>>)
           l == Len(s)
           m == <<q, n>>
<1>1. /\ l \in Nat /\ Len(t) = l + 1 /\ t[l + 1] = <<q, n>>
      /\ \A i \in 1..l : t[i] = s[i]
  <2> HIDE DEF m
  <2>1. /\ Len(s) \in Nat /\ Len(Append(s, m)) = Len(s) + 1 /\ Append(s, m)[Len(s) + 1] = m
        /\ \A i \in 1..Len(s) : Append(s, m)[i] = s[i]
    OBVIOUS
  <2> QED
    BY <2>1, Zenon DEF m
<1>2. t[l + 1][1] = q /\ t[l + 1][2] = n
  BY <1>1
<1> HIDE DEF t, l
<1>3. ASSUME NEW i \in 1..l + 1, NEW p PROVE Before(t, i, p) = Before(s, i, p)
  <2>1. \A j \in 1..i - 1 : j \in 1..l
    BY <1>1
  <2>2. \A j \in 1..i - 1 : t[j] = s[j]
    BY <1>1, <2>1
  <2>3. {j \in 1..i - 1 : t[j][1] = p} = {j \in 1..i - 1 : s[j][1] = p}
    BY <2>2, Zenon
  <2> QED
    BY <2>3, Zenon DEF Before
<1>4. \A p : Before(t, (l + 1) + 1, p) =
              IF t[l + 1][1] = p THEN Before(t, l + 1, p) + 1 ELSE Before(t, l + 1, p)
  <2>1. l + 1 \in Nat /\ 0 < l + 1
    BY <1>1
  <2> QED
    BY <2>1, BeforeNext
<1>5. Before(s, l + 1, q) = n
  BY DEF l, CountOf
<1>6. ASSUME NEW i \in 1..Len(t) PROVE t[i][1] \in O /\ t[i][2] = Before(t, i, t[i][1])
  <2>1. i \in 1..l \/ i = l + 1
    BY <1>1
  <2>2. CASE i \in 1..l
    <3>1. t[i] = s[i] /\ i \in 1..l + 1
      BY <1>1, <2>2
    <3>2. s[i][1] \in O /\ s[i][2] = Before(s, i, s[i][1])
      BY <2>2 DEF l, Counted
    <3> QED
      BY <1>3, <3>1, <3>2
  <2>3. CASE i = l + 1
    <3>1. l + 1 \in 1..l + 1
      BY <1>1
    <3> QED
      BY <1>2, <1>3, <1>5, <2>3, <3>1
  <2> QED
    BY <2>1, <2>2, <2>3
<1>7. l + 1 \in 1..l + 1
  BY <1>1
<1>8. Before(t, Len(t) + 1, q) = n + 1
  BY <1>1, <1>2, <1>3, <1>4, <1>5, <1>7
<1>9. \A p \in O \ {q} : Before(t, Len(t) + 1, p) = Before(s, l + 1, p)
  BY <1>1, <1>2, <1>3, <1>4, <1>7
<1> QED
  BY <1>6, <1>8, <1>9, Zenon DEF t, l, Counted, CountOf

\* A prefix of a history is a history.
LEMMA PrefixCounted ==
  ASSUME NEW S, NEW r \in Seq(S), NEW c \in Seq(S), NEW O, Counted(r \o c, O)
  PROVE  Counted(r, O)
<1> DEFINE s == r \o c
<1>1. /\ Len(r) \in Nat /\ Len(s) \in Nat /\ Len(r) <= Len(s)
      /\ \A i \in 1..Len(r) : s[i] = r[i]
  OBVIOUS
<1>2. \A i \in 1..Len(s) : s[i][1] \in O /\ s[i][2] = Before(s, i, s[i][1])
  BY DEF Counted
<1> HIDE DEF s
<1> SUFFICES ASSUME NEW i \in 1..Len(r)
             PROVE  r[i][1] \in O /\ r[i][2] = Before(r, i, r[i][1])
  BY DEF Counted
<1>3. i \in 1..Len(s) /\ s[i] = r[i] /\ i \in 1..Len(r) + 1
  BY <1>1
<1>4. ASSUME NEW q PROVE Before(s, i, q) = Before(r, i, q)
  <2>1. \A j \in 1..i - 1 : j \in 1..Len(r)
    BY <1>1
  <2>2. \A j \in 1..i - 1 : s[j] = r[j]
    BY <1>1, <2>1
  <2>3. {j \in 1..i - 1 : s[j][1] = q} = {j \in 1..i - 1 : r[j][1] = q}
    BY <2>2, Zenon
  <2> QED
    BY <2>3, Zenon DEF Before
<1> QED
  BY <1>2, <1>3, <1>4

\* The types that do not depend on the counter.
StreamTypes ==
  /\ stage \in 1..5
  /\ chan \in [1..3 -> Seq(Producers \X Nat)] /\ Len(chan[3]) <= Capacity
  /\ sent \in [Producers -> Nat] /\ \A q \in Producers : sent[q] <= Messages[q[1]]
  /\ producer \in [Producers -> {"running", "ended", "panicked"}]
  /\ received \in [1..3 -> Seq(Producers \X Nat)]
  /\ gaveUp \in BOOLEAN

\* What a producer's send does to the channel of its example, which main is in
\* (main.rs:39, 66, 75, 84).
LEMMA SendFacts ==
  ASSUME StreamTypes, NEW q \in Producers, Send(q), ~(stage > q[1])
  PROVE  /\ stage = q[1] /\ producer[q] = "running" /\ sent[q] < Messages[q[1]]
         /\ chan' \in [1..3 -> Seq(Producers \X Nat)] /\ Len(chan'[3]) <= Capacity
         /\ chan'[stage] = Append(chan[stage], <<q, sent[q]>>)
         /\ \A k \in 1..3 \ {stage} : chan'[k] = chan[k]
         /\ sent' \in [Producers -> Nat] /\ sent'[q] = sent[q] + 1
         /\ \A p \in Producers \ {q} : sent'[p] = sent[p]
         /\ UNCHANGED <<stage, received, producer, gaveUp, counter, holder, adder>>
<1>1. q[1] \in 1..3 /\ q[1] <= stage /\ stage \in Nat
  BY ProducersOf DEF Send, Started, StreamTypes
<1>2. stage = q[1]
  BY <1>1, SMTT(30)
<1>3. /\ producer[q] = "running" /\ sent[q] < Messages[q[1]]
      /\ q[1] = 3 => Len(chan[q[1]]) < Capacity
      /\ chan' = [chan EXCEPT ![q[1]] = Append(chan[q[1]], <<q, sent[q]>>)]
      /\ sent' = [sent EXCEPT ![q] = sent[q] + 1]
      /\ UNCHANGED <<stage, received, producer, gaveUp, counter, holder, adder>>
  BY DEF Send
<1>4. sent[q] \in Nat /\ <<q, sent[q]>> \in Producers \X Nat
  BY DEF StreamTypes
<1>5. chan[stage] \in Seq(Producers \X Nat) /\ stage \in 1..3
  BY <1>1, <1>2, SMTT(30) DEF StreamTypes
<1> DEFINE m == <<q, sent[q]>>
<1> HIDE DEF m
<1>6. /\ Append(chan[stage], m) \in Seq(Producers \X Nat)
      /\ Len(Append(chan[stage], m)) = Len(chan[stage]) + 1
  BY <1>4, <1>5 DEF m
<1>7. /\ chan' \in [1..3 -> Seq(Producers \X Nat)] /\ chan'[stage] = Append(chan[stage], m)
      /\ \A k \in 1..3 \ {stage} : chan'[k] = chan[k]
  BY <1>2, <1>3, <1>5, <1>6, Zenon DEF StreamTypes, m
<1>8. Len(chan'[3]) <= Capacity
  <2>1. CASE stage = 3
    <3>1. Len(chan[3]) \in Nat /\ Len(chan[3]) < Capacity
      BY <1>2, <1>3, <1>5, <2>1, SMTT(30)
    <3> QED
      BY <1>6, <1>7, <2>1, <3>1, ChannelsAssumption, SMTT(30)
  <2>2. CASE stage # 3
    BY <1>7, <2>2 DEF StreamTypes
  <2> QED
    BY <2>1, <2>2
<1>9. /\ sent' \in [Producers -> Nat] /\ sent'[q] = sent[q] + 1
      /\ \A p \in Producers \ {q} : sent'[p] = sent[p]
  BY <1>3, <1>4, SMTT(30) DEF StreamTypes
<1> QED
  BY <1>2, <1>3, <1>7, <1>8, <1>9, Zenon DEF m

\* What the other steps do to the history of each channel.
LEMMA MainFacts ==
  ASSUME StreamTypes, Receive \/ Leave \/ LeaveSecond
  PROVE  /\ StreamTypes' /\ UNCHANGED <<sent, producer, counter, holder, adder>>
         /\ Receive => /\ \A k \in 1..3 : received'[k] \o chan'[k] = received[k] \o chan[k]
                       /\ \A k \in 1..3 \ {stage} : received'[k] = received[k]
                       /\ UNCHANGED <<stage, gaveUp>>
         /\ Leave => UNCHANGED <<chan, received, gaveUp>> /\ stage' = stage + 1
         /\ LeaveSecond => /\ stage = 2 /\ stage' = 3 /\ UNCHANGED received
                           /\ chan'[2] = <<>> /\ \A k \in {1, 3} : chan'[k] = chan[k]
<1> DEFINE S == Producers \X Nat
<1>1. CASE Receive
  <2> DEFINE r == received[stage]
             c == chan[stage]
  <2>1. /\ stage \in 1..3 /\ c # <<>> /\ UNCHANGED <<stage, sent, producer, gaveUp, counter, holder, adder>>
        /\ received' = [received EXCEPT ![stage] = Append(r, Head(c))]
        /\ chan' = [chan EXCEPT ![stage] = Tail(c)]
    BY <1>1 DEF Receive
  <2>2. r \in Seq(S) /\ c \in Seq(S)
    BY <2>1 DEF StreamTypes
  <2>3. /\ Append(r, Head(c)) \o Tail(c) = r \o c
        /\ Append(r, Head(c)) \in Seq(S) /\ Tail(c) \in Seq(S)
        /\ Len(Tail(c)) = Len(c) - 1 /\ Len(c) \in Nat
    <3> HIDE DEF r, c
    <3> QED
      BY <2>1, <2>2, SMTT(30)
  <2> HIDE DEF r, c
  <2>4. /\ received' \in [1..3 -> Seq(S)] /\ received'[stage] = Append(r, Head(c))
        /\ \A k \in 1..3 \ {stage} : received'[k] = received[k]
    BY <2>1, <2>3, Zenon DEF StreamTypes
  <2>5. /\ chan' \in [1..3 -> Seq(S)] /\ chan'[stage] = Tail(c)
        /\ \A k \in 1..3 \ {stage} : chan'[k] = chan[k]
    BY <2>1, <2>3, Zenon DEF StreamTypes
  <2>6. \A k \in 1..3 : received'[k] \o chan'[k] = received[k] \o chan[k]
    BY <2>3, <2>4, <2>5, Zenon DEF r, c
  <2>7. Len(chan'[3]) <= Capacity
    <3>1. CASE stage = 3
      <4>1. Len(c) <= Capacity
        BY <3>1 DEF c, StreamTypes
      <4>2. Len(chan'[3]) = Len(c) - 1
        BY <2>3, <2>5, <3>1, Zenon
      <4>3. Len(c) \in Nat /\ Capacity \in Nat
        BY <2>3, ChannelsAssumption
      <4>4. \A n, b \in Nat : n <= b => n - 1 <= b
        OBVIOUS
      <4> QED
        BY <4>1, <4>2, <4>3, <4>4
    <3>2. CASE stage # 3
      BY <2>5, <3>2 DEF StreamTypes
    <3> QED
      BY <3>1, <3>2
  <2>8. StreamTypes'
    BY <2>1, <2>4, <2>5, <2>7, Zenon DEF StreamTypes
  <2>9. stage' # stage + 1 /\ (stage' # 3 \/ stage # 2)
    BY <2>1
  <2>10. ~Leave /\ ~LeaveSecond
    BY <2>9 DEF Leave, LeaveSecond
  <2> QED
    BY <1>1, <2>1, <2>4, <2>6, <2>8, <2>10, Zenon
<1>2. CASE Leave
  <2>1. /\ UNCHANGED <<chan, sent, producer, received, gaveUp, counter, holder, adder>>
        /\ stage' = stage + 1 /\ stage \in {1, 3} /\ chan[stage] = <<>>
    BY <1>2 DEF Leave
  <2>2. ~Receive /\ ~LeaveSecond
    BY <2>1 DEF Receive, LeaveSecond
  <2>3. stage' \in 1..5
    BY <2>1
  <2>4. StreamTypes'
    BY <2>1, <2>3, Zenon DEF StreamTypes
  <2> QED
    BY <2>1, <2>2, <2>4
<1>3. CASE LeaveSecond
  <2>1. /\ stage = 2 /\ stage' = 3 /\ chan' = [chan EXCEPT ![2] = <<>>] /\ gaveUp' \in BOOLEAN
        /\ UNCHANGED <<sent, producer, received, counter, holder, adder>>
    BY <1>3, Zenon DEF LeaveSecond, StreamTypes
  <2>2. ~Receive /\ ~Leave
    BY <2>1 DEF Receive, Leave
  <2>3. chan' \in [1..3 -> Seq(S)] /\ chan'[2] = <<>> /\ \A k \in {1, 3} : chan'[k] = chan[k]
    <3>1. chan \in [1..3 -> Seq(S)]
      BY Zenon DEF StreamTypes
    <3> QED
      BY <2>1, <3>1
  <2>4. StreamTypes'
    BY <2>1, <2>3 DEF StreamTypes
  <2> QED
    BY <2>1, <2>2, <2>3, <2>4
<1> QED
  BY <1>1, <1>2, <1>3, Zenon

\* Steps that leave the channels and the producers' counts alone.
Elsewhere ==
  /\ UNCHANGED <<chan, sent, received, gaveUp>>
  /\ stage' \in 1..5 /\ stage' >= stage
  /\ producer' \in [Producers -> {"running", "ended", "panicked"}]

\* Each step is a send into the channel of main's example, a step of main in one of the
\* first three examples, or leaves the channels alone.
LEMMA ChannelSteps ==
  ASSUME StreamTypes, ChannelsNext
  PROVE  \/ \E q \in Producers : Send(q) /\ ~(stage > q[1])
         \/ Receive \/ Leave \/ LeaveSecond
         \/ Elsewhere
<1>1. ASSUME NEW q \in Producers, Send(q), stage > q[1] PROVE Elsewhere
  <2>1. /\ UNCHANGED <<chan, sent, received, gaveUp, stage>>
        /\ producer' = [producer EXCEPT ![q] = "panicked"]
    BY <1>1 DEF Send
  <2> QED
    BY <2>1 DEF Elsewhere, StreamTypes
<1>2. ASSUME NEW q \in Producers, ProducerEnds(q) PROVE Elsewhere
  BY <1>2 DEF ProducerEnds, Elsewhere, StreamTypes
<1>3. ASSUME NEW a \in Adders, Lock(a) \/ AddAndUnlock(a) PROVE Elsewhere
  BY <1>3 DEF Lock, AddAndUnlock, Elsewhere, StreamTypes
<1>4. CASE Finish
  BY <1>4 DEF Finish, Elsewhere, StreamTypes
<1> QED
  BY <1>1, <1>2, <1>3, <1>4, Zenon DEF ChannelsNext, ChannelsMain, ProducerStep, AdderStep

\* The histories stay counted (main.rs:39, 66, 75, 84).
LEMMA HistoryKeeps ==
  ASSUME StreamTypes, HistoryInv, CountInv, ChannelsNext
  PROVE  StreamTypes' /\ HistoryInv' /\ CountInv'
<1>1. ASSUME \A k \in 1..3 : received'[k] \o chan'[k] = received[k] \o chan[k],
             stage' \in Nat, stage' >= stage, sent' = sent
      PROVE  HistoryInv' /\ CountInv'
  <2>1. HistoryInv'
    BY <1>1, Zenon DEF HistoryInv, History
  <2>2. \A k \in 1..3 : stage' <= k => stage <= k
    BY <1>1, SMTT(30) DEF StreamTypes
  <2>3. CountInv'
    BY <1>1, <2>2, Zenon DEF CountInv, History
  <2> QED
    BY <2>1, <2>3
<1>2. CASE Elsewhere
  <2>1. StreamTypes'
    BY <1>2 DEF Elsewhere, StreamTypes
  <2> QED
    BY <1>1, <1>2, <2>1 DEF Elsewhere
<1>3. CASE Receive
  <2>1. /\ StreamTypes' /\ \A k \in 1..3 : received'[k] \o chan'[k] = received[k] \o chan[k]
        /\ sent' = sent /\ stage' = stage
    BY <1>3, MainFacts, Zenon
  <2>2. stage' \in Nat /\ stage' >= stage
    BY <2>1, SMTT(30) DEF StreamTypes
  <2> QED
    BY <1>1, <2>1, <2>2, Zenon
<1>3a. CASE Leave
  <2>1. StreamTypes' /\ UNCHANGED <<chan, received, sent>> /\ stage' = stage + 1
    BY <1>3a, MainFacts
  <2>2. stage' \in Nat /\ stage' >= stage
    BY <2>1 DEF StreamTypes
  <2> QED
    BY <1>1, <2>1, <2>2
<1>4. CASE LeaveSecond
  <2>1. /\ StreamTypes' /\ stage' = 3 /\ received' = received /\ sent' = sent
        /\ chan'[2] = <<>> /\ \A k \in {1, 3} : chan'[k] = chan[k]
    BY <1>4, MainFacts
  <2>2. received[2] \in Seq(Producers \X Nat) /\ chan[2] \in Seq(Producers \X Nat)
    BY DEF StreamTypes
  <2>3. received'[2] \o chan'[2] = received[2]
    BY <2>1, <2>2
  <2>4. \A k \in {1, 3} : received'[k] \o chan'[k] = received[k] \o chan[k]
    BY <2>1, Zenon
  <2>5. \A k \in 1..3 : Counted(received[k] \o chan[k], Of(k))
    BY DEF HistoryInv, History
  <2>6. Counted(received[2], Of(2))
    <3>1. Counted(received[2] \o chan[2], Of(2))
      BY <2>5
    <3> QED
      BY <2>2, <3>1, PrefixCounted
  <2>7. \A k \in 1..3 : Counted(received'[k] \o chan'[k], Of(k))
    <3>1. \A k \in 1..3 : k = 2 \/ k \in {1, 3}
      OBVIOUS
    <3> QED
      BY <2>3, <2>4, <2>5, <2>6, <3>1, Zenon
  <2>8. CountInv'
    <3>1. \A k \in 1..3 : stage' <= k => k \in {1, 3} /\ stage <= k
      BY <2>1, <1>4, MainFacts
    <3> QED
      BY <2>1, <2>4, <3>1 DEF CountInv, History
  <2> QED
    BY <2>1, <2>7, <2>8, SMTT(30) DEF HistoryInv, History
<1>5. ASSUME NEW q \in Producers, Send(q), ~(stage > q[1])
      PROVE  StreamTypes' /\ HistoryInv' /\ CountInv'
  <2> DEFINE s == received[stage] \o chan[stage]
             t == received'[stage] \o chan'[stage]
             n == sent[q]
             S == Producers \X Nat
  <2>1. /\ stage = q[1] /\ producer[q] = "running" /\ sent[q] < Messages[q[1]]
        /\ chan' \in [1..3 -> Seq(S)] /\ Len(chan'[3]) <= Capacity
        /\ chan'[stage] = Append(chan[stage], <<q, sent[q]>>)
        /\ \A k \in 1..3 \ {stage} : chan'[k] = chan[k]
        /\ sent' \in [Producers -> Nat] /\ sent'[q] = sent[q] + 1
        /\ \A p \in Producers \ {q} : sent'[p] = sent[p]
        /\ UNCHANGED <<stage, received, producer, gaveUp, counter, holder, adder>>
    BY <1>5, SendFacts, Zenon
  <2>2. stage \in 1..3 /\ q \in Of(stage) /\ n \in Nat /\ <<q, n>> \in S
    BY <2>1, ProducersOf DEF StreamTypes
  <2>3. StreamTypes'
    <3>1. Messages[q[1]] \in Nat
      BY <2>1, <2>2, ChannelsAssumption, Zenon
    <3>2. \A a, b \in Nat : a < b => a + 1 <= b
      OBVIOUS
    <3>3. sent'[q] <= Messages[q[1]]
      BY <2>1, <2>2, <3>1, <3>2, Zenon
    <3> QED
      BY <2>1, <3>3, Zenon DEF StreamTypes
  <2>4. s \in Seq(S) /\ t = Append(s, <<q, n>>)
    <3>1. received[stage] \in Seq(S) /\ chan[stage] \in Seq(S) /\ received' = received
      BY <2>1, <2>2, Zenon DEF StreamTypes
    <3>2. chan'[stage] = Append(chan[stage], <<q, n>>)
      BY <2>1
    <3> DEFINE m == <<q, n>>
    <3> HIDE DEF S, n, m
    <3>3. m \in S
      BY <2>2 DEF m
    <3>4. \A r, c \in Seq(S) : r \o Append(c, m) = Append(r \o c, m) /\ r \o c \in Seq(S)
      BY <3>3, Histories
    <3>5. s \in Seq(S) /\ received[stage] \o Append(chan[stage], m) = Append(s, m)
      BY <3>1, <3>4, Zenon
    <3> QED
      BY <3>1, <3>2, <3>5, Zenon DEF m
  <2>5. Counted(s, Of(stage)) /\ \A p \in Of(stage) : CountOf(s, p) = sent[p]
    <3>1. stage <= stage
      BY <2>2
    <3> QED
      BY <2>2, <3>1 DEF HistoryInv, CountInv, History
  <2> HIDE DEF s, t, n, S
  <2>6. /\ Counted(t, Of(stage)) /\ CountOf(t, q) = n + 1
        /\ \A p \in Of(stage) \ {q} : CountOf(t, p) = CountOf(s, p)
    <3>1. CountOf(s, q) = n
      BY <2>2, <2>5, SMTT(30) DEF n
    <3> QED
      BY <2>2, <2>4, <2>5, <3>1, AppendCounted
  <2>7. \A k \in 1..3 \ {stage} : received'[k] \o chan'[k] = received[k] \o chan[k]
    BY <2>1, Zenon
  <2>8. HistoryInv'
    <3>1. \A k \in 1..3 \ {stage} : Counted(received'[k] \o chan'[k], Of(k))
      BY <2>7, Zenon DEF HistoryInv, History
    <3>2. Counted(received'[stage] \o chan'[stage], Of(stage))
      BY <2>6 DEF t
    <3> QED
      BY <3>1, <3>2 DEF HistoryInv, History
  <2>9. CountInv'
    <3>1. ASSUME NEW k \in 1..3, stage' <= k, NEW p \in Of(k)
          PROVE  CountOf(received'[k] \o chan'[k], p) = sent'[p]
      <4>1. stage <= k /\ p \in Producers /\ p[1] = k
        BY <2>1, <3>1, ProducersOf
      <4>2. CASE k = stage /\ p = q
        <5>1. CountOf(t, q) = sent'[q]
          BY <2>1, <2>6 DEF n
        <5> QED
          BY <4>2, <5>1, SMTT(30) DEF t
      <4>3. CASE k = stage /\ p # q
        <5>1. CountOf(t, p) = sent'[p]
          BY <2>1, <2>5, <2>6, <3>1, <4>1, <4>3, ZenonT(40)
        <5> QED
          BY <4>3, <5>1, SMTT(30) DEF t
      <4>4. CASE k # stage
        <5>1. sent'[p] = sent[p]
          BY <2>1, <4>1, <4>4
        <5> QED
          BY <2>7, <3>1, <4>1, <4>4, <5>1, Zenon DEF CountInv, History
      <4> QED
        BY <4>2, <4>3, <4>4, SMTT(30)
    <3> QED
      BY <3>1 DEF CountInv, History
  <2> QED
    BY <2>3, <2>8, <2>9, SMTT(30)
<1> QED
  BY <1>2, <1>3, <1>3a, <1>4, <1>5, ChannelSteps

\* If M messages from each of the producers in O would fill s, and none has more than M in
\* it, then each has M.
LEMMA AllArrived ==
  ASSUME NEW P, NEW s \in Seq(P \X Nat), NEW O, IsFiniteSet(O), NEW M \in Nat,
         Counted(s, O), Len(s) = Cardinality(O) * M, AtMost(s, O, M)
  PROVE  \A q \in O : CountOf(s, q) = M
<1> DEFINE l == Len(s)
           T == O \X (0..M - 1)
<1>1. /\ l \in Nat /\ \A i \in 1..l : /\ s[i] = <<s[i][1], s[i][2]>>
                                     /\ s[i][1] \in O /\ s[i][2] = Before(s, i, s[i][1])
  BY DEF Counted
<1>2. \A q : \A i \in 1..l + 1 : Before(s, i, q) \in Nat
  <2>1. \A i \in 1..l + 1 : i \in Nat /\ 0 < i
    BY <1>1, SMTT(30)
  <2> QED
    BY <2>1, BeforeNext, Zenon
<1>3. \A q : CountOf(s, q) = Before(s, l + 1, q)
  BY DEF CountOf
<1> HIDE DEF l
<1>4. ASSUME NEW i \in 1..l, NEW j \in 1..l + 1, i < j
      PROVE  Before(s, i, s[i][1]) < Before(s, j, s[i][1])
  <2>1. i \in Nat /\ j \in Nat /\ 0 < i
    BY <1>1, SMTT(30)
  <2> DEFINE q == s[i][1]
  <2>2. s[i][1] = q
    BY SMTT(30)
  <2> HIDE DEF q
  <2>3. Before(s, i, q) < Before(s, j, q)
    BY <1>4, <2>1, <2>2, BeforeGrows, SMTT(30)
  <2> QED
    BY <2>3 DEF q
<1>5. \A i \in 1..l : s[i] \in T
  <2>1. ASSUME NEW i \in 1..l PROVE s[i] \in T
    <3>1. l + 1 \in 1..l + 1 /\ i < l + 1 /\ i \in 1..l + 1
      BY <1>1, SMTT(30)
    <3>2. Before(s, i, s[i][1]) < Before(s, l + 1, s[i][1])
      BY <1>4, <3>1, SMTT(30)
    <3>3. Before(s, l + 1, s[i][1]) <= M /\ s[i][1] \in O
      BY <1>1, <1>3 DEF AtMost
    <3>4. Before(s, i, s[i][1]) \in Nat /\ Before(s, l + 1, s[i][1]) \in Nat
      BY <1>2, <3>1, SMTT(30)
    <3>4a. \A a, b \in Nat : a < b /\ b <= M => a \in 0..M - 1
      BY <1>1
    <3>4b. s[i][2] = Before(s, i, s[i][1])
      BY <1>1 DEF Counted
    <3>5. s[i][2] \in 0..M - 1
      BY <3>2, <3>3, <3>4, <3>4a, <3>4b, Zenon
    <3>6. s[i] = <<s[i][1], s[i][2]>>
      BY <1>1
    <3>7. \A b \in 0..M - 1 : \A a \in O : <<a, b>> \in T
      OBVIOUS
    <3> HIDE DEF T
    <3> QED
      BY <3>3, <3>5, <3>6, <3>7, Zenon
  <2> QED
    BY <2>1
<1>6. s \in Injection(1..l, T)
  <2>1. s \in [1..l -> T]
    BY <1>5 DEF l
  <2>2. ASSUME NEW i \in 1..l, NEW j \in 1..l, s[i] = s[j], i < j PROVE FALSE
    <3>1. Before(s, i, s[i][1]) < Before(s, j, s[i][1])
      BY <1>1, <1>4, <2>2, SMTT(30)
    <3>2. Before(s, i, s[i][1]) = Before(s, j, s[i][1])
      BY <1>1, <2>2
    <3>3. j \in 1..l + 1
      BY <1>1
    <3>4. Before(s, j, s[i][1]) \in Nat
      BY <1>2, <3>3, SMTT(30)
    <3> QED
      BY <3>1, <3>2, <3>4, SMTT(30)
  <2>3. \A i, j \in 1..l : i = j \/ i < j \/ j < i
    BY <1>1
  <2>4. \A i, j \in 1..l : s[i] = s[j] => i = j
    BY <2>2, <2>3
  <2> QED
    BY <2>1, <2>4, Zenon DEF Injection, IsInjective
<1>7. IsFiniteSet(T) /\ Cardinality(T) = Cardinality(1..l)
  <2>1. IsFiniteSet(0..M - 1) /\ Cardinality(0..M - 1) = M
    <3>1. 0 \in Int /\ M - 1 \in Int /\ (0 > M - 1 <=> M = 0) /\ (M - 1) - 0 + 1 = M
      OBVIOUS
    <3> QED
      BY <3>1, FS_Interval, Zenon
  <2>2. IsFiniteSet(T) /\ Cardinality(T) = Cardinality(O) * M
    BY <2>1, FS_Product, Zenon
  <2>3. Cardinality(1..l) = l
    BY <1>1, FS_Interval, SMTT(30)
  <2> QED
    BY <2>2, <2>3, SMTT(30) DEF l
<1>8. s \in Surjection(1..l, T)
  <2> HIDE DEF T
  <2> QED
    BY <1>6, <1>7, FS_Injection
<1> SUFFICES ASSUME NEW q \in O PROVE CountOf(s, q) = M
  OBVIOUS
<1>9. CountOf(s, q) \in Nat /\ CountOf(s, q) <= M
  <2>1. l + 1 \in 1..l + 1
    BY <1>1
  <2> QED
    BY <1>2, <1>3, <2>1 DEF AtMost
<1>10. CASE M = 0
  BY <1>9, <1>10
<1>11. CASE M # 0
  <2>1. <<q, M - 1>> \in T
    BY <1>11
  <2>2. PICK i \in 1..l : s[i] = <<q, M - 1>>
    BY <1>8, <2>1, SMTT(30) DEF Surjection
  <2>3. s[i][1] = q /\ s[i][2] = M - 1 /\ Before(s, i, q) = M - 1
    BY <1>1, <2>2, SMTT(30)
  <2>4. l + 1 \in 1..l + 1 /\ i < l + 1
    BY <1>1, SMTT(30)
  <2>5. M - 1 < CountOf(s, q)
    BY <1>3, <1>4, <2>3, <2>4, SMTT(30)
  <2> QED
    BY <1>9, <2>5
<1> QED
  BY <1>10, <1>11

\* When main has all the messages example 2 asks for, no producer has one left.
LEMMA SecondDone ==
  ASSUME StreamTypes, HistoryInv, CountInv, stage = 2, Len(received[2]) = Wanted
  PROVE  \A q \in Of(2) : sent[q] = Messages[2]
<1> DEFINE r == received[2]
           c == chan[2]
           M == Messages[2]
<1>1. r \in Seq(Producers \X Nat) /\ c \in Seq(Producers \X Nat) /\ M \in Nat
  BY ChannelsAssumption DEF StreamTypes
<1>2. \A q \in Of(2) : q \in Producers /\ sent[q] \in Nat /\ sent[q] <= M
  <2>1. \A q \in Of(2) : q \in Producers /\ q[1] = 2
    BY ProducersOf
  <2> QED
    BY <2>1, Zenon DEF StreamTypes
<1>3. Counted(r \o c, Of(2)) /\ \A q \in Of(2) : CountOf(r \o c, q) = sent[q]
  BY DEF HistoryInv, CountInv, History
<1>4. IsFiniteSet(Of(2)) /\ Cardinality(Of(2)) = Cardinality(Senders)
  <2> DEFINE f == [p \in Senders |-> <<2, p>>]
  <2>1. IsFiniteSet(Senders)
    BY ChannelsAssumption
  <2>2. f \in Bijection(Senders, Of(2))
    <3>1. Of(2) = {<<2, p>> : p \in Senders}
      BY ProducersOf
    <3>2. f \in [Senders -> Of(2)]
      BY <3>1
    <3>3. \A p, q \in Senders : f[p] = f[q] => p = q
      OBVIOUS
    <3>4. \A t \in Of(2) : \E p \in Senders : f[p] = t
      BY <3>1
    <3> QED
      BY <3>2, <3>3, <3>4, Zenon DEF Bijection, Injection, Surjection, IsInjective
  <2> HIDE DEF f
  <2> QED
    BY <2>1, <2>2, FS_Bijection DEF ExistsBijection
<1>5. Counted(r, Of(2))
  BY <1>1, <1>3, PrefixCounted
<1> HIDE DEF r, c, M
<1>6. ASSUME NEW q \in Of(2) PROVE CountOf(r, q) \in Nat /\ CountOf(r, q) <= sent[q]
  <2> DEFINE s == r \o c
             A == {j \in 1..(Len(r) + 1) - 1 : r[j][1] = q}
             B == {j \in 1..(Len(s) + 1) - 1 : s[j][1] = q}
  <2>1. /\ Len(r) \in Nat /\ Len(s) \in Nat /\ Len(r) <= Len(s)
        /\ \A i \in 1..Len(r) : s[i] = r[i]
    BY <1>1, SMTT(30)
  <2> HIDE DEF s
  <2>2. B \subseteq 1..Len(s) /\ A \subseteq B
    BY <2>1, SMTT(30)
  <2>3. IsFiniteSet(1..Len(s))
    BY <2>1, FS_Interval
  <2>4. IsFiniteSet(B) /\ Cardinality(A) <= Cardinality(B) /\ IsFiniteSet(A)
    BY <2>2, <2>3, FS_Subset, SMTT(30)
  <2>5. Cardinality(A) \in Nat
    BY <2>4, FS_CardinalityType
  <2>6. CountOf(r, q) = Cardinality(A) /\ CountOf(s, q) = Cardinality(B)
    BY DEF CountOf, Before
  <2>7. CountOf(s, q) = sent[q]
    BY <1>3 DEF s
  <2> QED
    BY <2>4, <2>5, <2>6, <2>7
<1>7. AtMost(r, Of(2), M)
  BY <1>1, <1>2, <1>6 DEF AtMost
<1>8. Len(r) = Cardinality(Of(2)) * M
  BY <1>4 DEF r, M, Wanted
<1>9. \A q \in Of(2) : CountOf(r, q) = M
  BY <1>1, <1>4, <1>5, <1>7, <1>8, AllArrived, ZenonT(40)
<1>10. \A q \in Of(2) : sent[q] = M
  BY <1>1, <1>2, <1>6, <1>9
<1> QED
  BY <1>10 DEF M

\* Counted messages of a single producer are its first ones, in order.
LEMMA OneProducer ==
  ASSUME NEW P, NEW s \in Seq(P \X Nat), NEW q, Counted(s, {q})
  PROVE  s = [i \in 1..CountOf(s, q) |-> <<q, i - 1>>]
<1> DEFINE l == Len(s)
<1>1. l \in Nat /\ s = [i \in 1..l |-> s[i]]
  OBVIOUS
<1>2. \A i \in 1..l : s[i] = <<s[i][1], s[i][2]>>
  BY SMTT(30)
<1>3. \A i \in 1..l : s[i][1] = q /\ s[i][2] = Before(s, i, s[i][1])
  BY DEF Counted
<1> HIDE DEF l
<1>4. ASSUME NEW i \in 1..l + 1 PROVE Before(s, i, q) = i - 1
  <2>1. {j \in 1..i - 1 : s[j][1] = q} = 1..i - 1
    BY <1>1, <1>3
  <2>2. Cardinality(1..i - 1) = i - 1
    <3>1. 1 \in Int /\ i - 1 \in Int /\ (1 > i - 1 => i - 1 = 0) /\ (i - 1) - 1 + 1 = i - 1
      BY <1>1
    <3> QED
      BY <3>1, FS_Interval
  <2> QED
    BY <2>1, <2>2, Zenon DEF Before
<1>5. \A i \in 1..l : i \in 1..l + 1 /\ s[i] = <<q, Before(s, i, q)>>
  BY <1>1, <1>2, <1>3, SMTT(30)
<1>6. \A i \in 1..l : s[i] = <<q, i - 1>>
  BY <1>4, <1>5
<1>7. CountOf(s, q) = l
  <2>1. l + 1 \in 1..l + 1 /\ (l + 1) - 1 = l
    BY <1>1
  <2>2. CountOf(s, q) = Before(s, l + 1, q)
    BY DEF CountOf, l
  <2> QED
    BY <1>4, <2>1, <2>2
<1>8. s = [i \in 1..l |-> <<q, i - 1>>]
  BY <1>1, <1>6
<1> QED
  BY <1>7, <1>8

CounterTypes ==
  /\ counter \in 0..Cardinality(Adders)
  /\ holder \in Adders \cup {"none"}
  /\ adder \in [Adders -> {"running", "ended"}]

\* A step that is not an adder's leaves the counter alone, and only Finish takes main
\* to stage 5.
LEMMA CounterAlone ==
  ASSUME StreamTypes, Receive \/ Leave \/ LeaveSecond \/ \E q \in Producers : ProducerStep(q)
  PROVE  UNCHANGED <<counter, holder, adder>> /\ (stage' = 5 => stage = 5)
<1>1. CASE Receive
  BY <1>1 DEF Receive
<1>2. CASE Leave
  BY <1>2 DEF Leave
<1>3. CASE LeaveSecond
  BY <1>3, SMTT(30) DEF LeaveSecond
<1>4. ASSUME NEW q \in Producers, ProducerStep(q)
      PROVE  UNCHANGED <<counter, holder, adder>> /\ stage' = stage
  BY <1>4 DEF ProducerStep, Send, ProducerEnds
<1> QED
  BY <1>1, <1>2, <1>3, <1>4

LEMMA CounterKeeps ==
  ASSUME StreamTypes, CounterTypes, CounterInv, ChannelsNext
  PROVE  CounterTypes' /\ CounterInv'
<1> DEFINE Ended == {a \in Adders : adder[a] = "ended"}
<1>1. CASE Receive \/ Leave \/ LeaveSecond \/ \E q \in Producers : ProducerStep(q)
  <2>1. UNCHANGED <<counter, holder, adder>> /\ (stage' = 5 => stage = 5)
    BY <1>1, CounterAlone
  <2> QED
    BY <2>1 DEF CounterTypes, CounterInv
<1>2. CASE Finish
  BY <1>2 DEF Finish, CounterTypes, CounterInv
<1>3. ASSUME NEW a \in Adders, Lock(a) PROVE CounterTypes' /\ CounterInv'
  BY <1>3 DEF Lock, CounterTypes, CounterInv
<1>4. ASSUME NEW a \in Adders, AddAndUnlock(a) PROVE CounterTypes' /\ CounterInv'
  <2>1. /\ holder = a /\ a # "none" /\ adder[a] = "running" /\ holder' = "none"
        /\ counter' = counter + 1 /\ stage' = stage
        /\ adder' = [adder EXCEPT ![a] = "ended"]
    BY <1>4, ChannelsAssumption DEF AddAndUnlock, CounterInv
  <2>2. adder' \in [Adders -> {"running", "ended"}] /\ adder'[a] = "ended"
        /\ \A b \in Adders \ {a} : adder'[b] = adder[b]
    BY <2>1 DEF CounterTypes
  <2>3. Ended' = Ended \cup {a} /\ a \notin Ended
    BY <2>1, <2>2
  <2>4. IsFiniteSet(Adders) /\ Ended \in SUBSET Adders /\ Ended' \in SUBSET Adders
    BY ChannelsAssumption
  <2>5. IsFiniteSet(Ended) /\ counter = Cardinality(Ended)
    BY <2>4, FS_Subset DEF CounterInv
  <2>6. Cardinality(Ended \cup {a}) = Cardinality(Ended) + 1
    <3> HIDE DEF Ended
    <3> QED
      BY <2>3, <2>5, FS_AddElement, SMTT(30)
  <2>7. counter' = Cardinality(Ended')
    BY <2>1, <2>3, <2>5, <2>6
  <2>8. Cardinality(Ended') <= Cardinality(Adders) /\ IsFiniteSet(Ended')
    BY <2>4, FS_Subset
  <2>9. counter' \in 0..Cardinality(Adders)
    <3>1. Cardinality(Ended') \in Nat /\ Cardinality(Adders) \in Nat
      BY <2>4, <2>8, FS_CardinalityType
    <3> HIDE DEF Ended
    <3> QED
      BY <2>7, <2>8, <3>1
  <2>10. stage' = 5 => \A b \in Adders : adder'[b] = "ended"
    BY <2>1, <2>2 DEF CounterInv
  <2> QED
    BY <2>1, <2>2, <2>7, <2>9, <2>10 DEF CounterTypes, CounterInv
<1> QED
  BY <1>1, <1>2, <1>3, <1>4 DEF ChannelsNext, ChannelsMain, AdderStep

\* A producer fails only if main gave up example 2: the producers of the others have
\* ended when main leaves, and so have those of example 2 sent all when main has all.
LEMMA ProducersKeep ==
  ASSUME StreamTypes, HistoryInv, CountInv, ProducersInv, LeftInv, ChannelsNext
  PROVE  ProducersInv'
<1>1. \A q \in Producers : /\ producer[q] = "ended" => sent[q] = Messages[q[1]]
                           /\ producer[q] = "panicked" => gaveUp /\ q[1] < stage
  BY DEF ProducersInv
<1>2. stage > 2 /\ ~gaveUp => \A q \in Of(2) : sent[q] = Messages[2]
  BY DEF ProducersInv
<1>3. \A q \in Producers : q[1] \in 1..3 /\ q \in Of(q[1])
  BY ProducersOf
<1>4. stage \in 1..5 /\ Of(2) \subseteq Producers /\ \A q \in Of(2) : q[1] = 2
  BY ProducersOf DEF StreamTypes
<1>5. producer \in [Producers -> {"running", "ended", "panicked"}]
  BY DEF StreamTypes
<1>6. ASSUME UNCHANGED <<sent, producer>>, gaveUp => gaveUp', stage' >= stage, stage' \in 1..5,
             stage' > 2 /\ ~gaveUp' => \A q \in Of(2) : sent[q] = Messages[2]
      PROVE  ProducersInv'
  <2>1. \A q \in Producers : q[1] < stage => q[1] < stage'
    BY <1>3, <1>4, <1>6, SMTT(30)
  <2> QED
    BY <1>1, <1>6, <2>1, SMTT(30) DEF ProducersInv
<1>7. CASE LeaveSecond
  <2>1. /\ stage = 2 /\ stage' = 3 /\ UNCHANGED <<sent, producer>>
        /\ (Len(received[2]) = Wanted /\ gaveUp' = gaveUp) \/ gaveUp' = TRUE
    BY <1>7 DEF LeaveSecond
  <2>2. Len(received[2]) = Wanted => \A q \in Of(2) : sent[q] = Messages[2]
    BY <2>1, SecondDone
  <2>3. gaveUp => gaveUp'
    BY <2>1, Zenon
  <2>4. stage' >= stage /\ stage' \in 1..5
    BY <2>1
  <2>5. ~gaveUp' => \A q \in Of(2) : sent[q] = Messages[2]
    BY <2>1, <2>2, Zenon
  <2> QED
    BY <1>6, <2>1, <2>3, <2>4, <2>5, Zenon
<1>8. ASSUME UNCHANGED <<sent, producer, gaveUp>>, stage' >= stage, stage' \in 1..5,
             stage' > 2 => stage > 2
      PROVE  ProducersInv'
  BY <1>2, <1>6, <1>8
<1>9. CASE Receive \/ Leave \/ Finish \/ \E a \in Adders : AdderStep(a)
  <2>1. CASE Receive
    BY <1>4, <1>8, <2>1 DEF Receive
  <2>2. CASE Leave
    BY <1>4, <1>8, <2>2 DEF Leave
  <2>3. CASE Finish
    BY <1>4, <1>8, <2>3 DEF Finish
  <2>4. ASSUME NEW a \in Adders, AdderStep(a) PROVE ProducersInv'
    BY <1>4, <1>8, <2>4, SMTT(30) DEF AdderStep, Lock, AddAndUnlock
  <2> QED
    BY <1>9, <2>1, <2>2, <2>3, <2>4
<1>10. ASSUME NEW q \in Producers, Send(q), ~(stage > q[1]) PROVE ProducersInv'
  <2>1. /\ stage = q[1] /\ producer[q] = "running"
        /\ \A p \in Producers \ {q} : sent'[p] = sent[p]
        /\ UNCHANGED <<stage, producer, gaveUp>>
    BY <1>10, SendFacts, Zenon
  <2>2. \A p \in Producers : /\ producer'[p] = "ended" => sent'[p] = Messages[p[1]]
                             /\ producer'[p] = "panicked" => gaveUp' /\ p[1] < stage'
    BY <1>1, <2>1
  <2>3. stage > 2 => \A p \in Of(2) : p \in Producers \ {q}
    BY <1>4, <2>1
  <2>4. stage' > 2 /\ ~gaveUp' => \A p \in Of(2) : sent'[p] = Messages[2]
    BY <1>2, <2>1, <2>3
  <2> QED
    BY <2>2, <2>4, Zenon DEF ProducersInv
<1>11. ASSUME NEW q \in Producers, NEW e \in {"ended", "panicked"},
              producer' = [producer EXCEPT ![q] = e], UNCHANGED <<stage, sent, gaveUp>>,
              e = "ended" => sent[q] = Messages[q[1]],
              e = "panicked" => gaveUp /\ q[1] < stage
       PROVE  ProducersInv'
  <2>1. producer'[q] = e /\ \A p \in Producers \ {q} : producer'[p] = producer[p]
    BY <1>5, <1>11, SMTT(30)
  <2>2. \A p \in Producers : /\ producer'[p] = "ended" => sent'[p] = Messages[p[1]]
                             /\ producer'[p] = "panicked" => gaveUp' /\ p[1] < stage'
    BY <1>1, <1>11, <2>1, SMTT(30)
  <2>3. stage' > 2 /\ ~gaveUp' => \A p \in Of(2) : sent'[p] = Messages[2]
    BY <1>2, <1>11
  <2> QED
    BY <2>2, <2>3 DEF ProducersInv
<1>12. ASSUME NEW q \in Producers, Send(q), stage > q[1] PROVE ProducersInv'
  <2>1. /\ producer[q] = "running" /\ sent[q] < Messages[q[1]]
        /\ producer' = [producer EXCEPT ![q] = "panicked"]
        /\ UNCHANGED <<stage, sent, gaveUp>>
    BY <1>12 DEF Send
  <2>2. q[1] \notin {1, 3}
    BY <1>3, <1>12, <2>1 DEF LeftInv
  <2>3. q[1] = 2 /\ q \in Of(2)
    BY <1>3, <2>2
  <2>4. Messages[2] \in Nat /\ sent[q] \in Nat
    BY ChannelsAssumption DEF StreamTypes
  <2>5. sent[q] # Messages[2] /\ stage > 2
    BY <1>12, <2>1, <2>3, <2>4
  <2>6. gaveUp /\ q[1] < stage
    BY <1>2, <2>3, <2>5
  <2> QED
    BY <1>11, <2>1, <2>6, Zenon
<1>13. ASSUME NEW q \in Producers, ProducerEnds(q) PROVE ProducersInv'
  BY <1>11, <1>13, Zenon DEF ProducerEnds
<1> QED
  BY <1>7, <1>9, <1>10, <1>12, <1>13 DEF ChannelsNext, ChannelsMain, ProducerStep

\* Main leaves examples 1 and 3 when the channel is empty and its producer has ended.
LEMMA LeftKeeps ==
  ASSUME StreamTypes, HistoryInv, CountInv, ProducersInv, LeftInv, ChannelsNext
  PROVE  LeftInv'
<1> DEFINE Whole(k) == [i \in 1..Messages[k] |-> <<<<k, "p">>, i - 1>>]
<1>1. /\ stage \in 1..5 /\ producer \in [Producers -> {"running", "ended", "panicked"}]
      /\ \A k \in {1, 3} : k \in 1..3 /\ Of(k) = {<<k, "p">>} /\ Of(k) \subseteq Producers
      /\ \A q \in Producers : q[1] \in 1..3 /\ q \in Of(q[1])
  BY ProducersOf DEF StreamTypes
<1>2. \A k \in {1, 3} : stage > k =>
        (\A q \in Of(k) : producer[q] = "ended") /\ received[k] = Whole(k)
  BY Zenon DEF LeftInv
<1> HIDE DEF Whole
<1>3. ASSUME \A k \in {1, 3} : stage' > k => stage > k,
             \A k \in {1, 3} : stage > k => received'[k] = received[k],
             \A q \in Producers : producer[q] = "ended" => producer'[q] = "ended"
      PROVE  LeftInv'
  <2>1. \A k \in {1, 3} : stage' > k =>
          (\A q \in Of(k) : producer'[q] = "ended") /\ received'[k] = Whole(k)
    BY <1>1, <1>2, <1>3
  <2> QED
    BY <2>1, Zenon DEF LeftInv, Whole
<1>4. CASE Receive
  <2>1. /\ UNCHANGED <<stage, producer>> /\ stage \in 1..3
        /\ \A k \in 1..3 \ {stage} : received'[k] = received[k]
    BY <1>4, MainFacts DEF Receive
  <2>2. \A k \in {1, 3} : stage > k => k \in 1..3 \ {stage}
    BY <2>1
  <2> QED
    BY <1>3, <2>1, <2>2, SMTT(30)
<1>5. CASE LeaveSecond
  BY <1>3, <1>5 DEF LeaveSecond
<1>6. CASE Finish
  BY <1>3, <1>6 DEF Finish
<1>7. ASSUME NEW a \in Adders, AdderStep(a) PROVE LeftInv'
  BY <1>3, <1>7 DEF AdderStep, Lock, AddAndUnlock
<1>8. ASSUME NEW q \in Producers, ProducerStep(q) PROVE LeftInv'
  <2>1. UNCHANGED <<stage, received>>
    BY <1>8 DEF ProducerStep, Send, ProducerEnds
  <2>2. producer' = producer \/ (producer[q] = "running" /\ \E e : producer' = [producer EXCEPT ![q] = e])
    BY <1>8 DEF ProducerStep, Send, ProducerEnds
  <2>3. \A p \in Producers : producer[p] = "ended" => producer'[p] = "ended"
    BY <1>1, <2>2
  <2> QED
    BY <1>3, <2>1, <2>3, SMTT(30)
<1>9. CASE Leave
  <2> DEFINE k == stage
             q == <<k, "p">>
             r == received[k]
  <2>1. /\ k \in {1, 3} /\ chan[k] = <<>> /\ stage' = k + 1 /\ UNCHANGED <<received, producer>>
        /\ \A p \in Of(k) : producer[p] # "running"
    BY <1>9 DEF Leave, Disconnected
  <2> HIDE DEF k
  <2>2. q \in Of(k) /\ q \in Producers /\ q[1] = k /\ Of(k) = {q} /\ k \in 1..3
    BY <1>1, <2>1
  <2>3. producer[q] = "ended" /\ sent[q] = Messages[k]
    <3>1. producer[q] # "panicked"
      BY <2>1, <2>2 DEF ProducersInv, k
    <3>2. producer[q] = "ended"
      BY <1>1, <2>1, <2>2, <3>1
    <3> QED
      BY <2>2, <3>2 DEF ProducersInv
  <2>4. r \in Seq(Producers \X Nat) /\ r \o chan[k] = r
    <3>1. r \in Seq(Producers \X Nat)
      BY <2>2, SMTT(30) DEF StreamTypes
    <3> QED
      BY <2>1, <3>1
  <2>5. Counted(r, {q}) /\ CountOf(r, q) = Messages[k]
    <3>1. Counted(r \o chan[k], {q})
      BY <2>2 DEF HistoryInv, History
    <3>2. CountOf(r \o chan[k], q) = sent[q]
      <4>1. stage <= k
        BY <1>1 DEF k
      <4> QED
        BY <2>2, <4>1 DEF CountInv, History
    <3> QED
      BY <2>3, <2>4, <3>1, <3>2
  <2>6. r = [i \in 1..Messages[k] |-> <<q, i - 1>>]
    <3> HIDE DEF q, r
    <3> QED
      BY <2>4, <2>5, OneProducer, Zenon
  <2>7. received'[k] = Whole(k) /\ \A p \in Of(k) : producer'[p] = "ended"
    BY <2>1, <2>2, <2>3, <2>6 DEF Whole
  <2>8. \A j \in {1, 3} : stage' > j => j = k \/ stage > j
    BY <2>1 DEF k
  <2>9. \A j \in {1, 3} : stage' > j =>
          (\A p \in Of(j) : producer'[p] = "ended") /\ received'[j] = Whole(j)
    BY <1>2, <2>1, <2>7, <2>8
  <2> QED
    BY <2>9 DEF LeftInv, Whole
<1> QED
  BY <1>4, <1>5, <1>6, <1>7, <1>8, <1>9 DEF ChannelsNext, ChannelsMain

\* What the examples of the channel project promise holds in every reachable state.
THEOREM ChannelsInvariant == ChannelsSpec => []ChannelsInv
<1>1. ChannelsInit => ChannelsInv
  <2> SUFFICES ASSUME ChannelsInit PROVE ChannelsInv
    OBVIOUS
  <2>1. /\ stage = 1 /\ gaveUp = FALSE /\ counter = 0 /\ holder = "none"
        /\ \A k \in 1..3 : chan[k] = <<>> /\ received[k] = <<>> /\ History(k) = <<>>
        /\ \A q \in Producers : sent[q] = 0 /\ producer[q] = "running"
        /\ \A a \in Adders : adder[a] = "running"
    BY DEF ChannelsInit, History
  <2>2. ChannelsTypeOK
    <3>1. chan \in [1..3 -> Seq(Producers \X Nat)] /\ received \in [1..3 -> Seq(Producers \X Nat)]
      BY DEF ChannelsInit
    <3>2. sent \in [Producers -> Nat] /\ producer \in [Producers -> {"running", "ended", "panicked"}]
      BY DEF ChannelsInit
    <3>3. Len(chan[3]) <= Capacity
      BY <2>1, ChannelsAssumption, SMTT(30)
    <3>4. \A q \in Producers : sent[q] <= Messages[q[1]]
      BY <2>1, ProducersOf, ChannelsAssumption
    <3>5. Cardinality(Adders) \in Nat
      BY ChannelsAssumption, FS_CardinalityType
    <3>6. counter \in 0..Cardinality(Adders)
      BY <2>1, <3>5
    <3>7. adder \in [Adders -> {"running", "ended"}]
      BY DEF ChannelsInit
    <3>8. stage \in 1..5 /\ holder \in Adders \cup {"none"}
      BY <2>1
    <3>9. gaveUp \in BOOLEAN
      BY <2>1, Zenon
    <3> QED
      BY <3>1, <3>2, <3>3, <3>4, <3>6, <3>7, <3>8, <3>9, Zenon DEF ChannelsTypeOK
  <2>3. HistoryInv /\ CountInv
    <3>1. \A O : Counted(<<>>, O)
      BY DEF Counted
    <3>2. \A q : CountOf(<<>>, q) = 0
      <4>1. \A q : {j \in 1..(Len(<<>>) + 1) - 1 : <<>>[j][1] = q} = {}
        OBVIOUS
      <4> QED
        BY <4>1, FS_EmptySet DEF CountOf, Before
    <3>3. \A k \in 1..3 : Of(k) \subseteq Producers
      BY ProducersOf
    <3> QED
      BY <2>1, <3>1, <3>2, <3>3 DEF HistoryInv, CountInv
  <2>4. ProducersInv /\ LeftInv
    BY <2>1 DEF ProducersInv, LeftInv
  <2>5. CounterInv
    <3>1. {a \in Adders : adder[a] = "ended"} = {}
      BY <2>1
    <3>2. Cardinality({a \in Adders : adder[a] = "ended"}) = 0
      BY <3>1, FS_EmptySet
    <3>3. holder = "none" /\ counter = 0 /\ stage # 5
      BY <2>1
    <3> QED
      BY <3>2, <3>3 DEF CounterInv
  <2> QED
    BY <2>2, <2>3, <2>4, <2>5 DEF ChannelsInv
<1>2. ChannelsInv /\ [ChannelsNext]_chanVars => ChannelsInv'
  <2>1. ASSUME ChannelsInv, ChannelsNext PROVE ChannelsInv'
    <3>1. /\ StreamTypes /\ CounterTypes
          /\ HistoryInv /\ CountInv /\ ProducersInv /\ LeftInv /\ CounterInv
      BY <2>1 DEF ChannelsInv, ChannelsTypeOK, StreamTypes, CounterTypes
    <3>2. StreamTypes' /\ HistoryInv' /\ CountInv'
      BY <2>1, <3>1, HistoryKeeps
    <3>3. CounterTypes' /\ CounterInv'
      BY <2>1, <3>1, CounterKeeps
    <3>4. ProducersInv'
      BY <2>1, <3>1, ProducersKeep
    <3>5. LeftInv'
      BY <2>1, <3>1, LeftKeeps, SMTT(30)
    <3> QED
      BY <3>2, <3>3, <3>4, <3>5, SMTT(30) DEF ChannelsInv, ChannelsTypeOK, StreamTypes, CounterTypes
  <2>2. ASSUME ChannelsInv, UNCHANGED chanVars PROVE ChannelsInv'
    BY <2>2, ZenonT(40) DEF chanVars, ChannelsInv, ChannelsTypeOK, HistoryInv, CountInv, History,
                ProducersInv, LeftInv, CounterInv
  <2> QED
    BY <2>1, <2>2, SMTT(30)
<1> QED
  BY <1>1, <1>2, PTL DEF ChannelsSpec

\* The results of the four examples (main.rs:45-47,84-98,118-121,142-146), for any
\* numbers of messages, senders and threads and any capacity.
THEOREM ExamplesGiveTheirResults == ChannelsSpec => []ResultsAreExact
<1>1. ChannelsInv => ResultsAreExact
  <2> SUFFICES ASSUME ChannelsInv PROVE ResultsAreExact
    BY SMTT(30)
  <2>1. \A k \in 1..3 : \A i \in DOMAIN History(k) :
          History(k)[i][1] \in Of(k) /\ History(k)[i][2] = Before(History(k), i, History(k)[i][1])
    <3>1. \A k \in 1..3 : received[k] \in Seq(Producers \X Nat) /\ chan[k] \in Seq(Producers \X Nat)
      BY DEF ChannelsInv, ChannelsTypeOK
    <3>2. \A k \in 1..3 : DOMAIN History(k) = 1..Len(History(k))
      BY <3>1 DEF History
    <3> QED
      BY <3>2, SMTT(30) DEF ChannelsInv, HistoryInv, Counted
  <2>2. stage = 5 => counter = Cardinality(Adders)
    <3>1. ASSUME stage = 5 PROVE {a \in Adders : adder[a] = "ended"} = Adders
      BY <3>1 DEF ChannelsInv, CounterInv
    <3> QED
      BY <3>1 DEF ChannelsInv, CounterInv
  <2>3. (\E q \in Producers : producer[q] = "panicked") => gaveUp
    BY DEF ChannelsInv, ProducersInv
  <2>4. \A k \in {1, 3} :
          stage > k => received[k] = [i \in 1..Messages[k] |-> <<<<k, "p">>, i - 1>>]
    BY Zenon DEF ChannelsInv, LeftInv
  <2> QED
    BY <2>1, <2>2, <2>3, <2>4 DEF ResultsAreExact, ChannelsInv
<1> QED
  BY <1>1, ChannelsInvariant, PTL
=============================================================================
