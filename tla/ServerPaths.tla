----------------------------- MODULE ServerPaths ----------------------------
(***************************************************************************)
(* The helpers of http2/nghttp2_server/nghttp2.h for the path of a         *)
(* request: percent_decode and check_path.  A string is a sequence of      *)
(* bytes.  percent_decode may read two bytes behind its argument, so the   *)
(* bytes that follow it in memory are an argument too.                     *)
(***************************************************************************)
EXTENDS Integers, SequencesExt

CONSTANTS Bytes,      \* the bytes of a path
          Following,  \* pairs of bytes that may follow it in memory
          MaxPath     \* bound: its length

ASSUME PathsAssumption ==
  Bytes \subseteq 0..255 /\ Following \subseteq (0..255) \X (0..255) /\ MaxPath \in Nat

VARIABLES value,     \* the path of the request
          path       \* what percent_decode made of it

pathVars == <<value, path>>

PathsInit == value = <<>> /\ path = <<>>

Percent == 37
Slash   == 47
Dot     == 46

isxdigit(c) == c \in 48..57 \cup 65..70 \cup 97..102

\* Mutant: lower-case digits are not offset by ten.
hex_lower(c) == CASE c \in 48..57 -> c - 48 [] c \in 65..70 -> c - 55 [] OTHER -> c - 97

hex_to_uint(c) == CASE c \in 48..57  -> c - 48
                    [] c \in 65..70  -> c - 55
                    [] c \in 97..102 -> c - 87
                    [] OTHER         -> 0

Escape(s, i) == s[i] = Percent /\ isxdigit(s[i + 1]) /\ isxdigit(s[i + 2])

\* A C string ends at its first zero.
CString(s) == IF 0 \in ToSet(s) THEN SubSeq(s, 1, SelectInSeq(s, LAMBDA b : b = 0) - 1) ELSE s

percent_decode(v, following) ==
  LET memory == v \o following
      n == Len(v)
      from[i \in 1..n + 1] ==
        IF i > n - 2 THEN <<memory[i], memory[i + 1]>>   \* the memcpy of two bytes
        ELSE IF Escape(memory, i)
        THEN <<16 * hex_to_uint(memory[i + 1]) + hex_to_uint(memory[i + 2])>> \o from[i + 3]
        ELSE <<memory[i]>> \o from[i + 1]
  IN CString(IF n > 3 THEN from[1] ELSE v)

ends_with(s, sub) == IsSuffix(sub, s)

strstr(s, sub) == \E i \in 1..Len(s) - Len(sub) + 1 : SubSeq(s, i, i + Len(sub) - 1) = sub

check_path(s) ==
  /\ s # <<>> /\ s[1] = Slash
  /\ ~strstr(s, <<92>>)
  /\ ~strstr(s, <<Slash, Dot, Dot, Slash>>) /\ ~strstr(s, <<Slash, Dot, Slash>>)
  /\ ~ends_with(s, <<Slash, Dot, Dot>>) /\ ~ends_with(s, <<Slash, Dot>>)

\* A request with path v arrives.
DecodePath ==
  \E n \in 0..MaxPath : \E v \in [1..n -> Bytes] : \E following \in Following :
    value' = v /\ path' = percent_decode(v, following)

PathsSpec == PathsInit /\ [][DecodePath]_pathVars
-----------------------------------------------------------------------------
\* The digits, in either case, whose value is d.
HexDigits(d) == IF d < 10 THEN {48 + d} ELSE {87 + d, 55 + d}

\* The byte, if any, that the two characters after v[i] stand for.
Escaped(v, i) == {b \in 0..255 : v[i + 1] \in HexDigits(b \div 16) /\ v[i + 2] \in HexDigits(b % 16)}

\* The reference: every escape is decoded, wherever it stands.
Decoded(v) ==
  LET from[i \in 1..Len(v) + 1] ==
        IF i > Len(v) THEN <<>>
        ELSE IF i + 2 <= Len(v) /\ v[i] = Percent /\ Escaped(v, i) # {}
        THEN <<CHOOSE b \in Escaped(v, i) : TRUE>> \o from[i + 3]
        ELSE <<v[i]>> \o from[i + 1]
  IN from[1]

\* s is absolute, has no backslash, and none of its segments is "." or "..".
StaysBelowRoot(s) ==
  /\ s # <<>> /\ Head(s) = Slash /\ 92 \notin ToSet(s)
  /\ \A i \in 1..Len(s), j \in 2..Len(s) + 1 :
       i < j /\ s[i] = Slash /\ (j > Len(s) \/ s[j] = Slash)
         => SubSeq(s, i + 1, j - 1) \notin {<<Dot>>, <<Dot, Dot>>}

\* The two functions of nghttp2.h:154-206 and 341-349 do what their comments say: the
\* path is the decoded one, as a C string, and check_path accepts exactly those without
\* a "." or ".." segment.  The decoding is exact unless an escape ends in the last two
\* bytes: the loop of percent_decode then leaves it behind, or steps over bytes that the
\* final copy of two bytes assumes are still there.
PathsAreDecoded ==
  /\ (\A i \in {Len(value) - 3, Len(value) - 2} : i >= 1 => ~Escape(value, i))
       => path = CString(Decoded(value))
  /\ check_path(path) <=> StaysBelowRoot(path)
==============================================================================
