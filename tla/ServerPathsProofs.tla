-------------------------- MODULE ServerPathsProofs --------------------------
(***************************************************************************)
(* The path helpers of the HTTP/2 server, for every path and not only the  *)
(* instance's: PathsAreDecoded for paths of any length, whatever bytes     *)
(* follow them in memory.  Both percent_decode and the reference are scans *)
(* from the end of the path, defined by what they do at one position; an   *)
(* induction over the distance to the end shows that the scans exist, are  *)
(* sequences of bytes, and agree where no escape reaches into the last two *)
(* bytes.  That check_path admits exactly the paths that stay below the    *)
(* root holds for every sequence of bytes, decoded or not.                 *)
(***************************************************************************)
EXTENDS ServerPaths, FiniteSetTheorems, SequenceTheorems, WellFoundedInduction, TLAPS

\* t stands in s from i on.
StandsAt(s, t, i) == \A j \in 1..Len(t) : s[i + j - 1] = t[j]

LEMMA Search ==
  ASSUME NEW s \in Seq(Nat), NEW t \in Seq(Nat)
  PROVE  strstr(s, t) <=> \E i \in 1..Len(s) - Len(t) + 1 : StandsAt(s, t, i)
<1> DEFINE l == Len(s)
           k == Len(t)
<1>1. l \in Nat /\ k \in Nat
  OBVIOUS
<1>2. ASSUME NEW i \in 1..l - k + 1
      PROVE  SubSeq(s, i, i + k - 1) = t <=> StandsAt(s, t, i)
  <2> DEFINE u == SubSeq(s, i, i + k - 1)
  <2>1. /\ i \in Int /\ i + k - 1 \in Int /\ \A j \in i..i + k - 1 : s[j] \in Nat
        /\ (i + k - 1) - i + 1 = k /\ (i <= i + k - 1 \/ k = 0)
    BY <1>1
  <2>2. u \in Seq(Nat) /\ Len(u) = k /\ \A j \in 1..k : u[j] = s[i + j - 1]
    BY <1>1, <2>1, SubSeqProperties
  <2> HIDE DEF u
  <2>3. (\A j \in 1..k : u[j] = t[j]) => u = t
    <3>1. u = [j \in 1..k |-> u[j]] /\ t = [j \in 1..k |-> t[j]]
      BY <2>2
    <3> QED
      BY <3>1
  <2>4. u = t <=> \A j \in 1..k : s[i + j - 1] = t[j]
    BY <2>2, <2>3
  <2> QED
    BY <2>4, Zenon DEF u, StandsAt
<1> QED
  BY <1>2, Zenon DEF strstr

LEMMA Suffix ==
  ASSUME NEW s \in Seq(Nat), NEW t \in Seq(Nat), t # <<>>
  PROVE  ends_with(s, t) <=> Len(t) <= Len(s) /\ StandsAt(s, t, Len(s) - Len(t) + 1)
<1> DEFINE l == Len(s)
           k == Len(t)
           r == Reverse(s)
           u == Reverse(t)
<1>1. l \in Nat /\ k \in Nat /\ 0 < k
  OBVIOUS
<1>2. /\ r = [i \in 1..l |-> s[(l - i) + 1]] /\ Len(r) = l
      /\ u = [i \in 1..k |-> t[(k - i) + 1]] /\ Len(u) = k
  BY <1>1 DEF Reverse
<1> HIDE DEF r, u
<1>3. ASSUME k <= l
      PROVE  SubSeq(u, 1, k) = SubSeq(r, 1, k) <=> StandsAt(s, t, l - k + 1)
  <2>1. SubSeq(u, 1, k) = [i \in 1..k |-> t[(k - i) + 1]]
    <3>1. \A i \in 1..k : u[i] \in Nat
      BY <1>1, <1>2
    <3>2. /\ SubSeq(u, 1, k) \in Seq(Nat) /\ Len(SubSeq(u, 1, k)) = k
          /\ \A i \in 1..k : SubSeq(u, 1, k)[i] = u[i]
      BY <1>1, <3>1, SubSeqProperties
    <3> QED
      BY <1>2, <3>2
  <2>2. SubSeq(r, 1, k) = [i \in 1..k |-> s[(l - i) + 1]]
    <3>1. \A i \in 1..k : r[i] \in Nat
      BY <1>1, <1>2, <1>3, SMTT(30)
    <3>2. /\ SubSeq(r, 1, k) \in Seq(Nat) /\ Len(SubSeq(r, 1, k)) = k
          /\ \A i \in 1..k : SubSeq(r, 1, k)[i] = r[i]
      BY <1>1, <3>1, SubSeqProperties
    <3>3. \A i \in 1..k : r[i] = s[(l - i) + 1]
      BY <1>1, <1>2, <1>3
    <3> QED
      BY <3>2, <3>3
  <2>3. SubSeq(u, 1, k) = SubSeq(r, 1, k) <=> \A i \in 1..k : t[(k - i) + 1] = s[(l - i) + 1]
    BY <2>1, <2>2, SMTT(30)
  <2>4. ASSUME \A i \in 1..k : t[(k - i) + 1] = s[(l - i) + 1], NEW j \in 1..k
        PROVE  s[(l - k + 1) + j - 1] = t[j]
    <3>1. /\ (k - j) + 1 \in 1..k /\ (k - ((k - j) + 1)) + 1 = j
          /\ (l - ((k - j) + 1)) + 1 = (l - k + 1) + j - 1
      BY <1>1
    <3> QED
      BY <2>4, <3>1
  <2>5. ASSUME \A j \in 1..k : s[(l - k + 1) + j - 1] = t[j], NEW i \in 1..k
        PROVE  t[(k - i) + 1] = s[(l - i) + 1]
    <3>1. /\ (k - i) + 1 \in 1..k
          /\ (l - k + 1) + ((k - i) + 1) - 1 = (l - i) + 1
      BY <1>1
    <3> QED
      BY <2>5, <3>1
  <2> QED
    BY <2>3, <2>4, <2>5, Zenon DEF StandsAt
<1>4. ends_with(s, t) <=> k <= l /\ SubSeq(u, 1, k) = SubSeq(r, 1, k)
  BY <1>2, Zenon DEF ends_with, IsSuffix, IsPrefix, r, u
<1> QED
  BY <1>3, <1>4

\* StandsAt for the strings check_path looks for.
LEMMA OneStands ==
  ASSUME NEW s, NEW i \in Int, NEW a
  PROVE  StandsAt(s, <<a>>, i) <=> s[i] = a
<1>1. /\ i + 1 - 1 = i
      /\ 1..1 = {1}
  OBVIOUS
<1> QED
  BY <1>1 DEF StandsAt

LEMMA TwoStands ==
  ASSUME NEW s, NEW i \in Int, NEW a, NEW b
  PROVE  StandsAt(s, <<a, b>>, i) <=> s[i] = a /\ s[i + 1] = b
<1>1. /\ i + 1 - 1 = i /\ i + 2 - 1 = i + 1
      /\ 1..2 = {1, 2}
  OBVIOUS
<1> QED
  BY <1>1 DEF StandsAt

LEMMA ThreeStands ==
  ASSUME NEW s, NEW i \in Int, NEW a, NEW b, NEW c
  PROVE  StandsAt(s, <<a, b, c>>, i) <=> s[i] = a /\ s[i + 1] = b /\ s[i + 2] = c
<1>1. /\ i + 1 - 1 = i /\ i + 2 - 1 = i + 1 /\ i + 3 - 1 = i + 2
      /\ 1..3 = {1, 2, 3}
  OBVIOUS
<1> QED
  BY <1>1, SMTT(30) DEF StandsAt

LEMMA FourStands ==
  ASSUME NEW s, NEW i \in Int, NEW a, NEW b, NEW c, NEW d
  PROVE  StandsAt(s, <<a, b, c, d>>, i) <=> s[i] = a /\ s[i + 1] = b /\ s[i + 2] = c /\ s[i + 3] = d
<1>1. /\ i + 1 - 1 = i /\ i + 2 - 1 = i + 1 /\ i + 3 - 1 = i + 2 /\ i + 4 - 1 = i + 3
      /\ 1..4 = {1, 2, 3, 4}
  OBVIOUS
<1> QED
  BY <1>1 DEF StandsAt

\* check_path, byte by byte (nghttp2.h:341-349).
LEMMA CheckPathBytes ==
  ASSUME NEW s \in Seq(Nat)
  PROVE  LET l == Len(s) IN
         check_path(s) <=>
           /\ s # <<>> /\ s[1] = Slash /\ \A i \in 1..l : s[i] # 92
           /\ \A i \in 1..l - 2 : ~(s[i] = Slash /\ s[i + 1] = Dot /\ s[i + 2] = Slash)
           /\ \A i \in 1..l - 3 : ~(s[i] = Slash /\ s[i + 1] = Dot /\ s[i + 2] = Dot
                                    /\ s[i + 3] = Slash)
           /\ ~(l >= 2 /\ s[l - 1] = Slash /\ s[l] = Dot)
           /\ ~(l >= 3 /\ s[l - 2] = Slash /\ s[l - 1] = Dot /\ s[l] = Dot)
<1> DEFINE l == Len(s)
<1>1. l \in Nat /\ Slash \in Nat /\ Dot \in Nat
  BY DEF Slash, Dot
<1>2. strstr(s, <<92>>) <=> \E i \in 1..l : s[i] = 92
  <2>1. <<92>> \in Seq(Nat) /\ Len(<<92>>) = 1 /\ l - 1 + 1 = l
    BY <1>1
  <2>2. strstr(s, <<92>>) <=> \E i \in 1..l : StandsAt(s, <<92>>, i)
    BY <2>1, Search, Zenon
  <2>3. \A i \in 1..l : StandsAt(s, <<92>>, i) <=> s[i] = 92
    BY OneStands
  <2> QED
    BY <2>2, <2>3
<1>3. strstr(s, <<Slash, Dot, Slash>>) <=>
        \E i \in 1..l - 2 : s[i] = Slash /\ s[i + 1] = Dot /\ s[i + 2] = Slash
  <2> DEFINE t == <<Slash, Dot, Slash>>
  <2>1. t \in Seq(Nat) /\ Len(t) = 3 /\ l - 3 + 1 = l - 2
    BY <1>1
  <2>2. \A i \in 1..l - 2 :
          StandsAt(s, t, i) <=> s[i] = Slash /\ s[i + 1] = Dot /\ s[i + 2] = Slash
    <3>1. \A i \in 1..l - 2 : i \in Int
      OBVIOUS
    <3> QED
      BY <3>1, ThreeStands, Zenon
  <2> HIDE DEF t
  <2>3. strstr(s, t) <=> \E i \in 1..l - 2 : StandsAt(s, t, i)
    BY <2>1, Search, Zenon
  <2>4. strstr(s, t) <=> \E i \in 1..l - 2 : s[i] = Slash /\ s[i + 1] = Dot /\ s[i + 2] = Slash
    BY <2>2, <2>3
  <2> QED
    BY <2>4 DEF t
<1>4. strstr(s, <<Slash, Dot, Dot, Slash>>) <=>
        \E i \in 1..l - 3 :
          s[i] = Slash /\ s[i + 1] = Dot /\ s[i + 2] = Dot /\ s[i + 3] = Slash
  <2> DEFINE t == <<Slash, Dot, Dot, Slash>>
  <2>1. t \in Seq(Nat) /\ Len(t) = 4 /\ l - 4 + 1 = l - 3
    BY <1>1
  <2>2. \A i \in 1..l - 3 : StandsAt(s, t, i) <=>
          s[i] = Slash /\ s[i + 1] = Dot /\ s[i + 2] = Dot /\ s[i + 3] = Slash
    <3>1. \A i \in 1..l - 3 : i \in Int
      OBVIOUS
    <3> QED
      BY <3>1, FourStands, Zenon
  <2> HIDE DEF t
  <2>3. strstr(s, t) <=> \E i \in 1..l - 3 : StandsAt(s, t, i)
    BY <2>1, Search, Zenon
  <2>4. strstr(s, t) <=> \E i \in 1..l - 3 :
          s[i] = Slash /\ s[i + 1] = Dot /\ s[i + 2] = Dot /\ s[i + 3] = Slash
    BY <2>2, <2>3
  <2> QED
    BY <2>4 DEF t
<1>5. ends_with(s, <<Slash, Dot>>) <=> l >= 2 /\ s[l - 1] = Slash /\ s[l] = Dot
  <2> DEFINE t == <<Slash, Dot>>
  <2>1. t \in Seq(Nat) /\ t # <<>> /\ Len(t) = 2 /\ l - 2 + 1 = l - 1 /\ l - 1 + 1 = l
        /\ l - 1 \in Int
    BY <1>1
  <2>2. StandsAt(s, t, l - 1) <=> s[l - 1] = Slash /\ s[l] = Dot
    <3>1. StandsAt(s, t, l - 1) <=> s[l - 1] = Slash /\ s[l - 1 + 1] = Dot
      BY <2>1, TwoStands
    <3> QED
      BY <2>1, <3>1
  <2> HIDE DEF t
  <2>3. ends_with(s, t) <=> 2 <= l /\ StandsAt(s, t, l - 1)
    BY <2>1, Suffix, Zenon
  <2> QED
    BY <1>1, <2>2, <2>3 DEF t
<1>6. ends_with(s, <<Slash, Dot, Dot>>) <=>
        l >= 3 /\ s[l - 2] = Slash /\ s[l - 1] = Dot /\ s[l] = Dot
  <2> DEFINE t == <<Slash, Dot, Dot>>
  <2>1. t \in Seq(Nat) /\ t # <<>> /\ Len(t) = 3 /\ l - 3 + 1 = l - 2 /\ l - 2 + 2 = l
        /\ l - 2 \in Int /\ l - 2 + 1 = l - 1
    BY <1>1
  <2>2. StandsAt(s, t, l - 2) <=> s[l - 2] = Slash /\ s[l - 1] = Dot /\ s[l] = Dot
    <3>1. StandsAt(s, t, l - 2) <=>
            s[l - 2] = Slash /\ s[l - 2 + 1] = Dot /\ s[l - 2 + 2] = Dot
      <4> DEFINE i == l - 2
      <4>1. i \in Int
        BY <2>1
      <4> HIDE DEF i
      <4>2. StandsAt(s, t, i) <=> s[i] = Slash /\ s[i + 1] = Dot /\ s[i + 2] = Dot
        BY <4>1, ThreeStands, Zenon
      <4> QED
        BY <4>2, Zenon DEF i
    <3> QED
      BY <2>1, <3>1
  <2> HIDE DEF t
  <2>3. ends_with(s, t) <=> 3 <= l /\ StandsAt(s, t, l - 2)
    BY <2>1, Suffix, Zenon
  <2> QED
    BY <1>1, <2>2, <2>3 DEF t
<1> QED
  BY <1>2, <1>3, <1>4, <1>5, <1>6, SMTT(30) DEF check_path

\* What stands between two slashes, byte by byte.
LEMMA Segment ==
  ASSUME NEW s \in Seq(Nat), NEW i \in 1..Len(s), NEW j \in 2..Len(s) + 1, i < j
  PROVE  /\ SubSeq(s, i + 1, j - 1) = <<Dot>> <=> j = i + 2 /\ s[i + 1] = Dot
         /\ SubSeq(s, i + 1, j - 1) = <<Dot, Dot>> <=>
              j = i + 3 /\ s[i + 1] = Dot /\ s[i + 2] = Dot
<1> DEFINE u == SubSeq(s, i + 1, j - 1)
           k == j - 1 - i
<1>1. /\ i + 1 \in Int /\ j - 1 \in Int /\ \A n \in i + 1..j - 1 : s[n] \in Nat
      /\ (j - 1) - (i + 1) + 1 = k /\ (i + 1 <= j - 1 \/ k = 0) /\ k \in Nat
      /\ \A n \in Int : (i + 1) + n - 1 = i + n
  OBVIOUS
<1>2. u \in Seq(Nat) /\ Len(u) = k /\ \A n \in 1..k : u[n] = s[i + n]
  <2>1. /\ u \in Seq(Nat) /\ Len(u) = k
        /\ \A n \in 1..(j - 1) - (i + 1) + 1 : u[n] = s[(i + 1) + n - 1]
    BY <1>1, SubSeqProperties
  <2> QED
    BY <1>1, <2>1
<1> HIDE DEF u
<1>2a. /\ u = [n \in 1..k |-> u[n]]
       /\ <<Dot>> = [n \in 1..1 |-> Dot] /\ <<Dot, Dot>> = [n \in 1..2 |-> Dot]
  BY <1>2
<1>3. u = <<Dot>> <=> k = 1 /\ u[1] = Dot
  <2>1. u = <<Dot>> => k = 1 /\ u[1] = Dot
    BY <1>2
  <2>2. k = 1 /\ u[1] = Dot => u = [n \in 1..1 |-> Dot]
    BY <1>2a, SMTT(30)
  <2> QED
    BY <1>2a, <2>1, <2>2, Zenon
<1>4. u = <<Dot, Dot>> <=> k = 2 /\ u[1] = Dot /\ u[2] = Dot
  <2>1. u = <<Dot, Dot>> => k = 2 /\ u[1] = Dot /\ u[2] = Dot
    BY <1>2
  <2>2. k = 2 /\ u[1] = Dot /\ u[2] = Dot => u = [n \in 1..2 |-> Dot]
    BY <1>2a, SMTT(30)
  <2> QED
    BY <1>2a, <2>1, <2>2, Zenon
<1>5. (k = 1 <=> j = i + 2) /\ (k = 2 <=> j = i + 3)
  OBVIOUS
<1>6. (k = 1 => u[1] = s[i + 1]) /\ (k = 2 => u[1] = s[i + 1] /\ u[2] = s[i + 2])
  BY <1>2
<1>7. /\ u = <<Dot>> <=> j = i + 2 /\ s[i + 1] = Dot
      /\ u = <<Dot, Dot>> <=> j = i + 3 /\ s[i + 1] = Dot /\ s[i + 2] = Dot
  BY <1>3, <1>4, <1>5, <1>6, SMTT(30)
<1> QED
  BY <1>7, Zenon DEF u

\* check_path accepts exactly the absolute paths without a backslash and without a "."
\* or ".." segment, whatever bytes they are made of (nghttp2.h:341-349).
THEOREM CheckPathIsExact ==
  ASSUME NEW s \in Seq(Nat) PROVE check_path(s) <=> StaysBelowRoot(s)
<1> DEFINE l == Len(s)
           Segments == \A i \in 1..l, j \in 2..l + 1 :
                         i < j /\ s[i] = Slash /\ (j > l \/ s[j] = Slash)
                           => SubSeq(s, i + 1, j - 1) \notin {<<Dot>>, <<Dot, Dot>>}
           Single == \A i \in 1..l - 2 : ~(s[i] = Slash /\ s[i + 1] = Dot /\ s[i + 2] = Slash)
           Double == \A i \in 1..l - 3 : ~(s[i] = Slash /\ s[i + 1] = Dot /\ s[i + 2] = Dot
                                           /\ s[i + 3] = Slash)
           LastOne == l >= 2 /\ s[l - 1] = Slash /\ s[l] = Dot
           LastTwo == l >= 3 /\ s[l - 2] = Slash /\ s[l - 1] = Dot /\ s[l] = Dot
<1>1. l \in Nat /\ (s # <<>> => Head(s) = s[1]) /\ (92 \in ToSet(s) <=> \E i \in 1..l : s[i] = 92)
  BY DEF ToSet
<1>2. check_path(s) <=> /\ s # <<>> /\ s[1] = Slash /\ \A i \in 1..l : s[i] # 92
                        /\ Single /\ Double /\ ~LastOne /\ ~LastTwo
  BY CheckPathBytes
<1>3. ASSUME Single, Double, ~LastOne, ~LastTwo PROVE Segments
  <2> SUFFICES ASSUME NEW i \in 1..l, NEW j \in 2..l + 1, i < j, s[i] = Slash,
                      j > l \/ s[j] = Slash,
                      SubSeq(s, i + 1, j - 1) \in {<<Dot>>, <<Dot, Dot>>}
               PROVE  FALSE
    BY Zenon
  <2>1. \/ j = i + 2 /\ s[i + 1] = Dot
        \/ j = i + 3 /\ s[i + 1] = Dot /\ s[i + 2] = Dot
    BY Segment, Zenon
  <2>2. CASE j = i + 2 /\ s[i + 1] = Dot
    <3>1. j > l => l >= 2 /\ i = l - 1 /\ i + 1 = l
      BY <1>1, <2>2
    <3>2. ~(j > l) => i \in 1..l - 2
      BY <1>1, <2>2
    <3> QED
      BY <1>3, <2>2, <3>1, <3>2, SMTT(30)
  <2>3. CASE j = i + 3 /\ s[i + 1] = Dot /\ s[i + 2] = Dot
    <3>1. j > l => l >= 3 /\ i = l - 2 /\ i + 1 = l - 1 /\ i + 2 = l
      BY <1>1, <2>3
    <3>2. ~(j > l) => i \in 1..l - 3
      BY <1>1, <2>3, SMTT(30)
    <3> QED
      BY <1>3, <2>3, <3>1, <3>2, SMTT(30)
  <2> QED
    BY <2>1, <2>2, <2>3
<1>4. ASSUME Segments PROVE Single /\ Double /\ ~LastOne /\ ~LastTwo
  <2>1. ASSUME NEW i \in 1..l, NEW j \in 2..l + 1, i < j, s[i] = Slash, j > l \/ s[j] = Slash
        PROVE  /\ ~(j = i + 2 /\ s[i + 1] = Dot)
               /\ ~(j = i + 3 /\ s[i + 1] = Dot /\ s[i + 2] = Dot)
    BY <1>4, <2>1, Segment, ZenonT(40)
  <2>2. ASSUME NEW i \in 1..l, s[i] = Slash, i + 2 <= l + 1, i + 2 > l \/ s[i + 2] = Slash
        PROVE  s[i + 1] # Dot
    <3>1. i + 2 \in 2..l + 1 /\ i < i + 2
      BY <1>1, <2>2
    <3> QED
      BY <2>1, <2>2, <3>1, SMTT(30)
  <2>3. ASSUME NEW i \in 1..l, s[i] = Slash, i + 3 <= l + 1, i + 3 > l \/ s[i + 3] = Slash
        PROVE  ~(s[i + 1] = Dot /\ s[i + 2] = Dot)
    <3>1. i + 3 \in 2..l + 1 /\ i < i + 3
      BY <1>1, <2>3
    <3> QED
      BY <2>1, <2>3, <3>1, SMTT(30)
  <2>4. Single
    <3>1. \A i \in 1..l - 2 : i \in 1..l /\ i + 2 <= l + 1
      BY <1>1
    <3> QED
      BY <2>2, <3>1
  <2>5. Double
    <3>1. \A i \in 1..l - 3 : i \in 1..l /\ i + 3 <= l + 1
      BY <1>1
    <3> QED
      BY <2>3, <3>1
  <2>6. ~LastOne
    <3>1. l >= 2 => l - 1 \in 1..l /\ l - 1 + 2 <= l + 1 /\ l - 1 + 2 > l /\ l - 1 + 1 = l
      BY <1>1
    <3> QED
      BY <2>2, <3>1, SMTT(30)
  <2>7. ~LastTwo
    <3>1. l >= 3 => /\ l - 2 \in 1..l /\ l - 2 + 3 <= l + 1 /\ l - 2 + 3 > l
                    /\ l - 2 + 1 = l - 1 /\ l - 2 + 2 = l
      BY <1>1
    <3> QED
      BY <2>3, <3>1, Zenon
  <2> QED
    BY <2>4, <2>5, <2>6, <2>7, SMTT(30)
<1>5. StaysBelowRoot(s) <=> s # <<>> /\ Head(s) = Slash /\ 92 \notin ToSet(s) /\ Segments
  BY DEF StaysBelowRoot
<1> HIDE DEF Segments, Single, Double, LastOne, LastTwo
<1> QED
  BY <1>1, <1>2, <1>3, <1>4, <1>5, SMTT(30)

\* Induction over the naturals, for a set.
LEMMA Induction ==
  ASSUME NEW T, 0 \in T, \A k \in Nat : k \in T => k + 1 \in T
  PROVE  \A k \in Nat : k \in T
<1> SUFFICES ASSUME Nat \ T # {} PROVE FALSE
  OBVIOUS
<1>1. IsWellFoundedOn(OpToRel(<, Nat), Nat) /\ Nat \ T \subseteq Nat
  BY NatLessThanWellFounded
<1>2. PICK x \in Nat \ T : \A y \in Nat \ T : ~(<<y, x>> \in OpToRel(<, Nat))
  BY <1>1, WFMin
<1>3. \A y \in Nat \ T : ~(y < x)
  BY <1>2, Zenon DEF OpToRel
<1>4. x \in Nat /\ x # 0
  BY <1>2, Zenon
<1>5. x - 1 \in Nat /\ x - 1 < x /\ (x - 1) + 1 = x
  BY <1>4
<1> QED
  BY <1>3, <1>4, <1>5

\* A scan of n bytes: at i it stops with base[i], or emits head[i] and goes on at next[i].
Scan(f, i, base, head, next, Stop) ==
  IF i \in Stop THEN base[i] ELSE head[i] \o f[next[i]]

IsScan(f, n, base, head, next, Stop) ==
  f = [i \in 1..n + 1 |-> Scan(f, i, base, head, next, Stop)]

Onward(n, next, Stop) == \A i \in (1..n + 1) \ Stop : next[i] \in i + 1..n + 1

\* Every scan that only goes forward is defined.
LEMMA ScanExists ==
  ASSUME NEW n \in Nat, NEW base, NEW head, NEW next, NEW Stop, Onward(n, next, Stop)
  PROVE  \E f : IsScan(f, n, base, head, next, Stop)
<1> DEFINE Step(f, i) == Scan(f, i, base, head, next, Stop)
           From(k) == (n + 2) - k..n + 1
           T == {k \in Nat : k > n + 1 \/ \E f : f = [i \in From(k) |-> Step(f, i)]}
<1>1. 0 \in T
  <2>1. From(0) = {}
    OBVIOUS
  <2>2. [i \in From(0) |-> i] = [i \in From(0) |-> Step([j \in From(0) |-> j], i)]
    BY <2>1
  <2> QED
    BY <2>2, Zenon
<1>2. ASSUME NEW k \in Nat, k \in T PROVE k + 1 \in T
  <2>1. CASE k + 1 > n + 1
    BY <2>1
  <2>2. CASE ~(k + 1 > n + 1)
    <3>1. PICK f : f = [i \in From(k) |-> Step(f, i)]
      BY <1>2, <2>2
    <3> DEFINE m == (n + 2) - (k + 1)
    <3>2. /\ m \in 1..n + 1 /\ From(k + 1) = {m} \cup From(k) /\ m \notin From(k)
          /\ \A i \in From(k + 1) : i \in 1..n + 1 /\ i + 1..n + 1 \subseteq From(k)
      BY <2>2
    <3>3. \A i \in From(k + 1) : i \in Stop \/ next[i] \in From(k)
      BY <3>2 DEF Onward
    <3> DEFINE g == [i \in From(k + 1) |-> IF i = m THEN Step(f, i) ELSE f[i]]
    <3> HIDE DEF From, m
    <3>4. ASSUME NEW i \in From(k + 1) PROVE g[i] = Step(g, i)
      <4>1. i \in Stop \/ (next[i] \in From(k) /\ g[next[i]] = f[next[i]])
        BY <3>2, <3>3, SMTT(30)
      <4>2. Step(g, i) = Step(f, i)
        BY <4>1 DEF Scan
      <4>3. g[i] = Step(f, i)
        BY <3>1, <3>2, SMTT(30)
      <4> QED
        BY <4>2, <4>3, SMTT(30)
    <3>5. g = [i \in From(k + 1) |-> Step(g, i)]
      BY <3>4
    <3>6. k + 1 \in Nat
      OBVIOUS
    <3> HIDE DEF g, Step
    <3> QED
      BY <3>5, <3>6
  <2> QED
    BY <2>1, <2>2
<1>3. \A k \in Nat : k \in T
  <2> HIDE DEF T
  <2> QED
    BY <1>1, <1>2, Induction, SMTT(30)
<1>4. n + 1 \in T /\ ~(n + 1 > n + 1) /\ From(n + 1) = 1..n + 1
  BY <1>3
<1>5. \E f : f = [i \in From(n + 1) |-> Step(f, i)]
  BY <1>4
<1> QED
  BY <1>4, <1>5 DEF IsScan

\* A scan that emits bytes returns bytes.
LEMMA ScanType ==
  ASSUME NEW n \in Nat, NEW base \in [1..n + 1 -> Seq(Nat)], NEW head \in [1..n + 1 -> Seq(Nat)],
         NEW next, NEW Stop, Onward(n, next, Stop),
         NEW f, IsScan(f, n, base, head, next, Stop)
  PROVE  \A i \in 1..n + 1 : f[i] \in Seq(Nat)
<1> DEFINE T == {k \in Nat : \A i \in 1..n + 1 : i > n + 1 - k => f[i] \in Seq(Nat)}
<1>1. 0 \in T
  OBVIOUS
<1>2. ASSUME NEW k \in Nat, k \in T PROVE k + 1 \in T
  <2>1. ASSUME NEW i \in 1..n + 1, i > n + 1 - (k + 1) PROVE f[i] \in Seq(Nat)
    <3>1. f[i] = Scan(f, i, base, head, next, Stop)
      BY Zenon DEF IsScan
    <3>2. CASE i \in Stop
      BY <3>1, <3>2 DEF Scan
    <3>3. CASE i \notin Stop
      <4>1. next[i] \in i + 1..n + 1
        BY <3>3 DEF Onward
      <4>2. next[i] \in 1..n + 1 /\ next[i] > n + 1 - k
        BY <2>1, <4>1
      <4>3. f[next[i]] \in Seq(Nat) /\ head[i] \in Seq(Nat)
        BY <1>2, <4>2
      <4>4. f[i] = head[i] \o f[next[i]]
        BY <3>1, <3>3, SMTT(30) DEF Scan
      <4>5. \A a, b \in Seq(Nat) : a \o b \in Seq(Nat)
        OBVIOUS
      <4> QED
        BY <4>3, <4>4, <4>5, Zenon
    <3> QED
      BY <3>2, <3>3
  <2> QED
    BY <2>1
<1>3. \A k \in Nat : k \in T
  <2> HIDE DEF T
  <2> QED
    BY <1>1, <1>2, Induction, ZenonT(40)
<1>4. n + 1 \in T
  <2>1. n + 1 \in Nat
    OBVIOUS
  <2> HIDE DEF T
  <2> QED
    BY <1>3, <2>1
<1>5. \A i \in 1..n + 1 : i > n + 1 - (n + 1)
  OBVIOUS
<1> QED
  BY <1>4, <1>5

\* isxdigit and hex_to_uint against the table of digits (nghttp2.h:165-178).
LEMMA HexValue ==
  ASSUME NEW c \in Nat
  PROVE  /\ (\E d \in 0..15 : c \in HexDigits(d)) => isxdigit(c)
         /\ isxdigit(c) => /\ hex_to_uint(c) \in 0..15 /\ c \in HexDigits(hex_to_uint(c))
                           /\ \A d \in 0..15 : c \in HexDigits(d) => d = hex_to_uint(c)
<1>1. ASSUME NEW d \in 0..15, c \in HexDigits(d) PROVE isxdigit(c)
  BY <1>1 DEF HexDigits, isxdigit
<1>2. CASE c \in 48..57
  <2>1. hex_to_uint(c) = c - 48 /\ isxdigit(c)
    BY <1>2 DEF hex_to_uint, isxdigit
  <2>2. c - 48 \in 0..15 /\ c - 48 < 10 /\ 48 + (c - 48) = c
    BY <1>2
  <2>3. \A d \in 0..15 : c \in HexDigits(d) => d = c - 48
    BY <1>2 DEF HexDigits
  <2> QED
    BY <1>1, <2>1, <2>2, <2>3, SMTT(30) DEF HexDigits
<1>3. CASE c \in 65..70
  <2>1. hex_to_uint(c) = c - 55 /\ isxdigit(c)
    <3>1. ~(c \in 48..57)
      BY <1>3
    <3> QED
      BY <1>3, <3>1 DEF hex_to_uint, isxdigit
  <2>2. c - 55 \in 0..15 /\ ~(c - 55 < 10) /\ 55 + (c - 55) = c
    BY <1>3
  <2>3. \A d \in 0..15 : c \in HexDigits(d) => d = c - 55
    BY <1>3 DEF HexDigits
  <2> QED
    BY <1>1, <2>1, <2>2, <2>3, SMTT(30) DEF HexDigits
<1>4. CASE c \in 97..102
  <2>1. hex_to_uint(c) = c - 87 /\ isxdigit(c)
    <3>1. ~(c \in 48..57) /\ ~(c \in 65..70)
      BY <1>4
    <3> QED
      BY <1>4, <3>1 DEF hex_to_uint, isxdigit
  <2>2. c - 87 \in 0..15 /\ ~(c - 87 < 10) /\ 87 + (c - 87) = c
    BY <1>4
  <2>3. \A d \in 0..15 : c \in HexDigits(d) => d = c - 87
    BY <1>4 DEF HexDigits
  <2> QED
    BY <1>1, <2>1, <2>2, <2>3, SMTT(30) DEF HexDigits
<1>5. isxdigit(c) => c \in 48..57 \/ c \in 65..70 \/ c \in 97..102
  BY DEF isxdigit
<1> QED
  BY <1>1, <1>2, <1>3, <1>4, <1>5

LEMMA Halves ==
  ASSUME NEW b \in Nat, b < 256
  PROVE  /\ b = 16 * (b \div 16) + (b % 16)
         /\ b \div 16 \in Nat /\ b \div 16 < 16 /\ b % 16 \in Nat /\ b % 16 < 16
<1>1. b = 16 * (b \div 16) + (b % 16)
  BY SMT
<1>2. b \div 16 \in Nat /\ b \div 16 < 16
  BY SMT
<1>3. b % 16 \in Nat /\ b % 16 < 16
  BY SMT
<1> QED
  BY <1>1, <1>2, <1>3

\* What percent_decode takes for an escape is one, and stands for the byte it emits
\* (nghttp2.h:190-197).
LEMMA EscapeValue ==
  ASSUME NEW v, NEW i \in Nat, v[i + 1] \in Nat, v[i + 2] \in Nat
  PROVE  /\ Escape(v, i) <=> v[i] = Percent /\ Escaped(v, i) # {}
         /\ Escape(v, i) => (CHOOSE b \in Escaped(v, i) : TRUE)
                              = 16 * hex_to_uint(v[i + 1]) + hex_to_uint(v[i + 2])
<1> DEFINE h == v[i + 1]
           l == v[i + 2]
           x == hex_to_uint(h)
           y == hex_to_uint(l)
<1>1. /\ (\E d \in 0..15 : h \in HexDigits(d)) => isxdigit(h)
      /\ isxdigit(h) => x \in 0..15 /\ h \in HexDigits(x) /\ \A d \in 0..15 : h \in HexDigits(d) => d = x
  BY HexValue
<1>2. /\ (\E d \in 0..15 : l \in HexDigits(d)) => isxdigit(l)
      /\ isxdigit(l) => y \in 0..15 /\ l \in HexDigits(y) /\ \A d \in 0..15 : l \in HexDigits(d) => d = y
  BY HexValue
<1>3. Escaped(v, i) = {b \in 0..255 : h \in HexDigits(b \div 16) /\ l \in HexDigits(b % 16)}
  BY DEF Escaped
<1>4. Escape(v, i) <=> v[i] = Percent /\ isxdigit(h) /\ isxdigit(l)
  BY DEF Escape
<1> HIDE DEF h, l, x, y
<1>5. \A b \in 0..255 : b \div 16 \in 0..15 /\ b % 16 \in 0..15 /\ b = 16 * (b \div 16) + (b % 16)
  <2>1. \A b \in 0..255 : b \in Nat /\ b < 256
    OBVIOUS
  <2>2. \A b \in 0..255 : /\ b = 16 * (b \div 16) + (b % 16)
                          /\ b \div 16 \in Nat /\ b \div 16 < 16 /\ b % 16 \in Nat /\ b % 16 < 16
    BY <2>1, Halves
  <2> QED
    BY <2>2
<1>6. ASSUME Escaped(v, i) # {} PROVE isxdigit(h) /\ isxdigit(l)
  BY <1>1, <1>2, <1>3, <1>5, <1>6, SMTT(30)
<1>7. ASSUME isxdigit(h), isxdigit(l) PROVE Escaped(v, i) = {16 * x + y}
  <2>1. \A a, b \in 0..15 : /\ 16 * a + b \in 0..255
                            /\ (16 * a + b) \div 16 = a /\ (16 * a + b) % 16 = b
    OBVIOUS
  <2>2. 16 * x + y \in Escaped(v, i)
    BY <1>1, <1>2, <1>3, <1>7, <2>1, SMTT(30)
  <2>3. \A b \in Escaped(v, i) : b = 16 * x + y
    BY <1>1, <1>2, <1>3, <1>5, <1>7, SMTT(30)
  <2> QED
    BY <2>2, <2>3
<1>8. \A z : (CHOOSE b \in {z} : TRUE) = z
  OBVIOUS
<1>9. isxdigit(h) /\ isxdigit(l) => (CHOOSE b \in Escaped(v, i) : TRUE) = 16 * x + y
  BY <1>7, <1>8, Zenon
<1>10. isxdigit(h) /\ isxdigit(l) <=> Escaped(v, i) # {}
  BY <1>6, <1>7, Zenon
<1> QED
  BY <1>4, <1>9, <1>10, SMTT(30) DEF h, l, x, y

\* The loop of percent_decode at i (nghttp2.h:189-200), in memory m with n bytes of path.
DecodeAt(g, i, m, n) ==
  IF i > n - 2 THEN <<m[i], m[i + 1]>>
  ELSE IF Escape(m, i)
  THEN <<16 * hex_to_uint(m[i + 1]) + hex_to_uint(m[i + 2])>> \o g[i + 3]
  ELSE <<m[i]>> \o g[i + 1]

IsLoop(g, v, x, y) == g = [i \in 1..Len(v) + 1 |-> DecodeAt(g, i, v \o <<x, y>>, Len(v))]

LEMMA PercentDecode ==
  ASSUME NEW v \in Seq(Nat), NEW x \in Nat, NEW y \in Nat
  PROVE  \E g : /\ IsLoop(g, v, x, y)
                /\ percent_decode(v, <<x, y>>) = CString(IF Len(v) > 3 THEN g[1] ELSE v)
                /\ \A i \in 1..Len(v) + 1 : g[i] \in Seq(Nat)
<1> DEFINE n == Len(v)
           m == v \o <<x, y>>
           byte(i) == 16 * hex_to_uint(m[i + 1]) + hex_to_uint(m[i + 2])
           base == [i \in 1..n + 1 |-> <<m[i], m[i + 1]>>]
           head == [i \in 1..n + 1 |-> IF i > n - 2 THEN <<>>
                                       ELSE IF Escape(m, i) THEN <<byte(i)>> ELSE <<m[i]>>]
           next == [i \in 1..n + 1 |-> IF Escape(m, i) THEN i + 3 ELSE i + 1]
           Stop == {i \in 1..n + 1 : i > n - 2}
<1>1. n \in Nat /\ \A i \in 1..n + 2 : m[i] \in Nat
  OBVIOUS
<1> HIDE DEF n, m
<1>2. Onward(n, next, Stop)
  BY <1>1 DEF Onward
<1>3. \A f : \A i \in 1..n + 1 : Scan(f, i, base, head, next, Stop) = DecodeAt(f, i, m, n)
  <2>1. ASSUME NEW f, NEW i \in 1..n + 1
        PROVE  Scan(f, i, base, head, next, Stop) = DecodeAt(f, i, m, n)
    <3>1. CASE i > n - 2
      BY <3>1 DEF Scan, DecodeAt
    <3>2. CASE ~(i > n - 2) /\ Escape(m, i)
      <4>1. i \notin Stop /\ head[i] = <<byte(i)>> /\ next[i] = i + 3
        BY <3>2
      <4> QED
        BY <3>2, <4>1, SMTT(30) DEF Scan, DecodeAt
    <3>3. CASE ~(i > n - 2) /\ ~Escape(m, i)
      <4>1. i \notin Stop /\ head[i] = <<m[i]>> /\ next[i] = i + 1
        BY <3>3
      <4> QED
        BY <3>3, <4>1 DEF Scan, DecodeAt
    <3> QED
      BY <3>1, <3>2, <3>3
  <2> QED
    BY <2>1, Zenon
<1>4. base \in [1..n + 1 -> Seq(Nat)] /\ head \in [1..n + 1 -> Seq(Nat)]
  <2>1. ASSUME NEW c \in Nat PROVE hex_to_uint(c) \in Nat
    <3>1. isxdigit(c) => hex_to_uint(c) \in 0..15
      BY HexValue
    <3>2. ~isxdigit(c) => hex_to_uint(c) = 0
      BY DEF hex_to_uint, isxdigit
    <3> QED
      BY <3>1, <3>2
  <2>2. \A i \in 1..n + 1 : i \in 1..n + 2 /\ i + 1 \in 1..n + 2
    BY <1>1
  <2>3. \A i \in 1..n + 1 : ~(i > n - 2) => i + 2 \in 1..n + 2
    BY <1>1
  <2>4. \A i \in 1..n + 1 : ~(i > n - 2) => byte(i) \in Nat
    <3>1. \A a, b \in Nat : 16 * a + b \in Nat
      OBVIOUS
    <3>2. \A i \in 1..n + 1 : ~(i > n - 2) =>
            hex_to_uint(m[i + 1]) \in Nat /\ hex_to_uint(m[i + 2]) \in Nat
      BY <1>1, <2>1, <2>2, <2>3, Zenon
    <3> QED
      BY <3>1, <3>2, Zenon
  <2>5. \A a, b \in Nat : <<a, b>> \in Seq(Nat) /\ <<a>> \in Seq(Nat) /\ <<>> \in Seq(Nat)
    OBVIOUS
  <2>6. \A i \in 1..n + 1 : <<m[i], m[i + 1]>> \in Seq(Nat)
    BY <1>1, <2>2, <2>5
  <2>7. \A i \in 1..n + 1 : (IF i > n - 2 THEN <<>>
                             ELSE IF Escape(m, i) THEN <<byte(i)>> ELSE <<m[i]>>) \in Seq(Nat)
    <3> HIDE DEF byte
    <3> QED
      BY <1>1, <2>2, <2>4, <2>5, SMTT(30)
  <2> HIDE DEF byte
  <2> QED
    BY <2>6, <2>7
<1> HIDE DEF base, head, next, Stop
<1>5. \E f : f = [i \in 1..n + 1 |-> DecodeAt(f, i, m, n)]
  <2>1. PICK f : IsScan(f, n, base, head, next, Stop)
    BY <1>1, <1>2, ScanExists, Zenon
  <2>2. f = [i \in 1..n + 1 |-> DecodeAt(f, i, m, n)]
    BY <1>3, <2>1, Zenon DEF IsScan
  <2> QED
    BY <2>2
<1>6. PICK g : /\ g = [i \in 1..n + 1 |-> DecodeAt(g, i, m, n)]
               /\ percent_decode(v, <<x, y>>) = CString(IF n > 3 THEN g[1] ELSE v)
  BY <1>5, Zenon DEF percent_decode, DecodeAt, n, m
<1>7. \A i \in 1..n + 1 : g[i] \in Seq(Nat)
  <2>1. IsScan(g, n, base, head, next, Stop)
    BY <1>3, <1>6, Zenon DEF IsScan
  <2> QED
    BY <1>1, <1>2, <1>4, <2>1, ScanType, Zenon
<1> QED
  BY <1>6, <1>7, Zenon DEF n, m, IsLoop

\* The reference at i.
ReferenceAt(g, i, v) ==
  IF i > Len(v) THEN <<>>
  ELSE IF i + 2 <= Len(v) /\ v[i] = Percent /\ Escaped(v, i) # {}
  THEN <<CHOOSE b \in Escaped(v, i) : TRUE>> \o g[i + 3]
  ELSE <<v[i]>> \o g[i + 1]

IsReference(g, v) == g = [i \in 1..Len(v) + 1 |-> ReferenceAt(g, i, v)]

LEMMA ReferenceScan ==
  ASSUME NEW v \in Seq(Nat)
  PROVE  \E g : IsReference(g, v) /\ Decoded(v) = g[1]
<1> DEFINE n == Len(v)
           esc(i) == i + 2 <= n /\ v[i] = Percent /\ Escaped(v, i) # {}
           byte(i) == CHOOSE b \in Escaped(v, i) : TRUE
           base == [i \in 1..n + 1 |-> <<>>]
           head == [i \in 1..n + 1 |-> IF esc(i) THEN <<byte(i)>> ELSE <<v[i]>>]
           next == [i \in 1..n + 1 |-> IF esc(i) THEN i + 3 ELSE i + 1]
           Stop == {i \in 1..n + 1 : i > n}
<1>1. n \in Nat
  OBVIOUS
<1>2. Onward(n, next, Stop)
  BY <1>1 DEF Onward
<1>3. \A f : \A i \in 1..n + 1 : Scan(f, i, base, head, next, Stop) = ReferenceAt(f, i, v)
  <2>1. ASSUME NEW f, NEW i \in 1..n + 1
        PROVE  Scan(f, i, base, head, next, Stop) = ReferenceAt(f, i, v)
    <3>1. CASE i > n
      BY <3>1 DEF Scan, ReferenceAt
    <3>2. CASE ~(i > n) /\ esc(i)
      <4>1. i \notin Stop /\ head[i] = <<byte(i)>> /\ next[i] = i + 3
        BY <3>2
      <4> QED
        BY <3>2, <4>1, SMTT(30) DEF Scan, ReferenceAt
    <3>3. CASE ~(i > n) /\ ~esc(i)
      <4>1. i \notin Stop /\ head[i] = <<v[i]>> /\ next[i] = i + 1
        BY <3>3
      <4> QED
        BY <3>3, <4>1, SMTT(30) DEF Scan, ReferenceAt
    <3> QED
      BY <3>1, <3>2, <3>3
  <2> QED
    BY <2>1, Zenon
<1> HIDE DEF n, base, head, next, Stop
<1>4. PICK f : IsScan(f, n, base, head, next, Stop)
  BY <1>1, <1>2, ScanExists, Zenon
<1>5. f = [i \in 1..n + 1 |-> ReferenceAt(f, i, v)]
  BY <1>3, <1>4, Zenon DEF IsScan
<1>6. \E g : g = [i \in 1..Len(v) + 1 |-> ReferenceAt(g, i, v)]
  BY <1>5 DEF n
<1> QED
  BY <1>6, Zenon DEF Decoded, ReferenceAt, IsReference

LEMMA Joined ==
  ASSUME NEW a \in Nat, NEW b \in Nat, NEW c \in Nat
  PROVE  <<a>> \o <<>> = <<a>> /\ <<a>> \o <<b>> = <<a, b>> /\ <<a>> \o <<b, c>> = <<a, b, c>>
<1>1. /\ <<a>> \in Seq(Nat) /\ <<b>> \in Seq(Nat) /\ <<b, c>> \in Seq(Nat)
      /\ Len(<<a>>) = 1 /\ Len(<<b>>) = 1 /\ Len(<<b, c>>) = 2
  OBVIOUS
<1>2. <<a>> \o <<>> = <<a>>
  BY <1>1, ConcatEmptySeq
<1>3. <<a>> \o <<b>> = <<a, b>>
  <2> DEFINE t == <<a>> \o <<b>>
  <2>1. t \in Seq(Nat) /\ Len(t) = 2 /\ t[1] = a /\ t[2] = b
    BY <1>1
  <2> HIDE DEF t
  <2>2. t = [i \in 1..2 |-> t[i]] /\ <<a, b>> = [i \in 1..2 |-> IF i = 1 THEN a ELSE b]
    BY <2>1
  <2>3. t = <<a, b>>
    BY <2>1, <2>2
  <2> QED
    BY <2>3 DEF t
<1>4. <<a>> \o <<b, c>> = <<a, b, c>>
  <2> DEFINE t == <<a>> \o <<b, c>>
  <2>1. t \in Seq(Nat) /\ Len(t) = 3 /\ t[1] = a /\ t[2] = b /\ t[3] = c
    BY <1>1
  <2> HIDE DEF t
  <2>2. /\ t = [i \in 1..3 |-> t[i]]
        /\ <<a, b, c>> = [i \in 1..3 |-> IF i = 1 THEN a ELSE IF i = 2 THEN b ELSE c]
    BY <2>1
  <2>3. t = <<a, b, c>>
    BY <2>1, <2>2
  <2> QED
    BY <2>3 DEF t
<1> QED
  BY <1>2, <1>3, <1>4

\* No escape ends in one of the last two bytes.
EscapesEndEarly(v) == \A i \in {Len(v) - 3, Len(v) - 2} : i >= 1 => ~Escape(v, i)

\* The loop agrees with the reference up to the two bytes that are copied at the end.
LEMMA LoopIsReference ==
  ASSUME NEW v \in Seq(Nat), NEW x \in Nat, NEW y \in Nat, EscapesEndEarly(v), Len(v) > 3,
         NEW g, IsLoop(g, v, x, y), NEW r, IsReference(r, v)
  PROVE  g[1] = r[1]
<1> DEFINE n == Len(v)
           m == v \o <<x, y>>
           T == {k \in Nat : \A i \in 1..n - 1 : i >= n - 1 - k => g[i] = r[i]}
<1>1. n \in Nat /\ n > 3 /\ (\A i \in 1..n : m[i] = v[i] /\ v[i] \in Nat)
  OBVIOUS
<1>2. /\ \A i \in 1..n + 1 : g[i] = DecodeAt(g, i, m, n)
      /\ \A i \in 1..n + 1 : r[i] = ReferenceAt(r, i, v)
  BY Zenon DEF IsLoop, IsReference
<1>2a. (n - 3 >= 1 => ~Escape(v, n - 3)) /\ (n - 2 >= 1 => ~Escape(v, n - 2))
  BY DEF EscapesEndEarly
<1>2b. \A i : ReferenceAt(r, i, v) =
         IF i > n THEN <<>>
         ELSE IF i + 2 <= n /\ v[i] = Percent /\ Escaped(v, i) # {}
         THEN <<CHOOSE b \in Escaped(v, i) : TRUE>> \o r[i + 3]
         ELSE <<v[i]>> \o r[i + 1]
  BY DEF ReferenceAt
<1> HIDE DEF n, m
<1>3. 0 \in T
  <2>1. n - 1 \in 1..n + 1 /\ n \in 1..n + 1 /\ n + 1 \in 1..n + 1 /\ n - 1 > n - 2
        /\ n - 1 \in 1..n /\ n \in 1..n /\ (n - 1) + 1 = n
    BY <1>1
  <2>2. g[n - 1] = <<v[n - 1], v[n]>>
    <3>1. m[n - 1] = v[n - 1] /\ m[(n - 1) + 1] = v[n]
      BY <1>1, <2>1
    <3>2. g[n - 1] = DecodeAt(g, n - 1, m, n)
      BY <1>2, <2>1, SMTT(30)
    <3>3. DecodeAt(g, n - 1, m, n) = <<m[n - 1], m[(n - 1) + 1]>>
      BY <2>1, Zenon DEF DecodeAt
    <3> QED
      BY <3>1, <3>2, <3>3, Zenon
  <2>3. r[n + 1] = <<>>
    <3>1. n + 1 > n
      BY <1>1
    <3>2. r[n + 1] = ReferenceAt(r, n + 1, v)
      BY <1>2, <2>1
    <3> QED
      BY <1>2b, <3>1, <3>2, Zenon
  <2>4. r[n] = <<v[n]>> \o r[n + 1]
    <3>1. ~(n > n) /\ ~(n + 2 <= n)
      BY <1>1
    <3> QED
      BY <1>2, <1>2b, <2>1, <3>1, Zenon
  <2>5. r[n - 1] = <<v[n - 1]>> \o r[n]
    <3>1. ~(n - 1 > n) /\ ~((n - 1) + 2 <= n)
      BY <1>1
    <3> QED
      BY <1>2, <1>2b, <2>1, <3>1, Zenon
  <2>6. ASSUME NEW a \in Nat, NEW b \in Nat PROVE <<a>> \o (<<b>> \o <<>>) = <<a, b>>
    <3>1. <<b>> \o <<>> = <<b>> /\ <<a>> \o <<b>> = <<a, b>>
      BY Joined, Zenon
    <3> QED
      BY <3>1, Zenon
  <2>7. g[n - 1] = r[n - 1]
    <3>1. r[n - 1] = <<v[n - 1]>> \o (<<v[n]>> \o <<>>)
      BY <2>3, <2>4, <2>5, Zenon
    <3>2. v[n - 1] \in Nat /\ v[n] \in Nat
      BY <1>1, <2>1
    <3>3. <<v[n - 1]>> \o (<<v[n]>> \o <<>>) = <<v[n - 1], v[n]>>
      BY <2>6, <3>2, SMTT(30)
    <3> QED
      BY <2>2, <3>1, <3>3, Zenon
  <2>8. \A i \in 1..n - 1 : i >= n - 1 - 0 => i = n - 1
    BY <1>1
  <2> QED
    BY <2>7, <2>8
<1>4. ASSUME NEW k \in Nat, k \in T PROVE k + 1 \in T
  <2>1. ASSUME NEW i \in 1..n - 1, i >= n - 1 - (k + 1) PROVE g[i] = r[i]
    <3>1. CASE i >= n - 1 - k
      BY <1>4, <3>1
    <3>2. CASE ~(i >= n - 1 - k)
      <4>1. /\ i \in 1..n - 2 /\ i \in 1..n /\ i + 1 \in 1..n /\ i + 2 \in 1..n
            /\ i \in Nat /\ i \in 1..n + 1 /\ ~(i > n - 2) /\ ~(i > n) /\ i + 2 <= n
            /\ i + 1 \in 1..n - 1 /\ i + 1 >= n - 1 - k
        BY <1>1, <2>1, <3>2, SMTT(30)
      <4>2. /\ Escape(m, i) <=> Escape(v, i)
            /\ m[i] = v[i] /\ m[i + 1] = v[i + 1] /\ m[i + 2] = v[i + 2]
        BY <1>1, <4>1 DEF Escape
      <4>3. /\ Escape(v, i) <=> v[i] = Percent /\ Escaped(v, i) # {}
            /\ Escape(v, i) => (CHOOSE b \in Escaped(v, i) : TRUE)
                                 = 16 * hex_to_uint(v[i + 1]) + hex_to_uint(v[i + 2])
        BY <1>1, <4>1, EscapeValue, Zenon
      <4>4. CASE ~Escape(v, i)
        <5>1. g[i] = <<v[i]>> \o g[i + 1]
          BY <1>2, <4>1, <4>2, <4>4, Zenon DEF DecodeAt
        <5>2. r[i] = <<v[i]>> \o r[i + 1]
          BY <1>2, <1>2b, <4>1, <4>3, <4>4, Zenon
        <5>3. g[i + 1] = r[i + 1]
          BY <1>4, <4>1, SMTT(30)
        <5> QED
          BY <5>1, <5>2, <5>3
      <4>5. CASE Escape(v, i)
        <5>1. i # n - 3 /\ i # n - 2
          <6>1. ASSUME i = n - 3 PROVE FALSE
            <7>1. n - 3 >= 1 /\ Escape(v, n - 3)
              BY <4>1, <4>5, <6>1
            <7> QED
              BY <1>2a, <7>1, Zenon
          <6>2. ASSUME i = n - 2 PROVE FALSE
            <7>1. n - 2 >= 1 /\ Escape(v, n - 2)
              BY <4>1, <4>5, <6>2, SMTT(30)
            <7> QED
              BY <1>2a, <7>1, Zenon
          <6> QED
            BY <6>1, <6>2
        <5>2. i + 3 \in 1..n - 1 /\ i + 3 >= n - 1 - k
          BY <1>1, <4>1, <5>1, SMTT(30)
        <5>3. g[i + 3] = r[i + 3]
          BY <1>4, <5>2, SMTT(30)
        <5>4. g[i] = <<16 * hex_to_uint(v[i + 1]) + hex_to_uint(v[i + 2])>> \o g[i + 3]
          BY <1>2, <4>1, <4>2, <4>5, Zenon DEF DecodeAt
        <5>5. r[i] = <<16 * hex_to_uint(v[i + 1]) + hex_to_uint(v[i + 2])>> \o r[i + 3]
          BY <1>2, <1>2b, <4>1, <4>3, <4>5, Zenon
        <5> QED
          BY <5>3, <5>4, <5>5
      <4> QED
        BY <4>4, <4>5
    <3> QED
      BY <3>1, <3>2
  <2>2. k + 1 \in Nat
    OBVIOUS
  <2> QED
    BY <2>1, <2>2, Zenon
<1>5. n - 2 \in T
  <2>1. n - 2 \in Nat
    BY <1>1
  <2> HIDE DEF T
  <2>2. \A k \in Nat : k \in T
    BY <1>3, <1>4, Induction, Zenon
  <2> QED
    BY <2>1, <2>2
<1>6. 1 \in 1..n - 1 /\ 1 >= n - 1 - (n - 2)
  BY <1>1
<1> QED
  BY <1>5, <1>6

\* A path of up to three bytes is copied (nghttp2.h:201-204): its escape, if any, is one
\* that ends in the last byte.
LEMMA ShortPaths ==
  ASSUME NEW v \in Seq(Nat), EscapesEndEarly(v), ~(Len(v) > 3),
         NEW r, IsReference(r, v)
  PROVE  r[1] = v
<1> DEFINE n == Len(v)
<1>1. n \in 0..3 /\ \A i \in 1..n : v[i] \in Nat
  <2>1. n \in Nat /\ \A i \in 1..n : v[i] \in Nat
    OBVIOUS
  <2>2. ~(n > 3)
    OBVIOUS
  <2> HIDE DEF n
  <2> QED
    BY <2>1, <2>2
<1>2. r[n + 1] = <<>>
  <2>1. n + 1 \in 1..n + 1 /\ n + 1 > n
    BY <1>1
  <2> QED
    BY <2>1 DEF ReferenceAt, IsReference
<1>3. ASSUME NEW i \in 1..n PROVE r[i] = <<v[i]>> \o r[i + 1]
  <2>1. i \in 1..n + 1 /\ ~(i > n) /\ i \in Nat /\ (i + 2 <= n => i = n - 2 /\ n - 2 >= 1)
    BY <1>1
  <2>2. i + 2 <= n => ~(v[i] = Percent /\ Escaped(v, i) # {})
    <3>1. n - 2 >= 1 => ~Escape(v, n - 2)
      BY DEF EscapesEndEarly
    <3>2. ASSUME i + 2 <= n PROVE Escape(v, i) <=> v[i] = Percent /\ Escaped(v, i) # {}
      <4>1. v[i + 1] \in Nat /\ v[i + 2] \in Nat
        BY <1>1, <3>2
      <4> QED
        BY <2>1, <4>1, EscapeValue
    <3> QED
      BY <2>1, <3>1, <3>2
  <2>3. r[i] = ReferenceAt(r, i, v)
    BY <2>1, SMTT(30) DEF IsReference
  <2> QED
    BY <2>1, <2>2, <2>3, Zenon DEF ReferenceAt
<1> HIDE DEF n
<1>4. CASE n = 0
  <2>1. v = <<>>
    BY <1>4 DEF n
  <2> QED
    BY <1>2, <1>4, <2>1
<1>5. CASE n = 1
  <2>1. v[1] \in Nat /\ r[2] = <<>> /\ r[1] = <<v[1]>> \o r[2]
    BY <1>1, <1>2, <1>3, <1>5, SMTT(30)
  <2>2. r[1] = <<v[1]>>
    BY <2>1, Joined
  <2>3. v = <<v[1]>>
    BY <1>5 DEF n
  <2> QED
    BY <2>2, <2>3
<1>6. CASE n = 2
  <2>1. v[1] \in Nat /\ v[2] \in Nat /\ r[3] = <<>> /\ r[2] = <<v[2]>> \o r[3]
        /\ r[1] = <<v[1]>> \o r[2]
    <3>1. 1 \in 1..n /\ 2 \in 1..n /\ n + 1 = 3 /\ 1 + 1 = 2 /\ 2 + 1 = 3
      BY <1>6
    <3> QED
      BY <1>1, <1>2, <1>3, <3>1, Zenon
  <2>2. r[2] = <<v[2]>>
    BY <2>1, Joined
  <2>3. r[1] = <<v[1], v[2]>>
    <3>1. <<v[1]>> \o <<v[2]>> = <<v[1], v[2]>>
      BY <2>1, Joined, Zenon
    <3> QED
      BY <2>1, <2>2, <3>1, Zenon
  <2>4. v = <<v[1], v[2]>>
    BY <1>6 DEF n
  <2> QED
    BY <2>3, <2>4
<1>7. CASE n = 3
  <2>1. v[1] \in Nat /\ v[2] \in Nat /\ v[3] \in Nat /\ r[4] = <<>> /\ r[3] = <<v[3]>> \o r[4]
        /\ r[2] = <<v[2]>> \o r[3] /\ r[1] = <<v[1]>> \o r[2]
    <3>1. /\ 1 \in 1..n /\ 2 \in 1..n /\ 3 \in 1..n
          /\ n + 1 = 4 /\ 1 + 1 = 2 /\ 2 + 1 = 3 /\ 3 + 1 = 4
      BY <1>7
    <3> QED
      BY <1>1, <1>2, <1>3, <3>1, Zenon
  <2>2. r[3] = <<v[3]>>
    BY <2>1, Joined
  <2>3. r[2] = <<v[2], v[3]>>
    <3>1. <<v[2]>> \o <<v[3]>> = <<v[2], v[3]>>
      BY <2>1, Joined, Zenon
    <3> QED
      BY <2>1, <2>2, <3>1, ZenonT(40)
  <2>4. r[1] = <<v[1], v[2], v[3]>>
    <3>1. <<v[1]>> \o <<v[2], v[3]>> = <<v[1], v[2], v[3]>>
      BY <2>1, Joined, SMTT(30)
    <3> QED
      BY <2>1, <2>3, <3>1, Zenon
  <2>5. v = <<v[1], v[2], v[3]>>
    BY <1>7 DEF n
  <2> QED
    BY <2>4, <2>5
<1> QED
  BY <1>1, <1>4, <1>5, <1>6, <1>7

\* The bytes before the first zero are bytes.
LEMMA CStringType == ASSUME NEW s \in Seq(Nat) PROVE CString(s) \in Seq(Nat)
<1>1. CASE 0 \notin ToSet(s)
  BY <1>1 DEF CString
<1>2. CASE 0 \in ToSet(s)
  <2> DEFINE I == {i \in 1..Len(s) : s[i] = 0}
  <2>1. I # {} /\ I \subseteq Nat
    BY <1>2 DEF ToSet
  <2>2. SelectInSeq(s, LAMBDA b : b = 0) = Min(I)
    BY <2>1 DEF SelectInSeq
  <2>3. \E x \in I : \A y \in I : x <= y
    <3>1. IsWellFoundedOn(OpToRel(<, Nat), Nat)
      BY NatLessThanWellFounded
    <3> HIDE DEF I
    <3>2. PICK x \in I : \A y \in I : ~(<<y, x>> \in OpToRel(<, Nat))
      BY <2>1, <3>1, WFMin
    <3>3. \A y \in I : ~(y < x)
      BY <2>1, <3>2, Zenon DEF OpToRel
    <3> QED
      BY <2>1, <3>3
  <2>4. Min(I) \in I
    <3> HIDE DEF I
    <3> QED
      BY <2>3, Zenon DEF Min
  <2> DEFINE k == Min(I) - 1
  <2>5. CString(s) = SubSeq(s, 1, k)
    BY <1>2, <2>2, Zenon DEF CString
  <2>6. k \in Int /\ 1 \in Int /\ \A i \in 1..k : s[i] \in Nat
    <3>1. ASSUME NEW z \in 1..Len(s)
          PROVE  z - 1 \in Int /\ \A i \in 1..z - 1 : s[i] \in Nat
      OBVIOUS
    <3>2. Min(I) \in 1..Len(s)
      BY <2>4
    <3> HIDE DEF I
    <3> QED
      BY <3>1, <3>2
  <2> HIDE DEF k
  <2> QED
    BY <2>5, <2>6, SubSeqProperties
<1> QED
  BY <1>1, <1>2

\* percent_decode, for every path and whatever follows it in memory.
LEMMA DecodedPath ==
  ASSUME NEW v \in Seq(Nat), NEW x \in Nat, NEW y \in Nat
  PROVE  /\ percent_decode(v, <<x, y>>) \in Seq(Nat)
         /\ EscapesEndEarly(v) => percent_decode(v, <<x, y>>) = CString(Decoded(v))
<1>1. PICK g : /\ IsLoop(g, v, x, y)
               /\ percent_decode(v, <<x, y>>) = CString(IF Len(v) > 3 THEN g[1] ELSE v)
               /\ \A i \in 1..Len(v) + 1 : g[i] \in Seq(Nat)
  BY PercentDecode
<1>2. PICK r : IsReference(r, v) /\ Decoded(v) = r[1]
  BY ReferenceScan
<1>3. percent_decode(v, <<x, y>>) \in Seq(Nat)
  <2>1. 1 \in 1..Len(v) + 1
    OBVIOUS
  <2>2. (IF Len(v) > 3 THEN g[1] ELSE v) \in Seq(Nat)
    BY <1>1, <2>1
  <2> QED
    BY <1>1, <2>2, CStringType, SMTT(30)
<1>4. ASSUME EscapesEndEarly(v) PROVE percent_decode(v, <<x, y>>) = CString(Decoded(v))
  <2>1. CASE Len(v) > 3
    <3>1. g[1] = r[1]
      BY <1>1, <1>2, <1>4, <2>1, LoopIsReference, SMTT(30)
    <3> QED
      BY <1>1, <1>2, <2>1, <3>1, SMTT(30)
  <2>2. CASE ~(Len(v) > 3)
    <3>1. r[1] = v
      BY <1>2, <1>4, <2>2, ShortPaths, SMTT(30)
    <3> QED
      BY <1>1, <1>2, <2>2, <3>1, SMTT(30)
  <2> QED
    BY <2>1, <2>2, SMTT(30)
<1> QED
  BY <1>3, <1>4

\* The path of every request is the decoded one, unless an escape ends in its last two
\* bytes, and check_path judges it by its segments, for paths of any length and of any
\* bytes (nghttp2.h:154-206,341-349).
THEOREM EveryPathIsDecoded == PathsSpec => []PathsAreDecoded
<1> DEFINE Right(v, p) == /\ EscapesEndEarly(v) => p = CString(Decoded(v))
                          /\ check_path(p) <=> StaysBelowRoot(p)
<1>1. PathsAreDecoded <=> Right(value, path)
  BY DEF PathsAreDecoded, EscapesEndEarly
<1>2. PathsInit => PathsAreDecoded
  <2> SUFFICES ASSUME PathsInit PROVE Right(value, path)
    BY <1>1
  <2>1. value = <<>> /\ path = <<>> /\ <<>> \in Seq(Nat)
    BY DEF PathsInit
  <2>2. CString(Decoded(<<>>)) = <<>>
    <3>1. PICK r : IsReference(r, <<>>) /\ Decoded(<<>>) = r[1]
      BY <2>1, ReferenceScan, Zenon
    <3>2. 1 \in 1..Len(<<>>) + 1 /\ 1 > Len(<<>>)
      OBVIOUS
    <3>3. Decoded(<<>>) = <<>>
      BY <3>1, <3>2 DEF ReferenceAt, IsReference
    <3>4. 0 \notin ToSet(<<>>)
      BY DEF ToSet
    <3> QED
      BY <3>3, <3>4, Zenon DEF CString
  <2>3. check_path(<<>>) <=> StaysBelowRoot(<<>>)
    BY <2>1, CheckPathIsExact, Zenon
  <2> QED
    BY <2>1, <2>2, <2>3, Zenon
<1>3. PathsAreDecoded /\ [DecodePath]_pathVars => PathsAreDecoded'
  <2>1. ASSUME PathsAreDecoded, UNCHANGED pathVars PROVE PathsAreDecoded'
    <3>1. value' = value /\ path' = path
      BY <2>1 DEF pathVars
    <3> QED
      BY <2>1, <3>1, Zenon DEF PathsAreDecoded
  <2>2. ASSUME DecodePath PROVE PathsAreDecoded'
    <3>1. PICK n \in 0..MaxPath : \E v \in [1..n -> Bytes] : \E following \in Following :
                                    value' = v /\ path' = percent_decode(v, following)
      BY <2>2 DEF DecodePath
    <3>2. PICK v \in [1..n -> Bytes], following \in Following :
            value' = v /\ path' = percent_decode(v, following)
      BY <3>1
    <3>3. v \in Seq(Nat)
      <4>1. n \in Nat /\ Bytes \subseteq Nat
        BY PathsAssumption
      <4>2. v \in [1..n -> Nat]
        BY <4>1, Zenon
      <4> QED
        BY <4>1, <4>2
    <3>4. PICK x \in Nat, y \in Nat : following = <<x, y>>
      <4>1. following \in (0..255) \X (0..255)
        BY PathsAssumption, Zenon
      <4> DEFINE B == 0..255
      <4>2. following \in B \X B /\ B \subseteq Nat
        BY <4>1
      <4> HIDE DEF B
      <4>3. following[1] \in B /\ following[2] \in B
        BY <4>2
      <4>4. following = <<following[1], following[2]>>
        BY <4>2
      <4> QED
        BY <4>2, <4>3, <4>4, Zenon
    <3>5. path' \in Seq(Nat) /\ (EscapesEndEarly(v) => path' = CString(Decoded(v)))
      BY <3>2, <3>3, <3>4, DecodedPath, SMTT(30)
    <3>6. check_path(path') <=> StaysBelowRoot(path')
      BY <3>5, CheckPathIsExact
    <3> QED
      BY <3>2, <3>5, <3>6, Zenon DEF PathsAreDecoded, EscapesEndEarly
  <2> QED
    BY <2>1, <2>2
<1> QED
  BY <1>2, <1>3, PTL DEF PathsSpec
==============================================================================
