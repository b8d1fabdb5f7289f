--------------------------- MODULE TelemetryProofs ---------------------------
(***************************************************************************)
(* Proofs about the two OpenTelemetry components, which share nothing: the *)
(* metrics registry and the sampler.                                       *)
(***************************************************************************)
EXTENDS Integers, MetricsRegistry, Sampler, FiniteSetTheorems, WellFoundedInduction, TLAPS
-----------------------------------------------------------------------------
(***************************************************************************)
(* The metrics registry, for any names and any number of instruments.  The *)
(* invariant: a pointer to a live instrument points to the one that the    *)
(* map owns under the pointer's name.  So what frees an instrument takes   *)
(* its name out of the map, and no other name's pointers die.              *)
(***************************************************************************)
\* Instruments are numbered as they are created.
Numbered ==
  /\ created \in Nat /\ sync \in [Names -> Nat] /\ live \subseteq Nat
  /\ \A n \in Names : sync[n] <= created
  /\ \A o \in live : 0 < o /\ o <= created
  /\ pointers \subseteq [name : Names, object : Nat]
  /\ \A p \in pointers : p.object <= created

\* The map owns what lives, each instrument under one name.
Owned ==
  /\ \A n \in Names : sync[n] # 0 => sync[n] \in live
  /\ \A n, m \in Names : sync[n] # 0 /\ sync[n] = sync[m] => n = m
  /\ \A p \in pointers : p.object \in live => sync[p.name] = p.object

RegistryInv == Numbered /\ Owned

\* The new instrument has a number of its own, whether the map keeps it or not
\* (metrics.cc:94-96).
LEMMA CreateKeeps ==
  ASSUME RegistryInv, NEW n \in Names, NEW t, CreateSyncInstrument(t, n)
  PROVE  RegistryInv' /\ live \subseteq live'
<1> DEFINE o == created + 1
           q == [name |-> n, object |-> o]
<1>1. /\ created' = o /\ pointers' = pointers \cup {q} /\ o \in Nat /\ created < o
      /\ q \in [name : Names, object : Nat] /\ q.name = n /\ q.object = o
  BY DEF CreateSyncInstrument, RegistryInv, Numbered
<1>2. o \notin live /\ \A m \in Names : sync[m] # o
  BY <1>1 DEF RegistryInv, Numbered
<1>3. \A p \in pointers : p.object # o /\ p.name \in Names
  BY <1>1 DEF RegistryInv, Numbered
<1>4. CASE sync[n] = 0
  <2>1. sync' = [sync EXCEPT ![n] = o] /\ live' = live \cup {o}
    BY <1>1, <1>4 DEF CreateSyncInstrument
  <2>2. sync'[n] = o /\ \A m \in Names \ {n} : sync'[m] = sync[m]
    BY <2>1 DEF RegistryInv, Numbered
  <2> HIDE DEF o, q
  <2>3. Numbered'
    BY <1>1, <2>1, <2>2 DEF RegistryInv, Numbered
  <2>4. \A p \in pointers : p.object \in live' => p.object \in live /\ p.name # n
    BY <1>3, <1>4, <2>1 DEF RegistryInv, Owned, Numbered
  <2>5. Owned'
    <3>1. \A m \in Names : sync'[m] # 0 => sync'[m] \in live'
      BY <2>1, <2>2 DEF RegistryInv, Owned
    <3> QED
      BY <1>1, <1>2, <1>3, <2>2, <2>4, <3>1 DEF RegistryInv, Owned
  <2> QED
    BY <2>1, <2>3, <2>5 DEF RegistryInv
<1>5. CASE sync[n] # 0
  <2>1. UNCHANGED <<sync, live>>
    BY <1>5 DEF CreateSyncInstrument
  <2> HIDE DEF o, q
  <2>2. Numbered'
    BY <1>1, <2>1 DEF RegistryInv, Numbered
  <2>3. Owned'
    BY <1>1, <1>2, <2>1 DEF RegistryInv, Owned
  <2> QED
    BY <2>1, <2>2, <2>3 DEF RegistryInv
<1> QED
  BY <1>4, <1>5

\* Every call keeps the invariant, and frees only what its name owns.
LEMMA RegistryStep ==
  RegistryInv /\ [MetricsNext]_metricsVars =>
    /\ RegistryInv'
    /\ \A p \in pointers : p.object \in live /\ p.object \notin live' => sync'[p.name] = 0
<1> SUFFICES ASSUME RegistryInv, [MetricsNext]_metricsVars
             PROVE  /\ RegistryInv'
                    /\ \A p \in pointers :
                         p.object \in live /\ p.object \notin live' => sync'[p.name] = 0
  OBVIOUS
<1> DEFINE Frees == \A p \in pointers :
                      p.object \in live /\ p.object \notin live' => sync'[p.name] = 0
<1>1. ASSUME NEW n \in Names, NEW t, CreateSyncInstrument(t, n) PROVE RegistryInv' /\ Frees
  BY <1>1, CreateKeeps
<1>2. ASSUME NEW n \in Names, DestroySyncInstrument(n) PROVE RegistryInv' /\ Frees
  <2>1. /\ sync' = [sync EXCEPT ![n] = 0] /\ live' = live \ {sync[n]}
        /\ UNCHANGED <<created, pointers>>
    BY <1>2 DEF DestroySyncInstrument
  <2>2. sync'[n] = 0 /\ \A m \in Names \ {n} : sync'[m] = sync[m]
    BY <2>1 DEF RegistryInv, Numbered
  <2>3. \A p \in pointers : p.name \in Names
    BY DEF RegistryInv, Numbered
  <2>4. Numbered'
    <3>1. sync' \in [Names -> Nat] /\ live' \subseteq live
      BY <2>1 DEF RegistryInv, Numbered
    <3>2. \A m \in Names : sync'[m] <= created
      BY <2>2 DEF RegistryInv, Numbered
    <3> QED
      BY <2>1, <3>1, <3>2, Zenon DEF RegistryInv, Numbered
  <2>5. Owned'
    BY <2>1, <2>2, <2>3 DEF RegistryInv, Owned
  <2>6. ASSUME NEW p \in pointers, p.object \in live, p.object \notin live' PROVE p.name = n
    <3>1. p.object = sync[n] /\ p.object = sync[p.name] /\ p.object # 0
      BY <2>1, <2>6 DEF RegistryInv, Owned, Numbered
    <3> QED
      BY <2>3, <3>1, Zenon DEF RegistryInv, Owned
  <2> QED
    BY <2>2, <2>4, <2>5, <2>6 DEF RegistryInv
<1>3. ASSUME NEW n \in Names, GetSyncInstrument(n) PROVE RegistryInv' /\ Frees
  <2> DEFINE q == [name |-> n, object |-> sync[n]]
  <2>1. pointers' = pointers \cup {q} /\ UNCHANGED <<sync, created, live>>
    BY <1>3 DEF GetSyncInstrument
  <2>2. /\ q \in [name : Names, object : Nat] /\ q.name = n /\ q.object = sync[n]
        /\ q.object <= created
    BY DEF RegistryInv, Numbered
  <2> HIDE DEF q
  <2> QED
    BY <2>1, <2>2 DEF RegistryInv, Numbered, Owned
<1>4. CASE Destruct
  <2>1. /\ sync' = [n \in Names |-> 0] /\ live' = live \ {sync[n] : n \in Names}
        /\ UNCHANGED <<created, pointers>>
    BY <1>4 DEF Destruct
  <2>2. \A p \in pointers : p.name \in Names /\ p.object \notin live'
    BY <2>1 DEF RegistryInv, Numbered, Owned
  <2>3. sync' \in [Names -> Nat] /\ live' \subseteq live /\ \A n \in Names : sync'[n] = 0
    BY <2>1
  <2>4. Numbered'
    <3>1. \A n \in Names : sync'[n] <= created
      BY <2>3 DEF RegistryInv, Numbered
    <3>2. live' \subseteq Nat /\ \A o \in live' : 0 < o /\ o <= created
      BY <2>3 DEF RegistryInv, Numbered
    <3>3. /\ created' \in Nat /\ pointers' \subseteq [name : Names, object : Nat]
          /\ \A p \in pointers' : p.object <= created'
      BY <2>1 DEF RegistryInv, Numbered
    <3> QED
      BY <2>1, <2>3, <3>1, <3>2, <3>3 DEF Numbered
  <2>5. Owned'
    BY <2>1, <2>2, <2>3 DEF Owned
  <2> QED
    BY <2>2, <2>3, <2>4, <2>5 DEF RegistryInv
<1>5. CASE UNCHANGED <<sync, created, live, pointers>>
  BY <1>5 DEF RegistryInv, Numbered, Owned
<1> QED
  BY <1>1, <1>2, <1>3, <1>4, <1>5
     DEF MetricsNext, CreateObservableInstrument, DestroyObservableInstrument, metricsVars

\* A call hands out a dead pointer exactly if it creates an instrument whose name is taken.
LEMMA BornDead ==
  RegistryInv /\ [MetricsNext]_metricsVars =>
    \A p \in pointers' \ pointers : p.object \notin live' <=> sync[p.name] \notin {0, p.object}
<1> SUFFICES ASSUME RegistryInv, [MetricsNext]_metricsVars, NEW p \in pointers' \ pointers
             PROVE  p.object \notin live' <=> sync[p.name] \notin {0, p.object}
  OBVIOUS
<1>1. ASSUME NEW n \in Names, NEW t, CreateSyncInstrument(t, n)
      PROVE  p.object \notin live' <=> sync[p.name] \notin {0, p.object}
  <2>1. /\ p.name = n /\ p.object = created + 1
        /\ live' = IF sync[n] = 0 THEN live \cup {created + 1} ELSE live
    BY <1>1 DEF CreateSyncInstrument
  <2>2. created \in Nat /\ sync[n] \in Nat /\ sync[n] <= created /\ \A o \in live : o \in Nat /\ o <= created
    BY DEF RegistryInv, Numbered
  <2> QED
    BY <2>1, <2>2
<1>2. ASSUME NEW n \in Names, GetSyncInstrument(n)
      PROVE  p.object \notin live' <=> sync[p.name] \notin {0, p.object}
  <2>1. p.name = n /\ p.object = sync[n] /\ sync[n] # 0 /\ live' = live
    BY <1>2 DEF GetSyncInstrument
  <2>2. sync[n] \in live
    BY <2>1 DEF RegistryInv, Owned
  <2> QED
    BY <2>1, <2>2
<1>3. ASSUME pointers' = pointers PROVE FALSE
  BY <1>3
<1> QED
  BY <1>1, <1>2, <1>3, Zenon
     DEF MetricsNext, CreateObservableInstrument, DestroySyncInstrument,
         DestroyObservableInstrument, Destruct, metricsVars

\* A raw pointer that a caller got from the registry dies only when its name is destroyed,
\* and is dead from the start only if the name was taken, for any names and any number of
\* calls (metrics.cc:94-96).
THEOREM PointersOutliveOtherCalls == MetricsSpec => PointersDieByDestroyOnly
<1>1. MetricsInit => RegistryInv
  BY DEF MetricsInit, RegistryInv, Numbered, Owned
<1>2. RegistryInv /\ [MetricsNext]_metricsVars =>
        [/\ \A p \in pointers :
              p.object \in live /\ p.object \notin live' => sync'[p.name] = 0
         /\ \A p \in pointers' \ pointers :
              p.object \notin live' <=> sync[p.name] \notin {0, p.object}]_metricsVars
  BY RegistryStep, BornDead
<1> QED
  BY <1>1, <1>2, RegistryStep, PTL DEF MetricsSpec, PointersDieByDestroyOnly
-----------------------------------------------------------------------------
(***************************************************************************)
(* The sampler, for any width of a threshold, a mantissa and a ratio that  *)
(* SamplerAssumption allows: those of the code among them.                 *)
(***************************************************************************)

\* Induction over the naturals, for a set.
LEMMA Induction ==
  ASSUME NEW T, 0 \in T, \A k \in Nat : k \in T => k + 1 \in T
  PROVE  \A k \in Nat : k \in T
<1> SUFFICES ASSUME Nat \ T # {} PROVE FALSE
  OBVIOUS
<1>1. IsWellFoundedOn(OpToRel(<, Nat), Nat) /\ Nat \ T \subseteq Nat
  BY NatLessThanWellFounded
<1>2. PICK x \in Nat \ T : \A y \in Nat \ T : ~(<<y, x>> \in OpToRel(<, Nat))
  BY <1>1, WFMin
<1>3. \A y \in Nat \ T : ~(y < x)
  BY <1>2, Zenon DEF OpToRel
<1>4. x \in Nat /\ x # 0
  BY <1>2, Zenon
<1>5. x - 1 \in Nat /\ x - 1 < x /\ (x - 1) + 1 = x
  BY <1>4
<1> QED
  BY <1>3, <1>4, <1>5

\* Powers of two count subsets, which is how the provers learn about them.
LEMMA TwoToCounts ==
  ASSUME NEW n \in Nat
  PROVE  IsFiniteSet(SUBSET (1..n)) /\ Cardinality(SUBSET (1..n)) = TwoTo(n)
<1>1. IsFiniteSet(1..n) /\ Cardinality(1..n) = n
  BY FS_Interval
<1> QED
  BY <1>1, FS_SUBSET, Zenon DEF TwoTo

LEMMA TwoToType ==
  ASSUME NEW n \in Nat
  PROVE  TwoTo(n) \in Nat
BY TwoToCounts, FS_CardinalityType, Zenon

LEMMA TwoToZero == TwoTo(0) = 1
BY DEF TwoTo

LEMMA TwoToSucc ==
  ASSUME NEW n \in Nat
  PROVE  TwoTo(n + 1) = 2 * TwoTo(n)
<1> DEFINE A == SUBSET (1..n)
           f == [s \in A |-> s \cup {n + 1}]
           B == {s \cup {n + 1} : s \in A}
<1>1. IsFiniteSet(A) /\ Cardinality(A) = TwoTo(n)
  BY TwoToCounts
<1>2. Cardinality(SUBSET (1..n + 1)) = TwoTo(n + 1)
  BY TwoToCounts, n + 1 \in Nat, Zenon
<1>3. n + 1 \notin 1..n /\ 1..n + 1 = (1..n) \cup {n + 1}
  OBVIOUS
<1>4. SUBSET (1..n + 1) = A \cup B
  <2>1. ASSUME NEW s \in SUBSET (1..n + 1) PROVE s \in A \cup B
    <3>1. CASE n + 1 \in s
      <4>1. s \ {n + 1} \in A /\ s = (s \ {n + 1}) \cup {n + 1}
        BY <1>3, <3>1
      <4> QED
        BY <4>1, Zenon
    <3>2. CASE n + 1 \notin s
      BY <1>3, <3>2
    <3> QED
      BY <3>1, <3>2
  <2>2. ASSUME NEW s \in A \cup B PROVE s \in SUBSET (1..n + 1)
    BY <1>3
  <2> QED
    BY <2>1, <2>2, Zenon
<1>5. A \cap B = {}
  BY <1>3
<1>6. ExistsBijection(A, B)
  <2>1. f \in [A -> B]
    OBVIOUS
  <2>2. \A s, t \in A : f[s] = f[t] => s = t
    <3> SUFFICES ASSUME NEW s \in A, NEW t \in A, f[s] = f[t] PROVE s = t
      BY Zenon
    <3>1. s \cup {n + 1} = t \cup {n + 1} /\ n + 1 \notin s /\ n + 1 \notin t
      BY <1>3
    <3> QED
      BY <3>1
  <2>3. \A b \in B : \E s \in A : f[s] = b
    OBVIOUS
  <2> HIDE DEF A, B, f
  <2> QED
    BY <2>1, <2>2, <2>3, Zenon
       DEF ExistsBijection, Bijection, Injection, Surjection, IsInjective
<1> HIDE DEF A, B
<1>7. IsFiniteSet(B) /\ Cardinality(B) = Cardinality(A)
  BY <1>1, <1>6, FS_Bijection
<1>8. Cardinality(A \cap B) = 0
  BY <1>5, FS_EmptySet
<1>9. Cardinality(A \cup B) = Cardinality(A) + Cardinality(B) - Cardinality(A \cap B)
  BY <1>1, <1>7, FS_Union
<1>10. TwoTo(n + 1) = TwoTo(n) + TwoTo(n) - 0
  BY <1>1, <1>2, <1>4, <1>7, <1>8, <1>9, Zenon
<1>11. TwoTo(n) \in Nat
  BY TwoToType
<1> QED
  BY <1>10, <1>11

LEMMA TwoToPositive ==
  ASSUME NEW n \in Nat
  PROVE  TwoTo(n) \in Nat /\ 0 < TwoTo(n)
<1> DEFINE T == {k \in Nat : 0 < TwoTo(k)}
<1>1. 0 \in T
  BY TwoToZero
<1>2. \A k \in Nat : k \in T => k + 1 \in T
  BY TwoToSucc, TwoToType
<1> HIDE DEF T
<1>3. \A k \in Nat : k \in T
  BY <1>1, <1>2, Induction
<1> QED
  BY <1>3, TwoToType DEF T

LEMMA TwoToSum ==
  ASSUME NEW a \in Nat, NEW b \in Nat
  PROVE  TwoTo(a + b) = TwoTo(a) * TwoTo(b)
<1> DEFINE T == {k \in Nat : TwoTo(a + k) = TwoTo(a) * TwoTo(k)}
<1>1. 0 \in T
  BY TwoToZero, TwoToType
<1>2. ASSUME NEW k \in Nat, k \in T PROVE k + 1 \in T
  <2>1. TwoTo(a + k) = TwoTo(a) * TwoTo(k) /\ a + k \in Nat /\ a + (k + 1) = (a + k) + 1
    BY <1>2
  <2>2. TwoTo((a + k) + 1) = 2 * TwoTo(a + k) /\ TwoTo(k + 1) = 2 * TwoTo(k)
    BY <2>1, TwoToSucc
  <2>3. TwoTo(a) \in Nat /\ TwoTo(k) \in Nat /\ k + 1 \in Nat
    BY TwoToType
  <2>4. TwoTo(a + (k + 1)) = TwoTo(a) * TwoTo(k + 1)
    BY <2>1, <2>2, <2>3
  <2> QED
    BY <2>3, <2>4
<1> HIDE DEF T
<1>3. \A k \in Nat : k \in T
  BY <1>1, <1>2, Induction
<1> QED
  BY <1>3 DEF T

LEMMA TwoToGrows ==
  ASSUME NEW a \in Nat, NEW b \in Nat, a <= b
  PROVE  TwoTo(a) <= TwoTo(b)
<1>1. b - a \in Nat /\ a + (b - a) = b
  OBVIOUS
<1>2. TwoTo(b) = TwoTo(a) * TwoTo(b - a)
  BY <1>1, TwoToSum
<1>3. TwoTo(a) \in Nat /\ TwoTo(b - a) \in Nat /\ 0 < TwoTo(b - a)
  BY <1>1, TwoToPositive
<1> HIDE DEF TwoTo
<1> QED
  BY <1>2, <1>3

\* A set of natural numbers that is not empty has a least member.
LEMMA Least ==
  ASSUME NEW T, T \subseteq Nat, T # {}
  PROVE  \E x \in T : \A y \in T : x <= y
<1>1. IsWellFoundedOn(OpToRel(<, Nat), Nat)
  BY NatLessThanWellFounded
<1>2. PICK x \in T : \A y \in T : ~(<<y, x>> \in OpToRel(<, Nat))
  BY <1>1, WFMin
<1>3. \A y \in T : ~(y < x)
  BY <1>2, Zenon DEF OpToRel
<1> QED
  BY <1>3

\* Division with rest.
LEMMA DivMod ==
  ASSUME NEW x \in Nat, NEW b \in Nat, 0 < b
  PROVE  /\ x \div b \in Nat /\ x % b \in Nat /\ x % b < b
         /\ x = b * (x \div b) + (x % b)
<1>1. x = b * (x \div b) + (x % b)
  OBVIOUS
<1>2. x % b \in Nat /\ x % b < b
  OBVIOUS
<1>3. x \div b \in Nat
  OBVIOUS
<1> QED
  BY <1>1, <1>2, <1>3

\* The exponent of a number that k more bits than the mantissa hold.
LEMMA ExponentIs ==
  ASSUME NEW x \in Nat, NEW k \in Nat, k <= HalfBits + RatioBits, x < TwoTo(Mantissa + k)
  PROVE  /\ Exponent(x) \in Nat /\ Exponent(x) <= k /\ x < TwoTo(Mantissa + Exponent(x))
         /\ \A j \in Nat : j < Exponent(x) => TwoTo(Mantissa + j) <= x
<1> DEFINE K == HalfBits + RatioBits
           T == {i \in Nat : i <= K /\ x < TwoTo(Mantissa + i)}
           Is(i) == x < TwoTo(Mantissa + i) /\ \A j \in 0..i - 1 : x >= TwoTo(Mantissa + j)
<1>1. K \in Nat /\ Mantissa \in Nat /\ k \in T /\ T \subseteq Nat
  BY SamplerAssumption
<1>2. \A j \in Nat : TwoTo(Mantissa + j) \in Nat
  BY <1>1, TwoToType
<1> HIDE DEF K
<1>3. PICK m \in T : \A y \in T : m <= y
  BY <1>1, Least, Zenon
<1>4. m \in 0..K /\ Is(m)
  <2>1. m \in Nat /\ m <= K /\ x < TwoTo(Mantissa + m)
    BY <1>3
  <2>2. ASSUME NEW j \in 0..m - 1 PROVE x >= TwoTo(Mantissa + j)
    <3>1. j \in Nat /\ j <= K /\ ~(m <= j)
      BY <1>1, <2>1
    <3>2. j \notin T
      BY <1>3, <3>1
    <3> QED
      BY <1>2, <3>1, <3>2
  <2> QED
    BY <1>1, <2>1, <2>2
<1>5. Exponent(x) = CHOOSE i \in 0..K : Is(i)
  BY Zenon DEF Exponent, K
<1>6. Exponent(x) \in 0..K /\ Is(Exponent(x))
  <2> HIDE DEF Is
  <2> QED
    BY <1>4, <1>5, Zenon
<1> DEFINE e == Exponent(x)
<1>7. e \in Nat /\ \A j \in Nat : j < e => TwoTo(Mantissa + j) <= x
  <2>1. e \in Nat /\ e <= K
    BY <1>1, <1>6
  <2> HIDE DEF e
  <2>2. \A j \in Nat : j < e => j \in 0..e - 1
    BY <2>1
  <2>3. \A j \in 0..e - 1 : x >= TwoTo(Mantissa + j)
    BY <1>6 DEF e
  <2>4. \A j \in Nat : j < e => x >= TwoTo(Mantissa + j)
    BY <2>2, <2>3
  <2> QED
    BY <1>2, <2>1, <2>4
<1> HIDE DEF e
<1>8. ~(k < e)
  BY <1>2, <1>7
<1> QED
  BY <1>6, <1>7, <1>8 DEF e

\* A rounded number, against the unit in its last place: what the rounding drops or adds
\* is at most half of it.
LEMMA RoundForm ==
  ASSUME NEW x \in Nat, NEW k \in Nat, k <= HalfBits + RatioBits, x < TwoTo(Mantissa + k)
  PROVE  \E q, s \in Nat :
           LET unit == TwoTo(Exponent(x))
           IN /\ x = unit * q + s /\ s < unit
              /\ \/ Round(x) = unit * q /\ 2 * s <= unit
                 \/ Round(x) = unit * (q + 1) /\ 2 * s >= unit
<1> DEFINE unit == TwoTo(Exponent(x))
           q == x \div unit
           s == x % unit
           r == 2 * s
<1>1. unit \in Nat /\ 0 < unit
  BY ExponentIs, TwoToPositive
<1>2. Round(x) = unit * (IF r > unit \/ (r = unit /\ q % 2 = 1) THEN q + 1 ELSE q)
  BY Zenon DEF Round
<1> HIDE DEF unit
<1>3. q \in Nat /\ s \in Nat /\ s < unit /\ x = unit * q + s
  BY <1>1, DivMod
<1> HIDE DEF q, s
<1>4. \/ Round(x) = unit * q /\ 2 * s <= unit
      \/ Round(x) = unit * (q + 1) /\ 2 * s >= unit
  <2>1. CASE r > unit \/ (r = unit /\ q % 2 = 1)
    <3>1. 2 * s >= unit
      BY <1>1, <1>3, <2>1
    <3> QED
      BY <1>2, <2>1, <3>1, Zenon
  <2>2. CASE ~(r > unit \/ (r = unit /\ q % 2 = 1))
    <3>1. 2 * s <= unit
      BY <1>1, <1>3, <2>2
    <3> QED
      BY <1>2, <2>2, <3>1, Zenon
  <2> QED
    BY <2>1, <2>2, Zenon
<1> QED
  BY <1>3, <1>4, Zenon DEF unit

\* Rounding moves a number that k more bits than the mantissa hold by at most half of 2^k.
LEMMA RoundNear ==
  ASSUME NEW x \in Nat, NEW k \in Nat, k <= HalfBits + RatioBits, x < TwoTo(Mantissa + k)
  PROVE  /\ Round(x) \in Nat
         /\ 2 * Round(x) <= 2 * x + TwoTo(k)
         /\ 2 * x <= 2 * Round(x) + TwoTo(k)
<1> DEFINE unit == TwoTo(Exponent(x))
<1>1. PICK q, s \in Nat :
        /\ x = unit * q + s /\ s < unit
        /\ \/ Round(x) = unit * q /\ 2 * s <= unit
           \/ Round(x) = unit * (q + 1) /\ 2 * s >= unit
  BY RoundForm
<1>2. unit \in Nat /\ TwoTo(k) \in Nat /\ unit <= TwoTo(k)
  BY ExponentIs, TwoToType, TwoToGrows
<1> HIDE DEF unit
<1>3. unit * q \in Nat /\ unit * (q + 1) = unit * q + unit
  BY <1>1, <1>2
<1> QED
  BY <1>1, <1>2, <1>3

\* Rounding does not pass a multiple of 2^j when j more bits than the mantissa hold the
\* number.
LEMMA RoundBelow ==
  ASSUME NEW x \in Nat, NEW c \in Nat, NEW j \in Nat, j <= HalfBits + RatioBits,
         x < TwoTo(Mantissa + j), x <= c * TwoTo(j)
  PROVE  Round(x) <= c * TwoTo(j)
<1> DEFINE e == Exponent(x)
           unit == TwoTo(e)
           m == c * TwoTo(j - e)
<1>1. PICK q, s \in Nat :
        /\ x = unit * q + s /\ s < unit
        /\ \/ Round(x) = unit * q /\ 2 * s <= unit
           \/ Round(x) = unit * (q + 1) /\ 2 * s >= unit
  BY RoundForm
<1>2. e \in Nat /\ e <= j
  BY ExponentIs
<1> HIDE DEF e
<1>3. /\ unit \in Nat /\ 0 < unit /\ TwoTo(j - e) \in Nat /\ TwoTo(j) \in Nat
      /\ TwoTo(j) = unit * TwoTo(j - e)
  <2>1. j - e \in Nat /\ e + (j - e) = j
    BY <1>2
  <2>2. TwoTo(e + (j - e)) = TwoTo(e) * TwoTo(j - e)
    BY <1>2, <2>1, TwoToSum
  <2>3. TwoTo(e) \in Nat /\ 0 < TwoTo(e) /\ TwoTo(j - e) \in Nat /\ TwoTo(j) \in Nat
    BY <1>2, <2>1, TwoToPositive
  <2> QED
    BY <2>1, <2>2, <2>3, Zenon
<1> HIDE DEF unit
<1>4. m \in Nat /\ c * TwoTo(j) = unit * m
  BY <1>3
<1> HIDE DEF m
<1>5. q <= m /\ (q = m => s = 0)
  <2>1. unit * q + s <= unit * m
    BY <1>1, <1>4
  <2>2. ~(q >= m + 1)
    <3>1. ASSUME q >= m + 1 PROVE unit * q >= unit * m + unit
      BY <1>1, <1>3, <1>4, <3>1
    <3> QED
      BY <1>1, <1>3, <1>4, <2>1, <3>1
  <2> QED
    BY <1>1, <1>3, <1>4, <2>1, <2>2
<1>6. CASE Round(x) = unit * q
  BY <1>1, <1>3, <1>4, <1>5, <1>6
<1>7. CASE Round(x) = unit * (q + 1) /\ 2 * s >= unit
  <2>1. q + 1 <= m
    BY <1>1, <1>3, <1>4, <1>5, <1>7
  <2>2. unit * (q + 1) <= unit * m
    BY <1>1, <1>3, <1>4, <2>1
  <2> QED
    BY <1>4, <1>7, <2>2
<1> QED
  BY <1>1, <1>6, <1>7

\* The last bit of the product, as a count of 1/One; and the ratio of one trace id.
LastBit == TwoTo((HalfBits + RatioBits) - Mantissa)
IdRatio == TwoTo(RatioBits - 2 * HalfBits)

\* The numbers of the sampler are powers of two: how they divide one another.
LEMMA Numbers ==
  /\ Half \in Nat /\ 2 <= Half /\ One \in Nat /\ 0 < One
  /\ Grain \in Nat /\ 16 <= Grain /\ LastBit \in Nat /\ 2 * LastBit <= One
  /\ IdRatio \in Nat /\ 0 < IdRatio
  /\ LastBit * Half = One * Grain
  /\ (Half * Half) * IdRatio = One
  /\ TwoTo(Mantissa) \in Nat /\ TwoTo(Mantissa) * Grain = Half * Half
  /\ TwoTo(Mantissa + (2 * HalfBits - Mantissa)) = Half * Half
  /\ TwoTo(Mantissa + ((HalfBits + RatioBits) - Mantissa)) = Half * One
  /\ TwoTo(Mantissa + (((HalfBits + RatioBits) - Mantissa) + 1)) = 2 * (Half * One)
  /\ 2 * (Half * One) <= TwoTo(Mantissa + RatioBits)
<1> DEFINE h == HalfBits
           b == RatioBits
           p == Mantissa
           g == 2 * HalfBits - Mantissa
           l == (HalfBits + RatioBits) - Mantissa
           w == RatioBits - 2 * HalfBits
<1>1. /\ h \in Nat /\ b \in Nat /\ p \in Nat /\ g \in Nat /\ l \in Nat /\ w \in Nat
      /\ l + 1 <= b /\ 4 <= g /\ 1 <= h /\ h + 1 <= p
      /\ l + h = b + g /\ p + g = h + h /\ p + l = h + b /\ (h + h) + w = b
      /\ p + (l + 1) = (p + l) + 1
  BY SamplerAssumption
<1>2. /\ Half = TwoTo(h) /\ One = TwoTo(b) /\ Grain = TwoTo(g) /\ LastBit = TwoTo(l)
      /\ IdRatio = TwoTo(w)
  BY Zenon DEF Half, One, Grain, LastBit, IdRatio
<1> SUFFICES
      /\ TwoTo(h) \in Nat /\ 2 <= TwoTo(h) /\ TwoTo(b) \in Nat /\ 0 < TwoTo(b)
      /\ TwoTo(g) \in Nat /\ 16 <= TwoTo(g) /\ TwoTo(l) \in Nat /\ 2 * TwoTo(l) <= TwoTo(b)
      /\ TwoTo(w) \in Nat /\ 0 < TwoTo(w)
      /\ TwoTo(l) * TwoTo(h) = TwoTo(b) * TwoTo(g)
      /\ (TwoTo(h) * TwoTo(h)) * TwoTo(w) = TwoTo(b)
      /\ TwoTo(p) \in Nat /\ TwoTo(p) * TwoTo(g) = TwoTo(h) * TwoTo(h)
      /\ TwoTo(p + g) = TwoTo(h) * TwoTo(h)
      /\ TwoTo(p + l) = TwoTo(h) * TwoTo(b)
      /\ TwoTo(p + (l + 1)) = 2 * (TwoTo(h) * TwoTo(b))
      /\ 2 * (TwoTo(h) * TwoTo(b)) <= TwoTo(p + b)
  BY <1>2, Zenon
<1> HIDE DEF h, b, p, g, l, w
<1>3. /\ TwoTo(h) \in Nat /\ TwoTo(b) \in Nat /\ 0 < TwoTo(b) /\ TwoTo(g) \in Nat
      /\ TwoTo(l) \in Nat /\ TwoTo(w) \in Nat /\ 0 < TwoTo(w) /\ TwoTo(p) \in Nat
  BY <1>1, TwoToPositive
<1>4. TwoTo(l) * TwoTo(h) = TwoTo(b) * TwoTo(g)
  <2>1. TwoTo(l + h) = TwoTo(l) * TwoTo(h) /\ TwoTo(b + g) = TwoTo(b) * TwoTo(g)
    BY <1>1, TwoToSum
  <2> QED
    BY <1>1, <2>1, Zenon
<1>5. (TwoTo(h) * TwoTo(h)) * TwoTo(w) = TwoTo(b)
  <2>1. TwoTo(h + h) = TwoTo(h) * TwoTo(h) /\ TwoTo((h + h) + w) = TwoTo(h + h) * TwoTo(w)
    BY <1>1, h + h \in Nat, TwoToSum
  <2> QED
    BY <1>1, <2>1, Zenon
<1>6. TwoTo(p) * TwoTo(g) = TwoTo(h) * TwoTo(h) /\ TwoTo(p + g) = TwoTo(h) * TwoTo(h)
  <2>1. TwoTo(h + h) = TwoTo(h) * TwoTo(h) /\ TwoTo(p + g) = TwoTo(p) * TwoTo(g)
    BY <1>1, TwoToSum
  <2> QED
    BY <1>1, <2>1, Zenon
<1>7. TwoTo(p + l) = TwoTo(h) * TwoTo(b) /\ TwoTo(p + (l + 1)) = 2 * (TwoTo(h) * TwoTo(b))
  <2>1. TwoTo(h + b) = TwoTo(h) * TwoTo(b)
    BY <1>1, TwoToSum
  <2>2. TwoTo((p + l) + 1) = 2 * TwoTo(p + l)
    BY <1>1, p + l \in Nat, TwoToSucc
  <2> QED
    BY <1>1, <2>1, <2>2, Zenon
<1>8. 2 * (TwoTo(h) * TwoTo(b)) <= TwoTo(p + b)
  <2>1. p + (l + 1) \in Nat /\ p + b \in Nat /\ p + (l + 1) <= p + b
    BY <1>1
  <2>2. TwoTo(p + (l + 1)) <= TwoTo(p + b)
    BY <2>1, TwoToGrows
  <2> QED
    BY <1>7, <2>2, Zenon
<1>9. 2 * TwoTo(l) <= TwoTo(b)
  <2>1. TwoTo(l + 1) = 2 * TwoTo(l) /\ TwoTo(l + 1) <= TwoTo(b)
    BY <1>1, l + 1 \in Nat, TwoToSucc, TwoToGrows
  <2> QED
    BY <2>1, Zenon
<1>10. 2 <= TwoTo(h) /\ 16 <= TwoTo(g)
  <2>1. TwoTo(1) = 2 /\ TwoTo(4) = 16
    BY DEF TwoTo
  <2>2. TwoTo(1) <= TwoTo(h) /\ TwoTo(4) <= TwoTo(g)
    BY <1>1, TwoToGrows
  <2> QED
    BY <2>1, <2>2, Zenon
<1> QED
  BY <1>3, <1>4, <1>5, <1>6, <1>7, <1>8, <1>9, <1>10, Zenon

\* The two halves add up to a multiple of the ratio, whatever the product and the low half
\* lose to rounding: the fraction that the high half drops is in the low half.
LEMMA HalvesAddUp ==
  ASSUME NEW H \in Nat, NEW O \in Nat, NEW G \in Nat, NEW W \in Nat, NEW r \in Nat,
         NEW p \in Nat, NEW a \in Nat, NEW f \in Nat, NEW lo \in Nat, NEW d \in Nat,
         1 <= H, W * H = O * G, 2 * W <= O, p = O * a + f,
         2 * p <= 2 * ((H - 1) * r) + W, 2 * ((H - 1) * r) <= 2 * p + W,
         lo <= (f * H + p) + W, f * H + p <= lo + W,
         O * d <= lo, lo < O * d + O
  PROVE  /\ 2 * (O * (a * H + d)) + 2 * r <= 2 * ((H * H) * r) + O * G + 2 * O
         /\ 2 * ((H * H) * r) <= 2 * (O * (a * H + d)) + 2 * r + O * G + 4 * O
<1> DEFINE X == (H - 1) * r
           t == O * (a * H + d)
           N == (H * H) * r
<1>1. X \in Nat /\ X = H * r - r /\ H * r \in Nat
  OBVIOUS
<1>2. X * H + X = N - r /\ N \in Nat
  <2>1. X * H = N - H * r
    BY <1>1
  <2> QED
    BY <1>1, <2>1
<1>3. t = p * H - f * H + O * d
  <2>1. t = (O * a) * H + O * d
    OBVIOUS
  <2>2. (O * a) * H = p * H - f * H
    <3>1. O * a = p - f /\ O * a \in Nat
      OBVIOUS
    <3> QED
      BY <3>1
  <2> QED
    BY <2>1, <2>2
<1>4. 2 * (p * H) <= 2 * (X * H) + W * H /\ 2 * (X * H) <= 2 * (p * H) + W * H
  <2>1. (2 * p) * H <= (2 * X + W) * H /\ (2 * X) * H <= (2 * p + W) * H
    BY <1>1
  <2> QED
    BY <1>1, <2>1
<1>5. /\ p * H \in Nat /\ f * H \in Nat /\ O * d \in Nat /\ X * H \in Nat /\ O * G \in Nat
      /\ t \in Int
  BY <1>1, <1>3
<1>6. 2 * p <= 2 * X + W /\ 2 * X <= 2 * p + W
  OBVIOUS
<1> HIDE DEF X, t, N
<1>7. 2 * t + 2 * r <= 2 * N + O * G + 2 * O
  BY <1>1, <1>2, <1>3, <1>4, <1>5, <1>6
<1>8. 2 * N <= 2 * t + 2 * r + O * G + 4 * O
  BY <1>1, <1>2, <1>3, <1>4, <1>5, <1>6
<1> QED
  BY <1>7, <1>8 DEF t, N

\* The sum of the two halves fits: a product with an integral part of a leaves room for
\* the low half.
LEMMA HalvesFit ==
  ASSUME NEW H \in Nat, NEW O \in Nat, NEW a \in Nat, NEW f \in Nat, NEW lo \in Nat,
         NEW d \in Nat, 2 <= H, 0 < O, O * a + f <= (H - 1) * O, O * d <= lo,
         lo <= (2 * H - 1) * O, f = 0 /\ a = H - 1 => lo <= (H - 1) * O
  PROVE  a * H + d < H * H
<1>1. a <= H - 1 /\ (a = H - 1 => f = 0)
  <2>1. ASSUME a >= H PROVE FALSE
    <3>1. O * a >= O * H /\ (H - 1) * O = O * H - O
      BY <2>1
    <3> QED
      BY <3>1
  <2>2. ASSUME a = H - 1, f # 0 PROVE FALSE
    <3>1. O * a = (H - 1) * O
      BY <2>2
    <3> QED
      BY <2>2, <3>1
  <2> QED
    BY <2>1, <2>2
<1>2. CASE a = H - 1
  <2>1. O * d <= O * (H - 1)
    BY <1>1, <1>2
  <2>2. d <= H - 1
    <3>1. ASSUME d >= H PROVE FALSE
      <4>1. O * d >= O * H
        BY <3>1
      <4> QED
        BY <2>1, <4>1
    <3> QED
      BY <3>1
  <2>3. a * H = H * H - H
    BY <1>2
  <2> QED
    BY <2>2, <2>3
<1>3. CASE a <= H - 2
  <2>1. O * d <= O * (2 * H - 1)
    OBVIOUS
  <2>2. d <= 2 * H - 1
    <3>1. ASSUME d >= 2 * H PROVE FALSE
      <4>1. O * d >= O * (2 * H) /\ O * (2 * H - 1) = O * (2 * H) - O
        BY <3>1
      <4> QED
        BY <2>1, <4>1
    <3> QED
      BY <3>1
  <2>3. a * H <= H * H - 2 * H
    <3>1. a * H <= (H - 2) * H
      BY <1>3
    <3> QED
      BY <3>1
  <2> QED
    BY <2>2, <2>3
<1> QED
  BY <1>1, <1>2, <1>3

\* A threshold is its ratio's share of all 64-bit numbers, up to half a grain and the
\* integers it is cut to; no ratio wraps to a small one (sampler.h:53-73).
LEMMA ThresholdNear ==
  ASSUME NEW r \in Nat, r <= One
  PROVE  LET t == CalculateThreshold(r)
         IN /\ t \in Nat /\ t < Half * Half
            /\ 2 * (One * t) + 2 * r <= 2 * ((Half * Half) * r) + One * Grain + 2 * One
            /\ 2 * ((Half * Half) * r) <= 2 * (One * t) + 2 * r + One * Grain + 4 * One
<1> DEFINE H == Half
           O == One
           G == Grain
           W == LastBit
           l == (HalfBits + RatioBits) - Mantissa
<1>1. /\ H \in Nat /\ 2 <= H /\ O \in Nat /\ 0 < O /\ G \in Nat /\ 16 <= G
      /\ W \in Nat /\ 2 * W <= O /\ W * H = O * G
      /\ TwoTo(Mantissa + l) = H * O /\ TwoTo(Mantissa + (l + 1)) = 2 * (H * O)
      /\ 2 * (H * O) <= TwoTo(Mantissa + RatioBits)
      /\ W = TwoTo(l)
  BY Numbers, Zenon DEF LastBit
<1>2. /\ l \in Nat /\ l <= HalfBits + RatioBits /\ l + 1 <= HalfBits + RatioBits
      /\ Mantissa \in Nat /\ RatioBits \in Nat /\ RatioBits <= HalfBits + RatioBits
  BY SamplerAssumption
<1>3. TwoTo(l + 1) = 2 * W /\ O = TwoTo(RatioBits) /\ TwoTo(Mantissa + RatioBits) \in Nat
  BY <1>1, <1>2, TwoToSucc, TwoToType DEF One
<1>4. Max64 = H * H - 1 /\ Max64 + 1 = H * H /\ H * H \in Nat /\ 0 < H * H
  BY <1>1 DEF Max64
<1> HIDE DEF l
<1>5. CASE r = 0
  <2>1. CalculateThreshold(r) = 0
    BY <1>5 DEF CalculateThreshold
  <2> QED
    BY <1>1, <1>4, <1>5, <2>1
<1>6. CASE r = O
  <2>1. CalculateThreshold(r) = Max64
    BY <1>1, <1>6 DEF CalculateThreshold
  <2> HIDE DEF H, O, G
  <2>2. (H * H) * O = O * (H * H) /\ O * (H * H - 1) = O * (H * H) - O /\ O * G \in Nat
    BY <1>1
  <2> QED
    BY <1>1, <1>4, <1>6, <2>1, <2>2 DEF H, O, G
<1>7. CASE 0 < r /\ r < O
  <2> DEFINE p == Round((H - 1) * r)
             a == p \div O
             f == p % O
             lo == Round(f * H + p)
             d == lo \div O
  <2>1. CalculateThreshold(r) = (a * H + d) % (Max64 + 1)
    <3>1. ~(r >= O) /\ ~(r <= 0)
      BY <1>1, <1>7
    <3> QED
      BY <3>1, Zenon DEF CalculateThreshold
  <2> HIDE DEF H, O, G, W
  <2>2. /\ (H - 1) * r \in Nat /\ (H - 1) * r < H * O /\ (H - 1) * r <= (H - 1) * O
        /\ H * O \in Nat /\ H - 1 \in Nat
    <3>1. (H - 1) * r <= (H - 1) * O /\ (H - 1) * O = H * O - O
      BY <1>1, <1>7
    <3> QED
      BY <1>1, <1>7, <3>1
  <2>3. p \in Nat /\ 2 * p <= 2 * ((H - 1) * r) + W /\ 2 * ((H - 1) * r) <= 2 * p + W
    BY <1>1, <1>2, <2>2, RoundNear, Zenon
  <2>4. p <= (H - 1) * O
    <3>1. (H - 1) * r < TwoTo(Mantissa + RatioBits)
      BY <1>1, <1>3, <2>2
    <3>2. (H - 1) * r <= (H - 1) * TwoTo(RatioBits)
      BY <1>3, <2>2
    <3>3. p <= (H - 1) * TwoTo(RatioBits)
      BY <1>2, <2>2, <3>1, <3>2, RoundBelow
    <3> QED
      BY <1>3, <3>3
  <2> HIDE DEF p
  <2>5. a \in Nat /\ f \in Nat /\ f < O /\ p = O * a + f
    BY <1>1, <2>3, DivMod
  <2> HIDE DEF a, f
  <2>6. /\ f * H + p \in Nat /\ f * H + p <= (2 * H - 1) * O
        /\ (2 * H - 1) * O < 2 * (H * O) /\ 2 * H - 1 \in Nat
    <3>1. f * H <= O * H /\ f * H \in Nat
      BY <1>1, <2>5
    <3>2. (2 * H - 1) * O = 2 * (H * O) - O /\ (H - 1) * O = H * O - O /\ O * H = H * O
      BY <1>1
    <3> QED
      BY <1>1, <2>2, <2>3, <2>4, <3>1, <3>2
  <2>7. lo \in Nat /\ 2 * lo <= 2 * (f * H + p) + 2 * W /\ 2 * (f * H + p) <= 2 * lo + 2 * W
    <3>1. f * H + p < TwoTo(Mantissa + (l + 1)) /\ l + 1 \in Nat
      BY <1>1, <1>2, <2>2, <2>6
    <3> QED
      BY <1>1, <1>2, <1>3, <2>6, <3>1, RoundNear, Zenon
  <2>8. lo <= (2 * H - 1) * O /\ (f = 0 /\ a = H - 1 => lo <= (H - 1) * O)
    <3>1. f * H + p < TwoTo(Mantissa + RatioBits)
      BY <1>1, <1>3, <2>2, <2>6
    <3>2. \A c \in Nat : f * H + p <= c * TwoTo(RatioBits) => lo <= c * TwoTo(RatioBits)
      BY <1>2, <2>6, <3>1, RoundBelow
    <3>3. f = 0 => f * H + p = p
      BY <1>1, <2>3
    <3> HIDE DEF lo
    <3> QED
      BY <1>3, <2>2, <2>4, <2>6, <3>2, <3>3, Zenon
  <2> HIDE DEF lo
  <2>9. d \in Nat /\ O * d <= lo /\ lo < O * d + O
    <3>1. d \in Nat /\ lo % O \in Nat /\ lo % O < O /\ lo = O * d + (lo % O)
      BY <1>1, <2>7, DivMod
    <3> HIDE DEF d
    <3> QED
      BY <1>1, <3>1
  <2> HIDE DEF d
  <2>10. lo <= (f * H + p) + W /\ f * H + p <= lo + W
    BY <1>1, <2>6, <2>7
  <2>11. a * H + d < H * H
    BY <1>1, <2>4, <2>5, <2>7, <2>8, <2>9, HalvesFit
  <2>12. /\ 2 * (O * (a * H + d)) + 2 * r <= 2 * ((H * H) * r) + O * G + 2 * O
         /\ 2 * ((H * H) * r) <= 2 * (O * (a * H + d)) + 2 * r + O * G + 4 * O
    <3>1. 1 <= H
      BY <1>1
    <3> QED
      BY <1>1, <2>3, <2>5, <2>7, <2>9, <2>10, <3>1, HalvesAddUp
  <2>13. a * H + d \in Nat
    BY <1>1, <2>5, <2>9
  <2>14. CalculateThreshold(r) = a * H + d
    BY <1>4, <2>1, <2>11, <2>13
  <2> QED
    BY <2>11, <2>12, <2>13, <2>14, Zenon DEF H, O, G
<1> QED
  BY <1>1, <1>5, <1>6, <1>7

LEMMA Cancel ==
  ASSUME NEW O \in Nat, 0 < O, NEW x \in Int, NEW y \in Int, O * x <= O * y
  PROVE  x <= y
<1> SUFFICES ASSUME y + 1 <= x PROVE FALSE
  OBVIOUS
<1>1. O * (y + 1) <= O * x
  OBVIOUS
<1>2. O * (y + 1) = O * y + O
  OBVIOUS
<1> QED
  BY <1>1, <1>2

\* The divisor (double)UINT64_MAX is 2^64 (sampler.h:72).
LEMMA DivisorIsRoundedUp == Round(Max64) = Half * Half
<1> DEFINE N == Half * Half
           G == Grain
           g == 2 * HalfBits - Mantissa
           P == TwoTo(Mantissa)
           e == Exponent(Max64)
<1>1. /\ N \in Nat /\ 4 <= N /\ G \in Nat /\ 16 <= G /\ P \in Nat /\ P * G = N
      /\ TwoTo(Mantissa + g) = N /\ TwoTo(g) = G
  <2>1. Half \in Nat /\ 2 <= Half
    BY Numbers
  <2>2. N \in Nat /\ 4 <= N
    BY <2>1
  <2> QED
    BY <2>2, Numbers, Zenon DEF Grain
<1>2. /\ g \in Nat /\ 1 <= g /\ g <= HalfBits + RatioBits /\ Mantissa \in Nat
      /\ (Mantissa + (g - 1)) + 1 = Mantissa + g /\ Mantissa + (g - 1) \in Nat
  BY SamplerAssumption
<1>3. Max64 = N - 1
  BY DEF Max64
<1> HIDE DEF N, G, g, P
<1>4. Max64 \in Nat /\ Max64 < TwoTo(Mantissa + g)
  BY <1>1, <1>3
<1>5. e \in Nat /\ e <= g /\ Max64 < TwoTo(Mantissa + e)
  BY <1>2, <1>4, ExponentIs
<1>6. PICK q, s \in Nat :
        /\ Max64 = TwoTo(e) * q + s /\ s < TwoTo(e)
        /\ \/ Round(Max64) = TwoTo(e) * q /\ 2 * s <= TwoTo(e)
           \/ Round(Max64) = TwoTo(e) * (q + 1) /\ 2 * s >= TwoTo(e)
  BY <1>2, <1>4, RoundForm
<1> HIDE DEF e
<1>7. e = g
  <2> SUFFICES ASSUME e < g PROVE FALSE
    BY <1>2, <1>5
  <2>1. TwoTo(Mantissa + e) <= TwoTo(Mantissa + (g - 1))
    <3>1. Mantissa + e \in Nat /\ Mantissa + e <= Mantissa + (g - 1)
      BY <1>2, <1>5
    <3> QED
      BY <1>2, <3>1, TwoToGrows
  <2>2. TwoTo((Mantissa + (g - 1)) + 1) = 2 * TwoTo(Mantissa + (g - 1))
    BY <1>2, TwoToSucc
  <2>3. N = 2 * TwoTo(Mantissa + (g - 1))
    BY <1>1, <1>2, <2>2, Zenon
  <2>4. TwoTo(Mantissa + (g - 1)) \in Nat /\ TwoTo(Mantissa + e) \in Nat
    BY <1>2, <1>5, TwoToType
  <2> QED
    BY <1>1, <1>3, <1>5, <2>1, <2>3, <2>4
<1>8. q + 1 = P /\ s = G - 1
  <2>1. G * P = (G * q + s) + 1 /\ s < G
    BY <1>1, <1>3, <1>6, <1>7
  <2>2. G * P <= G * (q + 1)
    BY <1>1, <2>1
  <2>3. P <= q + 1
    BY <1>1, <2>2, Cancel
  <2>4. G * P >= G * q + 1
    BY <1>1, <2>1
  <2>5. ~(P <= q)
    <3>1. ASSUME P <= q PROVE G * P <= G * q
      BY <1>1, <3>1
    <3> QED
      BY <1>1, <2>4, <3>1
  <2>6. q + 1 = P
    BY <1>1, <2>3, <2>5
  <2> QED
    BY <1>1, <2>1, <2>6
<1>9. Round(Max64) = G * P
  BY <1>1, <1>6, <1>7, <1>8
<1> QED
  BY <1>1, <1>9 DEF N

\* The threshold of a trace id is the id, up to a grain (sampler.h:67-74).
LEMMA IdNear ==
  ASSUME NEW id \in Nat, id < Half * Half
  PROVE  LET t == CalculateThresholdFromBuffer(id)
         IN t \in Nat /\ t <= id + Grain + 1 /\ id <= t + Grain + 3
<1> DEFINE N == Half * Half
           O == One
           G == Grain
           w == IdRatio
           g == 2 * HalfBits - Mantissa
           P == TwoTo(Mantissa)
<1>1. /\ N \in Nat /\ 0 < N /\ O \in Nat /\ 0 < O /\ G \in Nat /\ 16 <= G
      /\ w \in Nat /\ N * w = O /\ P \in Nat /\ P * G = N
      /\ TwoTo(Mantissa + g) = N /\ TwoTo(g) = G
  <2>1. Half \in Nat /\ 2 <= Half
    BY Numbers
  <2>2. N \in Nat /\ 0 < N
    BY <2>1
  <2> QED
    BY <2>2, Numbers, Zenon DEF Grain
<1>2. g \in Nat /\ g <= HalfBits + RatioBits
  BY SamplerAssumption
<1> DEFINE d == Round(id)
           t == CalculateThresholdFromBuffer(id)
<1>3. t = CalculateThreshold((d * O) \div Round(Max64))
  BY Zenon DEF CalculateThresholdFromBuffer
<1>4. Max64 = N - 1
  BY DEF Max64
<1> HIDE DEF N, O, G, w, g, P
<1>5. Round(Max64) = N
  BY DivisorIsRoundedUp DEF N
<1>6. d \in Nat /\ 2 * d <= 2 * id + G /\ 2 * id <= 2 * d + G
  BY <1>1, <1>2, RoundNear, Zenon DEF N
<1>7. d <= N
  <2>1. id < TwoTo(Mantissa + g) /\ id <= P * TwoTo(g)
    BY <1>1 DEF N
  <2>2. d <= P * TwoTo(g)
    BY <1>1, <1>2, <2>1, RoundBelow, Zenon
  <2> QED
    BY <1>1, <2>2
<1> HIDE DEF d
<1>8. (d * O) \div N = d * w /\ d * w \in Nat /\ d * w <= O
  BY <1>1, <1>6, <1>7
<1> DEFINE q == d * w
<1>9. /\ t \in Nat
      /\ 2 * (O * t) + 2 * q <= 2 * (N * q) + O * G + 2 * O
      /\ 2 * (N * q) <= 2 * (O * t) + 2 * q + O * G + 4 * O
  BY <1>3, <1>5, <1>8, ThresholdNear DEF N, O, G
<1>10. N * q = O * d
  BY <1>1, <1>6
<1> HIDE DEF t, q
<1>11. 2 * t <= 2 * d + G + 2
  <2>1. O * (2 * t) = 2 * (O * t) /\ O * (2 * d + G + 2) = 2 * (O * d) + O * G + 2 * O
    BY <1>1, <1>6, <1>9
  <2>2. q \in Nat /\ O * t \in Nat /\ O * d \in Nat /\ O * G \in Nat
    BY <1>1, <1>6, <1>8, <1>9 DEF q
  <2>3. O * (2 * t) <= O * (2 * d + G + 2)
    BY <1>1, <1>9, <1>10, <2>1, <2>2
  <2>4. 2 * t \in Int /\ 2 * d + G + 2 \in Int
    BY <1>1, <1>6, <1>9
  <2> QED
    BY <1>1, <2>3, <2>4, Cancel
<1>12. 2 * d <= 2 * t + G + 6
  <2>1. O * (2 * d) = 2 * (O * d) /\ O * (2 * t + G + 6) = 2 * (O * t) + O * G + 6 * O
    BY <1>1, <1>6, <1>9
  <2>2. q \in Nat /\ q <= O /\ O * t \in Nat /\ O * d \in Nat /\ O * G \in Nat
    BY <1>1, <1>6, <1>8, <1>9 DEF q
  <2>3. O * (2 * d) <= O * (2 * t + G + 6)
    BY <1>1, <1>9, <1>10, <2>1, <2>2
  <2>4. 2 * d \in Int /\ 2 * t + G + 6 \in Int
    BY <1>1, <1>6, <1>9
  <2> QED
    BY <1>1, <2>3, <2>4, Cancel
<1> QED
  BY <1>1, <1>6, <1>9, <1>11, <1>12 DEF t, G

\* How many ids a threshold admits: as many as it says, up to a grain and the integers.
LEMMA SampledCount ==
  ASSUME threshold \in Nat, threshold < Half * Half
  PROVE  LET n == Cardinality({id \in 0..Max64 : ShouldSample(id)})
         IN n \in Nat /\ n <= threshold + Grain + 4 /\ threshold <= n + Grain
<1> DEFINE N == Half * Half
           G == Grain
           A == {id \in 0..Max64 : ShouldSample(id)}
           n == Cardinality(A)
           T(id) == CalculateThresholdFromBuffer(id)
<1>1. G \in Nat /\ N \in Nat /\ Max64 = N - 1
  BY Numbers DEF Max64
<1> HIDE DEF N, G
<1>2. \A id \in 0..Max64 : id \in Nat /\ id < N
  BY <1>1
<1>3. \A id \in 0..Max64 : T(id) \in Nat /\ T(id) <= id + G + 1 /\ id <= T(id) + G + 3
  BY <1>2, IdNear, Zenon DEF N, G
<1>4. \A id \in 0..Max64 : ShouldSample(id) <=> threshold # 0 /\ T(id) <= threshold
  BY DEF ShouldSample
<1> HIDE DEF T
<1>5. A \in SUBSET Nat /\ \A id \in A : id <= threshold + G + 3
  BY <1>1, <1>2, <1>3, <1>4
<1>6. IsFiniteSet(A) /\ n <= threshold + G + 4 /\ n \in Nat
  <2>1. threshold + G + 3 \in Nat /\ (threshold + G + 3) + 1 = threshold + G + 4
    BY <1>1
  <2> HIDE DEF A
  <2>2. IsFiniteSet(A) /\ n <= (threshold + G + 3) + 1
    BY <1>5, <2>1, FS_BoundedSetOfNaturals
  <2> QED
    BY <2>1, <2>2, FS_CardinalityType
<1>7. threshold <= n + G
  <2>1. CASE threshold <= G
    BY <1>1, <1>6, <2>1
  <2>2. CASE threshold > G
    <3> DEFINE m == threshold - (G + 1)
    <3>1. m \in Nat /\ m < N /\ \A id \in 0..m : id \in 0..Max64
      BY <1>1, <2>2 DEF N
    <3>2. 0..m \in SUBSET A
      <4> SUFFICES ASSUME NEW id \in 0..m PROVE id \in A
        OBVIOUS
      <4>1. id \in Nat /\ id + G + 1 <= threshold
        BY <1>1, <3>1
      <4>2. T(id) <= threshold /\ threshold # 0
        BY <1>1, <1>3, <2>2, <3>1, <4>1
      <4> QED
        BY <1>4, <3>1, <4>2
    <3> HIDE DEF m, A
    <3>3. Cardinality(0..m) <= n
      BY <1>6, <3>2, FS_Subset, Zenon
    <3>4. Cardinality(0..m) = m + 1
      BY <3>1, FS_Interval
    <3> QED
      BY <1>1, <1>6, <3>1, <3>3, <3>4 DEF m
  <2> QED
    BY <1>1, <2>1, <2>2
<1> QED
  BY <1>6, <1>7 DEF G

\* The sampler's state: the threshold is that of its ratio.
SamplerInv == ratio \in Nat /\ ratio <= One /\ threshold = CalculateThreshold(ratio)

LEMMA ThresholdIsHonoured == SamplerInv => RatioIsHonoured
<1> SUFFICES ASSUME SamplerInv PROVE RatioIsHonoured
  OBVIOUS
<1> DEFINE N == Half * Half
           O == One
           G == Grain
           n == Cardinality({id \in 0..Max64 : ShouldSample(id)})
<1>1. N \in Nat /\ O \in Nat /\ 0 < O /\ G \in Nat /\ 16 <= G /\ Max64 + 1 = N
  BY Numbers DEF Max64
<1>2. ratio \in Nat /\ ratio <= O
  BY DEF SamplerInv
<1>3. /\ threshold \in Nat /\ threshold < N
      /\ 2 * (O * threshold) + 2 * ratio <= 2 * (N * ratio) + O * G + 2 * O
      /\ 2 * (N * ratio) <= 2 * (O * threshold) + 2 * ratio + O * G + 4 * O
  BY ThresholdNear DEF SamplerInv
<1>4. n \in Nat /\ n <= threshold + G + 4 /\ threshold <= n + G
  BY <1>3, SampledCount, Zenon
<1> SUFFICES O * n <= ratio * N + 2 * O * G /\ ratio * N <= O * n + 2 * O * G
  BY <1>1, Zenon DEF RatioIsHonoured
<1> HIDE DEF N, O, G, n
<1>5. /\ O * n <= O * (threshold + G + 4) /\ O * threshold <= O * (n + G)
      /\ O * 16 <= O * G
  BY <1>1, <1>3, <1>4
<1>6. /\ O * (threshold + G + 4) = O * threshold + O * G + 4 * O
      /\ O * (n + G) = O * n + O * G /\ ratio * N = N * ratio /\ 2 * O * G = 2 * (O * G)
      /\ O * threshold \in Nat /\ O * G \in Nat /\ O * n \in Nat /\ N * ratio \in Nat
  BY <1>1, <1>2, <1>3, <1>4
<1>7. O * n <= N * ratio + 2 * (O * G)
  BY <1>1, <1>2, <1>3, <1>5, <1>6
<1>8. N * ratio <= O * n + 2 * (O * G)
  BY <1>1, <1>2, <1>3, <1>5, <1>6
<1> QED
  BY <1>6, <1>7, <1>8

\* The sampler takes the share of all trace ids that its ratio asks for, up to two grains,
\* for thresholds, mantissas and ratios of any width that SamplerAssumption allows: with
\* 32, 53 and 1074 bits, every double between 0 and 1 is honoured to one part in 2^52
\* (sampler.h:53-74).
THEOREM SamplerHonoursRatio == SamplerSpec => []RatioIsHonoured
<1>1. SamplerInit => SamplerInv
  <2>1. One \in Nat /\ 0 <= One
    BY Numbers
  <2>2. CalculateThreshold(0) = 0
    BY DEF CalculateThreshold
  <2> QED
    BY <2>1, <2>2 DEF SamplerInit, SamplerInv
<1>2. SamplerInv /\ [SamplerNext]_samplerVars => SamplerInv'
  <2> SUFFICES ASSUME SamplerInv, [SamplerNext]_samplerVars PROVE SamplerInv'
    OBVIOUS
  <2>1. CASE SamplerNext
    <3>1. PICK r \in Ratios : ratio' = r /\ threshold' = CalculateThreshold(r)
      BY <2>1 DEF SamplerNext, CustomSampler
    <3>2. r \in Nat /\ r <= One
      BY Numbers DEF Ratios
    <3> QED
      BY <3>1, <3>2, Zenon DEF SamplerInv
  <2>2. CASE UNCHANGED samplerVars
    BY <2>2, Zenon DEF SamplerInv, samplerVars
  <2> QED
    BY <2>1, <2>2
<1> QED
  BY <1>1, <1>2, ThresholdIsHonoured, PTL DEF SamplerSpec
==============================================================================
