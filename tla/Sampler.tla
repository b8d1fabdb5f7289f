------------------------------- MODULE Sampler -------------------------------
(***************************************************************************)
(* The CustomSampler of opentelemetry/jaeger/sampler.h.  Its arithmetic is *)
(* in doubles; here a double is an integer count of 1/One, rounded to      *)
(* Mantissa significant bits as the processor rounds.  In the code         *)
(* HalfBits is 32, Mantissa 53 and RatioBits 1074 (the smallest double is  *)
(* 2^-1074); thresholds and trace ids have 64 bits.                        *)
(***************************************************************************)
EXTENDS Naturals, FiniteSets

CONSTANTS HalfBits,   \* bits of half a threshold
          Mantissa,   \* significant bits of a double
          RatioBits   \* ratios are multiples of 2^-RatioBits

\* A double holds half a threshold and a bit, and is at least four bits short of a whole
\* one; the ids divided by 2^64 are doubles.
ASSUME SamplerAssumption ==
  /\ HalfBits \in Nat /\ Mantissa \in Nat /\ RatioBits \in Nat
  /\ HalfBits < Mantissa
  /\ Mantissa + 4 <= 2 * HalfBits
  /\ 2 * HalfBits <= RatioBits

TwoTo(n) == 2^n

Half == TwoTo(HalfBits)
Max64 == Half * Half - 1      \* UINT64_MAX
One == TwoTo(RatioBits)            \* the double 1.0

VARIABLES threshold,   \* threshold_, and the ratio it was computed from
          ratio

samplerVars == <<threshold, ratio>>

\* The exponent of the last of Mantissa bits of x.
Exponent(x) ==
  CHOOSE k \in 0..HalfBits + RatioBits :
    /\ x < TwoTo(Mantissa + k)
    /\ \A j \in 0..k - 1 : x >= TwoTo(Mantissa + j)

\* x to the nearest number of Mantissa bits, ties to even.
Round(x) ==
  LET unit == TwoTo(Exponent(x))
      q == x \div unit
      r == 2 * (x % unit)
  IN unit * (IF r > unit \/ (r = unit /\ q % 2 = 1) THEN q + 1 ELSE q)

\* Mutant: the low half is computed from the product alone.
ThresholdWithoutFraction(r) ==
  LET product == Round((Half - 1) * r)
  IN IF r <= 0 THEN 0
     ELSE IF r >= One THEN Max64
     ELSE ((product \div One) * Half + product \div One) % (Max64 + 1)

\* The high half is the integral part of product, the low half its fraction moved up
\* plus product; the sum is one of unsigned 64-bit numbers.
CalculateThreshold(r) ==
  LET product == Round((Half - 1) * r)
      lo == Round((product % One) * Half + product)
  IN IF r <= 0 THEN 0
     ELSE IF r >= One THEN Max64
     ELSE ((product \div One) * Half + lo \div One) % (Max64 + 1)

\* (double)res / (double)UINT64_MAX, whose divisor is rounded up to a power of two.
CalculateThresholdFromBuffer(id) ==
  CalculateThreshold((Round(id) * One) \div Round(Max64))

\* CheckIfForceSampling looks at no attribute and is never true.
ShouldSample(id) == threshold # 0 /\ CalculateThresholdFromBuffer(id) <= threshold

Ratios == {r \in 0..One : Round(r) = r}

SamplerInit == ratio = 0 /\ threshold = 0

CustomSampler(r) ==
  /\ ratio' = r
  /\ threshold' = CalculateThreshold(r)

SamplerNext == \E r \in Ratios : CustomSampler(r)

SamplerSpec == SamplerInit /\ [][SamplerNext]_samplerVars
-----------------------------------------------------------------------------
\* Trace ids that doubles do not tell apart.
Grain == TwoTo(2 * HalfBits - Mantissa)

\* The sampler takes the share of all trace ids that its ratio asks for, up to the
\* rounding of the threshold and of the ids: no ratio wraps to a small threshold, and
\* the two halves do not lose a carry (sampler.h:53-73).
RatioIsHonoured ==
  LET sampled == Cardinality({id \in 0..Max64 : ShouldSample(id)})
  IN /\ One * sampled <= ratio * (Max64 + 1) + 2 * One * Grain
     /\ ratio * (Max64 + 1) <= One * sampled + 2 * One * Grain
==============================================================================
