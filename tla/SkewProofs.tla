----------------------------- MODULE SkewProofs -----------------------------
(***************************************************************************)
(* What a skew sample and the reported median mean, for any number of CPUs *)
(* and samples, any width, scale, skew and delay.                          *)
(***************************************************************************)
EXTENDS SkewMeasure, Q32Proofs, FiniteSetTheorems

\* A clock reading is a number of ticks that the counters allow, at the scale
\* of its moment, rounded down.
ReadingOK(x) ==
  /\ x.scale \in Scales
  /\ \E s \in Nat : /\ x.at - anchor <= s /\ s <= x.at + MaxSkew - anchor
                    /\ x.ns * QOne <= s * x.scale /\ s * x.scale < x.ns * QOne + QOne

\* What has been read of the sample under way.
InSample ==
  /\ pc \in {"c_start", "sleep", "r_end"} =>
       r.ns = (r.at * TrueScale) \div QOne /\ r.at <= time
  /\ pc \in {"sleep", "r_end"} =>
       ReadingOK(c.start) /\ r.at <= c.start.at /\ c.start.at <= time
  /\ pc = "r_end" =>
       ReadingOK(c.end) /\ c.start.at <= c.end.at /\ c.end.at <= time

\* Where the loop is, by the number of samples taken.
Progress ==
  /\ pc \in {"r_start", "c_start", "sleep", "r_end"} => Len(all_samples) < samples
  /\ pc \in {"sort", "done"} => Len(all_samples) = samples
  /\ pc = "panicked" => samples = 0

\* The result is the median.
ResultOK ==
  pc = "done" => /\ \E i \in Samples : result.median_skew_ns = all_samples[i].skew_ns
                 /\ IsMedian(result.median_skew_ns)

\* A sample's skew is the difference of its two intervals.
DifferenceOK ==
  \A i \in Samples : all_samples[i].skew_ns
                       = all_samples[i].c_elapsed_ns - all_samples[i].ref_elapsed_ns

\* The inductive invariant.
IInv == TypeOK /\ InSample /\ Progress /\ ResultOK /\ DifferenceOK /\ SkewExplained

----------------------------------------------------------------------------
(* Arithmetic *)

\* The constants are numbers, and scales lie within the error.
LEMMA Numbers ==
  /\ WordMod \in Nat /\ QOne \in Nat \ {0}
  /\ MaxSkew \in Nat /\ MaxErr \in Nat /\ TrueScale \in Nat /\ MaxScale \in Nat
  /\ MaxTime \in Nat /\ Interval \in Nat /\ QuietGap \in Nat
  /\ \A cpu \in CPUs : Skew[cpu] \in Nat /\ Skew[cpu] <= MaxSkew
  /\ \A s \in Scales : /\ s \in Word /\ s \in Nat /\ s <= MaxScale
                       /\ s - TrueScale <= MaxErr /\ TrueScale - s <= MaxErr
BY WidthAssumption, SourceAssumption, SkewAssumption, SMT DEF MaxScale, Word

\* A reading is the ticks seen at the current scale, rounded down.
LEMMA FreshReading ==
  ASSUME SourceTypeOK, NEW cpu \in CPUs
  PROVE  LET x == [ns |-> now_as_u64(cpu), at |-> time, scale |-> q]
         IN  x \in Reading /\ ReadingOK(x)
<1> DEFINE s == IF ticks(cpu) >= anchor THEN ticks(cpu) - anchor ELSE 0
           n == now_as_u64(cpu)
<1>1. /\ time \in Nat /\ time <= MaxTime /\ anchor \in Nat /\ anchor <= MaxSkew
      /\ Skew[cpu] \in Nat /\ Skew[cpu] <= MaxSkew
      /\ q \in Nat /\ q \in Word /\ q <= MaxScale /\ q \in Scales
  BY Numbers, SMT DEF SourceTypeOK
<1>2. /\ s \in Nat /\ s <= time + MaxSkew - anchor /\ time - anchor <= s
      /\ s <= MaxTime + MaxSkew
  BY <1>1, Numbers, SMT DEF ticks
<1>3. n \in Nat /\ n * QOne <= s * q /\ s * q < n * QOne + QOne
  <2>1. CASE ticks(cpu) >= anchor
    <3> DEFINE v == (s * q) \div QOne
    <3>1. s = ticks(cpu) - anchor
      BY <2>1
    <3>2. s \in Word /\ s # None
      BY <1>2, Numbers, SourceAssumption, NoneAssumption, SMT DEF Word
    <3>3. n = as_nanos(ticks_to_duration(s, q))
      BY <2>1, <3>1, <3>2 DEF now_as_u64, u64_checked_sub
    <3>4. n = saturate(v)
      BY <1>1, <3>2, <3>3, TicksToDuration
    <3> HIDE DEF s
    <3>5. s * q <= (MaxTime + MaxSkew) * MaxScale
      <4>1. s * q <= (MaxTime + MaxSkew) * q
        BY <1>1, <1>2, Numbers, MulMono, SMT
      <4>2. q * (MaxTime + MaxSkew) <= MaxScale * (MaxTime + MaxSkew)
        BY <1>1, Numbers, MulMono, SMT
      <4> QED BY <1>1, <1>2, <4>1, <4>2, Numbers, SMT
    <3>6. s * q \in Nat /\ s * q < WordMod * QOne
      BY <1>1, <1>2, <3>5, Numbers, SourceAssumption, SMT
    <3>7. v \in Nat /\ v * QOne <= s * q /\ s * q < v * QOne + QOne
      BY <3>6, DivBounds, Numbers
    <3>8. v < WordMod
      BY <3>6, DivLess, Numbers
    <3> QED BY <3>4, <3>7, <3>8 DEF saturate
  <2>2. CASE ~(ticks(cpu) >= anchor)
    <3>1. n = 0 /\ s = 0
      BY <2>2 DEF now_as_u64, u64_checked_sub
    <3> QED BY <1>1, <3>1, Numbers, SMT
  <2> QED BY <2>1, <2>2
<1> HIDE DEF s, n
<1>4. [ns |-> n, at |-> time, scale |-> q] \in Reading
  BY <1>1, <1>3 DEF Reading
<1>5. ReadingOK([ns |-> n, at |-> time, scale |-> q])
  BY <1>1, <1>2, <1>3 DEF ReadingOK
<1> QED BY <1>4, <1>5 DEF n

\* How far two clock readings are apart, in Q32 nanoseconds.
LEMMA ClockInterval ==
  ASSUME NEW x \in Reading, NEW y \in Reading, ReadingOK(x), ReadingOK(y), SourceTypeOK
  PROVE  LET ideal == y.at * y.scale - x.at * x.scale
             diff  == y.ns * QOne - x.ns * QOne
         IN  /\ diff < ideal + MaxSkew * MaxScale + QOne
             /\ ideal - MaxSkew * MaxScale - QOne < diff
<1> DEFINE A == anchor
           D == MaxSkew - anchor
           f == x.scale
           t == y.scale
           S == MaxScale
<1>1. PICK s0 \in Nat : /\ x.at - A <= s0 /\ s0 <= x.at + MaxSkew - A
                        /\ x.ns * QOne <= s0 * f /\ s0 * f < x.ns * QOne + QOne
  BY DEF ReadingOK
<1>2. PICK s1 \in Nat : /\ y.at - A <= s1 /\ s1 <= y.at + MaxSkew - A
                        /\ y.ns * QOne <= s1 * t /\ s1 * t < y.ns * QOne + QOne
  BY DEF ReadingOK
<1>3. /\ A \in Nat /\ D \in Nat /\ A + D = MaxSkew
      /\ f \in Nat /\ t \in Nat /\ f <= S /\ t <= S /\ S \in Nat
      /\ x.at \in Nat /\ y.at \in Nat /\ x.ns \in Nat /\ y.ns \in Nat
      /\ QOne \in Nat
  BY Numbers, SMT DEF SourceTypeOK, ReadingOK, Reading
<1> DEFINE T0 == x.at
           T1 == y.at
           a == x.ns * QOne
           b == y.ns * QOne
<1>4. a \in Nat /\ b \in Nat
  BY <1>3, SMT
<1>5. /\ T0 <= s0 + A /\ s0 <= T0 + D /\ T1 <= s1 + A /\ s1 <= T1 + D
  BY <1>1, <1>2, <1>3, SMT
<1>6. a <= s0 * f /\ s0 * f < a + QOne /\ b <= s1 * t /\ s1 * t < b + QOne
  BY <1>1, <1>2
<1>7. T0 \in Nat /\ T1 \in Nat
  BY <1>3
<1> HIDE DEF A, D, f, t, S, T0, T1, a, b
<1>8. /\ T0 * f <= (s0 + A) * f /\ s0 * f <= (T0 + D) * f
      /\ T1 * t <= (s1 + A) * t /\ s1 * t <= (T1 + D) * t
  BY <1>3, <1>5, <1>7, MulMono, SMT
<1>9. /\ f * A <= S * A /\ f * D <= S * D /\ t * A <= S * A /\ t * D <= S * D
  BY <1>3, MulMono
<1>10. /\ (s0 + A) * f = s0 * f + f * A /\ (T0 + D) * f = T0 * f + f * D
       /\ (s1 + A) * t = s1 * t + t * A /\ (T1 + D) * t = T1 * t + t * D
       /\ MaxSkew * S = S * A + S * D
  BY <1>3, <1>7, SMT
<1>11. /\ s0 * f \in Nat /\ s1 * t \in Nat /\ T0 * f \in Nat /\ T1 * t \in Nat
       /\ f * A \in Nat /\ f * D \in Nat /\ t * A \in Nat /\ t * D \in Nat
       /\ S * A \in Nat /\ S * D \in Nat
  BY <1>3, <1>7, SMT
<1>12. /\ b - a < (T1 * t - T0 * f) + MaxSkew * S + QOne
       /\ (T1 * t - T0 * f) - MaxSkew * S - QOne < b - a
  BY <1>3, <1>4, <1>6, <1>8, <1>9, <1>10, <1>11, SMT
<1> QED BY <1>12 DEF A, D, f, t, S, T0, T1, a, b

\* How far the reference clock runs between two moments.
LEMMA ReferenceInterval ==
  ASSUME NEW t0 \in Nat, NEW t1 \in Nat, t0 <= t1
  PROVE  LET R == saturating_sub((t1 * TrueScale) \div QOne, (t0 * TrueScale) \div QOne)
             ideal == (t1 - t0) * TrueScale
         IN  /\ R \in Nat
             /\ R * QOne < ideal + QOne
             /\ ideal - QOne < R * QOne
<1> DEFINE S == TrueScale
           a == t0 * S
           b == t1 * S
           x == a \div QOne
           y == b \div QOne
<1>1. a \in Nat /\ b \in Nat /\ a <= b
  BY Numbers, MulMono, SMT
<1>2. /\ x \in Nat /\ x * QOne <= a /\ a < x * QOne + QOne
      /\ y \in Nat /\ y * QOne <= b /\ b < y * QOne + QOne
  BY <1>1, DivBounds, Numbers
<1>3. x <= y
  BY <1>1, DivMono, Numbers
<1>4. (t1 - t0) * S = b - a
  BY Numbers, SMT
<1> HIDE DEF a, b, x, y
<1>5. y - x \in Nat /\ saturating_sub(y, x) = y - x
  BY <1>2, <1>3, SMT DEF saturating_sub
<1>6. (y - x) * QOne = y * QOne - x * QOne /\ x * QOne \in Nat /\ y * QOne \in Nat
  BY <1>2, Numbers, SMT
<1>7. (y - x) * QOne < (b - a) + QOne /\ (b - a) - QOne < (y - x) * QOne
  BY <1>1, <1>2, <1>6, Numbers, SMT
<1> QED BY <1>4, <1>5, <1>7 DEF a, b, x, y

\* The sample about to be recorded is explained.
LEMMA NewSample ==
  ASSUME TypeOK, InSample, pc = "r_end"
  PROVE  /\ sample \in SkewSample
         /\ sample.skew_ns = sample.c_elapsed_ns - sample.ref_elapsed_ns
         /\ Explained(sample)
<1> DEFINE x  == c.start
           y  == c.end
           CE == saturating_sub(y.ns, x.ns)
           RE == saturating_sub(reference_clock_ns, r.ns)
           from == x.scale
           to   == y.scale
           T0 == x.at
           T1 == y.at
           W  == r.at
           S  == TrueScale
           K  == MaxSkew * MaxScale
           slept == T1 - T0
           gap == (T0 - W) + (time - T1)
<1>1. /\ x \in Reading /\ y \in Reading /\ ReadingOK(x) /\ ReadingOK(y) /\ SourceTypeOK
      /\ r.ns = (W * S) \div QOne /\ W <= T0 /\ T0 <= T1 /\ T1 <= time
      /\ W \in Nat /\ T0 \in Nat /\ T1 \in Nat /\ time \in Nat
      /\ x.ns \in Nat /\ y.ns \in Nat
      /\ from \in Scales /\ to \in Scales
  BY Numbers, SMT DEF TypeOK, InSample, Reading, ReadingOK, SourceTypeOK
<1>2. /\ from \in Nat /\ to \in Nat /\ S \in Nat /\ K \in Nat /\ QOne \in Nat
  <2>1. \A m, n \in Nat : m * n \in Nat
    BY SMT
  <2> QED BY <1>1, <2>1, Numbers
<1>3. /\ y.ns * QOne - x.ns * QOne < (T1 * to - T0 * from) + K + QOne
      /\ (T1 * to - T0 * from) - K - QOne < y.ns * QOne - x.ns * QOne
  BY <1>1, ClockInterval
<1>4. /\ RE \in Nat
      /\ RE * QOne < (time - W) * S + QOne
      /\ (time - W) * S - QOne < RE * QOne
  <2>1. W <= time
    BY <1>1, SMT
  <2>2. RE = saturating_sub((time * S) \div QOne, (W * S) \div QOne)
    BY <1>1 DEF reference_clock_ns
  <2> HIDE DEF RE, W
  <2> QED BY <1>1, <2>1, <2>2, ReferenceInterval
<1>5. /\ CE \in Nat
      /\ y.ns * QOne - x.ns * QOne <= CE * QOne
      /\ CE > 0 => CE * QOne = y.ns * QOne - x.ns * QOne
  <2> DEFINE m == x.ns
             n == y.ns
  <2>1. m \in Nat /\ n \in Nat /\ CE = IF n >= m THEN n - m ELSE 0
    BY <1>1 DEF saturating_sub
  <2> HIDE DEF CE, m, n
  <2>2. CASE n >= m
    <3>1. CE \in Nat /\ n = m + CE
      BY <2>1, <2>2, SMT
    <3>2. n * QOne = m * QOne + CE * QOne /\ m * QOne \in Int /\ CE * QOne \in Int
      BY <1>2, <2>1, <3>1, SMT
    <3>3. n * QOne - m * QOne = CE * QOne
      BY <3>2, SMT
    <3> QED BY <3>1, <3>2, <3>3, SMT DEF m, n
  <2>3. CASE n < m
    <3>1. CE = 0
      BY <2>1, <2>3, SMT
    <3>2. n * QOne <= m * QOne
      BY <1>2, <2>1, <2>3, MulMono, SMT
    <3>3. n * QOne \in Int /\ m * QOne \in Int /\ 0 * QOne = 0
      BY <1>2, <2>1, SMT
    <3> QED BY <3>1, <3>2, <3>3, SMT DEF m, n
  <2> QED BY <2>1, <2>2, <2>3, SMT
<1>6. slept \in Nat /\ gap \in Nat /\ time - W = slept + gap
  BY <1>1, SMT
<1>7. sample = [c_elapsed_ns |-> CE, ref_elapsed_ns |-> RE, skew_ns |-> CE - RE,
                slept |-> slept, gap |-> gap, age |-> T0, from |-> from, to |-> to]
  BY DEF sample
<1>8. CE - RE \in Int
  BY <1>4, <1>5, SMT
<1>9. sample \in SkewSample
  BY <1>1, <1>4, <1>5, <1>6, <1>7, <1>8 DEF SkewSample
<1>10. T1 = T0 + slept
  BY <1>1, SMT
<1> DEFINE ideal == slept * (to - S) - gap * S + T0 * (to - from)
           cn == y.ns * QOne - x.ns * QOne
<1>14. cn \in Int
  BY <1>1, <1>2, SMT
<1> HIDE DEF slept, gap, T0, T1, W, from, to, S, K, CE, RE, cn
<1>11. ideal = (T1 * to - T0 * from) - (time - W) * S
  <2>1. T1 * to = T0 * to + slept * to
    BY <1>1, <1>2, <1>6, <1>10, SMT
  <2>2. (time - W) * S = slept * S + gap * S
    BY <1>1, <1>2, <1>6, SMT
  <2>3. slept * (to - S) = slept * to - slept * S /\ T0 * (to - from) = T0 * to - T0 * from
    BY <1>1, <1>2, <1>6, SMT
  <2>4. /\ T0 * to \in Int /\ slept * to \in Int /\ slept * S \in Int
        /\ gap * S \in Int /\ T0 * from \in Int
    BY <1>1, <1>2, <1>6, SMT
  <2> QED BY <2>1, <2>2, <2>3, <2>4, SMT
<1>12. (CE - RE) * QOne = CE * QOne - RE * QOne /\ CE * QOne \in Int /\ RE * QOne \in Int
  BY <1>2, <1>4, <1>5, SMT
<1>13. /\ T1 * to - T0 * from \in Int /\ (time - W) * S \in Int
  BY <1>1, <1>2, SMT
<1>15. /\ (CE - RE) * QOne > ideal - (K + 2 * QOne)
       /\ CE > 0 => (CE - RE) * QOne < ideal + (K + 2 * QOne)
  <2> DEFINE I1 == T1 * to - T0 * from
             I2 == (time - W) * S
             C  == CE * QOne
             R  == RE * QOne
             d  == (CE - RE) * QOne
  <2>1. /\ cn < I1 + K + QOne /\ I1 - K - QOne < cn
    BY <1>3 DEF cn
  <2>2. R < I2 + QOne /\ I2 - QOne < R
    BY <1>4
  <2>3. cn <= C /\ (CE > 0 => C = cn)
    BY <1>5 DEF cn
  <2>4. ideal = I1 - I2 /\ d = C - R
    BY <1>11, <1>12
  <2>5. C \in Int /\ R \in Int /\ I1 \in Int /\ I2 \in Int
    BY <1>12, <1>13
  <2> HIDE DEF I1, I2, C, R, d, ideal
  <2>6. /\ d > ideal - (K + 2 * QOne)
        /\ CE > 0 => d < ideal + (K + 2 * QOne)
    BY <1>2, <1>14, <2>1, <2>2, <2>3, <2>4, <2>5, SMT
  <2> QED BY <2>6 DEF d
<1>16. Explained(sample)
  BY <1>7, <1>15 DEF Explained, Ideal, Slack, K, S
<1> QED BY <1>7, <1>9, <1>16

----------------------------------------------------------------------------
(* The inductive invariant *)

\* The invariant holds when the measurement begins.
LEMMA InitInv == Init => IInv
<1> SUFFICES ASSUME Init PROVE IInv
  OBVIOUS
<1>1. /\ all_samples = << >> /\ Len(all_samples) = 0 /\ all_samples \in Seq(SkewSample)
      /\ samples \in SampleCounts /\ samples \in Nat
      /\ pc = (IF samples = 0 THEN "sort" ELSE "r_start")
      /\ r = Unread /\ c = [start |-> Unread, end |-> Unread]
  BY SkewAssumption, SMT DEF Init, first_pc
<1>2. Unread \in Reading
  BY SMT DEF Unread, Reading
<1>3. SourceTypeOK
  BY Numbers, SMT DEF Init, init_anchor, SourceTypeOK, ticks
<1>4. TypeOK
  BY <1>1, <1>2, <1>3, SMT DEF TypeOK
<1>5. InSample /\ Progress /\ ResultOK
  BY <1>1, SMT DEF InSample, Progress, ResultOK
<1>6. Samples = {}
  BY <1>1, SMT DEF Samples
<1>7. DifferenceOK /\ SkewExplained
  BY <1>6 DEF DifferenceOK, SkewExplained
<1> QED BY <1>4, <1>5, <1>7 DEF IInv

\* What the samples say does not change while none is added.
LEMMA SamplesKept ==
  ASSUME IInv, UNCHANGED all_samples
  PROVE  DifferenceOK' /\ SkewExplained'
BY DEF IInv, DifferenceOK, SkewExplained, Samples, Explained, Ideal

\* Every step preserves it.
LEMMA NextInv == IInv /\ [Next]_vars => IInv'
<1> SUFFICES ASSUME IInv, [Next]_vars PROVE IInv'
  OBVIOUS
<1>0. /\ TypeOK /\ InSample /\ Progress /\ ResultOK /\ DifferenceOK /\ SkewExplained /\ SourceTypeOK
      /\ time \in Nat /\ MaxTime \in Nat /\ samples \in Nat /\ Len(all_samples) \in Nat
      /\ Len(all_samples) <= samples /\ all_samples \in Seq(SkewSample)
  BY Numbers, SkewAssumption, SMT DEF IInv, TypeOK, SourceTypeOK
<1>1. ASSUME Advance \/ Recalibrate PROVE IInv'
  <2>1. /\ UNCHANGED <<anchor, pc, samples, r, c, all_samples, result>>
        /\ time' \in 0 .. MaxTime /\ q' \in Scales /\ time <= time' /\ pc # "done"
    BY <1>0, <1>1, Numbers, SMT DEF Advance, Recalibrate, Over, SourceTypeOK
  <2>2. TypeOK'
    BY <1>0, <2>1 DEF TypeOK, SourceTypeOK
  <2>3. InSample'
    <3>1. r.at \in Nat /\ c.start.at \in Nat /\ c.end.at \in Nat /\ time' \in Nat
      BY <1>0, <2>1, Numbers, SMT DEF TypeOK, Reading
    <3>2. /\ r.at <= time => r.at <= time'
          /\ c.start.at <= time => c.start.at <= time'
          /\ c.end.at <= time => c.end.at <= time'
      BY <1>0, <2>1, <3>1, SMT
    <3> QED BY <1>0, <2>1, <3>2 DEF InSample, ReadingOK
  <2>4. Progress' /\ ResultOK'
    BY <1>0, <2>1 DEF Progress, ResultOK
  <2> QED BY <2>1, <2>2, <2>3, <2>4, SamplesKept DEF IInv
<1>2. CASE ReadRStart
  <2>1. /\ UNCHANGED <<time, anchor, q, samples, c, all_samples, result>>
        /\ r' = [ns |-> (time * TrueScale) \div QOne, at |-> time, scale |-> TrueScale]
        /\ pc = "r_start" /\ pc' = "c_start"
    BY <1>2 DEF ReadRStart, source, reference_clock_ns
  <2>2. (time * TrueScale) \div QOne \in Nat
    <3>1. time * TrueScale \in Nat
      BY <1>0, Numbers, SMT
    <3> QED BY <3>1, DivBounds, Numbers
  <2>3. r' \in Reading
    BY <1>0, <2>1, <2>2, Numbers DEF Reading
  <2>4. TypeOK'
    BY <1>0, <2>1, <2>3 DEF TypeOK, SourceTypeOK
  <2>5. InSample'
    BY <1>0, <2>1, SMT DEF InSample
  <2>6. Progress' /\ ResultOK'
    BY <1>0, <2>1 DEF Progress, ResultOK
  <2> QED BY <2>1, <2>4, <2>5, <2>6, SamplesKept DEF IInv
<1>3. ASSUME NEW cpu \in CPUs, ReadCStart(cpu) PROVE IInv'
  <2> DEFINE x == [ns |-> now_as_u64(cpu), at |-> time, scale |-> q]
  <2>1. /\ UNCHANGED <<time, anchor, q, samples, r, all_samples, result>>
        /\ c' = [c EXCEPT !.start = x]
        /\ pc = "c_start" /\ pc' = "sleep"
    BY <1>3 DEF ReadCStart, source
  <2>2. x \in Reading /\ ReadingOK(x) /\ x.at = time
    BY <1>0, FreshReading
  <2> HIDE DEF x
  <2>3. c' \in [start : Reading, end : Reading] /\ c'.start = x
    BY <1>0, <2>1, <2>2 DEF TypeOK
  <2>4. TypeOK'
    BY <1>0, <2>1, <2>3 DEF TypeOK, SourceTypeOK
  <2>5. InSample'
    <3>1. ReadingOK(c.start)'
      BY <2>1, <2>2, <2>3 DEF ReadingOK
    <3> QED BY <1>0, <2>1, <2>2, <2>3, <3>1, SMT DEF InSample
  <2>6. Progress' /\ ResultOK'
    BY <1>0, <2>1 DEF Progress, ResultOK
  <2> QED BY <2>1, <2>4, <2>5, <2>6, SamplesKept DEF IInv
<1>4. ASSUME NEW cpu \in CPUs, ReadCEnd(cpu) PROVE IInv'
  <2> DEFINE x == [ns |-> now_as_u64(cpu), at |-> time, scale |-> q]
  <2>1. /\ UNCHANGED <<time, anchor, q, samples, r, all_samples, result>>
        /\ c' = [c EXCEPT !.end = x]
        /\ pc = "sleep" /\ pc' = "r_end"
    BY <1>4 DEF ReadCEnd, source
  <2>2. x \in Reading /\ ReadingOK(x) /\ x.at = time
    BY <1>0, FreshReading
  <2> HIDE DEF x
  <2>3. c' \in [start : Reading, end : Reading] /\ c'.end = x /\ c'.start = c.start
    BY <1>0, <2>1, <2>2 DEF TypeOK
  <2>4. TypeOK'
    BY <1>0, <2>1, <2>3 DEF TypeOK, SourceTypeOK
  <2>5. InSample'
    <3>1. ReadingOK(c.end)' /\ ReadingOK(c.start)'
      BY <1>0, <2>1, <2>2, <2>3 DEF ReadingOK, InSample
    <3> QED BY <1>0, <2>1, <2>2, <2>3, <3>1, SMT DEF InSample
  <2>6. Progress' /\ ResultOK'
    BY <1>0, <2>1 DEF Progress, ResultOK
  <2> QED BY <2>1, <2>4, <2>5, <2>6, SamplesKept DEF IInv
<1>5. CASE ReadREnd
  <2> DEFINE n == Len(all_samples)
  <2>1. /\ UNCHANGED <<time, anchor, q, samples, result>>
        /\ all_samples' = Append(all_samples, sample)
        /\ pc = "r_end" /\ pc' = (IF Len(all_samples') = samples THEN "sort" ELSE "r_start")
        /\ r' = Unread /\ c' = [start |-> Unread, end |-> Unread]
    BY <1>5 DEF ReadREnd, source
  <2>2. /\ sample \in SkewSample /\ Explained(sample)
        /\ sample.skew_ns = sample.c_elapsed_ns - sample.ref_elapsed_ns
    BY <1>0, <2>1, NewSample
  <2> DEFINE w == sample
  <2>3. w \in SkewSample /\ all_samples' = Append(all_samples, w)
    BY <2>1, <2>2
  <2>4. Explained(w) /\ w.skew_ns = w.c_elapsed_ns - w.ref_elapsed_ns
    BY <2>2
  <2> HIDE DEF w
  <2>5. /\ all_samples' \in Seq(SkewSample) /\ Len(all_samples') = n + 1
        /\ all_samples'[n + 1] = w
        /\ \A i \in 1 .. n : all_samples'[i] = all_samples[i]
    BY <1>0, <2>3, SMT
  <2>6. n < samples
    BY <1>0, <2>1 DEF Progress
  <2>7. Unread \in Reading
    BY SMT DEF Unread, Reading
  <2>8. TypeOK'
    <3>1. Len(all_samples') <= samples
      BY <1>0, <2>5, <2>6, SMT
    <3> QED BY <1>0, <2>1, <2>5, <2>7, <3>1 DEF TypeOK, SourceTypeOK
  <2>9. InSample' /\ ResultOK'
    BY <2>1 DEF InSample, ResultOK
  <2>10. Progress'
    BY <1>0, <2>1, <2>5, <2>6, SMT DEF Progress
  <2>11. ASSUME NEW i \in Samples'
         PROVE  /\ Explained(all_samples'[i])
                /\ all_samples'[i].skew_ns
                     = all_samples'[i].c_elapsed_ns - all_samples'[i].ref_elapsed_ns
    <3>1. i = n + 1 \/ i \in 1 .. n
      BY <1>0, <2>5, SMT DEF Samples
    <3>2. CASE i = n + 1
      BY <2>4, <2>5, <3>2
    <3>3. CASE i \in 1 .. n
      <4>1. i \in Samples /\ all_samples'[i] = all_samples[i]
        BY <2>5, <3>3 DEF Samples
      <4> QED BY <1>0, <4>1 DEF SkewExplained, DifferenceOK
    <3> QED BY <3>1, <3>2, <3>3
  <2>12. SkewExplained'
    BY <2>11 DEF SkewExplained, Explained, Ideal
  <2>13. DifferenceOK'
    BY <2>11 DEF DifferenceOK
  <2> QED BY <2>8, <2>9, <2>10, <2>12, <2>13 DEF IInv
<1>6. CASE Report
  <2>1. UNCHANGED <<time, anchor, q, samples, r, c, all_samples>> /\ pc = "sort"
    BY <1>6 DEF Report, source
  <2>2. CASE all_samples = << >> /\ pc' = "panicked"
    <3>1. samples = 0
      BY <1>0, <2>1, <2>2, SMT DEF Progress
    <3>2. TypeOK' /\ InSample' /\ Progress' /\ ResultOK'
      BY <1>0, <2>1, <2>2, <3>1 DEF TypeOK, SourceTypeOK, InSample, Progress, ResultOK
    <3> QED BY <2>1, <3>2, SamplesKept DEF IInv
  <2>3. CASE \E m, lo, hi \in Samples :
               /\ IsMedian(all_samples[m].skew_ns)
               /\ result' = [median_skew_ns |-> all_samples[m].skew_ns,
                             min_skew_ns    |-> all_samples[lo].skew_ns,
                             max_skew_ns    |-> all_samples[hi].skew_ns,
                             median_sample  |-> (Len(all_samples) \div 2) + 1]
               /\ pc' = "done"
    <3>1. PICK m \in Samples : /\ IsMedian(all_samples[m].skew_ns)
                               /\ result'.median_skew_ns = all_samples[m].skew_ns
                               /\ pc' = "done"
      BY <2>3
    <3>2. TypeOK' /\ InSample'
      BY <1>0, <2>1, <3>1 DEF TypeOK, SourceTypeOK, InSample
    <3>3. Progress'
      BY <1>0, <2>1, <3>1 DEF Progress
    <3>4. ResultOK'
      BY <2>1, <3>1 DEF ResultOK, IsMedian, Samples
    <3> QED BY <2>1, <3>2, <3>3, <3>4, SamplesKept DEF IInv
  <2> QED BY <1>6, <2>2, <2>3 DEF Report
<1>7. CASE UNCHANGED vars
  <2>1. UNCHANGED <<time, anchor, q, pc, samples, r, c, all_samples, result>>
    BY <1>7 DEF vars, source
  <2>2. TypeOK' /\ InSample'
    BY <1>0, <2>1 DEF TypeOK, SourceTypeOK, InSample, ReadingOK
  <2>3. Progress' /\ ResultOK'
    BY <1>0, <2>1 DEF Progress, ResultOK, IsMedian, Samples
  <2> QED BY <2>1, <2>2, <2>3, SamplesKept DEF IInv
<1> QED BY <1>1, <1>2, <1>3, <1>4, <1>5, <1>6, <1>7 DEF Next, Program

\* The inductive invariant holds throughout every behaviour.
LEMMA Invariance == Spec => []IInv
BY InitInv, NextInv, PTL DEF Spec

----------------------------------------------------------------------------
(* The median *)

\* The error of a scale over a sleep that is not too long.
LEMMA ErrorOverSleep ==
  ASSUME NEW slept \in Nat, NEW most \in Nat, NEW d \in Int,
         slept <= most, d <= MaxErr, -d <= MaxErr
  PROVE  slept * d <= most * MaxErr /\ -(slept * d) <= most * MaxErr
<1>1. slept * MaxErr <= most * MaxErr /\ slept * MaxErr \in Nat /\ most * MaxErr \in Nat
  BY Numbers, MulMono, SMT
<1>2. CASE d >= 0
  <2>1. d \in Nat /\ d * slept <= MaxErr * slept
    BY <1>2, Numbers, MulMono, SMT
  <2>2. slept * d = d * slept /\ slept * MaxErr = MaxErr * slept /\ slept * d \in Nat
    BY <2>1, Numbers, SMT
  <2> QED BY <1>1, <2>1, <2>2, SMT
<1>3. CASE d < 0
  <2> DEFINE e == -d
  <2>1. e \in Nat /\ e <= MaxErr /\ d = -e
    BY <1>3, Numbers, SMT
  <2> HIDE DEF e
  <2>2. e * slept <= MaxErr * slept
    BY <2>1, Numbers, MulMono, SMT
  <2>3. slept * d = -(e * slept) /\ slept * MaxErr = MaxErr * slept /\ e * slept \in Nat
    BY <2>1, Numbers, SMT
  <2> QED BY <1>1, <2>2, <2>3, SMT
<1> QED BY <1>2, <1>3, SMT

\* The skew of a quiet sample is small, in either direction.
LEMMA QuietSkew ==
  ASSUME NEW s \in SkewSample, Quiet(s), Explained(s),
         s.skew_ns = s.c_elapsed_ns - s.ref_elapsed_ns
  PROVE  s.skew_ns * QOne < QuietBound /\ -QuietBound < s.skew_ns * QOne
<1> DEFINE sl == s.slept
           g  == s.gap
           d  == s.to - TrueScale
           S  == TrueScale
           E  == (Interval + QuietGap) * MaxErr
           G  == QuietGap * S
           B  == QuietBound
           v  == s.skew_ns
           D  == sl * d
           g0 == g * S
           K  == Slack
           P  == v * QOne
<1>1. /\ sl \in Nat /\ g \in Nat /\ s.to \in Scales /\ s.from = s.to /\ v \in Int /\ s.age \in Nat
      /\ g <= QuietGap /\ sl <= Interval + QuietGap /\ s.c_elapsed_ns \in Nat /\ s.ref_elapsed_ns \in Nat
  BY DEF SkewSample, Quiet
<1>2. s.to \in Nat /\ d \in Int /\ d <= MaxErr /\ -d <= MaxErr
  BY <1>1, Numbers, SMT
<1>3. Interval + QuietGap \in Nat
  BY Numbers, SMT
<1>4. D <= E /\ -D <= E
  <2> HIDE DEF d, sl
  <2> QED BY <1>1, <1>2, <1>3, ErrorOverSleep DEF sl
<1>5. g0 <= G /\ g0 \in Nat /\ G \in Nat
  BY <1>1, Numbers, MulMono, SMT
<1>6. D \in Int /\ E \in Nat /\ P \in Int
  BY <1>1, <1>2, <1>3, Numbers, SMT
<1>7. K \in Nat /\ K > 0
  <2>1. MaxSkew * MaxScale \in Nat
    BY Numbers, SMT
  <2> QED BY <2>1, Numbers, SMT DEF Slack
<1>8. s.age * (s.to - s.from) = 0
  BY <1>1, <1>2, SMT
<1>9. Ideal(s) = D - g0
  <2>1. Ideal(s) = D - g0 + s.age * (s.to - s.from)
    BY DEF Ideal
  <2> HIDE DEF D, g0
  <2> QED BY <1>5, <1>6, <1>8, <2>1, SMT
<1>10. P > (D - g0) - K /\ (s.c_elapsed_ns > 0 => P < (D - g0) + K)
  BY <1>9 DEF Explained
<1>11. s.c_elapsed_ns = 0 => P <= 0
  <2> SUFFICES ASSUME s.c_elapsed_ns = 0 PROVE P <= 0
    OBVIOUS
  <2>1. v = -s.ref_elapsed_ns
    BY <1>1, SMT
  <2> DEFINE e == s.ref_elapsed_ns
  <2>2. e \in Nat /\ v = -e
    BY <1>1, <2>1
  <2> HIDE DEF e, v
  <2> QED BY <2>2, Numbers, SMT
<1>12. B = E + G + K
  BY DEF QuietBound
<1> HIDE DEF D, g0, E, G, K, P, B
<1>13. P < B /\ -B < P
  BY <1>1, <1>4, <1>5, <1>6, <1>7, <1>10, <1>11, <1>12, SMT
<1> QED BY <1>13 DEF P, B

\* A set of at least half of the samples contains a quiet one, if fewer than
\* half of them are not.
LEMMA QuietMember ==
  ASSUME all_samples \in Seq(SkewSample),
         NEW M \in SUBSET Samples, NEW Bad \in SUBSET Samples,
         2 * Cardinality(Bad) < Len(all_samples),
         Len(all_samples) <= 2 * Cardinality(M)
  PROVE  \E i \in M : i \notin Bad
<1> SUFFICES ASSUME M \subseteq Bad PROVE FALSE
  OBVIOUS
<1>1. Len(all_samples) \in Nat
  BY SMT
<1>2. IsFiniteSet(Samples)
  BY <1>1, FS_Interval, SMT DEF Samples
<1>3. IsFiniteSet(Bad) /\ Cardinality(Bad) \in Nat
  BY <1>2, FS_Subset, FS_CardinalityType
<1>4. Cardinality(M) <= Cardinality(Bad)
  BY <1>3, FS_Subset
<1>5. Cardinality(M) \in Nat
  BY <1>2, FS_Subset, FS_CardinalityType
<1> QED BY <1>1, <1>3, <1>4, <1>5, SMT

\* The rank of the median pins it between the skews of two quiet samples.
LEMMA MedianPinned == IInv => MedianRobust
<1> DEFINE n == Len(all_samples)
           v == result.median_skew_ns
           Bad == {i \in Samples : ~Quiet(all_samples[i])}
           Low == {i \in Samples : all_samples[i].skew_ns <= v}
           Below == {i \in Samples : all_samples[i].skew_ns < v}
           High == Samples \ Below
<1> SUFFICES ASSUME IInv, pc = "done", 2 * Cardinality(Bad) < n
             PROVE  v * QOne < QuietBound /\ -QuietBound < v * QOne
  BY DEF MedianRobust
<1>1. /\ all_samples \in Seq(SkewSample) /\ n \in Nat
      /\ Cardinality(Below) <= n \div 2 /\ n \div 2 < Cardinality(Low)
      /\ \A i \in Samples : all_samples[i] \in SkewSample
  BY SMT DEF IInv, TypeOK, ResultOK, IsMedian, Samples
<1>2. \A i \in Samples : all_samples[i].skew_ns \in Int
  BY <1>1 DEF SkewSample
<1>3. v \in Int
  BY <1>2 DEF IInv, ResultOK
<1>4. ASSUME NEW i \in Samples, i \notin Bad
      PROVE  all_samples[i].skew_ns * QOne < QuietBound /\ -QuietBound < all_samples[i].skew_ns * QOne
  <2> DEFINE s == all_samples[i]
  <2>1. s \in SkewSample /\ Quiet(s) /\ Explained(s) /\ s.skew_ns = s.c_elapsed_ns - s.ref_elapsed_ns
    BY <1>1, <1>4 DEF IInv, SkewExplained, DifferenceOK
  <2> HIDE DEF s
  <2>2. s.skew_ns * QOne < QuietBound /\ -QuietBound < s.skew_ns * QOne
    BY <2>1, QuietSkew
  <2> QED BY <2>2 DEF s
<1>5. IsFiniteSet(Samples) /\ Cardinality(Samples) = n
  <2>1. IsFiniteSet(1 .. n) /\ Cardinality(1 .. n) = IF 1 > n THEN 0 ELSE n - 1 + 1
    <3>1. 1 \in Int /\ n \in Int
      BY <1>1, SMT
    <3> HIDE DEF n
    <3> QED BY <3>1, FS_Interval
  <2> QED BY <1>1, <2>1, SMT DEF Samples
<1>6. Cardinality(Below) \in Nat /\ Cardinality(Low) \in Nat
  BY <1>5, FS_Subset, FS_CardinalityType
<1>7. n <= 2 * Cardinality(High)
  <2>1. Samples \cap Below = Below
    OBVIOUS
  <2>2. Cardinality(High) = n - Cardinality(Below)
    <3>1. Cardinality(High) = Cardinality(Samples) - Cardinality(Samples \cap Below)
      BY <1>5, FS_Difference
    <3> QED BY <1>5, <2>1, <3>1
  <2> DEFINE b == Cardinality(Below)
  <2> HIDE DEF Below, High, n, b
  <2>3. b \in Nat /\ b <= n \div 2 /\ Cardinality(High) = n - b
    BY <1>1, <1>6, <2>2 DEF b
  <2> QED BY <1>1, <2>3, SMT
<1>8. n <= 2 * Cardinality(Low)
  <2> DEFINE l == Cardinality(Low)
  <2>1. l \in Nat /\ n \div 2 < l
    BY <1>1, <1>6
  <2> HIDE DEF l, n, Low
  <2>2. n <= 2 * l
    BY <1>1, <2>1, SMT
  <2> QED BY <2>2 DEF l
<1>9. PICK i \in Low : i \notin Bad
  BY <1>1, <1>8, QuietMember
<1>10. PICK j \in High : j \notin Bad
  BY <1>1, <1>7, QuietMember
<1> DEFINE a == all_samples[i].skew_ns
           b == all_samples[j].skew_ns
           B == QuietBound
<1>11. a \in Int /\ b \in Int /\ a <= v /\ v <= b
  BY <1>2, <1>3, <1>9, <1>10, SMT
<1>12. b * QOne < B /\ -B < a * QOne
  BY <1>4, <1>9, <1>10
<1>13. B \in Int
  <2>1. \A x, y \in Nat : x * y \in Nat /\ x + y \in Nat
    BY SMT
  <2>2. 2 \in Nat /\ QOne \in Nat
    BY Numbers, SMT
  <2>3. B \in Nat
    BY <2>1, <2>2, Numbers DEF QuietBound, Slack
  <2> QED BY <2>3, SMT
<1> HIDE DEF a, b, v, B
<1>14. a * QOne <= v * QOne /\ v * QOne <= b * QOne
  BY <1>3, <1>11, Numbers, SMT
<1>15. a * QOne \in Int /\ b * QOne \in Int /\ v * QOne \in Int
  BY <1>3, <1>11, Numbers, SMT
<1>16. v * QOne < B /\ -B < v * QOne
  BY <1>12, <1>13, <1>14, <1>15, SMT
<1> QED BY <1>16 DEF v, B

----------------------------------------------------------------------------
(* The theorems *)

\* Every variable of the measurement has its type throughout, and no more
\* samples are taken than asked for.
THEOREM TypeCorrect == Spec => []TypeOK
<1>1. IInv => TypeOK
  BY DEF IInv
<1> QED BY <1>1, Invariance, PTL

\* Every sample's skew is the error of the scale over the sleep, less the
\* delays beside it, plus the effect of a recalibration on the age of the
\* anchor, up to skew between CPUs and two nanoseconds.
THEOREM SamplesExplained == Spec => []SkewExplained
<1>1. IInv => SkewExplained
  BY DEF IInv
<1> QED BY <1>1, Invariance, PTL

\* A minority of disturbed samples, however wrong, does not move the median
\* out of what a quiet sample may show.
THEOREM MedianIsRobust == Spec => []MedianRobust
BY MedianPinned, Invariance, PTL

\* A report is made of all the samples asked for, and only a measurement of
\* none panics.
THEOREM AllSamplesReported == Spec => []ReportsAllSamples
<1>1. IInv => ReportsAllSamples
  <2> SUFFICES ASSUME IInv PROVE ReportsAllSamples
    OBVIOUS
  <2>1. Progress /\ ResultOK /\ samples \in Nat
    BY SkewAssumption DEF IInv, TypeOK
  <2>2. ASSUME pc = "done" PROVE samples > 0
    <3>1. PICK i \in Samples : TRUE
      BY <2>1, <2>2 DEF ResultOK
    <3>2. Len(all_samples) = samples
      BY <2>1, <2>2 DEF Progress
    <3> QED BY <2>1, <3>1, <3>2, SMT DEF Samples
  <2> QED BY <2>1, <2>2 DEF Progress, ReportsAllSamples
<1> QED BY <1>1, Invariance, PTL
=============================================================================
