----------------------------- MODULE Q32Proofs -----------------------------
(***************************************************************************)
(* Facts about the fixed-point conversions, for every width and scale.     *)
(***************************************************************************)
EXTENDS Q32, TLAPS, WellFoundedInduction

\* A nonempty set of natural numbers has a least element.
LEMMA LeastElement ==
  ASSUME NEW S \in SUBSET Nat, S # {}
  PROVE  \E n \in S : \A m \in S : n <= m
<1>1. PICK n \in S : \A m \in S : ~ (<<m, n>> \in OpToRel(<, Nat))
  BY WFMin, NatLessThanWellFounded
<1>2. \A m \in S : ~ (m < n)
  BY <1>1 DEF OpToRel
<1> QED BY <1>2, SMT

\* The defining inequalities of truncating division.
LEMMA DivBounds ==
  ASSUME NEW a \in Nat, NEW b \in Nat \ {0}
  PROVE  /\ a \div b \in Nat
         /\ (a \div b) * b <= a
         /\ a < (a \div b) * b + b
BY SMT

\* Quotient and remainder make up the dividend.
LEMMA ModBounds ==
  ASSUME NEW a \in Nat, NEW b \in Nat \ {0}
  PROVE  /\ a % b \in 0 .. (b - 1)
         /\ a = (a \div b) * b + (a % b)
BY SMT

\* Multiplication by a natural number is monotone.
LEMMA MulMono ==
  ASSUME NEW x \in Nat, NEW y \in Nat, NEW z \in Nat, x <= y
  PROVE  x * z <= y * z
BY SMT

\* A common positive factor can be cancelled.
LEMMA MulStrict ==
  ASSUME NEW x \in Nat, NEW y \in Nat, NEW z \in Nat \ {0}, x * z < y * z
  PROVE  x < y
BY SMT

\* A quotient is below k when the dividend is below k times the divisor.
LEMMA DivLess ==
  ASSUME NEW a \in Nat, NEW b \in Nat \ {0}, NEW k \in Nat, a < k * b
  PROVE  a \div b < k
BY DivBounds, MulStrict, SMT

\* Division is monotone in the dividend.
LEMMA DivMono ==
  ASSUME NEW a \in Nat, NEW c \in Nat, NEW b \in Nat \ {0}, a <= c
  PROVE  a \div b <= c \div b
BY DivBounds, SMT

----------------------------------------------------------------------------
(* Durations *)

\* Duration::as_nanos returns a natural number.
LEMMA AsNanosType ==
  ASSUME NEW d \in Duration
  PROVE  as_nanos(d) \in Nat
BY WidthAssumption, SMT DEF Duration, as_nanos, Word

\* Duration::from_nanos is the inverse of as_nanos on u64.
LEMMA FromNanos ==
  ASSUME NEW n \in Word
  PROVE  /\ from_nanos(n) \in Duration
         /\ as_nanos(from_nanos(n)) = n
<1> DEFINE s == n \div NanosPerSecond
           r == n % NanosPerSecond
<1>1. n \in Nat /\ n < WordMod /\ NanosPerSecond \in Nat \ {0}
  BY WidthAssumption DEF Word
<1>2. s \in Nat /\ s * NanosPerSecond <= n
  BY <1>1, DivBounds
<1>3. r \in 0 .. (NanosPerSecond - 1) /\ n = s * NanosPerSecond + r
  BY <1>1, ModBounds
<1>4. s <= s * NanosPerSecond
  <2> HIDE DEF s
  <2> QED BY <1>1, <1>2, SMT
<1>5. s \in Word
  <2> HIDE DEF s
  <2> QED BY <1>1, <1>2, <1>4, WidthAssumption, SMT DEF Word
<1> HIDE DEF s, r
<1> QED BY <1>3, <1>5, SMT DEF Duration, from_nanos, as_nanos, s, r

\* unwrap_or(u64::MAX) yields a u64, never more than the value itself.
LEMMA SaturateType ==
  ASSUME NEW x \in Nat
  PROVE  saturate(x) \in Word /\ saturate(x) <= x
BY WidthAssumption, SMT DEF saturate, Word

\* Saturation is monotone.
LEMMA SaturateMono ==
  ASSUME NEW x \in Nat, NEW y \in Nat, x <= y
  PROVE  saturate(x) <= saturate(y)
BY WidthAssumption, SMT DEF saturate

\* What ticks_to_duration returns: the product shifted right, saturated, as
\* a duration. The branch that skips Duration::from_nanos's division
\* (instant.rs:347) makes no difference.
THEOREM TicksToDuration ==
  ASSUME NEW t \in Word, NEW q \in Word
  PROVE  /\ ticks_to_duration(t, q) \in Duration
         /\ as_nanos(ticks_to_duration(t, q)) = saturate((t * q) \div QOne)
<1> DEFINE n == saturate((t * q) \div QOne)
<1>1. t * q \in Nat
  BY WidthAssumption, SMT DEF Word
<1>2. (t * q) \div QOne \in Nat
  BY <1>1, DivBounds, WidthAssumption
<1>3. n \in Word
  BY <1>2, SaturateType
<1>4. ticks_to_duration(t, q) = IF n < NanosPerSecond THEN [secs |-> 0, nanos |-> n]
                                                      ELSE from_nanos(n)
  BY DEF ticks_to_duration
<1> HIDE DEF n
<1>5. CASE n < NanosPerSecond
  BY <1>3, <1>4, <1>5, WidthAssumption, SMT DEF Duration, as_nanos, Word, n
<1>6. CASE ~(n < NanosPerSecond)
  BY <1>3, <1>4, <1>6, FromNanos DEF n
<1> QED BY <1>5, <1>6

----------------------------------------------------------------------------
(* The scale *)

\* Deriving the scale from a nonzero frequency never takes the u64::MAX
\* fallback of mod.rs:36 and mod.rs:159: 10^9 << 32 fits a u64.
THEOREM ScaleNeverSaturates ==
  ASSUME NEW freq \in Nat \ {0}
  PROVE  /\ scale_of(freq) = NANOS_PER_SECOND_Q32 \div freq
         /\ scale_of(freq) \in Word
<1> DEFINE s == NANOS_PER_SECOND_Q32 \div freq
<1>1. NANOS_PER_SECOND_Q32 \in Nat /\ NANOS_PER_SECOND_Q32 < WordMod
  BY WidthAssumption, SMT DEF NANOS_PER_SECOND_Q32
<1>2. s \in Nat /\ s * freq <= NANOS_PER_SECOND_Q32
  BY <1>1, DivBounds
<1> HIDE DEF s
<1>3. s <= s * freq
  BY <1>2, SMT
<1>4. s < WordMod
  BY <1>1, <1>2, <1>3, WidthAssumption, SMT
<1>5. saturate(s) = s /\ s \in Word
  BY <1>2, <1>4, WidthAssumption, SMT DEF saturate, Word
<1> QED BY <1>5 DEF scale_of, s

\* The scale of a frequency up to 10^9 << 32 Hz is not 0, the value that
\* marks the cache as empty.
THEOREM ScaleIsNotTheSentinel ==
  ASSUME NEW freq \in 1 .. NANOS_PER_SECOND_Q32
  PROVE  scale_of(freq) \in Word \ {0}
<1> DEFINE s == NANOS_PER_SECOND_Q32 \div freq
<1>1. NANOS_PER_SECOND_Q32 \in Nat
  BY WidthAssumption, SMT DEF NANOS_PER_SECOND_Q32
<1>2. freq \in Nat \ {0} /\ freq <= NANOS_PER_SECOND_Q32
  BY <1>1, SMT
<1>3. s \in Nat /\ NANOS_PER_SECOND_Q32 < s * freq + freq
  BY <1>1, <1>2, DivBounds
<1> HIDE DEF s
<1>4. s # 0
  BY <1>1, <1>2, <1>3, SMT
<1> QED BY <1>2, <1>4, ScaleNeverSaturates DEF s

\* The frequency tach_freq_hz reports for the scale of f Hz is f or more, by
\* less than one part in the scale: what is lost in the division that derived
\* the scale.
THEOREM ReportedFrequency ==
  ASSUME NEW f \in 1 .. NANOS_PER_SECOND_Q32
  PROVE  LET s == scale_of(f)
         IN  /\ f <= tach_freq_hz(s)
             /\ (tach_freq_hz(s) - f) * s < f
<1> DEFINE N == NANOS_PER_SECOND_Q32
           s == N \div f
           hz == N \div s
<1>1. N \in Nat /\ N < WordMod /\ WordMod \in Nat /\ f \in Nat \ {0} /\ f <= N
  BY WidthAssumption, SMT DEF NANOS_PER_SECOND_Q32
<1>2. s \in Nat /\ s * f <= N /\ N < s * f + f
  BY <1>1, DivBounds
<1>3. scale_of(f) = s /\ s # 0
  BY ScaleNeverSaturates, ScaleIsNotTheSentinel, <1>1 DEF scale_of
<1> HIDE DEF N, s
<1>4. hz \in Nat /\ hz * s <= N /\ N < hz * s + s
  BY <1>1, <1>2, <1>3, DivBounds
<1> HIDE DEF hz
<1>5. s * f \in Nat /\ hz * s \in Nat
  BY <1>1, <1>2, <1>4, SMT
<1>6. f <= hz
  <2> SUFFICES ASSUME hz < f PROVE FALSE
    BY <1>1, <1>4, SMT
  <2>1. (hz + 1) * s <= f * s
    BY <1>1, <1>2, <1>4, MulMono, SMT
  <2>2. (hz + 1) * s = hz * s + s /\ f * s = s * f
    BY <1>1, <1>2, <1>4, SMT
  <2> QED BY <1>1, <1>2, <1>4, <1>5, <2>1, <2>2, SMT
<1>7. hz < WordMod
  <2>1. hz * 1 <= hz * s
    BY <1>2, <1>3, <1>4, SMT
  <2> QED BY <1>1, <1>4, <1>5, <2>1, SMT
<1>8. tach_freq_hz(s) = hz
  BY <1>1, <1>3, <1>4, <1>7, SMT DEF tach_freq_hz, hz, N
<1>9. (hz - f) * s = hz * s - s * f
  BY <1>1, <1>2, <1>4, SMT
<1>10. (hz - f) * s < f
  BY <1>1, <1>2, <1>4, <1>5, <1>9, SMT
<1> QED BY <1>3, <1>6, <1>8, <1>10

----------------------------------------------------------------------------
(* The round trip *)

\* instant.rs:363: checked_shl(32) loses no bit of any Duration, so its
\* missing overflow check does not matter.
THEOREM ShiftLosesNothing ==
  ASSUME NEW d \in Duration
  PROVE  (as_nanos(d) * QOne) % WideMod = as_nanos(d) * QOne
<1> DEFINE n == as_nanos(d)
<1>1. n \in Nat
  BY AsNanosType
<1>2. n < WordMod * NanosPerSecond
  <2>1. d.secs \in Nat /\ d.secs + 1 <= WordMod /\ d.nanos \in Nat /\ d.nanos < NanosPerSecond
    BY WidthAssumption, SMT DEF Duration, Word
  <2>2. (d.secs + 1) * NanosPerSecond <= WordMod * NanosPerSecond
    BY <2>1, MulMono, WidthAssumption
  <2> QED BY <2>1, <2>2, WidthAssumption, SMT DEF as_nanos
<1> HIDE DEF n
<1>3. n * QOne <= (WordMod * NanosPerSecond) * QOne
  <2>1. WordMod * NanosPerSecond \in Nat
    BY WidthAssumption, SMT
  <2> QED BY <1>1, <1>2, <2>1, MulMono, WidthAssumption, SMT
<1>4. (WordMod * NanosPerSecond) * QOne = (NanosPerSecond * QOne) * WordMod
  BY WidthAssumption, SMT
<1>5. (NanosPerSecond * QOne) * WordMod < WideMod
  BY WidthAssumption, SMT DEF WideMod
<1>6. n * QOne \in Nat /\ WideMod \in Nat /\ n * QOne < WideMod
  BY <1>1, <1>3, <1>4, <1>5, WidthAssumption, SMT DEF WideMod
<1>7. ASSUME NEW x \in Nat, NEW y \in Nat, x < y PROVE x % y = x
  BY <1>7, SMT
<1> QED BY <1>6, <1>7 DEF n

\* What duration_to_ticks returns: the largest tick count that does not
\* exceed the duration, or None when it is no u64.
LEMMA DurationToTicks ==
  ASSUME NEW d \in Duration, NEW q \in Word \ {0}
  PROVE  LET t == (as_nanos(d) * QOne) \div q
         IN  /\ t \in Nat
             /\ t * q <= as_nanos(d) * QOne
             /\ as_nanos(d) * QOne < t * q + q
             /\ duration_to_ticks(d, q) = IF t < WordMod THEN t ELSE None
<1>1. as_nanos(d) * QOne \in Nat
  BY AsNanosType, WidthAssumption, SMT
<1>2. q \in Nat \ {0}
  BY WidthAssumption, SMT DEF Word
<1>3. duration_to_ticks(d, q) = LET t == (as_nanos(d) * QOne) \div q
                                IN  IF t < WordMod THEN t ELSE None
  BY <1>2, ShiftLosesNothing DEF duration_to_ticks
<1> QED BY <1>1, <1>2, <1>3, DivBounds

\* Converting a duration to ticks and back (checked_add then duration_since
\* at one scale) never gains time and loses less than one tick and one
\* nanosecond.
THEOREM RoundTrip ==
  ASSUME NEW d \in Duration, NEW q \in Word \ {0},
         as_nanos(d) < WordMod,
         duration_to_ticks(d, q) # None
  PROVE  LET n == as_nanos(d)
             b == as_nanos(ticks_to_duration(duration_to_ticks(d, q), q))
         IN  /\ b <= n
             /\ (n - b - 1) * QOne < q
<1> DEFINE n == as_nanos(d)
           t == (n * QOne) \div q
           p == t * q
           m == p \div QOne
<1>1. n \in Nat /\ n < WordMod
  BY AsNanosType
<1>2. /\ t \in Nat /\ p <= n * QOne /\ n * QOne < p + q
      /\ duration_to_ticks(d, q) = t /\ t < WordMod
  BY DurationToTicks
<1>3. t \in Word /\ q \in Nat
  BY <1>2, WidthAssumption, SMT DEF Word
<1> HIDE DEF n, t
<1>4. p \in Nat
  BY <1>2, <1>3, SMT
<1> HIDE DEF p
<1>5. m \in Nat /\ m * QOne <= p /\ p < m * QOne + QOne
  BY <1>4, DivBounds, WidthAssumption
<1> HIDE DEF m
<1>6. m <= n
  BY <1>1, <1>2, <1>4, <1>5, WidthAssumption, SMT
<1>7. as_nanos(ticks_to_duration(t, q)) = m
  <2>1. as_nanos(ticks_to_duration(t, q)) = saturate(m)
    BY <1>3, TicksToDuration DEF m, p
  <2>2. saturate(m) = m
    BY <1>1, <1>5, <1>6, WidthAssumption, SMT DEF saturate
  <2> QED BY <2>1, <2>2
<1>8. (n - m - 1) * QOne < q
  BY <1>1, <1>2, <1>3, <1>4, <1>5, WidthAssumption, SMT
<1> QED BY <1>2, <1>6, <1>7, <1>8 DEF n

\* At one scale a longer tick interval never converts to a shorter duration.
THEOREM ConversionMonotone ==
  ASSUME NEW s \in Word, NEW t \in Word, NEW q \in Word, s <= t
  PROVE  as_nanos(ticks_to_duration(s, q)) <= as_nanos(ticks_to_duration(t, q))
<1>1. s \in Nat /\ t \in Nat /\ q \in Nat
  BY WidthAssumption, SMT DEF Word
<1>2. s * q \in Nat /\ t * q \in Nat /\ s * q <= t * q
  BY <1>1, SMT
<1>3. /\ (s * q) \div QOne \in Nat /\ (t * q) \div QOne \in Nat
      /\ (s * q) \div QOne <= (t * q) \div QOne
  BY <1>2, DivMono, DivBounds, WidthAssumption
<1> QED BY <1>3, SaturateMono, TicksToDuration
----------------------------------------------------------------------------
(* Counter values *)

\* The word size is positive.
LEMMA WordModPos == WordMod \in Nat \ {0}
BY WidthAssumption, SMT

\* A counter read is a u64.
LEMMA CounterType ==
  ASSUME NEW n \in Nat
  PROVE  n % WordMod \in Word
BY WordModPos, ModBounds DEF Word

\* A value below the word size is its own remainder.
LEMMA ModSmall ==
  ASSUME NEW n \in Nat, n < WordMod
  PROVE  n % WordMod = n
BY WordModPos, SMT

\* wrapping_sub undoes one wrap: of two counter values it returns the true
\* distance whenever that fits a word.
LEMMA WrappingDistance ==
  ASSUME NEW a \in Nat, NEW b \in Nat, b <= a, a - b < WordMod
  PROVE  wrapping_sub((a % WordMod), (b % WordMod)) = a - b
<1> DEFINE qa == a \div WordMod
           ra == a % WordMod
           qb == b \div WordMod
           rb == b % WordMod
           W  == WordMod
<1>1. W \in Nat \ {0}
  BY WordModPos
<1>2. /\ qa \in Nat /\ ra \in Nat /\ ra < W /\ a = qa * W + ra
      /\ qb \in Nat /\ rb \in Nat /\ rb < W /\ b = qb * W + rb
  <2>1. qa \in Nat /\ qb \in Nat
    BY <1>1, DivBounds
  <2>2. ra \in 0 .. (W - 1) /\ rb \in 0 .. (W - 1) /\ a = qa * W + ra /\ b = qb * W + rb
    BY <1>1, ModBounds
  <2> HIDE DEF qa, qb, ra, rb
  <2> QED BY <1>1, <2>1, <2>2, SMT
<1>3. wrapping_sub(ra, rb) = (ra - rb + W) % W
  BY DEF wrapping_sub
<1> HIDE DEF qa, ra, qb, rb, W
<1>4. ~(qa < qb)
  <2> SUFFICES ASSUME qa < qb PROVE FALSE
    OBVIOUS
  <2>1. (qa + 1) * W <= qb * W
    BY <1>1, <1>2, MulMono, SMT
  <2> QED BY <1>1, <1>2, <2>1, SMT
<1>5. ~(qa > qb + 1)
  <2> SUFFICES ASSUME qa > qb + 1 PROVE FALSE
    OBVIOUS
  <2>1. (qb + 2) * W <= qa * W
    BY <1>1, <1>2, MulMono, SMT
  <2> QED BY <1>1, <1>2, <2>1, SMT DEF W
<1>6. CASE qa = qb
  <2>1. ra - rb = a - b /\ a - b \in Nat
    BY <1>1, <1>2, <1>6, SMT
  <2>2. ASSUME NEW k \in Nat, k < W PROVE (k + W) % W = k
    BY <1>1, <2>2, SMT
  <2> QED BY <1>3, <2>1, <2>2 DEF W, ra, rb
<1>7. CASE qa = qb + 1
  <2>1. ra - rb + W = a - b /\ a - b \in Nat
    BY <1>1, <1>2, <1>7, SMT
  <2> QED BY <1>3, <2>1, ModSmall DEF W, ra, rb
<1> QED BY <1>2, <1>4, <1>5, <1>6, <1>7, SMT

\* Whole words added to a u64 do not change its remainder.
LEMMA ModOfSum ==
  ASSUME NEW q \in Nat, NEW r \in Word
  PROVE  q * WordMod + r \in Nat /\ (q * WordMod + r) % WordMod = r
<1> DEFINE W == WordMod
           n == q * W + r
           x == n \div W
           y == n % W
<1>1. W \in Nat \ {0} /\ r \in Nat /\ r < W
  BY WordModPos, SMT DEF Word
<1>2. q * W \in Nat /\ n \in Nat
  BY <1>1, SMT
<1>3. x \in Nat /\ y \in 0 .. (W - 1) /\ n = x * W + y
  BY <1>1, <1>2, ModBounds, DivBounds
<1> HIDE DEF W, x, y
<1>4. q * W + r = x * W + y
  BY <1>3
<1>5. ~(x < q)
  <2> SUFFICES ASSUME x < q PROVE FALSE
    OBVIOUS
  <2>1. (x + 1) * W <= q * W
    BY <1>1, <1>3, MulMono, SMT
  <2>2. (x + 1) * W = x * W + W /\ x * W \in Nat
    BY <1>1, <1>3, SMT
  <2> QED BY <1>1, <1>2, <1>3, <1>4, <2>1, <2>2, SMT
<1>6. ~(q < x)
  <2> SUFFICES ASSUME q < x PROVE FALSE
    OBVIOUS
  <2>1. (q + 1) * W <= x * W
    BY <1>1, <1>3, MulMono, SMT
  <2>2. (q + 1) * W = q * W + W /\ x * W \in Nat
    BY <1>1, <1>3, SMT
  <2> QED BY <1>1, <1>2, <1>3, <1>4, <2>1, <2>2, SMT
<1>7. x = q
  BY <1>3, <1>5, <1>6, SMT
<1>8. y = r
  BY <1>1, <1>2, <1>3, <1>4, <1>7, SMT
<1> QED BY <1>2, <1>8 DEF y, W

\* A later value of the smaller counter makes it wrap the other way: the
\* distance comes out short of a whole word.
LEMMA WrappingBehind ==
  ASSUME NEW a \in Nat, NEW b \in Nat, a < b, b - a <= WordMod
  PROVE  wrapping_sub((a % WordMod), (b % WordMod)) = (a - b) + WordMod
<1> DEFINE q == a \div WordMod
           r == a % WordMod
           c == a + WordMod
<1>1. q \in Nat /\ r \in Word /\ a = q * WordMod + r
  <2>1. q \in Nat /\ a = q * WordMod + r
    BY WordModPos, DivBounds, ModBounds
  <2> QED BY <2>1, CounterType
<1>2. c = (q + 1) * WordMod + r /\ q + 1 \in Nat
  <2>1. r \in Nat
    BY <1>1, WordModPos, SMT DEF Word
  <2> HIDE DEF q, r
  <2>2. (q + 1) * WordMod = q * WordMod + WordMod /\ q * WordMod \in Nat
    BY <1>1, WordModPos, SMT
  <2> QED BY <1>1, <2>1, <2>2, WordModPos, SMT
<1>3. c % WordMod = a % WordMod
  <2>1. ((q + 1) * WordMod + r) % WordMod = r
    BY <1>1, <1>2, ModOfSum
  <2> QED BY <1>2, <2>1
<1>4. c \in Nat /\ b <= c /\ c - b < WordMod /\ c - b = (a - b) + WordMod
  BY WordModPos, SMT
<1> HIDE DEF c
<1> QED BY <1>3, <1>4, WrappingDistance
============================================================================
