--------------------------- MODULE InstantProofs ---------------------------
(***************************************************************************)
(* The invariants of Instant for every width, scale, skew and duration.    *)
(***************************************************************************)
EXTENDS Instant, Q32Proofs

\* start is what the counter of the sampling CPU showed at the sample.
SampleOK ==
  /\ origin.time <= time
  /\ start = (boot + origin.time + Skew[origin.cpu]) % WordMod

\* point at the scale of all its operations.
SteadyRounding ==
  steady => /\ owed * QOne - offset * q <= ops * q
            /\ offset * q - owed * QOne <= ops * q

\* point at any scale x.
RoundingAt(x) ==
  /\ owed * QOne - offset * x <= ops * MaxScale + moved * (MaxScale - MinScale)
  /\ offset * x - owed * QOne <= ops * MaxScale + moved * (MaxScale - MinScale)

AnyRounding == \A x \in MinScale .. MaxScale : RoundingAt(x)

\* The inductive invariant.
IInv == TypeOK /\ SampleOK /\ NoSilentWrap /\ SteadyRounding /\ AnyRounding

----------------------------------------------------------------------------
(* Facts about the API's operators *)

\* checked_add returns the exact sum, or None.
LEMMA CheckedAddExact ==
  ASSUME TypeOK, NEW d \in Duration, checked_add(point, d) # None
  PROVE  LET t == duration_to_ticks(d, q)
         IN  /\ t \in Nat
             /\ checked_add(point, d) = point + t
             /\ point + t \in Word
             /\ t * q <= as_nanos(d) * QOne
             /\ as_nanos(d) * QOne < t * q + q
<1> DEFINE t == duration_to_ticks(d, q)
<1>1. q \in Word \ {0} /\ point \in Nat
  BY WidthAssumption, InstantAssumption, SMT DEF TypeOK, Word
<1>2. t # None /\ checked_add(point, d) = u64_checked_add(point, t)
  BY DEF checked_add
<1>3. t \in Nat /\ t * q <= as_nanos(d) * QOne /\ as_nanos(d) * QOne < t * q + q
  BY <1>1, <1>2, DurationToTicks
<1> HIDE DEF t
<1>4. point + t < WordMod /\ u64_checked_add(point, t) = point + t
  BY <1>1, <1>2, <1>3 DEF u64_checked_add
<1> QED BY <1>1, <1>2, <1>3, <1>4, WidthAssumption, SMT DEF Word, t

\* checked_sub returns the exact difference, or None.
LEMMA CheckedSubExact ==
  ASSUME TypeOK, NEW d \in Duration, checked_sub(point, d) # None
  PROVE  LET t == duration_to_ticks(d, q)
         IN  /\ t \in Nat
             /\ checked_sub(point, d) = point - t
             /\ point - t \in Word
             /\ t * q <= as_nanos(d) * QOne
             /\ as_nanos(d) * QOne < t * q + q
<1> DEFINE t == duration_to_ticks(d, q)
<1>1. q \in Word \ {0} /\ point \in Nat /\ point < WordMod
  BY WidthAssumption, InstantAssumption, SMT DEF TypeOK, Word
<1>2. t # None /\ checked_sub(point, d) = u64_checked_sub(point, t)
  BY DEF checked_sub
<1>3. t \in Nat /\ t * q <= as_nanos(d) * QOne /\ as_nanos(d) * QOne < t * q + q
  BY <1>1, <1>2, DurationToTicks
<1> HIDE DEF t
<1>4. point >= t /\ u64_checked_sub(point, t) = point - t
  BY <1>1, <1>2, <1>3 DEF u64_checked_sub
<1> QED BY <1>1, <1>2, <1>3, <1>4, WidthAssumption, SMT DEF Word, t

\* The rounding error of one more operation adds at most one tick.
LEMMA RoundingStep ==
  ASSUME NEW o \in Int, NEW w \in Int, NEW k \in Nat, NEW r \in Nat,
         NEW t \in Nat, NEW n \in Nat,
         w * QOne - o * r <= k * r, o * r - w * QOne <= k * r,
         t * r <= n * QOne, n * QOne < t * r + r
  PROVE  /\ (w + n) * QOne - (o + t) * r <= (k + 1) * r
         /\ (o + t) * r - (w + n) * QOne <= (k + 1) * r
         /\ (w - n) * QOne - (o - t) * r <= (k + 1) * r
         /\ (o - t) * r - (w - n) * QOne <= (k + 1) * r
<1>1. QOne \in Nat
  BY WidthAssumption
<1>2. /\ (w + n) * QOne = w * QOne + n * QOne
      /\ (w - n) * QOne = w * QOne - n * QOne
  BY <1>1, SMT
<1>3. /\ (o + t) * r = o * r + t * r
      /\ (o - t) * r = o * r - t * r
      /\ (k + 1) * r = k * r + r
  BY SMT
<1>4. /\ w * QOne \in Int /\ n * QOne \in Int
      /\ o * r \in Int /\ t * r \in Int /\ k * r \in Int
  BY <1>1, SMT
<1> QED BY <1>2, <1>3, <1>4, SMT

\* At another scale x than the operation's r it adds at most one tick, and the
\* ticks moved times the distance of the scales.
LEMMA RoundingStepAt ==
  ASSUME NEW o \in Int, NEW w \in Int, NEW k \in Nat, NEW m \in Nat,
         NEW t \in Nat, NEW n \in Nat, NEW lo \in Nat, NEW hi \in Nat,
         NEW r \in lo .. hi, NEW x \in lo .. hi,
         w * QOne - o * x <= k * hi + m * (hi - lo),
         o * x - w * QOne <= k * hi + m * (hi - lo),
         t * r <= n * QOne, n * QOne < t * r + r
  PROVE  LET b == (k + 1) * hi + (m + t) * (hi - lo)
         IN  /\ (w + n) * QOne - (o + t) * x <= b
             /\ (o + t) * x - (w + n) * QOne <= b
             /\ (w - n) * QOne - (o - t) * x <= b
             /\ (o - t) * x - (w - n) * QOne <= b
<1>1. QOne \in Nat /\ r \in Nat /\ x \in Nat /\ lo <= r /\ r <= hi /\ lo <= x /\ x <= hi
  BY WidthAssumption, SMT
<1>2. /\ (w + n) * QOne = w * QOne + n * QOne
      /\ (w - n) * QOne = w * QOne - n * QOne
  BY <1>1, SMT
<1>3. /\ (o + t) * x = o * x + t * x
      /\ (o - t) * x = o * x - t * x
  BY <1>1, SMT
<1>4. (k + 1) * hi = k * hi + hi
  BY SMT
<1>5. (m + t) * (hi - lo) = m * (hi - lo) + t * (hi - lo)
  BY SMT
<1>6. t * (hi - lo) = t * hi - t * lo
  BY SMT
<1>7. /\ t * lo <= t * r /\ t * r <= t * hi
      /\ t * lo <= t * x /\ t * x <= t * hi
  BY <1>1, SMT
<1>8. /\ w * QOne \in Int /\ n * QOne \in Int /\ o * x \in Int /\ t * x \in Int
      /\ t * r \in Int /\ t * lo \in Int /\ t * hi \in Int /\ k * hi \in Int
      /\ m * (hi - lo) \in Int
  BY <1>1, SMT
<1>9. r <= hi /\ r \in Int /\ hi \in Int /\ hi >= 0
  BY <1>1
<1> DEFINE wq == w * QOne
           nq == n * QOne
           ox == o * x
           tx == t * x
           tr == t * r
           tl == t * lo
           th == t * hi
           kh == k * hi
           md == m * (hi - lo)
           b == (k + 1) * hi + (m + t) * (hi - lo)
<1>10. b = kh + hi + md + th - tl
  <2>1. b = (kh + hi) + (md + (th - tl))
    BY <1>4, <1>5, <1>6
  <2>2. kh \in Int /\ md \in Int /\ th \in Int /\ tl \in Int
    BY <1>8
  <2> HIDE DEF kh, md, th, tl, b
  <2> QED BY <2>1, <2>2, SMT
<1>11. /\ wq - ox <= kh + md /\ ox - wq <= kh + md /\ tr <= nq /\ nq < tr + r
       /\ tl <= tr /\ tr <= th /\ tl <= tx /\ tx <= th
       /\ wq \in Int /\ nq \in Int /\ ox \in Int /\ tx \in Int /\ tr \in Int
       /\ tl \in Int /\ th \in Int /\ kh \in Int /\ md \in Int
  BY <1>7, <1>8
<1>12. /\ (wq + nq) - (ox + tx) <= b /\ (ox + tx) - (wq + nq) <= b
       /\ (wq - nq) - (ox - tx) <= b /\ (ox - tx) - (wq - nq) <= b
  <2> HIDE DEF wq, nq, ox, tx, tr, tl, th, kh, md, b
  <2> QED BY <1>9, <1>10, <1>11, SMT
<1> QED BY <1>2, <1>3, <1>12

----------------------------------------------------------------------------
(* The inductive invariant *)

\* The invariant holds when the first instant has been sampled.
LEMMA InitInv == Init => IInv
<1> SUFFICES ASSUME Init PROVE IInv
  OBVIOUS
<1>1. PICK c \in CPUs : start = ticks(c) /\ origin = [time |-> 0, cpu |-> c]
  BY DEF Init
<1>2. /\ boot \in Nat /\ boot \in Word /\ Skew[c] \in Nat
      /\ q \in Word \ {0} /\ 0 \in 0 .. MaxTime /\ 0 \in 0 .. MaxOps
  BY InstantAssumption, WidthAssumption, SMT DEF Init, Word
<1>3. start = (boot + 0 + Skew[c]) % WordMod /\ time = 0
  BY <1>1 DEF ticks, Init
<1>4. start \in Word
  BY <1>2, <1>3, CounterType
<1>5. start \in Nat /\ q \in Nat /\ QOne \in Nat
  BY <1>2, <1>4, WidthAssumption, SMT DEF Word
<1>6. TypeOK
  BY <1>1, <1>2, <1>4 DEF Init, TypeOK
<1>7. SampleOK
  BY <1>1, <1>2, <1>3, SMT DEF SampleOK
<1>8. NoSilentWrap
  BY <1>5, SMT DEF Init, NoSilentWrap
<1>9. SteadyRounding
  BY <1>5, SMT DEF Init, SteadyRounding
<1>10. AnyRounding
  <2> SUFFICES ASSUME NEW x \in MinScale .. MaxScale PROVE RoundingAt(x)
    BY DEF AnyRounding
  <2>1. /\ 0 * QOne = 0 /\ 0 * x = 0 /\ 0 * MaxScale = 0 /\ 0 * (MaxScale - MinScale) = 0
    BY <1>5, InstantAssumption, SMT
  <2> QED BY <2>1, SMT DEF Init, RoundingAt
<1> QED BY <1>6, <1>7, <1>8, <1>9, <1>10 DEF IInv

\* Every step preserves it.
LEMMA NextInv == IInv /\ [Next]_vars => IInv'
<1> SUFFICES ASSUME IInv, [Next]_vars PROVE IInv'
  OBVIOUS
<1> USE DEF IInv
<1>1. /\ boot \in Nat /\ time \in Nat /\ QOne \in Nat /\ q \in Nat /\ ops \in Nat
      /\ offset \in Int /\ owed \in Int /\ moved \in Nat /\ q \in MinScale .. MaxScale /\ start \in Nat /\ point \in Nat
      /\ origin.cpu \in CPUs /\ origin.time \in Nat
  BY WidthAssumption, InstantAssumption, SMT DEF TypeOK, Word
<1>2. \A c \in CPUs : Skew[c] \in Nat
  BY InstantAssumption, SMT
<1>3. CASE Tick
  <2>1. TypeOK'
    BY <1>3, InstantAssumption, SMT DEF Tick, TypeOK
  <2>2. SampleOK'
    BY <1>1, <1>3, SMT DEF Tick, SampleOK
  <2> QED BY <1>3, <2>1, <2>2 DEF Tick, NoSilentWrap, SteadyRounding, AnyRounding, RoundingAt
<1>4. CASE Recalibrate
  <2>1. TypeOK'
    BY <1>4, InstantAssumption DEF Recalibrate, TypeOK
  <2> QED BY <1>4, <2>1 DEF Recalibrate, SampleOK, NoSilentWrap, SteadyRounding, AnyRounding, RoundingAt
<1>5. ASSUME NEW c \in CPUs, Now(c) PROVE IInv'
  <2>1. start' = (boot + time + Skew[c]) % WordMod
    BY <1>5 DEF Now, now, ticks
  <2>2. start' \in Word /\ start' \in Nat
    <3>1. start' \in Word
      BY <1>1, <1>2, <2>1, CounterType
    <3> QED BY <3>1, WidthAssumption, SMT DEF Word
  <2>3. 0 \in 0 .. MaxOps
    BY InstantAssumption, SMT
  <2>4. TypeOK'
    BY <1>5, <2>2, <2>3 DEF Now, TypeOK
  <2>5. SampleOK'
    BY <1>1, <1>5, <2>1, SMT DEF Now, SampleOK
  <2>6. NoSilentWrap' /\ SteadyRounding'
    BY <1>1, <1>5, <2>2, SMT DEF Now, NoSilentWrap, SteadyRounding
  <2>7. AnyRounding'
    <3> SUFFICES ASSUME NEW x \in MinScale .. MaxScale PROVE RoundingAt(x)'
      BY DEF AnyRounding
    <3>1. /\ 0 * QOne = 0 /\ 0 * x = 0 /\ 0 * MaxScale = 0 /\ 0 * (MaxScale - MinScale) = 0
      BY <1>1, InstantAssumption, SMT
    <3> QED BY <1>5, <3>1, SMT DEF Now, RoundingAt
  <2> QED BY <2>4, <2>5, <2>6, <2>7
<1>6. ASSUME NEW d \in Durations, AddAssign(d) PROVE IInv'
  <2> DEFINE t == duration_to_ticks(d, q)
  <2>1. d \in Duration /\ as_nanos(d) \in Nat
    BY InstantAssumption, AsNanosType
  <2>2. /\ t \in Nat /\ point' = point + t /\ point' \in Word
        /\ t * q <= as_nanos(d) * QOne /\ as_nanos(d) * QOne < t * q + q
    BY <1>6, <2>1, CheckedAddExact DEF AddAssign
  <2>3. offset' = offset + t /\ owed' = owed + as_nanos(d) /\ ops' = ops + 1 /\ moved' = moved + t
    BY <1>6 DEF AddAssign
  <2>4. UNCHANGED <<boot, time, q, start, origin, steady>> /\ ops < MaxOps
    BY <1>6 DEF AddAssign
  <2> HIDE DEF t
  <2>5. TypeOK'
    BY <1>1, <2>1, <2>2, <2>3, <2>4, InstantAssumption, SMT DEF TypeOK
  <2>6. SampleOK'
    BY <2>4 DEF SampleOK
  <2>7. NoSilentWrap'
    BY <1>1, <2>2, <2>3, <2>4, SMT DEF NoSilentWrap
  <2>8. SteadyRounding'
    <3> SUFFICES ASSUME steady PROVE SteadyRounding'
      BY <2>4 DEF SteadyRounding
    <3>1. owed * QOne - offset * q <= ops * q /\ offset * q - owed * QOne <= ops * q
      BY DEF SteadyRounding
    <3> QED BY <1>1, <2>1, <2>2, <2>3, <2>4, <3>1, RoundingStep DEF SteadyRounding
  <2>9. AnyRounding'
    <3> SUFFICES ASSUME NEW x \in MinScale .. MaxScale PROVE RoundingAt(x)'
      BY DEF AnyRounding
    <3>1. RoundingAt(x)
      BY DEF AnyRounding
    <3> QED BY <1>1, <2>1, <2>2, <2>3, <2>4, <3>1, InstantAssumption, RoundingStepAt
            DEF RoundingAt
  <2> QED BY <2>5, <2>6, <2>7, <2>8, <2>9
<1>7. ASSUME NEW d \in Durations, SubAssign(d) PROVE IInv'
  <2> DEFINE t == duration_to_ticks(d, q)
  <2>1. d \in Duration /\ as_nanos(d) \in Nat
    BY InstantAssumption, AsNanosType
  <2>2. /\ t \in Nat /\ point' = point - t /\ point' \in Word
        /\ t * q <= as_nanos(d) * QOne /\ as_nanos(d) * QOne < t * q + q
    BY <1>7, <2>1, CheckedSubExact DEF SubAssign
  <2>3. offset' = offset - t /\ owed' = owed - as_nanos(d) /\ ops' = ops + 1 /\ moved' = moved + t
    BY <1>7 DEF SubAssign
  <2>4. UNCHANGED <<boot, time, q, start, origin, steady>> /\ ops < MaxOps
    BY <1>7 DEF SubAssign
  <2> HIDE DEF t
  <2>5. TypeOK'
    BY <1>1, <2>1, <2>2, <2>3, <2>4, InstantAssumption, SMT DEF TypeOK
  <2>6. SampleOK'
    BY <2>4 DEF SampleOK
  <2>7. NoSilentWrap'
    BY <1>1, <2>2, <2>3, <2>4, SMT DEF NoSilentWrap
  <2>8. SteadyRounding'
    <3> SUFFICES ASSUME steady PROVE SteadyRounding'
      BY <2>4 DEF SteadyRounding
    <3>1. owed * QOne - offset * q <= ops * q /\ offset * q - owed * QOne <= ops * q
      BY DEF SteadyRounding
    <3> QED BY <1>1, <2>1, <2>2, <2>3, <2>4, <3>1, RoundingStep DEF SteadyRounding
  <2>9. AnyRounding'
    <3> SUFFICES ASSUME NEW x \in MinScale .. MaxScale PROVE RoundingAt(x)'
      BY DEF AnyRounding
    <3>1. RoundingAt(x)
      BY DEF AnyRounding
    <3> QED BY <1>1, <2>1, <2>2, <2>3, <2>4, <3>1, InstantAssumption, RoundingStepAt
            DEF RoundingAt
  <2> QED BY <2>5, <2>6, <2>7, <2>8, <2>9
<1>8. CASE UNCHANGED vars
  BY <1>8 DEF vars, TypeOK, SampleOK, NoSilentWrap, SteadyRounding, AnyRounding, RoundingAt
<1> QED BY <1>3, <1>4, <1>5, <1>6, <1>7, <1>8 DEF Next

\* The inductive invariant holds throughout every behaviour.
LEMMA Invariance == Spec => []IInv
BY InitInv, NextInv, PTL DEF Spec

----------------------------------------------------------------------------
(* The theorems *)

\* Instants stay u64 values through every sequence of operations.
THEOREM TypeCorrect == Spec => []TypeOK
<1>1. IInv => TypeOK
  BY DEF IInv
<1> QED BY <1>1, Invariance, PTL

\* No += or -= ever wraps around u64.
THEOREM ArithmeticNeverWraps == Spec => []NoSilentWrap
<1>1. IInv => NoSilentWrap
  BY DEF IInv
<1> QED BY <1>1, Invariance, PTL

\* The invariant bounds the error at the current scale.
LEMMA RoundingIsBounded == IInv => RoundingBounded
<1> SUFFICES ASSUME IInv PROVE RoundingBounded
  OBVIOUS
<1>1. q \in MinScale .. MaxScale
  BY WidthAssumption, InstantAssumption, SMT DEF IInv, TypeOK, Word
<1>2. RoundingAt(q)
  BY <1>1 DEF IInv, AnyRounding
<1> QED BY <1>2 DEF IInv, SteadyRounding, RoundingAt, RoundingBounded, slack

\* k operations misplace an instant by at most k ticks, and changes of scale
\* by the distance of the scales for each tick moved.
THEOREM TruncationBounded == Spec => []RoundingBounded
<1>1. IInv => RoundingBounded
  BY RoundingIsBounded
<1> QED BY <1>1, Invariance, PTL

----------------------------------------------------------------------------
(* What elapsed and duration_since report *)

\* A duration is not Option::None.
LEMMA DurationIsSome ==
  ASSUME NEW d \in Duration
  PROVE  d # None
BY NoneAssumption

\* The conversion of an interval, and its monotony.
LEMMA NanosFacts ==
  ASSUME TypeOK, NEW m \in Nat, NEW n \in Nat, m <= n
  PROVE  /\ Nanos(m) \in Word
         /\ Nanos(m) <= Nanos(n)
<1>1. q \in Nat
  BY WidthAssumption, InstantAssumption, SMT DEF TypeOK, Word
<1>2. m * q \in Nat /\ n * q \in Nat /\ m * q <= n * q
  BY <1>1, SMT
<1>3. /\ (m * q) \div QOne \in Nat /\ (n * q) \div QOne \in Nat
      /\ (m * q) \div QOne <= (n * q) \div QOne
  BY <1>2, DivMono, DivBounds, WidthAssumption
<1> QED BY <1>3, SaturateMono, SaturateType DEF Nanos

\* wrapping_sub makes elapsed() exact across a wrap of the counter.
LEMMA ElapsedIsExact == IInv => ElapsedExact
<1> SUFFICES ASSUME IInv, age < WordMod
             PROVE  as_nanos(elapsed(start, origin.cpu)) = Nanos(age)
  BY DEF ElapsedExact
<1> DEFINE s == Skew[origin.cpu]
           a == boot + time + s
           b == boot + origin.time + s
<1>1. /\ boot \in Nat /\ time \in Nat /\ origin.time \in Nat /\ s \in Nat
      /\ origin.time <= time /\ q \in Word
  BY WidthAssumption, InstantAssumption, SMT DEF IInv, TypeOK, SampleOK, Word
<1>2. start = b % WordMod /\ ticks(origin.cpu) = a % WordMod
  BY DEF IInv, SampleOK, ticks
<1> HIDE DEF s
<1>3. a \in Nat /\ b \in Nat /\ b <= a /\ a - b = age /\ age \in Nat
  BY <1>1, SMT DEF age
<1> HIDE DEF a, b
<1>4. wrapping_sub(ticks(origin.cpu), start) = age
  BY <1>2, <1>3, WrappingDistance
<1>5. age \in Word
  BY <1>3, WidthAssumption, SMT DEF Word
<1> QED BY <1>1, <1>4, <1>5, TicksToDuration DEF elapsed, Nanos

\* Ticks since the sample as the counter of CPU c shows them.
Shown(c) == age + Skew[c] - Skew[origin.cpu]

\* What elapsed() is on any CPU: the ticks its counter shows, and those short
\* of a whole word when its counter has not yet reached the sample.
ElapsedAnywhere ==
  \A c \in CPUs :
    /\ Shown(c) \in 0 .. (WordMod - 1) => as_nanos(elapsed(start, c)) = Nanos(Shown(c))
    /\ Shown(c) \in -WordMod .. -1 =>
         as_nanos(elapsed(start, c)) = Nanos(Shown(c) + WordMod)

\* The invariant ties elapsed() to what the counters show.
LEMMA ElapsedIsKnown == IInv => ElapsedAnywhere
<1> SUFFICES ASSUME IInv, NEW c \in CPUs
             PROVE  /\ Shown(c) \in 0 .. (WordMod - 1) =>
                         as_nanos(elapsed(start, c)) = Nanos(Shown(c))
                    /\ Shown(c) \in -WordMod .. -1 =>
                         as_nanos(elapsed(start, c)) = Nanos(Shown(c) + WordMod)
  BY DEF ElapsedAnywhere
<1> DEFINE s == Skew[c]
           o == Skew[origin.cpu]
           a == boot + time + s
           b == boot + origin.time + o
           n == Shown(c)
<1>1. /\ boot \in Nat /\ time \in Nat /\ origin.time \in Nat /\ origin.cpu \in CPUs
      /\ q \in Word
  BY WidthAssumption, InstantAssumption, SMT DEF IInv, TypeOK, Word
<1>2. s \in Nat /\ o \in Nat
  BY <1>1, InstantAssumption, SMT
<1>3. start = b % WordMod /\ ticks(c) = a % WordMod
  BY DEF IInv, SampleOK, ticks
<1>4. n = age + s - o
  BY DEF Shown
<1> HIDE DEF s, o, n
<1>5. a \in Nat /\ b \in Nat /\ a - b = n /\ n \in Int
  BY <1>1, <1>2, <1>4, SMT DEF age
<1> HIDE DEF a, b
<1>6. ASSUME NEW k \in Word, wrapping_sub(ticks(c), start) = k
      PROVE  as_nanos(elapsed(start, c)) = Nanos(k)
  BY <1>1, <1>6, TicksToDuration DEF elapsed, Nanos
<1>7. ASSUME n \in 0 .. (WordMod - 1)
      PROVE  as_nanos(elapsed(start, c)) = Nanos(n)
  <2>1. b <= a /\ a - b < WordMod /\ n \in Word
    BY <1>5, <1>7, WordModPos, SMT DEF Word
  <2>2. wrapping_sub(ticks(c), start) = n
    BY <1>3, <1>5, <2>1, WrappingDistance
  <2> QED BY <1>6, <2>1, <2>2
<1>8. ASSUME n \in -WordMod .. -1
      PROVE  as_nanos(elapsed(start, c)) = Nanos(n + WordMod)
  <2>1. a < b /\ b - a <= WordMod /\ n + WordMod \in Word
    BY <1>5, <1>8, WordModPos, SMT DEF Word
  <2>2. wrapping_sub(ticks(c), start) = n + WordMod
    BY <1>3, <1>5, <2>1, WrappingBehind
  <2> QED BY <1>6, <2>1, <2>2
<1> QED BY <1>7, <1>8 DEF n

\* So its error is the skew, once the interval is that long.
LEMMA CrossCpuElapsedIsBounded == IInv => CrossCpuElapsedBounded
<1> SUFFICES ASSUME IInv, age >= MaxSkew, age + MaxSkew < WordMod, NEW c \in CPUs
             PROVE  /\ Nanos(age - MaxSkew) <= as_nanos(elapsed(start, c))
                    /\ as_nanos(elapsed(start, c)) <= Nanos(age + MaxSkew)
  BY DEF CrossCpuElapsedBounded
<1> DEFINE n == Shown(c)
<1>1. age \in Int /\ MaxSkew \in Nat /\ TypeOK /\ origin.cpu \in CPUs
  BY InstantAssumption, SMT DEF IInv, TypeOK, age
<1>2. Skew[c] \in 0 .. MaxSkew /\ Skew[origin.cpu] \in 0 .. MaxSkew
  BY <1>1, InstantAssumption
<1>3. /\ age - MaxSkew \in Nat /\ n \in Nat /\ age + MaxSkew \in Nat
      /\ age - MaxSkew <= n /\ n <= age + MaxSkew
  BY <1>1, <1>2, SMT DEF Shown
<1>4. n \in 0 .. (WordMod - 1)
  BY <1>1, <1>3, WordModPos, SMT
<1>5. as_nanos(elapsed(start, c)) = Nanos(n)
  BY <1>4, ElapsedIsKnown DEF ElapsedAnywhere
<1> HIDE DEF n
<1>6. Nanos(age - MaxSkew) <= Nanos(n)
  BY <1>1, <1>3, NanosFacts
<1>7. Nanos(n) <= Nanos(age + MaxSkew)
  BY <1>1, <1>3, NanosFacts
<1> QED BY <1>5, <1>6, <1>7

\* Before any counter wraps, a read is the sum itself.
LEMMA CounterBeforeWrap ==
  ASSUME IInv, NoWrap
  PROVE  /\ \A c \in CPUs : now(c) = boot + time + Skew[c] /\ now(c) \in Word
         /\ start = boot + origin.time + Skew[origin.cpu]
<1>1. /\ boot \in Nat /\ time \in Nat /\ origin.time \in Nat /\ MaxSkew \in Nat
      /\ origin.time <= time /\ WordMod \in Nat
      /\ origin.cpu \in CPUs
  BY WidthAssumption, InstantAssumption, SMT DEF IInv, TypeOK, SampleOK, Word
<1>2. \A c \in CPUs : Skew[c] \in Nat /\ Skew[c] <= MaxSkew
  BY InstantAssumption, SMT
<1>3. ASSUME NEW c \in CPUs
      PROVE  now(c) = boot + time + Skew[c] /\ now(c) \in Word
  <2>1. boot + time + Skew[c] \in Nat /\ boot + time + Skew[c] < WordMod
    BY <1>1, <1>2, SMT DEF NoWrap
  <2> QED BY <2>1, ModSmall, CounterType DEF now, ticks
<1>4. start = boot + origin.time + Skew[origin.cpu]
  <2>1. /\ boot + origin.time + Skew[origin.cpu] \in Nat
        /\ boot + origin.time + Skew[origin.cpu] < WordMod
    BY <1>1, <1>2, SMT DEF NoWrap
  <2> QED BY <2>1, ModSmall DEF IInv, SampleOK
<1> QED BY <1>3, <1>4

\* duration_since is wrong by the skew at most, in both directions.
LEMMA CrossCpuIsBounded == IInv => CrossCpuDurationBounded
<1> SUFFICES ASSUME IInv, NoWrap, NEW c \in CPUs
             PROVE  LET n == as_nanos(duration_since(now(c), start))
                    IN  /\ n <= Nanos(age + MaxSkew)
                        /\ age >= MaxSkew => n >= Nanos(age - MaxSkew)
  BY DEF CrossCpuDurationBounded
<1> DEFINE n == as_nanos(duration_since(now(c), start))
           x == now(c)
<1>1. /\ boot \in Nat /\ time \in Nat /\ origin.time \in Nat /\ MaxSkew \in Nat
      /\ origin.time <= time /\ q \in Word /\ TypeOK
      /\ start \in Nat /\ start \in Word
  BY WidthAssumption, InstantAssumption, SMT DEF IInv, TypeOK, SampleOK, Word
<1>2. /\ Skew[c] \in 0 .. MaxSkew /\ Skew[origin.cpu] \in 0 .. MaxSkew
  BY InstantAssumption DEF IInv, TypeOK
<1>3. /\ x = boot + time + Skew[c] /\ x \in Word
      /\ start = boot + origin.time + Skew[origin.cpu]
  BY CounterBeforeWrap
<1>4. age \in Nat /\ x \in Nat
  BY <1>1, <1>3, WidthAssumption, SMT DEF age, Word
<1>5. /\ x - start <= age + MaxSkew /\ x - start >= age - MaxSkew
  BY <1>1, <1>2, <1>3, SMT DEF age
<1> HIDE DEF x
<1>6. CASE x >= start
  <2> DEFINE k == x - start
  <2>1. k \in Nat /\ k \in Word /\ k # None
    BY <1>1, <1>3, <1>4, <1>6, WidthAssumption, NoneAssumption, SMT DEF Word
  <2>2. duration_since(x, start) = unwrap_or_default(ticks_to_duration(k, q))
    BY <1>6, <2>1 DEF duration_since, checked_duration_since, u64_checked_sub
  <2>3. ticks_to_duration(k, q) # None
    BY <1>1, <2>1, TicksToDuration, DurationIsSome
  <2>4. n = Nanos(k)
    BY <1>1, <2>1, <2>2, <2>3, TicksToDuration DEF unwrap_or_default, Nanos, x
  <2>5. n <= Nanos(age + MaxSkew)
    <3>1. k <= age + MaxSkew /\ age + MaxSkew \in Nat
      BY <1>1, <1>4, <1>5, SMT
    <3> HIDE DEF k
    <3> QED BY <1>1, <2>1, <2>4, <3>1, NanosFacts
  <2>6. age >= MaxSkew => n >= Nanos(age - MaxSkew)
    <3> SUFFICES ASSUME age >= MaxSkew PROVE n >= Nanos(age - MaxSkew)
      OBVIOUS
    <3>1. age - MaxSkew \in Nat /\ age - MaxSkew <= k
      BY <1>1, <1>4, <1>5, SMT
    <3> HIDE DEF k
    <3>2. Nanos(age - MaxSkew) <= Nanos(k) /\ Nanos(age - MaxSkew) \in Nat /\ Nanos(k) \in Nat
      <4>1. Nanos(age - MaxSkew) <= Nanos(k) /\ Nanos(age - MaxSkew) \in Word
        BY <1>1, <2>1, <3>1, NanosFacts
      <4>2. Nanos(k) \in Word
        BY <1>1, <2>1, NanosFacts
      <4> QED BY <4>1, <4>2, WidthAssumption, SMT DEF Word
    <3> QED BY <2>4, <3>2, SMT
  <2> QED BY <2>5, <2>6
<1>7. CASE ~(x >= start)
  <2>1. duration_since(x, start) = Zero
    BY <1>7 DEF duration_since, checked_duration_since, u64_checked_sub, unwrap_or_default
  <2>2. n = 0
    BY <2>1, WidthAssumption, SMT DEF as_nanos, Zero, x
  <2>3. ~(age >= MaxSkew)
    BY <1>1, <1>4, <1>5, <1>7, SMT
  <2>4. Nanos(age + MaxSkew) \in Nat
    <3>1. age + MaxSkew \in Nat
      BY <1>1, <1>4, SMT
    <3>2. Nanos(age + MaxSkew) \in Word
      BY <1>1, <3>1, NanosFacts
    <3> QED BY <3>2, WidthAssumption, SMT DEF Word
  <2> QED BY <2>2, <2>3, <2>4, SMT
<1> QED BY <1>6, <1>7

\* elapsed() >= owed and now() >= point turn true within the slack and a
\* nanosecond of each other.
LEMMA DeadlineAgrees == IInv => DeadlineAgreesWithElapsed
<1> DEFINE c == origin.cpu
           e == as_nanos(elapsed(start, c))
           p == age * q
<1> SUFFICES ASSUME IInv, NoWrap, e < WordMod - 1
             PROVE  /\ now(c) >= point => owed * QOne < e * QOne + QOne + slack
                    /\ now(c) < point => e * QOne < owed * QOne + slack
  BY DEF DeadlineAgreesWithElapsed
<1>1. /\ boot \in Nat /\ time \in Nat /\ origin.time \in Nat /\ MaxSkew \in Nat
      /\ origin.time <= time /\ q \in Nat \ {0} /\ c \in CPUs
      /\ offset \in Int /\ owed \in Int /\ ops \in Nat /\ QOne \in Nat \ {0}
      /\ WordMod \in Nat
  BY WidthAssumption, InstantAssumption, SMT DEF IInv, TypeOK, SampleOK, Word
<1>2. Skew[c] \in Nat
  BY <1>1, InstantAssumption, SMT
<1>3. now(c) = boot + time + Skew[c] /\ start = boot + origin.time + Skew[c]
  BY <1>1, CounterBeforeWrap
<1>4. age \in Nat /\ age < WordMod /\ now(c) = start + age
  BY <1>1, <1>2, <1>3, SMT DEF age, NoWrap
<1>5. start \in Int /\ point = start + offset
  BY WidthAssumption, SMT DEF IInv, TypeOK, Word, NoSilentWrap
<1>6. e = saturate(p \div QOne)
  BY <1>4, ElapsedIsExact DEF ElapsedExact, Nanos
<1>7. p \in Nat
  BY <1>1, <1>4, SMT
<1>8. /\ p \div QOne \in Nat
      /\ (p \div QOne) * QOne <= p
      /\ p < (p \div QOne) * QOne + QOne
  BY <1>1, <1>7, DivBounds
<1>9. e \in Nat /\ e * QOne <= p /\ p < e * QOne + QOne
  <2>1. e = p \div QOne
    BY <1>1, <1>6, <1>8, SMT DEF saturate
  <2> QED BY <1>8, <2>1
<1>10. owed * QOne - offset * q <= slack /\ offset * q - owed * QOne <= slack
  BY RoundingIsBounded DEF RoundingBounded
<1>11. /\ owed * QOne \in Int /\ offset * q \in Int /\ slack \in Int
       /\ e * QOne \in Int
  <2>1. moved \in Nat /\ MaxScale \in Nat /\ MinScale \in Nat
    BY InstantAssumption DEF IInv, TypeOK
  <2>2. ops * q \in Int /\ ops * MaxScale + moved * (MaxScale - MinScale) \in Int
    BY <1>1, <2>1, SMT
  <2>3. slack \in Int
    BY <2>2 DEF slack
  <2> QED BY <1>1, <1>9, <2>3, SMT
<1>12. ASSUME now(c) >= point PROVE owed * QOne < e * QOne + QOne + slack
  <2>1. offset <= age
    BY <1>1, <1>4, <1>5, <1>12, SMT
  <2>2. offset * q <= p
    BY <1>1, <1>4, <2>1, SMT
  <2> HIDE DEF p, e
  <2> QED BY <1>1, <1>7, <1>9, <1>10, <1>11, <2>2, SMT
<1>13. ASSUME now(c) < point PROVE e * QOne < owed * QOne + slack
  <2>1. age < offset
    BY <1>1, <1>4, <1>5, <1>13, SMT
  <2>2. p < offset * q
    BY <1>1, <1>4, <2>1, SMT
  <2> HIDE DEF p, e
  <2> QED BY <1>1, <1>7, <1>9, <1>10, <1>11, <2>2, SMT
<1> QED BY <1>12, <1>13

\* elapsed() on the sampling CPU is exact, also across a counter wrap.
THEOREM ElapsedAcrossWrap == Spec => []ElapsedExact
BY ElapsedIsExact, Invariance, PTL

\* An interval no shorter than the skew is measured to within the skew by
\* elapsed() on every CPU, also across a counter wrap.
THEOREM LongElapsedErrsBySkew == Spec => []CrossCpuElapsedBounded
BY CrossCpuElapsedIsBounded, Invariance, PTL

\* elapsed() on a CPU whose counter has reached the sample reports what that
\* counter shows; on one that is behind it, that much less than 2^64 ticks.
THEOREM ElapsedDelimited == Spec => []ElapsedAnywhere
BY ElapsedIsKnown, Invariance, PTL

\* duration_since errs by the skew between two CPUs and no more.
THEOREM DurationErrsBySkew == Spec => []CrossCpuDurationBounded
BY CrossCpuIsBounded, Invariance, PTL

\* The two ways of writing a timeout agree.
THEOREM TimeoutsAgree == Spec => []DeadlineAgreesWithElapsed
BY DeadlineAgrees, Invariance, PTL
============================================================================
