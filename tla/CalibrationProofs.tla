-------------------------- MODULE CalibrationProofs --------------------------
(***************************************************************************)
(* Accuracy of the calibration, for every rate, skew, window and odd       *)
(* number of samples.                                                      *)
(***************************************************************************)
EXTENDS Calibration, Q32Proofs, FiniteSetTheorems

\* Where the reads of the sample under way lie on the time line.
SampleOK ==
  /\ pc \notin {"sort", "done"} => k \in Samples
  /\ pc \in {"t0", "spin", "t1", "wall_end"} =>
       wall_start <= wall /\ wall - wall_start <= MaxSample
  /\ pc \in {"spin", "t1", "wall_end"} =>
       /\ wall_start + lead <= wall
       /\ \E s \in 0 .. MaxSkew : t0 = (Boot + Rate * (wall_start + lead) + s) % WordMod
  /\ pc \in {"t1", "wall_end"} => wall - wall_start >= CALIBRATION_TIME_NS
  /\ pc = "wall_end" =>
       /\ wall_start + lead <= last /\ last <= wall
       /\ \E s \in 0 .. MaxSkew : t1 = (Boot + Rate * last + s) % WordMod

\* The result is the median of the complete estimates.
ResultOK ==
  /\ pc \in {"sort", "done"} => k = NUM_SAMPLES + 1
  /\ pc = "done" => result \in Nat /\ IsMedian(result)

\* The inductive invariant.
IInv == TypeOK /\ SampleOK /\ QuietSampleAccurate /\ ResultOK

----------------------------------------------------------------------------
(* Arithmetic *)

\* An estimate f of h that is accurate over a window of e nanoseconds is
\* accurate over a shorter one.
LEMMA ShorterWindow ==
  ASSUME NEW f \in Nat, NEW h \in Nat, NEW e \in Nat, NEW c \in Nat,
         NEW over \in Nat, NEW under \in Nat,
         0 < c, c <= e,
         f * e <= h * e + over,
         h * e < (f + 1) * e + under
  PROVE  /\ f * c <= h * c + over
         /\ h * c < (f + 1) * c + under
<1>1. f * c <= h * c + over
  <2>1. CASE f <= h
    <3>1. f * c <= h * c
      BY <2>1, MulMono
    <3> QED BY <3>1, SMT
  <2>2. CASE f > h
    <3> DEFINE d == f - h
    <3>1. d \in Nat /\ f = h + d
      BY <2>2, SMT
    <3> HIDE DEF d
    <3>2. d * e <= over
      BY <3>1, SMT
    <3>3. c * d <= e * d
      BY <3>1, MulMono
    <3> QED BY <3>1, <3>2, <3>3, SMT
  <2> QED BY <2>1, <2>2, SMT
<1>2. h * c < (f + 1) * c + under
  <2>1. CASE h <= f
    <3>1. h * c <= f * c
      BY <2>1, MulMono
    <3> QED BY <3>1, SMT
  <2>2. CASE h > f
    <3> DEFINE d == h - (f + 1)
    <3>1. d \in Nat /\ h = f + 1 + d
      BY <2>2, SMT
    <3> HIDE DEF d
    <3>2. d * e < under
      BY <3>1, SMT
    <3>3. c * d <= e * d
      BY <3>1, MulMono
    <3> QED BY <3>1, <3>2, <3>3, SMT
  <2> QED BY <2>1, <2>2, SMT
<1> QED BY <1>1, <1>2

\* The constants are natural numbers, and products of them too.
LEMMA Naturals ==
  /\ CALIBRATION_TIME_NS \in Nat /\ 0 < CALIBRATION_TIME_NS
  /\ Boot \in Nat /\ Rate \in Nat /\ MaxSkew \in Nat /\ QuietGap \in Nat /\ MaxSample \in Nat
  /\ NanosPerSecond \in Nat \ {0} /\ WordMod \in Nat \ {0} /\ NUM_SAMPLES \in Nat
  /\ hz \in Nat /\ above \in Nat /\ below \in Nat
<1>1. /\ CALIBRATION_TIME_NS \in Nat /\ 0 < CALIBRATION_TIME_NS
      /\ Boot \in Nat /\ Rate \in Nat /\ MaxSkew \in Nat /\ QuietGap \in Nat /\ MaxSample \in Nat
      /\ NUM_SAMPLES \in Nat
  BY CalibrationAssumption, SMT
<1>2. NanosPerSecond \in Nat \ {0} /\ WordMod \in Nat \ {0}
  BY WidthAssumption, WordModPos
<1>3. Rate * QuietGap \in Nat
  BY <1>1, SMT
<1>4. MaxSkew + Rate * QuietGap \in Nat
  BY <1>1, <1>3, SMT
<1>5. \A x, y \in Nat : x * y \in Nat
  BY SMT
<1> QED BY <1>1, <1>2, <1>4, <1>5 DEF hz, above, below

\* The number of ticks a quiet sample counts, wrapped or not.
LEMMA QuietTicks ==
  ASSUME NEW w \in Nat, NEW l \in Nat, NEW e \in Nat, NEW g \in Nat,
         NEW s \in 0 .. MaxSkew, NEW u \in 0 .. MaxSkew,
         g <= QuietGap, CALIBRATION_TIME_NS <= e, e <= MaxSample, g <= e,
         l = w + (e - g)
  PROVE  LET T == Rate * (e - g) + u - s
         IN  /\ wrapping_sub((Boot + Rate * l + u) % WordMod, (Boot + Rate * w + s) % WordMod) = T
             /\ T \in Nat
             /\ T <= Rate * e + MaxSkew
             /\ Rate * e <= T + MaxSkew + Rate * QuietGap
             /\ T * NanosPerSecond < WordMod
<1> DEFINE d == e - g
           A == Boot + Rate * l + u
           B == Boot + Rate * w + s
           T == Rate * d + u - s
<1>1. d \in Nat /\ e = d + g /\ s \in Nat /\ u \in Nat /\ s <= MaxSkew /\ u <= MaxSkew
  BY Naturals, SMT
<1>2. l = w + d
  BY <1>1, SMT
<1> HIDE DEF d
<1>3. Rate * l = Rate * w + Rate * d /\ Rate * w \in Nat /\ Rate * d \in Nat
  BY <1>1, <1>2, Naturals, SMT
<1>4. Rate * e = Rate * d + Rate * g /\ Rate * g \in Nat /\ Rate * e \in Nat
  BY <1>1, Naturals, SMT
<1>5. /\ Rate * g <= Rate * QuietGap
      /\ Rate * QuietGap \in Nat
  BY Naturals, SMT
<1>6. /\ Rate * CALIBRATION_TIME_NS <= Rate * e /\ Rate * e <= Rate * MaxSample
      /\ Rate * CALIBRATION_TIME_NS \in Nat /\ Rate * MaxSample \in Nat
  BY Naturals, SMT
<1>7. MaxSkew + Rate * QuietGap < Rate * CALIBRATION_TIME_NS
  BY CalibrationAssumption
<1>8. A \in Nat /\ B \in Nat /\ A - B = T
  BY <1>1, <1>3, Naturals, SMT
<1>9. T \in Nat /\ T <= Rate * e + MaxSkew /\ Rate * e <= T + MaxSkew + Rate * QuietGap
  BY <1>1, <1>3, <1>4, <1>5, <1>6, <1>7, Naturals, SMT
<1>10. T * NanosPerSecond < WordMod /\ T < WordMod
  <2> DEFINE X == Rate * MaxSample + MaxSkew
  <2>1. X \in Nat /\ T <= X
    BY <1>6, <1>9, Naturals, SMT
  <2>2. X * NanosPerSecond < WordMod
    BY CalibrationAssumption
  <2> HIDE DEF X, T
  <2>3. T * NanosPerSecond <= X * NanosPerSecond
    BY <1>9, <2>1, MulMono, Naturals
  <2>4. T <= T * NanosPerSecond
    BY <1>9, Naturals, SMT
  <2>5. T * NanosPerSecond \in Nat /\ X * NanosPerSecond \in Nat
    BY <1>9, <2>1, Naturals, SMT
  <2> QED BY <1>9, <2>2, <2>3, <2>4, <2>5, Naturals, SMT
<1>11. wrapping_sub(A % WordMod, B % WordMod) = T
  <2>1. B <= A /\ A - B < WordMod
    BY <1>8, <1>9, <1>10, SMT
  <2> HIDE DEF A, B, T
  <2> QED BY <1>8, <2>1, WrappingDistance
<1> QED BY <1>9, <1>10, <1>11 DEF d

\* Its estimate is accurate.
LEMMA QuietEstimate ==
  ASSUME NEW T \in Nat, NEW e \in Nat,
         CALIBRATION_TIME_NS <= e,
         T <= Rate * e + MaxSkew,
         Rate * e <= T + MaxSkew + Rate * QuietGap,
         T * NanosPerSecond < WordMod
  PROVE  Accurate(saturate((T * NanosPerSecond) \div e))
<1> DEFINE P == T * NanosPerSecond
           f == P \div e
<1>1. P \in Nat /\ e \in Nat \ {0}
  BY Naturals, SMT
<1>2. f \in Nat /\ f * e <= P /\ P < f * e + e
  BY <1>1, DivBounds
<1>3. Rate * e \in Nat /\ Rate * QuietGap \in Nat
  BY Naturals, SMT
<1>4. P <= hz * e + above
  <2>1. T * NanosPerSecond <= (Rate * e + MaxSkew) * NanosPerSecond
    BY <1>3, MulMono, Naturals, SMT
  <2>2. (Rate * e + MaxSkew) * NanosPerSecond = hz * e + above
    BY <1>3, Naturals, SMT DEF hz, above
  <2> QED BY <2>1, <2>2
<1>5. hz * e <= P + below
  <2>1. (Rate * e) * NanosPerSecond <= (T + (MaxSkew + Rate * QuietGap)) * NanosPerSecond
    BY <1>3, MulMono, Naturals, SMT
  <2>2. (T + (MaxSkew + Rate * QuietGap)) * NanosPerSecond = P + below
    BY <1>3, Naturals, SMT DEF below
  <2>3. (Rate * e) * NanosPerSecond = hz * e
    BY <1>3, Naturals, SMT DEF hz
  <2> QED BY <2>1, <2>2, <2>3
<1>6. hz \in Nat /\ above \in Nat /\ below \in Nat
  BY Naturals
<1>7. saturate(f) = f
  <2>1. f <= f * e
    <3> HIDE DEF f
    <3> QED BY <1>1, <1>2, SMT
  <2>2. P < WordMod
    OBVIOUS
  <2> HIDE DEF f, P
  <2>3. f * e \in Nat
    BY <1>1, <1>2, SMT
  <2> QED BY <1>1, <1>2, <2>1, <2>2, <2>3, Naturals, SMT DEF saturate
<1> HIDE DEF P, f
<1>8. f * e <= hz * e + above /\ hz * e < (f + 1) * e + below
  <2>1. (f + 1) * e = f * e + e
    BY <1>1, <1>2, SMT
  <2>2. f * e \in Nat /\ hz * e \in Nat
    BY <1>1, <1>2, <1>6, SMT
  <2> QED BY <1>1, <1>2, <1>4, <1>5, <1>6, <2>1, <2>2, SMT
<1>9. /\ f * CALIBRATION_TIME_NS <= hz * CALIBRATION_TIME_NS + above
      /\ hz * CALIBRATION_TIME_NS < (f + 1) * CALIBRATION_TIME_NS + below
  BY <1>1, <1>2, <1>6, <1>8, ShorterWindow, Naturals
<1> QED BY <1>7, <1>9 DEF Accurate, f, P

----------------------------------------------------------------------------
(* The inductive invariant *)

\* The invariant holds when the call begins.
LEMMA InitInv == Init => IInv
<1> SUFFICES ASSUME Init PROVE IInv
  OBVIOUS
<1>1. 0 \in Word
  BY WidthAssumption, SMT DEF Word
<1>2. 1 \in Samples
  BY CalibrationAssumption, SMT DEF Samples
<1>3. TypeOK
  BY <1>1, CalibrationAssumption, SMT DEF Init, TypeOK
<1>4. SampleOK
  BY <1>2 DEF Init, SampleOK
<1>5. QuietSampleAccurate
  BY SMT DEF Init, QuietSampleAccurate, Samples
<1>6. ResultOK
  BY DEF Init, ResultOK
<1> QED BY <1>3, <1>4, <1>5, <1>6 DEF IInv

\* Every step preserves it.
LEMMA NextInv == IInv /\ [Next]_vars => IInv'
<1> SUFFICES ASSUME IInv, [Next]_vars PROVE IInv'
  OBVIOUS
<1>0. /\ wall \in Nat /\ wall_start \in Nat /\ lead \in Nat /\ last \in Nat /\ k \in Nat
      /\ TypeOK /\ SampleOK /\ QuietSampleAccurate /\ ResultOK
  BY Naturals, SMT DEF IInv, TypeOK
<1>1. CASE Advance
  <2>1. /\ UNCHANGED <<pc, k, wall_start, t0, t1, estimates, result, lead, last, gap>>
        /\ wall' = wall + 1 /\ wall - wall_start < MaxSample
        /\ pc \in {"t0", "spin", "t1", "wall_end"}
    BY <1>1 DEF Advance
  <2>2. TypeOK'
    BY <1>0, <2>1, SMT DEF TypeOK
  <2>3. SampleOK'
    <3>1. /\ wall_start <= wall /\ wall_start <= wall'
          /\ wall' - wall_start <= MaxSample
          /\ wall - wall_start >= CALIBRATION_TIME_NS => wall' - wall_start >= CALIBRATION_TIME_NS
          /\ wall_start + lead <= wall => wall_start + lead <= wall'
          /\ last <= wall => last <= wall'
      BY <1>0, <2>1, Naturals, SMT DEF SampleOK
    <3> QED BY <1>0, <2>1, <3>1 DEF SampleOK
  <2>4. QuietSampleAccurate' /\ ResultOK'
    BY <1>0, <2>1 DEF QuietSampleAccurate, ResultOK, Accurate, IsMedian
  <2> QED BY <2>2, <2>3, <2>4 DEF IInv
<1>2. CASE ReadWallStart
  <2>1. /\ UNCHANGED <<wall, k, t0, t1, estimates, result, lead, last, gap>>
        /\ wall_start' = wall /\ pc = "wall_start" /\ pc' = "t0"
    BY <1>2 DEF ReadWallStart
  <2>2. TypeOK'
    BY <1>0, <2>1 DEF TypeOK
  <2>3. SampleOK'
    BY <1>0, <2>1, Naturals, SMT DEF SampleOK
  <2>4. QuietSampleAccurate' /\ ResultOK'
    BY <1>0, <2>1 DEF QuietSampleAccurate, ResultOK, Accurate, IsMedian
  <2> QED BY <2>2, <2>3, <2>4 DEF IInv
<1>3. CASE ReadT0
  <2>1. PICK s \in 0 .. MaxSkew : t0' = (Boot + Rate * wall + s) % WordMod
    BY <1>3 DEF ReadT0, ticks
  <2>2. /\ UNCHANGED <<wall, k, wall_start, t1, estimates, result, last, gap>>
        /\ lead' = wall - wall_start /\ pc = "t0" /\ pc' = "spin"
    BY <1>3 DEF ReadT0
  <2>3. wall_start <= wall /\ lead' \in Nat /\ wall_start + lead' = wall
    BY <1>0, <2>2, SMT DEF SampleOK
  <2>4. t0' \in Word
    <3>1. Boot + Rate * wall + s \in Nat
      BY <1>0, Naturals, SMT
    <3> QED BY <2>1, <3>1, CounterType
  <2>5. TypeOK'
    BY <1>0, <2>2, <2>3, <2>4 DEF TypeOK
  <2>6. SampleOK'
    <3>1. t0' = (Boot + Rate * (wall_start' + lead') + s) % WordMod
      BY <2>1, <2>2, <2>3
    <3> QED BY <1>0, <2>2, <2>3, <3>1, SMT DEF SampleOK
  <2>7. QuietSampleAccurate' /\ ResultOK'
    BY <1>0, <2>2 DEF QuietSampleAccurate, ResultOK, Accurate, IsMedian
  <2> QED BY <2>5, <2>6, <2>7 DEF IInv
<1>4. CASE SpinEnds
  <2>1. /\ UNCHANGED <<wall, k, wall_start, t0, t1, estimates, result, lead, last, gap>>
        /\ wall - wall_start >= CALIBRATION_TIME_NS /\ pc = "spin" /\ pc' = "t1"
    BY <1>4 DEF SpinEnds
  <2>2. TypeOK' /\ SampleOK'
    BY <1>0, <2>1 DEF TypeOK, SampleOK
  <2>3. QuietSampleAccurate' /\ ResultOK'
    BY <1>0, <2>1 DEF QuietSampleAccurate, ResultOK, Accurate, IsMedian
  <2> QED BY <2>2, <2>3 DEF IInv
<1>5. CASE ReadT1
  <2>1. PICK s \in 0 .. MaxSkew : t1' = (Boot + Rate * wall + s) % WordMod
    BY <1>5 DEF ReadT1, ticks
  <2>2. /\ UNCHANGED <<wall, k, wall_start, t0, estimates, result, lead, gap>>
        /\ last' = wall /\ pc = "t1" /\ pc' = "wall_end"
    BY <1>5 DEF ReadT1
  <2>3. t1' \in Word
    <3>1. Boot + Rate * wall + s \in Nat
      BY <1>0, Naturals, SMT
    <3> QED BY <2>1, <3>1, CounterType
  <2>4. TypeOK'
    BY <1>0, <2>2, <2>3 DEF TypeOK
  <2>5. SampleOK'
    <3>1. t1' = (Boot + Rate * last' + s) % WordMod
      BY <2>1, <2>2
    <3> QED BY <1>0, <2>2, <3>1, SMT DEF SampleOK
  <2>6. QuietSampleAccurate' /\ ResultOK'
    BY <1>0, <2>2 DEF QuietSampleAccurate, ResultOK, Accurate, IsMedian
  <2> QED BY <2>4, <2>5, <2>6 DEF IInv
<1>6. CASE EndSample
  <2> DEFINE e == wall - wall_start
             g == lead + (wall - last)
             T == wrapping_sub(t1, t0)
  <2>1. /\ UNCHANGED <<wall, wall_start, t0, t1, result, lead, last>>
        /\ pc = "wall_end" /\ k' = k + 1
        /\ pc' = (IF k = NUM_SAMPLES THEN "sort" ELSE "wall_start")
        /\ estimates' = [estimates EXCEPT ![k] = estimate(e)]
        /\ gap' = [gap EXCEPT ![k] = g]
    BY <1>6 DEF EndSample
  <2>2. /\ k \in Samples /\ wall_start <= wall /\ wall_start + lead <= last /\ last <= wall
        /\ CALIBRATION_TIME_NS <= e /\ e <= MaxSample /\ e \in Nat /\ e # 0 /\ g \in Nat /\ g <= e
    BY <1>0, <2>1, Naturals, SMT DEF SampleOK
  <2>3. estimate(e) = saturate((T * NanosPerSecond) \div e)
    BY <2>2 DEF estimate
  <2>4. estimate(e) \in Word
    <3>1. T \in Nat
      <4>1. t1 - t0 + WordMod \in Nat
        BY <1>0, Naturals, SMT DEF TypeOK, Word
      <4>2. T \in Word
        BY <4>1, CounterType DEF wrapping_sub
      <4> QED BY <4>2, Naturals, SMT DEF Word
    <3>2. T * NanosPerSecond \in Nat
      <4> HIDE DEF T
      <4> QED BY <3>1, Naturals, SMT
    <3>3. (T * NanosPerSecond) \div e \in Nat
      BY <2>2, <3>2, DivBounds
    <3> QED BY <2>3, <3>3, SaturateType
  <2>5. g <= QuietGap => Accurate(estimate(e))
    <3> SUFFICES ASSUME g <= QuietGap PROVE Accurate(estimate(e))
      OBVIOUS
    <3>1. PICK s \in 0 .. MaxSkew : t0 = (Boot + Rate * (wall_start + lead) + s) % WordMod
      BY <1>0, <2>1 DEF SampleOK
    <3>2. PICK u \in 0 .. MaxSkew : t1 = (Boot + Rate * last + u) % WordMod
      BY <1>0, <2>1 DEF SampleOK
    <3>3. wall_start + lead \in Nat /\ last = (wall_start + lead) + (e - g)
      BY <1>0, <2>2, SMT
    <3> HIDE DEF e, g
    <3>4. /\ T \in Nat
          /\ T <= Rate * e + MaxSkew
          /\ Rate * e <= T + MaxSkew + Rate * QuietGap
          /\ T * NanosPerSecond < WordMod
      BY <1>0, <2>2, <3>1, <3>2, <3>3, QuietTicks
    <3> HIDE DEF T
    <3> QED BY <2>2, <2>3, <3>4, QuietEstimate
  <2> HIDE DEF e, g
  <2>6. /\ estimates' \in [Samples -> Word] /\ gap' \in [Samples -> Nat]
        /\ estimates'[k] = estimate(e) /\ gap'[k] = g
        /\ \A i \in Samples : i # k => estimates'[i] = estimates[i] /\ gap'[i] = gap[i]
    BY <1>0, <2>1, <2>2, <2>4 DEF TypeOK
  <2>7. TypeOK'
    <3>1. k' \in 1 .. (NUM_SAMPLES + 1)
      BY <2>1, <2>2, Naturals, SMT DEF Samples
    <3> QED BY <1>0, <2>1, <2>6, <3>1 DEF TypeOK
  <2>8. SampleOK'
    BY <2>1, <2>2, Naturals, SMT DEF SampleOK, Samples
  <2>9. QuietSampleAccurate'
    <3> SUFFICES ASSUME NEW i \in Samples, i < k', gap'[i] <= QuietGap
                 PROVE  Accurate(estimates'[i])
      BY DEF QuietSampleAccurate, Accurate
    <3>1. CASE i = k
      BY <2>5, <2>6, <3>1
    <3>2. CASE i # k
      <4>1. i < k
        BY <1>0, <2>1, <3>2, SMT DEF Samples
      <4> QED BY <1>0, <2>6, <3>2, <4>1 DEF QuietSampleAccurate
    <3> QED BY <3>1, <3>2
  <2>10. ResultOK'
    BY <2>1, <2>2, Naturals, SMT DEF ResultOK, Samples
  <2> QED BY <2>7, <2>8, <2>9, <2>10 DEF IInv
<1>7. CASE Sort
  <2>1. PICK i \in Samples : IsMedian(estimates[i]) /\ result' = estimates[i]
    BY <1>7 DEF Sort
  <2>2. /\ UNCHANGED <<wall, k, wall_start, t0, t1, estimates, lead, last, gap>>
        /\ pc = "sort" /\ pc' = "done"
    BY <1>7 DEF Sort
  <2>3. result' \in Word /\ result' \in Nat
    <3>1. result' \in Word
      BY <1>0, <2>1 DEF TypeOK
    <3> QED BY <3>1, Naturals, SMT DEF Word
  <2>4. TypeOK' /\ SampleOK' /\ QuietSampleAccurate'
    BY <1>0, <2>2, <2>3 DEF TypeOK, SampleOK, QuietSampleAccurate, Accurate
  <2>5. ResultOK'
    BY <1>0, <2>1, <2>2, <2>3 DEF ResultOK, IsMedian
  <2> QED BY <2>4, <2>5 DEF IInv
<1>8. CASE UNCHANGED vars
  BY <1>0, <1>8 DEF vars, IInv, TypeOK, SampleOK, QuietSampleAccurate, ResultOK, Accurate, IsMedian
<1> QED BY <1>1, <1>2, <1>3, <1>4, <1>5, <1>6, <1>7, <1>8 DEF Next, Program

\* The inductive invariant holds throughout every behaviour.
LEMMA Invariance == Spec => []IInv
BY InitInv, NextInv, PTL DEF Spec

----------------------------------------------------------------------------
(* The median *)

\* A set of more than half of the samples contains a quiet one, if at most
\* half of them (rounded down) are not.
LEMMA QuietMember ==
  ASSUME NEW M \in SUBSET Samples, NEW Bad \in SUBSET Samples,
         Cardinality(Bad) <= NUM_SAMPLES \div 2,
         NUM_SAMPLES \div 2 < Cardinality(M)
  PROVE  \E i \in M : i \notin Bad
<1> SUFFICES ASSUME M \subseteq Bad PROVE FALSE
  OBVIOUS
<1>1. IsFiniteSet(Samples)
  BY FS_Interval, Naturals, SMT DEF Samples
<1>2. IsFiniteSet(Bad) /\ Cardinality(Bad) \in Nat
  BY <1>1, FS_Subset, FS_CardinalityType
<1>3. Cardinality(M) <= Cardinality(Bad)
  BY <1>2, FS_Subset
<1>4. Cardinality(M) \in Nat
  BY <1>1, FS_Subset, FS_CardinalityType
<1>5. NUM_SAMPLES \div 2 \in Nat
  BY Naturals, SMT
<1> QED BY <1>2, <1>3, <1>4, <1>5, SMT

\* Between two accurate estimates lie only accurate frequencies.
LEMMA AccurateBetween ==
  ASSUME NEW a \in Nat, NEW b \in Nat, NEW v \in Nat,
         Accurate(a), Accurate(b), a <= v, v <= b
  PROVE  Accurate(v)
<1> DEFINE c == CALIBRATION_TIME_NS
<1>1. c \in Nat /\ hz \in Nat /\ above \in Nat /\ below \in Nat
  BY Naturals
<1>2. b * c <= hz * c + above /\ hz * c < (a + 1) * c + below
  BY DEF Accurate
<1> HIDE DEF c
<1>3. v * c <= b * c /\ (a + 1) * c <= (v + 1) * c
  BY <1>1, MulMono, SMT
<1>4. /\ v * c \in Nat /\ b * c \in Nat /\ hz * c \in Nat
      /\ (a + 1) * c \in Nat /\ (v + 1) * c \in Nat
  BY <1>1, SMT
<1>5. v * c <= hz * c + above /\ hz * c < (v + 1) * c + below
  BY <1>1, <1>2, <1>3, <1>4, SMT
<1> QED BY <1>5 DEF Accurate, c

\* The rank of the median pins it between two quiet samples.
LEMMA MedianIsAccurate == IInv => MedianAccurate
<1> DEFINE Bad == {i \in Samples : gap[i] > QuietGap}
           r   == NUM_SAMPLES \div 2
           Low == {i \in Samples : estimates[i] <= result}
           Below == {i \in Samples : estimates[i] < result}
           High  == Samples \ Below
<1> SUFFICES ASSUME IInv, pc = "done", Cardinality(Bad) <= r
             PROVE  Accurate(result)
  BY DEF MedianAccurate, MostlyQuiet
<1>1. /\ result \in Nat /\ k = NUM_SAMPLES + 1
      /\ Cardinality(Below) <= r /\ r < Cardinality(Low)
  BY DEF IInv, ResultOK, IsMedian
<1>2. \A i \in Samples : estimates[i] \in Nat /\ gap[i] \in Nat
  BY Naturals, SMT DEF IInv, TypeOK, Word
<1>3. ASSUME NEW i \in Samples, i \notin Bad PROVE Accurate(estimates[i])
  <2>1. i < k /\ gap[i] <= QuietGap
    BY <1>1, <1>2, <1>3, Naturals, SMT DEF Samples
  <2> QED BY <2>1 DEF IInv, QuietSampleAccurate
<1>4. r < Cardinality(High)
  <2>1. IsFiniteSet(Samples) /\ Cardinality(Samples) = NUM_SAMPLES
    BY FS_Interval, CalibrationAssumption, SMT DEF Samples
  <2>2. Cardinality(High) = NUM_SAMPLES - Cardinality(Samples \cap Below)
    BY <2>1, FS_Difference
  <2>3. Cardinality(High) = NUM_SAMPLES - Cardinality(Below)
    <3>1. Samples \cap Below = Below
      OBVIOUS
    <3> QED BY <2>2, <3>1
  <2>4. Cardinality(Below) \in Nat
    BY <2>1, FS_Subset, FS_CardinalityType
  <2>5. r \in Nat /\ NUM_SAMPLES = 2 * r + 1
    BY CalibrationAssumption, SMT
  <2>6. Cardinality(Below) <= r
    BY <1>1
  <2> HIDE DEF Below, High, r
  <2> QED BY <2>3, <2>4, <2>5, <2>6, SMT
<1>5. PICK i \in Low : i \notin Bad
  BY <1>1, QuietMember
<1>6. PICK j \in High : j \notin Bad
  BY <1>4, QuietMember
<1>7. estimates[i] <= result /\ result <= estimates[j]
  BY <1>1, <1>2, <1>5, <1>6, SMT
<1>8. Accurate(estimates[i]) /\ Accurate(estimates[j])
  BY <1>3, <1>5, <1>6
<1> QED BY <1>1, <1>2, <1>5, <1>6, <1>7, <1>8, AccurateBetween

----------------------------------------------------------------------------
(* The scale *)

\* An accurate frequency is positive and at most 10^9 << 32 Hz.
LEMMA AccurateRange ==
  ASSUME NEW f \in Nat, Accurate(f)
  PROVE  f \in 1 .. NANOS_PER_SECOND_Q32
<1> DEFINE c == CALIBRATION_TIME_NS
           N == NANOS_PER_SECOND_Q32
           S == NanosPerSecond
           slack == MaxSkew + Rate * QuietGap
<1>1. c \in Nat \ {0} /\ S \in Nat \ {0} /\ hz \in Nat /\ above \in Nat /\ below \in Nat
      /\ Rate \in Nat /\ MaxSkew \in Nat /\ QuietGap \in Nat /\ QOne \in Nat /\ c <= S
  BY Naturals, CalibrationAssumption, WidthAssumption, SMT
<1>2. slack \in Nat /\ Rate * c \in Nat /\ QOne * c \in Nat /\ N \in Nat
  BY <1>1, SMT DEF NANOS_PER_SECOND_Q32
<1>3. slack + 1 <= Rate * c /\ Rate * c + MaxSkew <= QOne * c
  BY <1>2, CalibrationAssumption, SMT
<1>4. f * c <= hz * c + above /\ hz * c < (f + 1) * c + below
  BY DEF Accurate
<1> HIDE DEF slack, c, S
<1>5. f # 0
  <2>1. (slack + 1) * S <= (Rate * c) * S
    BY <1>1, <1>2, <1>3, MulMono
  <2>2. (Rate * c) * S = hz * c
    BY <1>1, SMT DEF hz, S
  <2>3. (slack + 1) * S = below + S
    BY <1>1, <1>2, SMT DEF below, slack, S
  <2>4. hz * c \in Nat
    BY <1>1, SMT
  <2>5. below + S < (f + 1) * c + below
    BY <1>1, <1>4, <2>1, <2>2, <2>3, <2>4, SMT
  <2>6. f = 0 => (f + 1) * c = c
    BY <1>1, SMT
  <2> QED BY <1>1, <2>5, <2>6, SMT
<1>6. f <= N
  <2>1. (Rate * c + MaxSkew) * S <= (QOne * c) * S
    BY <1>1, <1>2, <1>3, MulMono
  <2>2. (Rate * c + MaxSkew) * S = hz * c + above
    BY <1>1, <1>2, SMT DEF hz, above, S
  <2>3. (QOne * c) * S = N * c
    BY <1>1, SMT DEF NANOS_PER_SECOND_Q32, S
  <2> HIDE DEF N
  <2>4. f * c <= N * c /\ f * c \in Nat /\ N * c \in Nat
    BY <1>1, <1>2, <1>4, <2>1, <2>2, <2>3, SMT
  <2>5. f * c < (N + 1) * c
    BY <1>1, <1>2, <2>4, SMT
  <2>6. f < N + 1
    BY <1>1, <1>2, <2>5, MulStrict
  <2> QED BY <1>2, <2>6, SMT
<1> QED BY <1>2, <1>5, <1>6, SMT

\* Its reciprocal is off by as much, and by the rounding of the division.
LEMMA ReciprocalBounds ==
  ASSUME NEW f \in Nat, NEW q \in Nat, NEW N \in Nat, NEW c \in Nat, NEW h \in Nat,
         NEW over \in Nat, NEW under \in Nat, 0 < c,
         q * f <= N, N < q * f + f,
         f * c <= h * c + over, h * c < (f + 1) * c + under
  PROVE  /\ N * c < (q + 1) * (h * c + over)
         /\ q * (h * c) <= N * c + q * (c + under)
<1>1. h * c \in Nat /\ f * c \in Nat /\ q * f \in Nat
  BY SMT
<1>2. N * c < (q + 1) * (h * c + over)
  <2>1. N + 1 <= (q + 1) * f /\ (q + 1) * f \in Nat
    BY <1>1, SMT
  <2>2. (N + 1) * c <= ((q + 1) * f) * c
    BY <2>1, MulMono, SMT
  <2>3. (N + 1) * c = N * c + c /\ N * c \in Nat
    BY SMT
  <2>4. ((q + 1) * f) * c = (f * c) * (q + 1)
    BY SMT
  <2>5. (f * c) * (q + 1) <= (h * c + over) * (q + 1)
    BY <1>1, MulMono, SMT
  <2>6. (h * c + over) * (q + 1) = (q + 1) * (h * c + over) /\ (h * c + over) * (q + 1) \in Nat
    BY <1>1, SMT
  <2>7. (f * c) * (q + 1) \in Nat
    BY <1>1, SMT
  <2> QED BY <2>2, <2>3, <2>4, <2>5, <2>6, <2>7, SMT
<1>3. q * (h * c) <= N * c + q * (c + under)
  <2> DEFINE d == c + under
  <2>1. d \in Nat /\ h * c <= f * c + d
    BY <1>1, SMT
  <2> HIDE DEF d
  <2>2. (h * c) * q <= (f * c + d) * q
    BY <1>1, <2>1, MulMono, SMT
  <2>3. (f * c + d) * q = (q * f) * c + q * d
    BY <1>1, <2>1, SMT
  <2>4. (q * f) * c <= N * c
    BY <1>1, MulMono
  <2>5. (h * c) * q = q * (h * c) /\ q * (h * c) \in Nat /\ (q * f) * c \in Nat
        /\ N * c \in Nat /\ q * d \in Nat
    BY <1>1, <2>1, SMT
  <2>6. q * (h * c) <= N * c + q * d
    BY <2>2, <2>3, <2>4, <2>5, SMT
  <2> QED BY <2>6 DEF d
<1> QED BY <1>2, <1>3

\* So the scale of an accurate frequency is accurate.
LEMMA ScaleIsAccurate == IInv => ScaleAccurate
<1> SUFFICES ASSUME IInv, pc = "done", MostlyQuiet PROVE ScaleAccurate
  BY DEF ScaleAccurate
<1> DEFINE c == CALIBRATION_TIME_NS
           N == NANOS_PER_SECOND_Q32
           q == scale_of(result)
<1>1. result \in Nat /\ Accurate(result)
  BY MedianIsAccurate DEF IInv, ResultOK, MedianAccurate
<1>2. result \in 1 .. N
  BY <1>1, AccurateRange
<1>3. q \in Word \ {0}
  BY <1>2, ScaleIsNotTheSentinel
<1>4. N \in Nat
  BY WidthAssumption, SMT DEF NANOS_PER_SECOND_Q32
<1>5. result \in Nat \ {0} /\ q \in Nat \ {0}
  BY <1>2, <1>3, <1>4, Naturals, SMT DEF Word
<1>6. q = N \div result
  BY <1>5, ScaleNeverSaturates
<1>7. q * result <= N /\ N < q * result + result
  BY <1>4, <1>5, <1>6, DivBounds
<1>8. result * c <= hz * c + above /\ hz * c < (result + 1) * c + below
  BY <1>1 DEF Accurate
<1> HIDE DEF c, N, q
<1>9. c \in Nat /\ 0 < c /\ hz \in Nat /\ above \in Nat /\ below \in Nat
  BY Naturals DEF c
<1>10. N * c < (q + 1) * (hz * c + above) /\ q * (hz * c) <= N * c + q * (c + below)
  BY <1>4, <1>5, <1>7, <1>8, <1>9, ReciprocalBounds
<1> QED BY <1>5, <1>10 DEF ScaleAccurate, c, N, q

----------------------------------------------------------------------------
(* The theorems *)

\* Every intermediate value of the calibration has its type.
THEOREM TypeCorrect == Spec => []TypeOK
<1>1. IInv => TypeOK
  BY DEF IInv
<1> QED BY <1>1, Invariance, PTL

\* A sample whose reads were not pulled apart is accurate.
THEOREM QuietSamples == Spec => []QuietSampleAccurate
<1>1. IInv => QuietSampleAccurate
  BY DEF IInv
<1> QED BY <1>1, Invariance, PTL

\* A minority of disturbed samples, however wrong, does not spoil the result.
THEOREM MedianRobust == Spec => []MedianAccurate
BY MedianIsAccurate, Invariance, PTL

\* Nor does it make the published scale empty, undefined or inaccurate.
THEOREM ScaleRobust == Spec => []ScaleAccurate
BY ScaleIsAccurate, Invariance, PTL
==============================================================================
