------------------------- MODULE OrderedReadProofs -------------------------
(***************************************************************************)
(* What the barrier of OrderedInstant buys, for any number of publishers,  *)
(* any width, scale and skew.                                              *)
(***************************************************************************)
EXTENDS OrderedRead, Q32Proofs

\* A stamp is what its thread's counter showed at its time, moved by shift.
StampOK(s) ==
  /\ s \in Stamps
  /\ s.ticks = ((boot + s.at + lead[s.by]) % WordMod) + s.shift
  /\ s.at <= time

\* The types of the variables.
Variables ==
  /\ arch \in Archs /\ holds \in BOOLEAN
  /\ boot \in Word /\ lead \in [Threads -> 0 .. MaxSkew] /\ time \in 0 .. MaxTime
  /\ own \in [Publishers -> Stamps \cup {None}]
  /\ {shared, loaded, sampled} \subseteq Stamps \cup {None}
  /\ call \in Call \cup {None}
  /\ executed \subseteq {"load", "barrier", "counter"}
  /\ call = None => executed = {}
  /\ observed \in 0 .. time

StampsOK ==
  /\ \A p \in Publishers : own[p] # None => StampOK(own[p])
  /\ shared # None => StampOK(shared)
  /\ loaded # None => StampOK(loaded)
  /\ "counter" \in executed => StampOK(sampled) /\ sampled.by = Observer /\ sampled.shift = 0

\* The barrier holds the counter read of the call under way back.
HeldBack == call # None /\ barrier # "none" /\ holds

\* The order the barrier enforces, and what it means for the two stamps.
OrderOK ==
  /\ "barrier" \in executed => "load" \in executed
  /\ (HeldBack /\ "counter" \in executed) => "barrier" \in executed
  /\ loaded # None => loaded.at <= observed
  /\ (HeldBack /\ "counter" \in executed) => observed <= sampled.at

\* The inductive invariant.
IInv == Variables /\ StampsOK /\ OrderOK

----------------------------------------------------------------------------

\* A fresh counter read is a correct stamp.
LEMMA FreshStamp ==
  ASSUME Variables, NEW t \in Threads
  PROVE  /\ StampOK(Stamp(t)) /\ Stamp(t).by = t
         /\ Stamp(t).at = time /\ Stamp(t).shift = 0
<1>1. boot + time + lead[t] \in Nat /\ time \in 0 .. MaxTime
  BY WidthAssumption, OrderedAssumption, SMT DEF Variables, Word
<1>2. (boot + time + lead[t]) % WordMod \in Word
  BY <1>1, CounterType
<1>3. 0 \in -MaxShift .. MaxShift
  BY OrderedAssumption, SMT
<1>4. ((boot + time + lead[t]) % WordMod) + 0 = (boot + time + lead[t]) % WordMod
  BY <1>2, WidthAssumption, SMT DEF Word
<1> QED BY <1>1, <1>2, <1>3, <1>4 DEF Stamp, StampOK, Stamps

\* A stamp moved by a conversion of a duration stays a correct stamp.
LEMMA MovedStamp ==
  ASSUME IInv, NEW p \in Publishers, own[p] # None, NEW value, NEW delta \in Int,
         Move(p, value, delta), value = own[p].ticks + delta, value \in Word
  PROVE  IInv'
<1> DEFINE s == [ticks |-> value, at |-> own[p].at, by |-> own[p].by,
                 shift |-> own[p].shift + delta]
<1>1. StampOK(own[p])
  BY DEF IInv, StampsOK
<1>2. s.shift \in -MaxShift .. MaxShift /\ s \in Stamps
  BY <1>1 DEF Move, StampOK, Stamps
<1>3. own' = [own EXCEPT ![p] = s]
  BY DEF Move
<1>4. StampOK(s)
  <2>1. /\ s.ticks = own[p].ticks + delta /\ s.shift = own[p].shift + delta
        /\ s.at = own[p].at /\ s.by = own[p].by
    BY <1>1 DEF StampOK, Stamps
  <2>2. /\ boot + own[p].at + lead[own[p].by] \in Nat /\ own[p].shift \in Int
    BY <1>1, WidthAssumption, OrderedAssumption, SMT
       DEF IInv, Variables, StampOK, Stamps, Word
  <2>3. (boot + own[p].at + lead[own[p].by]) % WordMod \in Int
    BY <2>2, CounterType, WidthAssumption, SMT DEF Word
  <2> DEFINE m == (boot + own[p].at + lead[own[p].by]) % WordMod
  <2>4. own[p].ticks = m + own[p].shift /\ own[p].at <= time
    BY <1>1 DEF StampOK
  <2>5. s.ticks = m + s.shift
    <3> HIDE DEF m, s
    <3>1. m \in Int
      BY <2>3 DEF m
    <3> QED BY <2>1, <2>2, <2>4, <3>1, SMT
  <2> QED BY <1>2, <2>1, <2>4, <2>5 DEF StampOK
<1> HIDE DEF s
<1>5. Variables'
  BY <1>2, <1>3 DEF Move, IInv, Variables
<1>6. \A r \in Publishers : own'[r] = own[r] \/ own'[r] = s
  BY <1>3 DEF IInv, Variables
<1>7. StampsOK'
  BY <1>4, <1>6 DEF Move, IInv, StampsOK, StampOK
<1>8. OrderOK'
  BY DEF Move, IInv, OrderOK, HeldBack, barrier, ticks_ordered, ticks
<1> QED BY <1>5, <1>7, <1>8 DEF IInv

\* Every ordered read has a barrier, whatever the architecture.
LEMMA OrderedHasBarrier == ticks_ordered # "none"
BY DEF ticks_ordered, rdtsc_ordered, x86_rdtsc_ordered, cntvct_ordered,
       riscv64_rdtime_ordered, loongarch64_rdtime_ordered, fallback

\* The invariant holds at the start.
LEMMA InitInv == Init => IInv
<1> SUFFICES ASSUME Init PROVE IInv
  OBVIOUS
<1>1. Variables
  BY WidthAssumption, OrderedAssumption, SMT DEF Init, Variables, Word
<1>2. StampsOK /\ OrderOK
  BY DEF Init, StampsOK, OrderOK
<1> QED BY <1>1, <1>2 DEF IInv

\* Every step preserves it.
LEMMA NextInv == IInv /\ [Next]_vars => IInv'
<1> SUFFICES ASSUME IInv, [Next]_vars PROVE IInv'
  OBVIOUS
<1> USE DEF IInv
<1>o. Observer \in Threads /\ \A p \in Publishers : p \in Threads
  BY DEF Threads
<1>1. CASE Tick
  <2>1. Variables'
    BY <1>1, OrderedAssumption, SMT DEF Tick, Variables
  <2>2. StampsOK'
    BY <1>1, OrderedAssumption, SMT DEF Tick, Variables, StampsOK, StampOK, Stamps
  <2>3. OrderOK'
    BY <1>1 DEF Tick, OrderOK, HeldBack, barrier, ticks_ordered, ticks
  <2> QED BY <2>1, <2>2, <2>3
<1>2. ASSUME NEW p \in Publishers, Sample(p) PROVE IInv'
  <2>1. StampOK(Stamp(p)) /\ Stamp(p) \in Stamps
    BY <1>o, FreshStamp DEF StampOK
  <2>2. Variables'
    BY <1>2, <2>1 DEF Sample, Variables
  <2>3. \A r \in Publishers : own'[r] = own[r] \/ own'[r] = Stamp(p)
    BY <1>2 DEF Sample, Variables
  <2>4. StampsOK'
    BY <1>2, <2>1, <2>3 DEF Sample, StampsOK, StampOK
  <2>5. OrderOK'
    BY <1>2 DEF Sample, OrderOK, HeldBack, barrier, ticks_ordered, ticks
  <2> QED BY <2>2, <2>4, <2>5
<1>3. ASSUME NEW p \in Publishers, Publish(p) PROVE IInv'
  <2>1. Variables'
    BY <1>3 DEF Publish, Variables
  <2>2. \A r \in Publishers : own'[r] = own[r] \/ own'[r] = None
    BY <1>3 DEF Publish, Variables
  <2>3. StampsOK'
    BY <1>3, <2>2 DEF Publish, StampsOK, StampOK
  <2>4. OrderOK'
    BY <1>3 DEF Publish, OrderOK, HeldBack, barrier, ticks_ordered, ticks
  <2> QED BY <2>1, <2>3, <2>4
<1>m. ASSUME NEW p \in Publishers, NEW d \in Durations, AddAssign(p, d) \/ SubAssign(p, d)
      PROVE  IInv'
  <2> DEFINE delta == duration_to_ticks(d, Scale)
             t == own[p].ticks
  <2>1. delta \in Nat \/ delta = None
    BY DurationToTicks, OrderedAssumption
  <2>2. own[p] # None /\ t \in Word
    BY <1>m DEF AddAssign, SubAssign, StampsOK, StampOK, Stamps
  <2>3. CASE AddAssign(p, d)
    <3>1. /\ checked_add(t, d) # None /\ Move(p, checked_add(t, d), delta)
      BY <2>3 DEF AddAssign, Move
    <3>2. delta \in Nat /\ checked_add(t, d) = t + delta /\ t + delta < WordMod
      BY <2>1, <3>1 DEF checked_add, u64_checked_add
    <3>3. t + delta \in Word /\ delta \in Int
      BY <2>2, <3>2, WidthAssumption, SMT DEF Word
    <3> QED BY <2>2, <3>1, <3>2, <3>3, MovedStamp
  <2>4. CASE SubAssign(p, d)
    <3>1. /\ checked_sub(t, d) # None /\ Move(p, checked_sub(t, d), -delta)
      BY <2>4 DEF SubAssign, Move
    <3>2. delta \in Nat /\ checked_sub(t, d) = t - delta /\ t >= delta
      BY <2>1, <3>1 DEF checked_sub, u64_checked_sub
    <3>3. t - delta \in Word /\ -delta \in Int /\ t - delta = t + -delta
      BY <2>2, <3>2, WidthAssumption, SMT DEF Word
    <3> QED BY <2>2, <3>1, <3>2, <3>3, MovedStamp
  <2> QED BY <1>m, <2>3, <2>4
<1>4. ASSUME NEW c \in Call, Begin(c) PROVE IInv'
  <2>1. executed = {} /\ executed' = {}
    BY <1>4 DEF Begin, Variables
  <2>2. Variables'
    BY <1>4, <2>1 DEF Begin, Variables
  <2>3. StampsOK'
    BY <1>4, <2>1 DEF Begin, StampsOK, StampOK
  <2>4. OrderOK'
    BY <1>4, <2>1 DEF Begin, OrderOK
  <2> QED BY <2>2, <2>3, <2>4
<1>5. CASE Load
  <2>1. Variables'
    BY <1>5 DEF Load, Variables
  <2>2. StampsOK'
    BY <1>5 DEF Load, StampsOK, StampOK
  <2>3. HeldBack' => HeldBack
    BY <1>5 DEF Load, HeldBack, barrier, ticks_ordered, ticks
  <2>o. loaded' # None => loaded'.at <= observed'
    BY <1>5 DEF Load, StampsOK, StampOK
  <2>4. OrderOK'
    BY <1>5, <2>3, <2>o DEF Load, OrderOK
  <2> QED BY <2>1, <2>2, <2>4
<1>6. CASE Barrier
  <2>1. Variables'
    BY <1>6 DEF Barrier, Variables
  <2>2. StampsOK'
    BY <1>6 DEF Barrier, StampsOK, StampOK
  <2>3. HeldBack' => HeldBack
    BY <1>6 DEF Barrier, HeldBack, barrier, ticks_ordered, ticks
  <2>4. OrderOK'
    BY <1>6, <2>3 DEF Barrier, OrderOK
  <2> QED BY <2>1, <2>2, <2>4
<1>7. CASE ReadCounter
  <2>1. StampOK(Stamp(Observer)) /\ Stamp(Observer).by = Observer
        /\ Stamp(Observer).at = time /\ Stamp(Observer).shift = 0
    BY <1>o, FreshStamp
  <2>2. Variables'
    BY <1>7, <2>1 DEF ReadCounter, Variables, StampOK
  <2>3. StampsOK'
    BY <1>7, <2>1 DEF ReadCounter, StampsOK, StampOK
  <2>4. HeldBack' => "barrier" \in executed
    BY <1>7 DEF ReadCounter, HeldBack, barrier, ticks_ordered, ticks
  <2>5. observed <= sampled'.at
    <3>1. observed \in 0 .. time /\ time \in 0 .. MaxTime
      BY DEF Variables
    <3>2. observed <= time
      BY <3>1, OrderedAssumption, SMT
    <3> QED BY <1>7, <2>1, <3>2 DEF ReadCounter
  <2>6. OrderOK'
    BY <1>7, <2>4, <2>5 DEF ReadCounter, OrderOK
  <2> QED BY <2>2, <2>3, <2>6
<1>8. CASE Return
  <2>z. 0 \in 0 .. time
    BY OrderedAssumption, SMT DEF Variables
  <2>1. Variables'
    BY <1>8, <2>z DEF Return, Variables
  <2>2. StampsOK'
    BY <1>8 DEF Return, StampsOK, StampOK
  <2>3. OrderOK'
    BY <1>8 DEF Return, OrderOK
  <2> QED BY <2>1, <2>2, <2>3
<1>9. CASE UNCHANGED vars
  <2>1. Variables' /\ StampsOK'
    BY <1>9 DEF vars, Variables, StampsOK, StampOK
  <2>2. OrderOK'
    BY <1>9 DEF vars, OrderOK, HeldBack, barrier, ticks_ordered, ticks
  <2> QED BY <2>1, <2>2
<1> QED BY <1>1, <1>2, <1>3, <1>4, <1>5, <1>6, <1>7, <1>8, <1>9, <1>m DEF Next

\* Hence it always holds.
LEMMA Invariance == Spec => []IInv
BY InitInv, NextInv, PTL DEF Spec

----------------------------------------------------------------------------
(* What the operations return *)

\* The conversion of an interval, and its monotony.
LEMMA NanosFacts ==
  ASSUME NEW m \in Nat, NEW n \in Nat, m <= n
  PROVE  /\ Nanos(m) \in Nat /\ Nanos(n) \in Nat
         /\ Nanos(m) <= Nanos(n)
<1>1. Scale \in Nat /\ WordMod \in Nat
  BY WidthAssumption, OrderedAssumption, SMT DEF Word
<1>2. m * Scale \in Nat /\ n * Scale \in Nat /\ m * Scale <= n * Scale
  BY <1>1, SMT
<1>3. /\ (m * Scale) \div QOne \in Nat /\ (n * Scale) \div QOne \in Nat
      /\ (m * Scale) \div QOne <= (n * Scale) \div QOne
  BY <1>2, DivMono, DivBounds, WidthAssumption
<1>4. Nanos(m) \in Word /\ Nanos(n) \in Word /\ Nanos(m) <= Nanos(n)
  BY <1>3, SaturateMono, SaturateType DEF Nanos
<1> QED BY <1>1, <1>4, SMT DEF Word

\* elapsed returns a Duration.
LEMMA ElapsedType ==
  ASSUME NEW i \in Word, NEW end \in Word
  PROVE  elapsed(i, end) \in Duration
<1>1. end - i + WordMod \in Nat
  BY WidthAssumption, SMT DEF Word
<1>2. wrapping_sub(end, i) \in Word
  BY <1>1, CounterType DEF wrapping_sub
<1> QED BY <1>2, TicksToDuration, OrderedAssumption DEF elapsed

\* duration_since returns a Duration: the difference, or zero.
LEMMA DurationSinceValue ==
  ASSUME NEW x \in Word, NEW y \in Word
  PROVE  /\ duration_since(x, y) \in Duration
         /\ x >= y => as_nanos(duration_since(x, y)) = Nanos(x - y)
         /\ x < y => as_nanos(duration_since(x, y)) = 0
<1>1. x \in Nat /\ y \in Nat
  BY WidthAssumption, SMT DEF Word
<1>2. CASE x >= y
  <2> DEFINE k == x - y
  <2>1. k \in Word /\ k # None
    BY <1>1, <1>2, WidthAssumption, NoneAssumption, SMT DEF Word
  <2>2. ticks_to_duration(k, Scale) \in Duration
        /\ as_nanos(ticks_to_duration(k, Scale)) = Nanos(k)
    BY <2>1, TicksToDuration, OrderedAssumption DEF Nanos
  <2>3. duration_since(x, y) = unwrap_or_default(ticks_to_duration(k, Scale))
    BY <1>2, <2>1 DEF duration_since, checked_duration_since, u64_checked_sub
  <2>4. duration_since(x, y) = ticks_to_duration(k, Scale)
    BY <2>2, <2>3, NoneAssumption DEF unwrap_or_default
  <2> HIDE DEF k
  <2>5. duration_since(x, y) \in Duration /\ as_nanos(duration_since(x, y)) = Nanos(k)
    BY <2>2, <2>4
  <2>6. ~(x < y)
    BY <1>1, <1>2, SMT
  <2> QED BY <2>5, <2>6 DEF k
<1>3. CASE ~(x >= y)
  <2>1. duration_since(x, y) = Zero
    BY <1>3 DEF duration_since, checked_duration_since, u64_checked_sub, unwrap_or_default
  <2>2. Zero \in Duration /\ as_nanos(Zero) = 0
    BY WidthAssumption, SMT DEF as_nanos, Zero, Duration, Word
  <2> QED BY <1>3, <2>1, <2>2
<1> QED BY <1>2, <1>3

\* The two stamps of a complete measurement.
LEMMA MeasuredStamps ==
  ASSUME IInv, Measured
  PROVE  /\ StampOK(loaded) /\ StampOK(sampled) /\ sampled.by = Observer
         /\ sampled.shift = 0 /\ call \in Call
<1>1. "counter" \in executed
  BY DEF Measured, Complete, Instructions
<1> QED BY <1>1 DEF IInv, StampsOK, Variables, Measured, Complete

\* The invariant implies the type invariant.
LEMMA IsTyped == IInv => TypeOK
<1> SUFFICES ASSUME IInv PROVE TypeOK
  OBVIOUS
<1>1. Measured => outcome \in Duration
  <2> SUFFICES ASSUME Measured PROVE outcome \in Duration
    OBVIOUS
  <2>1. loaded.ticks \in Word /\ sampled.ticks \in Word
    BY MeasuredStamps DEF StampOK, Stamps
  <2> QED BY <2>1, ElapsedType, DurationSinceValue DEF outcome
<1>2. observed \in 0 .. MaxTime
  BY OrderedAssumption, SMT DEF IInv, Variables
<1> QED BY <1>1, <1>2 DEF IInv, Variables, TypeOK

\* The parts of the two stamps of a complete measurement.
LEMMA MeasuredParts ==
  ASSUME IInv, Measured
  PROVE  /\ loaded.at \in Nat /\ sampled.at \in Nat /\ observed \in Nat
         /\ loaded.at <= observed /\ loaded.at <= time /\ sampled.at <= time
         /\ lead[Observer] \in 0 .. MaxSkew /\ lead[loaded.by] \in 0 .. MaxSkew
         /\ boot \in Nat /\ time \in Nat
         /\ loaded.shift \in Int
         /\ loaded.ticks \in Word /\ sampled.ticks \in Word
         /\ loaded.ticks = ((boot + loaded.at + lead[loaded.by]) % WordMod) + loaded.shift
         /\ sampled.ticks = (boot + sampled.at + lead[Observer]) % WordMod
<1>1. StampOK(loaded) /\ StampOK(sampled) /\ sampled.by = Observer /\ sampled.shift = 0
  BY MeasuredStamps
<1>2. loaded.by \in Threads /\ Observer \in Threads
  BY <1>1 DEF StampOK, Stamps, Threads
<1>3. lead[Observer] \in 0 .. MaxSkew /\ lead[loaded.by] \in 0 .. MaxSkew
  BY <1>2 DEF IInv, Variables
<1>4. boot \in Nat /\ time \in Nat /\ observed \in Nat
  BY WidthAssumption, OrderedAssumption, SMT DEF IInv, Variables, Word
<1>5. /\ loaded.at \in 0 .. MaxTime /\ sampled.at \in 0 .. MaxTime
      /\ loaded.shift \in -MaxShift .. MaxShift
      /\ loaded.ticks \in Word /\ sampled.ticks \in Word
  BY <1>1 DEF StampOK, Stamps
<1>6. loaded.at \in Nat /\ sampled.at \in Nat /\ loaded.shift \in Int
  BY <1>5, OrderedAssumption, SMT
<1>7. loaded.at <= observed
  BY DEF IInv, OrderOK, Measured
<1>8. sampled.ticks = (boot + sampled.at + lead[Observer]) % WordMod
  <2>1. boot + sampled.at + lead[Observer] \in Nat
    BY <1>3, <1>4, <1>6, OrderedAssumption, SMT
  <2>2. (boot + sampled.at + lead[Observer]) % WordMod \in Int
    BY <2>1, CounterType, WidthAssumption, SMT DEF Word
  <2> DEFINE m == (boot + sampled.at + lead[Observer]) % WordMod
  <2>3. sampled.ticks = m + 0
    BY <1>1 DEF StampOK
  <2>4. m \in Int
    BY <2>2
  <2> HIDE DEF m
  <2>5. sampled.ticks = m
    BY <2>3, <2>4, SMT
  <2> QED BY <2>5 DEF m
<1> QED BY <1>1, <1>3, <1>4, <1>5, <1>6, <1>7, <1>8 DEF StampOK

\* A counter read that is held back comes after the load.
LEMMA ReadAfterLoad ==
  ASSUME IInv, Measured, call.ordered, holds
  PROVE  observed <= sampled.at
<1>1. HeldBack
  BY OrderedHasBarrier DEF HeldBack, barrier, Measured, Complete
<1>2. "counter" \in executed
  BY DEF Measured, Complete, Instructions
<1> QED BY <1>1, <1>2 DEF IInv, OrderOK

\* What elapsed and elapsed_unordered return, however the reads were ordered:
\* the ticks from the published moment to the read, and those short of a
\* whole word when the read was executed before that moment.
ElapsedAnyOrder ==
  (Measured /\ call.op = "elapsed") =>
     /\ distance \in 0 .. (WordMod - 1) => as_nanos(outcome) = Nanos(distance)
     /\ distance \in -WordMod .. -1 => as_nanos(outcome) = Nanos(distance + WordMod)

\* The invariant ties elapsed to the two stamps.
LEMMA IsDelimited == IInv => ElapsedAnyOrder
<1> SUFFICES ASSUME IInv, Measured, call.op = "elapsed"
             PROVE  /\ distance \in 0 .. (WordMod - 1) => as_nanos(outcome) = Nanos(distance)
                    /\ distance \in -WordMod .. -1 =>
                         as_nanos(outcome) = Nanos(distance + WordMod)
  BY DEF ElapsedAnyOrder
<1> DEFINE a == boot + sampled.at + lead[Observer]
           b == boot + loaded.at + lead[loaded.by]
           k == (b \div WordMod) * WordMod
           m == b % WordMod
           y == loaded.ticks
           c == k + y
           n == distance
<1>1. a \in Nat /\ b \in Nat /\ n \in Int /\ n = a - (b + loaded.shift)
  BY MeasuredParts, OrderedAssumption, SMT DEF distance
<1>2. /\ y \in Word /\ y = m + loaded.shift /\ loaded.shift \in Int
      /\ sampled.ticks = a % WordMod
  BY MeasuredParts
<1>3. k \in Nat /\ m \in Nat /\ b = k + m
  <2>1. b \div WordMod \in Nat
    BY <1>1, DivBounds, WordModPos
  <2>2. m \in 0 .. (WordMod - 1) /\ b = k + m
    BY <1>1, ModBounds, WordModPos
  <2> QED BY <2>1, <2>2, WordModPos, SMT
<1>4. c \in Nat /\ c % WordMod = y
  <2>1. b \div WordMod \in Nat
    BY <1>1, DivBounds, WordModPos
  <2> QED BY <1>2, <2>1, ModOfSum
<1>5. outcome = ticks_to_duration(wrapping_sub((a % WordMod), (c % WordMod)), Scale)
  BY <1>2, <1>4 DEF outcome, elapsed
<1> HIDE DEF a, b, k, m, n, y
<1>6. a - c = n
  <2>1. y \in Int
    BY <1>2, WordModPos, SMT DEF Word
  <2> QED BY <1>1, <1>2, <1>3, <2>1, SMT
<1> HIDE DEF c
<1>7. ASSUME NEW x \in Word, wrapping_sub((a % WordMod), (c % WordMod)) = x
      PROVE  as_nanos(outcome) = Nanos(x)
  BY <1>5, <1>7, TicksToDuration, OrderedAssumption DEF Nanos
<1>8. ASSUME n \in 0 .. (WordMod - 1) PROVE as_nanos(outcome) = Nanos(n)
  <2>1. c <= a /\ a - c < WordMod /\ n \in Word
    BY <1>1, <1>4, <1>6, <1>8, WordModPos, SMT DEF Word
  <2>2. wrapping_sub((a % WordMod), (c % WordMod)) = n
    BY <1>1, <1>4, <1>6, <2>1, WrappingDistance
  <2> QED BY <1>7, <2>1, <2>2
<1>9. ASSUME n \in -WordMod .. -1 PROVE as_nanos(outcome) = Nanos(n + WordMod)
  <2>1. a < c /\ c - a <= WordMod /\ n + WordMod \in Word
    BY <1>1, <1>4, <1>6, <1>9, WordModPos, SMT DEF Word
  <2>2. wrapping_sub((a % WordMod), (c % WordMod)) = n + WordMod
    BY <1>1, <1>4, <1>6, <2>1, WrappingBehind
  <2> QED BY <1>7, <2>1, <2>2
<1> QED BY <1>8, <1>9 DEF n

\* Below a wrap, counter values are the sums they stand for.
LEMMA Unwrapped ==
  ASSUME IInv, Measured, NoWrap
  PROVE  /\ sampled.ticks = boot + sampled.at + lead[Observer]
         /\ loaded.ticks = boot + loaded.at + lead[loaded.by] + loaded.shift
<1>1. /\ boot + sampled.at + lead[Observer] \in Nat
      /\ boot + loaded.at + lead[loaded.by] \in Nat
      /\ boot + sampled.at + lead[Observer] < WordMod
      /\ boot + loaded.at + lead[loaded.by] < WordMod
  BY MeasuredParts, OrderedAssumption, WidthAssumption, SMT DEF NoWrap
<1>2. /\ (boot + sampled.at + lead[Observer]) % WordMod = boot + sampled.at + lead[Observer]
      /\ (boot + loaded.at + lead[loaded.by]) % WordMod = boot + loaded.at + lead[loaded.by]
  BY <1>1, ModSmall
<1> QED BY <1>2, MeasuredParts

\* The invariant implies that a held-back read is exact.
LEMMA IsExact == IInv => OrderedReadExact
<1> SUFFICES ASSUME IInv, Measured, call.ordered, holds,
                    lead[loaded.by] + loaded.shift <= lead[Observer],
                    distance < WordMod,
                    call.op = "now" => NoWrap
             PROVE  /\ loaded.at <= sampled.at
                    /\ as_nanos(outcome) = Nanos(distance)
  BY DEF OrderedReadExact
<1>1. loaded.at <= sampled.at
  BY ReadAfterLoad, MeasuredParts, SMT
<1>2. distance \in 0 .. (WordMod - 1)
  BY <1>1, MeasuredParts, WordModPos, SMT DEF distance
<1>3. CASE call.op = "now"
  <2> DEFINE x == sampled.ticks
             y == loaded.ticks
  <2>1. x \in Word /\ y \in Word /\ x - y = distance
    BY <1>3, MeasuredParts, Unwrapped, OrderedAssumption, SMT DEF distance
  <2>2. x >= y
    BY <1>2, <2>1, WordModPos, SMT DEF Word
  <2>3. outcome = duration_since(x, y)
    BY <1>3 DEF outcome
  <2> HIDE DEF x, y
  <2>4. as_nanos(outcome) = Nanos(x - y)
    BY <2>1, <2>2, <2>3, DurationSinceValue
  <2> QED BY <1>1, <2>1, <2>4
<1>4. CASE call.op = "elapsed"
  BY <1>1, <1>2, <1>4, IsDelimited DEF ElapsedAnyOrder
<1>5. call \in Call
  BY DEF IInv, Variables, Measured, Complete
<1> QED BY <1>3, <1>4, <1>5 DEF Call

\* The invariant implies that a passed deadline is seen.
LEMMA IsSeen == IInv => DeadlineSeen
<1> SUFFICES ASSUME IInv, Measured, call.ordered, holds, NoWrap,
                    boot + observed + lead[Observer] >= loaded.ticks
             PROVE  sampled.ticks >= loaded.ticks
  BY DEF DeadlineSeen
<1>1. sampled.ticks = boot + sampled.at + lead[Observer] /\ observed <= sampled.at
  BY Unwrapped, ReadAfterLoad
<1>2. loaded.ticks \in Nat
  BY MeasuredParts, WidthAssumption, SMT DEF Word
<1> QED BY <1>1, <1>2, MeasuredParts, OrderedAssumption, SMT

\* The invariant bounds duration_since for every order of the reads.
LEMMA IsBounded == IInv => DurationNeverOverstates
<1> DEFINE x == sampled.ticks
           y == loaded.ticks
           most == (time - loaded.at) + MaxSkew - loaded.shift
           n == IF most >= 0 THEN most ELSE 0
<1> SUFFICES ASSUME IInv, Measured, call.op = "now", NoWrap
             PROVE  as_nanos(outcome) <= Nanos(n)
  BY DEF DurationNeverOverstates
<1>1. x \in Word /\ y \in Word /\ x \in Nat /\ y \in Nat
  BY MeasuredParts, WidthAssumption, SMT DEF Word
<1>2. most \in Int /\ x - y <= most
  BY MeasuredParts, Unwrapped, OrderedAssumption, SMT
<1>3. outcome = duration_since(x, y)
  BY DEF outcome
<1> HIDE DEF x, y, most
<1>4. n \in Nat /\ x - y <= n
  BY <1>1, <1>2, SMT
<1> HIDE DEF n
<1>6. CASE x >= y
  <2>1. as_nanos(outcome) = Nanos(x - y)
    BY <1>1, <1>3, <1>6, DurationSinceValue
  <2>2. x - y \in Nat
    BY <1>1, <1>6, SMT
  <2>3. Nanos(x - y) <= Nanos(n)
    BY <1>4, <2>2, NanosFacts
  <2> QED BY <2>1, <2>3
<1>7. CASE ~(x >= y)
  <2>1. x < y
    BY <1>1, <1>7, SMT
  <2>2. as_nanos(outcome) = 0
    BY <1>1, <1>3, <2>1, DurationSinceValue
  <2>3. Nanos(n) \in Nat
    BY <1>4, NanosFacts, SMT
  <2> QED BY <2>2, <2>3, SMT
<1> QED BY <1>6, <1>7

----------------------------------------------------------------------------

\* Stamps hold u64 counter values and complete calls return Durations
\* (OrderedInstant::elapsed and duration_since).
THEOREM TypeCorrect == Spec => []TypeOK
BY IsTyped, Invariance, PTL

\* A measurement from a published instant that ends with an ordered read is
\* exact on every machine whose barrier holds the counter read back.
THEOREM OrderedReadsAreExact == Spec => []OrderedReadExact
BY IsExact, Invariance, PTL

\* elapsed_unordered() is exact whenever its counter read was executed after
\* the published moment, whatever the order of load and read; before it, the
\* result is that much short of 2^64 ticks.
THEOREM DriftDelimited == Spec => []ElapsedAnyOrder
BY IsDelimited, Invariance, PTL

\* A published deadline that has passed when the observer loads it is passed
\* for the ordered now() that follows, where the barrier holds the read back.
THEOREM PassedDeadlinesAreSeen == Spec => []DeadlineSeen
BY IsSeen, Invariance, PTL

\* now().duration_since(published) never overstates the time by more than the
\* skew, wherever the processor executes the counter read.
THEOREM SaturationAbsorbsReordering == Spec => []DurationNeverOverstates
BY IsBounded, Invariance, PTL
============================================================================
