-------------------------- MODULE PerThreadProofs --------------------------
(***************************************************************************)
(* What measure_per_thread counts and how far off it may be, for any       *)
(* number of CPUs and reads, any width, scale and skew.                    *)
(***************************************************************************)
EXTENDS PerThread, Q32Proofs, FiniteSetTheorems

\* The scale of the readings so far is bounded by this one.
top == IF steady THEN q ELSE MaxScale

\* previous is the largest read, and no larger than the counters allow.
PreviousOK ==
  /\ pc = "warmup" => reads = << >> /\ previous = 0 /\ violations = 0 /\ max_violation_ns = 0
  /\ pc # "warmup" => \E i \in 1 .. Len(reads) : reads[i] = previous
  /\ \A i \in 1 .. Len(reads) : reads[i] <= previous
  /\ previous * QOne <= (time + MaxSkew - anchor) * top

\* The iterations past the end since the last look at the time.
LateOK ==
  /\ pc = "warmup" => late = 0
  /\ pc = "loop" => late <= (budget_check % BudgetPeriod)
  /\ late <= BudgetPeriod

\* The inductive invariant.
IInv == TypeOK /\ PreviousOK /\ LateOK /\ ViolationsExact /\ ViolationExplained

----------------------------------------------------------------------------
(* Arithmetic *)

\* The constants are numbers, and scales lie within the error.
LEMMA Numbers ==
  /\ WordMod \in Nat /\ QOne \in Nat \ {0}
  /\ MaxSkew \in Nat /\ MaxErr \in Nat /\ TrueScale \in Nat /\ MaxScale \in Nat
  /\ MaxTime \in Nat
  /\ \A c \in CPUs : Skew[c] \in Nat /\ Skew[c] <= MaxSkew
  /\ \A s \in Scales : s \in Word /\ s \in Nat /\ s <= MaxScale /\ MaxScale - 2 * MaxErr <= s
BY WidthAssumption, SourceAssumption, SMT DEF MaxScale, Word

\* The low bits of the iteration counter go up by one or start again.
LEMMA NextRemainder ==
  ASSUME NEW x \in Nat, NEW p \in Nat \ {0}
  PROVE  \/ (x + 1) % p = (x % p) + 1
         \/ (x + 1) % p = 0
<1> DEFINE d == x \div p
           r == x % p
           d2 == (x + 1) \div p
           r2 == (x + 1) % p
<1>1. d \in Nat /\ r \in 0 .. (p - 1) /\ x = d * p + r
  BY DivBounds, ModBounds
<1>2. d2 \in Nat /\ r2 \in 0 .. (p - 1) /\ x + 1 = d2 * p + r2
  <2>1. x + 1 \in Nat
    OBVIOUS
  <2> QED BY <2>1, DivBounds, ModBounds
<1> HIDE DEF d, r, d2, r2
<1>3. CASE d2 < d
  <2>1. (d2 + 1) * p <= d * p
    BY <1>1, <1>2, <1>3, MulMono, SMT
  <2>2. (d2 + 1) * p = d2 * p + p /\ d2 * p \in Nat /\ d * p \in Nat
    BY <1>1, <1>2, SMT
  <2> QED BY <1>1, <1>2, <2>1, <2>2, SMT
<1>4. CASE d2 = d
  <2>1. r2 = r + 1
    <3>1. d * p \in Nat
      BY <1>1, SMT
    <3> QED BY <1>1, <1>2, <1>4, <3>1, SMT
  <2> QED BY <2>1 DEF r, r2
<1>5. CASE d2 > d
  <2>1. (d + 1) * p <= d2 * p
    BY <1>1, <1>2, <1>5, MulMono, SMT
  <2>2. (d + 1) * p = d * p + p /\ d2 * p \in Nat /\ d * p \in Nat
    BY <1>1, <1>2, SMT
  <2>3. r2 = 0
    BY <1>1, <1>2, <2>1, <2>2, SMT
  <2> QED BY <2>3 DEF r2
<1> QED BY <1>1, <1>2, <1>3, <1>4, <1>5, SMT

\* Wrapping the counter at a multiple of the period does not disturb its
\* low bits.
LEMMA CheckStep ==
  ASSUME NEW b \in 0 .. (BudgetMod - 1)
  PROVE  /\ wrapping_add(b) \in 0 .. (BudgetMod - 1)
         /\ \/ wrapping_add(b) % BudgetPeriod = (b % BudgetPeriod) + 1
            \/ wrapping_add(b) % BudgetPeriod = 0
         /\ (b % BudgetPeriod) + 1 <= BudgetPeriod
         /\ b % BudgetPeriod \in Nat
<1>1. b \in Nat /\ BudgetMod \in Nat \ {0} /\ BudgetPeriod \in Nat \ {0} /\ b + 1 <= BudgetMod
  BY BudgetAssumption, SMT
<1>2. b % BudgetPeriod \in 0 .. (BudgetPeriod - 1)
  BY <1>1, ModBounds
<1>3. CASE b + 1 < BudgetMod
  <2>1. wrapping_add(b) = b + 1
    BY <1>1, <1>3, SMT DEF wrapping_add
  <2>2. \/ (b + 1) % BudgetPeriod = (b % BudgetPeriod) + 1
        \/ (b + 1) % BudgetPeriod = 0
    BY <1>1, NextRemainder
  <2> QED BY <1>1, <1>2, <1>3, <2>1, <2>2, SMT
<1>4. CASE b + 1 = BudgetMod
  <2>1. wrapping_add(b) = 0
    BY <1>1, <1>4, SMT DEF wrapping_add
  <2>2. 0 % BudgetPeriod = 0
    BY <1>1, SMT
  <2> QED BY <1>1, <1>2, <2>1, <2>2, SMT
<1> QED BY <1>1, <1>3, <1>4, SMT

\* Ticks between the anchor and a read, as the subtraction has it.
Seen(c) == IF ticks(c) >= anchor THEN ticks(c) - anchor ELSE 0

\* A reading is the ticks seen at the current scale, rounded down.
LEMMA Reading ==
  ASSUME SourceTypeOK, NEW c \in CPUs
  PROVE  /\ Seen(c) \in Nat /\ now_as_u64(c) \in Nat
         /\ now_as_u64(c) * QOne <= Seen(c) * q
         /\ Seen(c) * q < now_as_u64(c) * QOne + QOne
         /\ Seen(c) <= time + MaxSkew - anchor
         /\ time - anchor <= Seen(c)
<1>1. /\ time \in Nat /\ time <= MaxTime /\ anchor \in Nat /\ anchor <= MaxSkew
      /\ Skew[c] \in Nat /\ Skew[c] <= MaxSkew
      /\ q \in Nat /\ q \in Word /\ q <= MaxScale
  BY Numbers, SMT DEF SourceTypeOK
<1>2. /\ Seen(c) \in Nat /\ Seen(c) <= time + MaxSkew - anchor /\ time - anchor <= Seen(c)
      /\ Seen(c) <= MaxTime + MaxSkew
  BY <1>1, Numbers, SMT DEF Seen, ticks
<1>3. CASE ticks(c) >= anchor
  <2> DEFINE s == Seen(c)
             n == (s * q) \div QOne
  <2>1. s = ticks(c) - anchor
    BY <1>3 DEF Seen
  <2>2. s \in Word /\ s # None
    BY <1>2, Numbers, SourceAssumption, NoneAssumption, SMT DEF Word
  <2>3. now_as_u64(c) = saturate(n)
    <3>1. now_as_u64(c) = as_nanos(ticks_to_duration(s, q))
      BY <1>3, <2>1, <2>2 DEF now_as_u64, u64_checked_sub
    <3> QED BY <1>1, <2>2, <3>1, TicksToDuration
  <2>4. s * q <= (MaxTime + MaxSkew) * MaxScale
    <3>1. s * q <= (MaxTime + MaxSkew) * q
      BY <1>1, <1>2, Numbers, MulMono, SMT
    <3>2. q * (MaxTime + MaxSkew) <= MaxScale * (MaxTime + MaxSkew)
      BY <1>1, Numbers, MulMono, SMT
    <3> QED BY <1>1, <1>2, <3>1, <3>2, Numbers, SMT
  <2>5. s * q \in Nat /\ s * q < WordMod * QOne
    BY <1>1, <1>2, <2>4, Numbers, SourceAssumption, SMT
  <2>6. n \in Nat /\ n * QOne <= s * q /\ s * q < n * QOne + QOne
    BY <2>5, DivBounds, Numbers
  <2>7. n < WordMod
    BY <2>5, DivLess, Numbers
  <2>8. saturate(n) = n
    BY <2>7 DEF saturate
  <2> QED BY <1>2, <2>3, <2>6, <2>8
<1>4. CASE ~(ticks(c) >= anchor)
  <2>1. now_as_u64(c) = 0 /\ Seen(c) = 0
    BY <1>4 DEF now_as_u64, u64_checked_sub, Seen
  <2> QED BY <1>1, <1>2, <2>1, Numbers, SMT
<1> QED BY <1>3, <1>4

----------------------------------------------------------------------------
(* Counting *)

\* Appending a value adds one inversion exactly if something before is larger.
LEMMA AppendInversions ==
  ASSUME NEW s \in Seq(Nat), NEW v \in Nat
  PROVE  /\ IsFiniteSet(Inversions(s)) /\ Len(s) + 1 \notin Inversions(s)
         /\ (\E j \in 1 .. Len(s) : s[j] > v) =>
              Inversions(Append(s, v)) = Inversions(s) \cup {Len(s) + 1}
         /\ (\A j \in 1 .. Len(s) : s[j] <= v) =>
              Inversions(Append(s, v)) = Inversions(s)
<1> DEFINE n == Len(s)
           a == Append(s, v)
<1>1. n \in Nat /\ Len(a) = n + 1 /\ a[n + 1] = v
  OBVIOUS
<1>2. \A i \in 1 .. n : a[i] = s[i] /\ s[i] \in Nat
  OBVIOUS
<1>3. IsFiniteSet(1 .. n)
  BY <1>1, FS_Interval, SMT
<1>4. IsFiniteSet(Inversions(s)) /\ n + 1 \notin Inversions(s)
  <2>1. Inversions(s) \subseteq 1 .. n
    BY DEF Inversions
  <2>2. n + 1 \notin 1 .. n
    BY <1>1, SMT
  <2> QED BY <1>3, <2>1, <2>2, FS_Subset
<1> HIDE DEF a, n
<1>5. \A i \in 1 .. n : i \in Inversions(a) <=> i \in Inversions(s)
  <2> TAKE i \in 1 .. n
  <2>1. \A j \in 1 .. (i - 1) : j \in 1 .. n /\ a[j] = s[j] /\ a[i] = s[i]
    BY <1>1, <1>2, SMT
  <2>2. i \in 1 .. Len(a) /\ i \in 1 .. Len(s)
    BY <1>1, SMT DEF n
  <2> QED BY <2>1, <2>2 DEF Inversions
<1>6. n + 1 \in Inversions(a) <=> \E j \in 1 .. n : s[j] > v
  <2>1. n + 1 \in 1 .. Len(a) /\ (n + 1) - 1 = n
    BY <1>1, SMT
  <2> QED BY <1>1, <1>2, <2>1 DEF Inversions
<1>7. Inversions(a) \subseteq 1 .. (n + 1) /\ Inversions(s) \subseteq 1 .. n
  BY <1>1 DEF Inversions, n
<1>8. 1 .. (n + 1) = (1 .. n) \cup {n + 1}
  BY <1>1, SMT
<1>9. ASSUME \E j \in 1 .. n : s[j] > v
      PROVE  Inversions(a) = Inversions(s) \cup {n + 1}
  BY <1>5, <1>6, <1>7, <1>8, <1>9
<1>10. ASSUME \A j \in 1 .. n : s[j] <= v
       PROVE  Inversions(a) = Inversions(s)
  <2>1. ~\E j \in 1 .. n : s[j] > v
    BY <1>2, <1>10, SMT
  <2> QED BY <1>5, <1>6, <1>7, <1>8, <2>1
<1> QED BY <1>4, <1>9, <1>10 DEF a, n

\* Reads that never drop from one to the next are in order throughout: between
\* a read and a larger one before it there is a first read below the larger.
LEMMA DropBetween ==
  ASSUME NEW s \in Seq(Nat), NEW i \in 1 .. Len(s), NEW j \in 1 .. (i - 1), s[j] > s[i]
  PROVE  ConsecutiveDrops(s) # {}
<1> DEFINE K == {k \in Nat : j < k /\ k <= i /\ s[k] < s[j]}
<1>1. Len(s) \in Nat /\ \A k \in 1 .. Len(s) : s[k] \in Nat
  OBVIOUS
<1>2. i \in Nat /\ j \in Nat /\ 1 <= j /\ j < i /\ i <= Len(s)
  BY <1>1, SMT
<1>3. i \in K /\ K \in SUBSET Nat
  BY <1>1, <1>2, SMT
<1>4. PICK k \in K : \A m \in K : k <= m
  BY <1>3, LeastElement
<1>5. /\ k \in Nat /\ j < k /\ k <= i /\ s[k] < s[j]
      /\ k - 1 \in Nat /\ j <= k - 1 /\ k - 1 <= i
      /\ k \in 2 .. Len(s) /\ k - 1 \in 1 .. Len(s) /\ j \in 1 .. Len(s)
  BY <1>1, <1>2, <1>4, SMT
<1>6. k - 1 \notin K
  BY <1>4, <1>5, SMT
<1>7. k - 1 = j \/ s[k - 1] >= s[j]
  BY <1>1, <1>5, <1>6, SMT
<1>8. s[k] \in Nat /\ s[k - 1] \in Nat /\ s[j] \in Nat
  BY <1>1, <1>5, SMT
<1>9. s[k - 1] >= s[j]
  BY <1>7, <1>8, SMT
<1>10. s[k] < s[k - 1]
  BY <1>5, <1>8, <1>9, SMT
<1> QED BY <1>5, <1>10 DEF ConsecutiveDrops

\* A drop from the predecessor is a drop.
LEMMA DropsAreInversions ==
  ASSUME NEW s \in Seq(Nat)
  PROVE  ConsecutiveDrops(s) \subseteq Inversions(s)
<1> SUFFICES ASSUME NEW i \in ConsecutiveDrops(s) PROVE i \in Inversions(s)
  OBVIOUS
<1>1. Len(s) \in Nat /\ \A k \in 1 .. Len(s) : s[k] \in Nat
  OBVIOUS
<1>2. i \in 2 .. Len(s) /\ s[i] < s[i - 1]
  BY DEF ConsecutiveDrops
<1>3. i \in 1 .. Len(s) /\ i - 1 \in 1 .. Len(s) /\ i - 1 \in 1 .. (i - 1)
  BY <1>1, <1>2, SMT
<1>4. s[i - 1] > s[i]
  BY <1>1, <1>2, <1>3, SMT
<1> QED BY <1>3, <1>4 DEF Inversions

\* The largest drop after one more value, when p is the largest value before.
LEMMA AppendDrop ==
  ASSUME NEW s \in Seq(Nat), NEW v \in Nat, NEW m \in Nat, NEW p \in Nat, NEW m2 \in Nat,
         IsLargestDrop(s, m),
         \A j \in 1 .. Len(s) : s[j] <= p,
         \E j \in 1 .. Len(s) : s[j] = p,
         m2 = (IF p - v > m THEN p - v ELSE m)
  PROVE  IsLargestDrop(Append(s, v), m2)
<1> DEFINE n == Len(s)
           a == Append(s, v)
<1>1. n \in Nat /\ Len(a) = n + 1 /\ a[n + 1] = v
  OBVIOUS
<1>2. \A i \in 1 .. n : a[i] = s[i] /\ s[i] \in Nat
  OBVIOUS
<1>3. \A j \in 1 .. n : s[j] <= p
  OBVIOUS
<1>4. PICK top_i \in 1 .. n : s[top_i] = p
  OBVIOUS
<1>5. \A i \in 1 .. n : \A j \in 1 .. (i - 1) : s[j] - s[i] <= m
  BY DEF IsLargestDrop
<1>6. m > 0 => \E i \in 1 .. n : \E j \in 1 .. (i - 1) : s[j] - s[i] = m
  BY DEF IsLargestDrop
<1> HIDE DEF a, n
<1>7. ASSUME NEW i \in 1 .. Len(a), NEW j \in 1 .. (i - 1) PROVE a[j] - a[i] <= m2
  <2>1. j \in 1 .. n /\ a[j] = s[j] /\ s[j] \in Nat
    BY <1>1, <1>2, SMT
  <2>2. CASE i \in 1 .. n
    <3>1. s[j] - s[i] <= m /\ a[i] = s[i] /\ s[i] \in Nat
      BY <1>2, <1>5, <2>2
    <3>2. m <= m2
      BY SMT
    <3>3. s[j] - s[i] <= m2
      BY <2>1, <3>1, <3>2, SMT
    <3> QED BY <2>1, <3>1, <3>3
  <2>3. CASE i = n + 1
    <3>1. s[j] <= p
      BY <1>3, <2>1
    <3>2. a[i] = v
      BY <1>1, <2>3
    <3>3. s[j] - v <= m2
      BY <2>1, <3>1, SMT
    <3> QED BY <2>1, <3>2, <3>3
  <2> QED BY <1>1, <2>2, <2>3, SMT
<1>8. ASSUME m2 > 0
      PROVE  \E i \in 1 .. Len(a) : \E j \in 1 .. (i - 1) : a[j] - a[i] = m2
  <2>1. CASE p - v > m
    <3>1. n + 1 \in 1 .. Len(a) /\ top_i \in 1 .. ((n + 1) - 1) /\ a[top_i] = p
      BY <1>1, <1>2, <1>4, SMT
    <3> QED BY <1>1, <2>1, <3>1
  <2>2. CASE ~(p - v > m)
    <3>1. PICK i \in 1 .. n : \E j \in 1 .. (i - 1) : s[j] - s[i] = m
      BY <1>6, <1>8, <2>2
    <3>2. PICK j \in 1 .. (i - 1) : s[j] - s[i] = m
      BY <3>1
    <3>3. i \in 1 .. Len(a) /\ j \in 1 .. n
      BY <1>1, SMT
    <3> QED BY <1>2, <2>2, <3>2, <3>3
  <2> QED BY <2>1, <2>2
<1> QED BY <1>7, <1>8 DEF IsLargestDrop, a

----------------------------------------------------------------------------
(* The invariant *)

\* The invariant holds at the start.
LEMMA InitInv == Init => IInv
<1> SUFFICES ASSUME Init PROVE IInv
  OBVIOUS
<1>1. SourceTypeOK
  BY Numbers, SMT DEF Init, init_anchor, ticks, SourceTypeOK
<1>2. TypeOK
  BY <1>1, BudgetAssumption, SMT DEF Init, init_anchor, TypeOK
<1>3. 1 .. Len(<< >>) = {}
  BY SMT
<1>4. reads = << >> /\ violations = 0 /\ max_violation_ns = 0 /\ total_reads = 0
  BY DEF Init
<1>5. Inversions(reads) = {} /\ IsLargestDrop(reads, 0)
  BY <1>3, <1>4, SMT DEF Inversions, IsLargestDrop
<1>6. ViolationsExact
  BY <1>4, <1>5, FS_EmptySet, SMT DEF ViolationsExact
<1>7. time = 0 /\ steady = TRUE /\ anchor \in Nat /\ anchor <= MaxSkew /\ q \in Nat
  BY <1>1, Numbers, SMT DEF Init, init_anchor, SourceTypeOK
<1>8. (time + MaxSkew - anchor) * q >= 0
  BY <1>7, Numbers, SMT
<1>9. PreviousOK
  BY <1>3, <1>4, <1>7, <1>8, Numbers, SMT DEF Init, PreviousOK, top
<1>10. ViolationExplained
  <2>1. MaxSkew * MaxScale \in Nat
    BY Numbers, SMT
  <2> QED BY <1>4, <1>7, <2>1, Numbers, SMT DEF ViolationExplained
<1>11. LateOK
  BY BudgetAssumption, SMT DEF Init, LateOK
<1> QED BY <1>2, <1>6, <1>9, <1>10, <1>11 DEF IInv

\* What the invariant says of the numbers it is about.
LEMMA Values ==
  ASSUME IInv
  PROVE  /\ time \in Nat /\ anchor \in Nat /\ anchor <= MaxSkew
         /\ q \in Nat /\ q <= MaxScale /\ MaxScale - 2 * MaxErr <= q
         /\ top \in Nat /\ q <= top /\ top <= MaxScale
         /\ previous \in Nat /\ max_violation_ns \in Nat
BY Numbers, SMT DEF IInv, TypeOK, SourceTypeOK, top

\* Time passing and a recalibration only loosen the bounds.
LEMMA EnvironmentInv == IInv /\ (Advance \/ Recalibrate) => IInv'
<1> SUFFICES ASSUME IInv, Advance \/ Recalibrate PROVE IInv'
  OBVIOUS
<1>1. /\ UNCHANGED <<anchor, pc, locals, reads, late>>
      /\ time' \in 0 .. MaxTime /\ time <= time' /\ q' \in Scales /\ steady' \in BOOLEAN
  <2>1. UNCHANGED <<anchor, pc, locals, reads, late>>
    BY DEF Advance, Recalibrate
  <2>2. q' \in Scales /\ steady' \in BOOLEAN
    BY DEF Advance, Recalibrate, IInv, TypeOK, SourceTypeOK
  <2>3. (time' = time /\ UNCHANGED time) \/ (time < MaxTime /\ time' = time + 1)
    BY DEF Advance, Recalibrate
  <2>4. time' \in 0 .. MaxTime /\ time <= time'
    BY <2>3, Numbers, SMT DEF IInv, TypeOK, SourceTypeOK
  <2> QED BY <2>1, <2>2, <2>4
<1>2. TypeOK'
  BY <1>1, SMT DEF IInv, TypeOK, SourceTypeOK, locals
<1>3. ViolationsExact' /\ LateOK'
  BY <1>1 DEF IInv, ViolationsExact, LateOK, locals
<1>4. steady' => steady \/ pc = "warmup"
  BY DEF Advance, Recalibrate
<1>5. steady' => (UNCHANGED q /\ steady) \/ pc = "warmup"
  BY DEF Advance, Recalibrate
<1>6. q' \in Nat /\ q' <= MaxScale /\ time' \in Nat
  BY <1>1, Numbers, SMT
<1>7. PreviousOK'
  <2>1. previous * QOne <= (time' + MaxSkew - anchor) * top'
    <3>1. CASE pc = "warmup"
      <4>1. previous = 0
        BY <3>1 DEF IInv, PreviousOK
      <4>2. top' \in Nat /\ time' + MaxSkew - anchor \in Nat
        BY <1>6, Values, Numbers, SMT DEF top
      <4> QED BY <4>1, <4>2, Numbers, SMT
    <3>2. CASE pc # "warmup"
      <4>1. top' \in Nat /\ top <= top'
        BY <1>5, <1>6, <3>2, Values, Numbers, SMT DEF top
      <4>2. (time + MaxSkew - anchor) * top <= (time' + MaxSkew - anchor) * top
        BY <1>1, <1>6, Values, Numbers, MulMono, SMT
      <4>3. top * (time' + MaxSkew - anchor) <= top' * (time' + MaxSkew - anchor)
        BY <1>6, <4>1, Values, Numbers, MulMono, SMT
      <4>4. previous * QOne <= (time + MaxSkew - anchor) * top
        BY DEF IInv, PreviousOK
      <4> QED BY <1>6, <4>1, <4>2, <4>3, <4>4, Values, Numbers, SMT
    <3> QED BY <3>1, <3>2
  <2> QED BY <1>1, <2>1 DEF IInv, PreviousOK, locals
<1>8. ViolationExplained'
  <2>1. max_violation_ns * QOne < (IF steady THEN 0 ELSE 2 * MaxErr * time) + MaxSkew * MaxScale + QOne
    BY DEF IInv, ViolationExplained
  <2>2. 2 * MaxErr * time <= 2 * MaxErr * time' /\ 2 * MaxErr * time \in Nat /\ 2 * MaxErr * time' \in Nat
    <3> DEFINE e == 2 * MaxErr
    <3>1. e \in Nat
      BY Numbers, SMT
    <3> HIDE DEF e
    <3>2. time * e <= time' * e
      BY <1>1, <1>6, <3>1, Values, MulMono
    <3>3. time \in Nat /\ time' \in Nat
      BY <1>6, Values
    <3>4. \A x \in Nat : x * e = e * x /\ e * x \in Nat
      BY <3>1, SMT
    <3> QED BY <3>2, <3>3, <3>4 DEF e
  <2>3. steady' => steady \/ max_violation_ns = 0
    BY <1>4 DEF IInv, PreviousOK
  <2>4. MaxSkew * MaxScale \in Nat /\ max_violation_ns * QOne \in Nat
    BY Values, Numbers, SMT
  <2>5. max_violation_ns' = max_violation_ns
    BY <1>1 DEF locals
  <2>6. max_violation_ns = 0 => max_violation_ns * QOne = 0
    BY Numbers, SMT
  <2>7. max_violation_ns * QOne < (IF steady' THEN 0 ELSE 2 * MaxErr * time') + MaxSkew * MaxScale + QOne
    BY <2>1, <2>2, <2>3, <2>4, <2>6, Numbers, SMT
  <2> QED BY <2>5, <2>7 DEF ViolationExplained
<1> QED BY <1>2, <1>3, <1>7, <1>8 DEF IInv

\* A reading is bounded like previous, and not far below what previous can be.
LEMMA ReadingBounds ==
  ASSUME IInv, NEW c \in CPUs
  PROVE  /\ now_as_u64(c) \in Nat
         /\ now_as_u64(c) * QOne <= (time + MaxSkew - anchor) * top
         /\ (previous - now_as_u64(c)) * QOne
              < (IF steady THEN 0 ELSE 2 * MaxErr * time) + MaxSkew * MaxScale + QOne
<1> DEFINE n == now_as_u64(c)
           s == Seen(c)
           M == MaxSkew
           b == time + M - anchor
           g == IF time >= anchor THEN time - anchor ELSE 0
           e == 2 * MaxErr
<1>1. /\ s \in Nat /\ n \in Nat /\ n * QOne <= s * q /\ s * q < n * QOne + QOne
      /\ s <= b /\ time - anchor <= s
  BY Reading DEF IInv, TypeOK
<1>2. /\ b \in Nat /\ M \in Nat /\ top \in Nat /\ q \in Nat /\ q <= top /\ top <= MaxScale
      /\ e \in Nat /\ MaxScale - e <= q
      /\ time \in Nat /\ previous \in Nat /\ MaxScale \in Nat /\ QOne \in Nat
  BY Values, Numbers, SMT
<1>3. g \in Nat /\ g <= s /\ b <= g + M /\ g <= time
  BY <1>1, Values, Numbers, SMT
<1>4. previous * QOne <= b * top
  BY DEF IInv, PreviousOK
<1>5. steady => top = q
  BY DEF top
<1> HIDE DEF n, s, M, b, g, e
<1>6. n * QOne <= b * top
  <2>1. s * q <= b * q
    BY <1>1, <1>2, MulMono
  <2>2. q * b <= top * b
    BY <1>2, MulMono
  <2> QED BY <1>1, <1>2, <2>1, <2>2, SMT
<1>7. b * top <= g * top + M * MaxScale
  <2>1. b * top <= (g + M) * top
    BY <1>2, <1>3, MulMono, SMT
  <2>2. top * M <= MaxScale * M
    BY <1>2, MulMono
  <2> QED BY <1>2, <1>3, <2>1, <2>2, SMT
<1>8. g * q <= s * q
  BY <1>1, <1>2, <1>3, MulMono
<1>9. g * top - g * q <= (IF steady THEN 0 ELSE e * time)
  <2>1. CASE steady
    <3>1. g * top - g * q = 0
      BY <1>2, <1>3, <1>5, <2>1, SMT
    <3> QED BY <2>1, <3>1
  <2>2. CASE ~steady
    <3> DEFINE f == top - q
    <3>1. f \in Nat /\ f <= e /\ top = q + f
      BY <1>2, SMT
    <3> HIDE DEF f
    <3>2. g * top - g * q = g * f
      BY <1>2, <1>3, <3>1, SMT
    <3>3. g * f <= time * f
      BY <1>2, <1>3, <3>1, MulMono
    <3>4. f * time <= e * time
      BY <1>2, <3>1, MulMono
    <3>5. g * f <= e * time
      BY <1>2, <1>3, <3>1, <3>3, <3>4, SMT
    <3> QED BY <2>2, <3>2, <3>5
  <2> QED BY <2>1, <2>2
<1>10. (previous - n) * QOne = previous * QOne - n * QOne
  BY <1>1, <1>2, SMT
<1>11. /\ previous * QOne \in Nat /\ n * QOne \in Nat /\ b * top \in Nat /\ s * q \in Nat
       /\ g * q \in Nat /\ g * top \in Nat /\ M * MaxScale \in Nat /\ e * time \in Nat
  BY <1>1, <1>2, <1>3, SMT
<1>12. (previous - n) * QOne < (IF steady THEN 0 ELSE e * time) + M * MaxScale + QOne
  <2> DEFINE j == IF steady THEN 0 ELSE e * time
  <2>1. j \in Nat /\ g * top - g * q <= j
    BY <1>9, <1>11
  <2> HIDE DEF j
  <2>2. (previous - n) * QOne < j + M * MaxScale + QOne
    BY <1>1, <1>2, <1>4, <1>7, <1>8, <1>10, <1>11, <2>1, SMT
  <2> QED BY <2>2 DEF j
<1> QED BY <1>1, <1>6, <1>12 DEF n, M, b, e

\* The first read keeps the invariant.
LEMMA StartInv == ASSUME IInv, NEW c \in CPUs, Start(c) PROVE IInv'
<1> DEFINE n == now_as_u64(c)
<1>1. n \in Nat /\ n * QOne <= (time + MaxSkew - anchor) * top
  BY ReadingBounds
<1>2. /\ pc = "warmup" /\ pc' = "loop" /\ previous' = n /\ total_reads' = 1 /\ reads' = <<n>>
      /\ start' = time
      /\ UNCHANGED <<source, violations, max_violation_ns, budget_check, late, steady>>
  BY DEF Start
<1>3. UNCHANGED <<time, anchor, q>>
  BY <1>2 DEF source
<1> HIDE DEF n
<1>4. reads' \in Seq(Nat) /\ Len(reads') = 1 /\ reads'[1] = n
  BY <1>1, <1>2
<1>5. TypeOK'
  BY <1>1, <1>2, <1>3, <1>4, SMT DEF IInv, TypeOK, SourceTypeOK
<1>6. violations = 0 /\ max_violation_ns = 0 /\ late = 0
  BY <1>2 DEF IInv, PreviousOK, LateOK
<1>7. ViolationsExact'
  <2>1. 1 .. 1 = {1} /\ 1 .. (1 - 1) = {}
    BY SMT
  <2>2. Inversions(reads') = {} /\ IsLargestDrop(reads', 0)
    BY <1>4, <2>1, SMT DEF Inversions, IsLargestDrop
  <2> QED BY <1>2, <1>4, <1>6, <2>2, FS_EmptySet DEF ViolationsExact
<1>8. PreviousOK'
  <2>1. top' = top
    BY <1>2, <1>3 DEF top
  <2>2. \A i \in 1 .. Len(reads') : i = 1
    BY <1>4, SMT
  <2>3. n <= n /\ 1 \in 1 .. 1
    BY <1>1, SMT
  <2> QED BY <1>1, <1>2, <1>3, <1>4, <2>1, <2>2, <2>3 DEF PreviousOK
<1>9. ViolationExplained'
  BY <1>2, <1>3 DEF IInv, ViolationExplained
<1>10. LateOK'
  <2>1. budget_check % BudgetPeriod >= 0 /\ BudgetPeriod >= 0
    BY CheckStep, BudgetAssumption, SMT DEF IInv, TypeOK
  <2> QED BY <1>2, <1>6, <2>1 DEF LateOK
<1> QED BY <1>5, <1>7, <1>8, <1>9, <1>10 DEF IInv

\* An iteration keeps the invariant.
LEMMA IterateInv == ASSUME IInv, NEW c \in CPUs, Iterate(c) PROVE IInv'
<1> DEFINE n == now_as_u64(c)
           drop == IF previous - n > max_violation_ns THEN previous - n ELSE max_violation_ns
<1>1. /\ n \in Nat /\ n * QOne <= (time + MaxSkew - anchor) * top
      /\ (previous - n) * QOne
           < (IF steady THEN 0 ELSE 2 * MaxErr * time) + MaxSkew * MaxScale + QOne
  BY ReadingBounds
<1>2. /\ pc = "loop" /\ Compare(n) /\ total_reads' = total_reads + 1
      /\ budget_check' = wrapping_add(budget_check)
      /\ pc' = (IF over_budget(budget_check') THEN "done" ELSE "loop")
      /\ reads' = Append(reads, n)
      /\ late' = (IF expired THEN late + 1 ELSE 0)
      /\ UNCHANGED <<source, start, steady>>
  BY DEF Iterate
<1>3. UNCHANGED <<time, anchor, q, start, steady>> /\ top' = top
  BY <1>2 DEF source, top
<1>4. /\ previous \in Nat /\ violations \in Nat /\ max_violation_ns \in Nat
      /\ total_reads \in Nat /\ late \in Nat /\ reads \in Seq(Nat)
      /\ budget_check \in 0 .. (BudgetMod - 1)
  BY DEF IInv, TypeOK
<1> HIDE DEF n
<1>5. drop \in Nat
  BY <1>1, <1>4, SMT
<1>6. \/ /\ n < previous /\ previous' = previous
         /\ violations' = violations + 1 /\ max_violation_ns' = drop
      \/ /\ n >= previous /\ previous' = n
         /\ violations' = violations /\ max_violation_ns' = max_violation_ns
  BY <1>2 DEF Compare
<1>7. n >= previous => drop = max_violation_ns
  BY <1>1, <1>4, SMT
<1>8. max_violation_ns' = drop
  BY <1>6, <1>7
<1>9. /\ Len(reads) \in Nat /\ Len(reads') = Len(reads) + 1 /\ reads'[Len(reads) + 1] = n
      /\ reads' \in Seq(Nat)
      /\ \A i \in 1 .. Len(reads) : reads'[i] = reads[i] /\ reads[i] \in Nat
  BY <1>1, <1>2, <1>4
<1>10. /\ \A i \in 1 .. Len(reads) : reads[i] <= previous
       /\ \E i \in 1 .. Len(reads) : reads[i] = previous
  BY <1>2 DEF IInv, PreviousOK
<1> HIDE DEF drop
<1>11. TypeOK'
  <2>1. budget_check' \in 0 .. (BudgetMod - 1)
    BY <1>2, <1>4, CheckStep
  <2>2. previous' \in Nat /\ violations' \in Nat /\ total_reads' \in Nat /\ late' \in Nat
    BY <1>1, <1>2, <1>4, <1>6, SMT
  <2>3. pc' \in {"warmup", "loop", "done"}
    BY <1>2
  <2> QED BY <1>3, <1>5, <1>8, <1>9, <2>1, <2>2, <2>3 DEF IInv, TypeOK, SourceTypeOK
<1>12. ViolationsExact'
  <2>1. total_reads' = Len(reads')
    BY <1>2, <1>9 DEF IInv, ViolationsExact
  <2>2. IsLargestDrop(reads', drop)
    <3>1. IsLargestDrop(reads, max_violation_ns)
      BY DEF IInv, ViolationsExact
    <3> QED BY <1>1, <1>2, <1>4, <1>5, <1>10, <3>1, AppendDrop DEF drop
  <2>3. violations = Cardinality(Inversions(reads)) /\ IsFiniteSet(Inversions(reads))
    BY <1>1, <1>4, AppendInversions DEF IInv, ViolationsExact
  <2>4. CASE n < previous
    <3>1. \E j \in 1 .. Len(reads) : reads[j] > n
      <4>1. previous > n
        BY <1>1, <1>4, <2>4, SMT
      <4> QED BY <1>10, <4>1
    <3>2. /\ Inversions(reads') = Inversions(reads) \cup {Len(reads) + 1}
          /\ Len(reads) + 1 \notin Inversions(reads)
      BY <1>1, <1>2, <1>4, <3>1, AppendInversions
    <3>3. Cardinality(Inversions(reads')) = violations + 1
      BY <2>3, <3>2, FS_AddElement
    <3>4. violations' = violations + 1
      BY <1>1, <1>4, <1>6, <2>4, SMT
    <3> QED BY <1>8, <2>1, <2>2, <3>3, <3>4 DEF ViolationsExact
  <2>5. CASE n >= previous
    <3>1. ASSUME NEW j \in 1 .. Len(reads) PROVE reads[j] <= n
      <4>1. reads[j] \in Nat /\ reads[j] <= previous
        BY <1>9, <1>10
      <4> QED BY <1>1, <1>4, <2>5, <4>1, SMT
    <3>2. Inversions(reads') = Inversions(reads)
      BY <1>1, <1>2, <1>4, <3>1, AppendInversions
    <3>3. violations' = violations
      BY <1>1, <1>4, <1>6, <2>5, SMT
    <3> QED BY <1>8, <2>1, <2>2, <2>3, <3>2, <3>3 DEF ViolationsExact
  <2> QED BY <1>1, <1>4, <2>4, <2>5, SMT
<1>13. PreviousOK'
  <2>1. pc' # "warmup"
    BY <1>2
  <2>2. previous' * QOne <= (time + MaxSkew - anchor) * top
    BY <1>1, <1>6 DEF IInv, PreviousOK
  <2>3. \A i \in 1 .. Len(reads') : i \in 1 .. Len(reads) \/ i = Len(reads) + 1
    BY <1>9, SMT
  <2>4. 1 .. Len(reads) \subseteq 1 .. Len(reads') /\ Len(reads) + 1 \in 1 .. Len(reads')
    BY <1>9, SMT
  <2>5. CASE n < previous
    <3>1. previous' = previous /\ n <= previous
      BY <1>1, <1>4, <1>6, <2>5, SMT
    <3>2. \A i \in 1 .. Len(reads') : reads'[i] <= previous
      BY <1>9, <1>10, <2>3, <3>1
    <3>3. \E i \in 1 .. Len(reads') : reads'[i] = previous
      BY <1>9, <1>10, <2>4
    <3> QED BY <1>3, <2>1, <2>2, <3>1, <3>2, <3>3 DEF PreviousOK
  <2>6. CASE n >= previous
    <3>1. previous' = n
      BY <1>1, <1>4, <1>6, <2>6, SMT
    <3>2. ASSUME NEW i \in 1 .. Len(reads) PROVE reads[i] <= n
      <4>1. reads[i] \in Nat /\ reads[i] <= previous
        BY <1>9, <1>10
      <4> QED BY <1>1, <1>4, <2>6, <4>1, SMT
    <3>3. n <= n
      BY <1>1, SMT
    <3>4. \A i \in 1 .. Len(reads') : reads'[i] <= n
      BY <1>9, <2>3, <3>2, <3>3
    <3> QED BY <1>3, <1>9, <2>1, <2>2, <2>4, <3>1, <3>4 DEF PreviousOK
  <2> QED BY <1>1, <1>4, <2>5, <2>6, SMT
<1>14. ViolationExplained'
  <2> DEFINE bound == (IF steady THEN 0 ELSE 2 * MaxErr * time) + MaxSkew * MaxScale + QOne
  <2>1. max_violation_ns * QOne < bound
    BY DEF IInv, ViolationExplained
  <2>2. drop * QOne < bound
    BY <1>1, <2>1 DEF drop
  <2> QED BY <1>3, <1>8, <2>2 DEF ViolationExplained
<1>15. LateOK'
  <2> DEFINE b == budget_check % BudgetPeriod
             b2 == budget_check' % BudgetPeriod
  <2>1. b \in Nat /\ b + 1 <= BudgetPeriod /\ (b2 = b + 1 \/ b2 = 0)
    BY <1>2, <1>4, CheckStep
  <2>2. late <= b
    BY <1>2 DEF IInv, LateOK
  <2> HIDE DEF b, b2
  <2>3. late' <= b + 1 /\ late' <= BudgetPeriod
    BY <1>2, <1>4, <2>1, <2>2, BudgetAssumption, SMT
  <2>4. ASSUME pc' = "loop" PROVE late' <= b2
    <3>1. ~over_budget(budget_check')
      BY <1>2, <2>4
    <3>2. b2 # 0 \/ ~expired
      BY <3>1 DEF over_budget, b2
    <3>3. late' = 0 \/ b2 # 0
      BY <1>2, <3>2
    <3> QED BY <1>2, <1>4, <2>1, <2>3, <3>3, SMT
  <2>5. pc' # "warmup"
    BY <1>2
  <2> QED BY <2>3, <2>4, <2>5 DEF LateOK, b2
<1> QED BY <1>11, <1>12, <1>13, <1>14, <1>15 DEF IInv

\* Every step keeps the invariant.
LEMMA NextInv == IInv /\ [Next]_vars => IInv'
<1> SUFFICES ASSUME IInv, [Next]_vars PROVE IInv'
  OBVIOUS
<1>1. CASE Advance \/ Recalibrate
  BY <1>1, EnvironmentInv
<1>2. ASSUME NEW c \in CPUs, Start(c) PROVE IInv'
  BY <1>2, StartInv
<1>3. ASSUME NEW c \in CPUs, Iterate(c) PROVE IInv'
  BY <1>3, IterateInv
<1>4. CASE UNCHANGED vars
  BY <1>4 DEF vars, source, locals, IInv, TypeOK, SourceTypeOK, PreviousOK, top, LateOK,
              ViolationsExact, ViolationExplained
<1> QED BY <1>1, <1>2, <1>3, <1>4 DEF Next

\* The invariant holds for ever.
LEMMA Invariance == Spec => []IInv
BY InitInv, NextInv, PTL DEF Spec

----------------------------------------------------------------------------
(* The theorems *)

\* Every variable of the measurement keeps its type; the u32 counter wraps.
THEOREM TypeCorrect == Spec => []TypeOK
<1>1. IInv => TypeOK
  BY DEF IInv
<1> QED BY <1>1, Invariance, PTL

\* One pass with a running maximum counts all reads that came after a larger
\* one, and finds the largest drop.
THEOREM CountIsExact == Spec => []ViolationsExact
<1>1. IInv => ViolationsExact
  BY DEF IInv
<1> QED BY <1>1, Invariance, PTL

\* Although the count is not that of consecutive drops the documentation
\* speaks of, it is zero for the same reads and never the smaller of the two.
THEOREM DropsAreCounted == Spec => []CoversConsecutiveDrops
<1>1. IInv => CoversConsecutiveDrops
  <2> SUFFICES ASSUME IInv PROVE CoversConsecutiveDrops
    OBVIOUS
  <2>1. reads \in Seq(Nat) /\ violations \in Nat
    BY DEF IInv, TypeOK
  <2>2. violations = Cardinality(Inversions(reads))
    BY DEF IInv, ViolationsExact
  <2>3. IsFiniteSet(Inversions(reads))
    BY <2>1, AppendInversions
  <2>4. Cardinality(ConsecutiveDrops(reads)) <= violations
    BY <2>1, <2>2, <2>3, DropsAreInversions, FS_Subset
  <2>5. ASSUME violations > 0 PROVE ConsecutiveDrops(reads) # {}
    <3>1. Inversions(reads) # {}
      BY <2>2, <2>5, FS_EmptySet, SMT
    <3>2. PICK i \in Inversions(reads) : TRUE
      BY <3>1
    <3>3. i \in 1 .. Len(reads) /\ \E j \in 1 .. (i - 1) : reads[j] > reads[i]
      BY DEF Inversions
    <3> QED BY <2>1, <3>3, DropBetween
  <2> QED BY <2>4, <2>5 DEF CoversConsecutiveDrops
<1> QED BY <1>1, Invariance, PTL

\* A drop is explained by skew, rounding, and the change of scale times the
\* age of the anchor.
THEOREM DropsExplained == Spec => []ViolationExplained
<1>1. IInv => ViolationExplained
  BY DEF IInv
<1> QED BY <1>1, Invariance, PTL

\* The loop ends within one period of the end of its duration.
THEOREM OverrunBounded == Spec => []StopsInTime
<1>1. IInv => StopsInTime
  BY DEF IInv, LateOK, StopsInTime
<1> QED BY <1>1, Invariance, PTL
============================================================================
