-------------------------- MODULE CrossThreadProofs --------------------------
(***************************************************************************)
(* The bound on reported violations and the sums of the report, for any    *)
(* number of workers, any schedule and recalibration at any moment.        *)
(***************************************************************************)
EXTENDS CrossThread, Q32Proofs

----------------------------------------------------------------------------
(* Sums *)

\* A sequence of numbers has one sum at most.
LEMMA SumUnique ==
  ASSUME NEW n \in Nat, NEW f, \A i \in 1 .. n : f[i] \in Nat,
         NEW s \in Nat, NEW t \in Nat, IsSum(f, n, s), IsSum(f, n, t)
  PROVE  s = t
<1>1. PICK p \in [0 .. n -> 0 .. s] : RunningTotals(p, f, n) /\ p[n] = s
  BY DEF IsSum
<1>2. PICK r \in [0 .. n -> 0 .. t] : RunningTotals(r, f, n) /\ r[n] = t
  BY DEF IsSum
<1> DEFINE Differ == {i \in 0 .. n : p[i] # r[i]}
<1>3. Differ = {}
  <2> SUFFICES ASSUME Differ # {} PROVE FALSE
    OBVIOUS
  <2>1. PICK i \in Differ : \A j \in Differ : i <= j
    <3>1. Differ \in SUBSET Nat
      BY SMT
    <3> QED BY <3>1, LeastElement
  <2>2. i \in 0 .. n /\ p[i] # r[i]
    BY <2>1
  <2>3. i # 0
    BY <1>1, <1>2, <2>2 DEF RunningTotals
  <2>4. i \in 1 .. n /\ i - 1 \in 0 .. n /\ i - 1 < i
    BY <2>2, <2>3, SMT
  <2>5. p[i - 1] = r[i - 1]
    <3>1. i - 1 \notin Differ
      BY <2>1, <2>4, SMT
    <3> QED BY <2>4, <3>1
  <2>6. p[i] = p[i - 1] + f[i] /\ r[i] = r[i - 1] + f[i]
    BY <1>1, <1>2, <2>4 DEF RunningTotals
  <2> QED BY <2>2, <2>5, <2>6
<1>4. n \in 0 .. n
  BY SMT
<1> QED BY <1>1, <1>2, <1>3, <1>4

\* The sum of zeros.
LEMMA SumOfZeros ==
  ASSUME NEW n \in Nat, NEW f, \A i \in 1 .. n : f[i] = 0
  PROVE  IsSum(f, n, 0)
<1> DEFINE run == [i \in 0 .. n |-> 0]
<1>1. run \in [0 .. n -> 0 .. 0]
  BY SMT
<1>2. run[0] = 0 /\ run[n] = 0 /\ \A i \in 1 .. n : run[i] = run[i - 1] + f[i]
  BY SMT
<1> HIDE DEF run
<1> QED BY <1>1, <1>2 DEF IsSum, RunningTotals

\* Running totals with one more from index k on.
Raised(run, n, k) == [i \in 0 .. n |-> IF i >= k THEN run[i] + 1 ELSE run[i]]

\* Adding one to one summand adds one to the running totals from there on.
LEMMA TotalsPlusOne ==
  ASSUME NEW n \in Nat, NEW m \in Nat, NEW f, NEW g, NEW k \in 1 .. n,
         \A i \in 1 .. n : f[i] \in Nat,
         \A i \in 1 .. n : i # k => g[i] = f[i], g[k] = f[k] + 1,
         NEW run \in [0 .. n -> 0 .. m], RunningTotals(run, f, n)
  PROVE  Raised(run, n, k) \in [0 .. n -> 0 .. (m + 1)] /\ RunningTotals(Raised(run, n, k), g, n)
<1> DEFINE up == Raised(run, n, k)
<1>1. \A i \in 0 .. n : run[i] \in 0 .. m
  OBVIOUS
<1>2. \A i \in 0 .. n : up[i] = IF i >= k THEN run[i] + 1 ELSE run[i]
  BY DEF Raised
<1>3. up \in [0 .. n -> 0 .. (m + 1)]
  <2>1. \A i \in 0 .. n : (IF i >= k THEN run[i] + 1 ELSE run[i]) \in 0 .. (m + 1)
    BY <1>1, SMT
  <2> QED BY <2>1 DEF Raised
<1> HIDE DEF up
<1>4. up[0] = 0
  BY <1>2, SMT DEF RunningTotals
<1>5. ASSUME NEW i \in 1 .. n PROVE up[i] = up[i - 1] + g[i]
  <2>1. i \in 0 .. n /\ i - 1 \in 0 .. n /\ i - 1 = i - 1
    BY SMT
  <2>2. run[i] = run[i - 1] + f[i] /\ run[i] \in Nat /\ run[i - 1] \in Nat /\ f[i] \in Nat
    BY <1>1, <2>1, SMT DEF RunningTotals
  <2>3. /\ up[i] = IF i >= k THEN run[i] + 1 ELSE run[i]
        /\ up[i - 1] = IF i - 1 >= k THEN run[i - 1] + 1 ELSE run[i - 1]
    BY <1>2, <2>1
  <2>4. CASE i = k
    <3>1. g[i] = f[i] + 1 /\ up[i] = run[i] + 1 /\ up[i - 1] = run[i - 1]
      BY <2>3, <2>4, SMT
    <3> QED BY <2>2, <3>1, SMT
  <2>5. CASE i # k
    <3>1. g[i] = f[i]
      BY <2>5
    <3>2. i - 1 >= k <=> i >= k
      BY <2>5, SMT
    <3>3. \/ up[i] = run[i] + 1 /\ up[i - 1] = run[i - 1] + 1
          \/ up[i] = run[i] /\ up[i - 1] = run[i - 1]
      BY <2>3, <3>2
    <3> QED BY <2>2, <3>1, <3>3, SMT
  <2> QED BY <2>4, <2>5
<1> QED BY <1>3, <1>4, <1>5 DEF RunningTotals, up

\* It adds one to the sum.
LEMMA SumPlusOne ==
  ASSUME NEW n \in Nat, NEW m \in Nat, NEW f, NEW g, NEW k \in 1 .. n,
         \A i \in 1 .. n : f[i] \in Nat,
         \A i \in 1 .. n : i # k => g[i] = f[i], g[k] = f[k] + 1,
         IsSum(f, n, m)
  PROVE  IsSum(g, n, m + 1)
<1>1. PICK run \in [0 .. n -> 0 .. m] : RunningTotals(run, f, n) /\ run[n] = m
  BY DEF IsSum
<1> DEFINE up == Raised(run, n, k)
<1>2. up \in [0 .. n -> 0 .. (m + 1)] /\ RunningTotals(up, g, n)
  BY <1>1, TotalsPlusOne
<1>3. up[n] = m + 1
  BY <1>1, SMT DEF Raised
<1> HIDE DEF up
<1> QED BY <1>2, <1>3 DEF IsSum

\* Sums add up.
LEMMA SumOfSums ==
  ASSUME NEW n \in Nat, NEW s \in Nat, NEW t \in Nat, NEW f, NEW g, NEW h,
         \A i \in 1 .. n : f[i] \in Nat /\ g[i] \in Nat /\ h[i] = f[i] + g[i],
         IsSum(f, n, s), IsSum(g, n, t)
  PROVE  IsSum(h, n, s + t)
<1>1. PICK p \in [0 .. n -> 0 .. s] : RunningTotals(p, f, n) /\ p[n] = s
  BY DEF IsSum
<1>2. PICK r \in [0 .. n -> 0 .. t] : RunningTotals(r, g, n) /\ r[n] = t
  BY DEF IsSum
<1> DEFINE run == [i \in 0 .. n |-> p[i] + r[i]]
<1>3. \A i \in 0 .. n : p[i] \in 0 .. s /\ r[i] \in 0 .. t
  OBVIOUS
<1>4. run \in [0 .. n -> 0 .. (s + t)]
  <2>1. \A i \in 0 .. n : p[i] + r[i] \in 0 .. (s + t)
    BY <1>3, SMT
  <2> QED BY <2>1
<1>5. \A i \in 0 .. n : run[i] = p[i] + r[i]
  OBVIOUS
<1> HIDE DEF run
<1>6. run[0] = 0 /\ run[n] = s + t
  <2>1. 0 \in 0 .. n /\ n \in 0 .. n /\ p[0] = 0 /\ r[0] = 0
    BY <1>1, <1>2, SMT DEF RunningTotals
  <2>2. run[0] = p[0] + r[0] /\ run[n] = p[n] + r[n]
    BY <1>5, <2>1
  <2> QED BY <1>1, <1>2, <2>1, <2>2, SMT
<1>7. ASSUME NEW i \in 1 .. n PROVE run[i] = run[i - 1] + h[i]
  <2>1. i \in 0 .. n /\ i - 1 \in 0 .. n
    BY SMT
  <2>2. p[i] = p[i - 1] + f[i] /\ r[i] = r[i - 1] + g[i]
    BY <1>1, <1>2 DEF RunningTotals
  <2>3. p[i - 1] \in Nat /\ r[i - 1] \in Nat /\ f[i] \in Nat /\ g[i] \in Nat
    BY <1>3, <2>1, SMT
  <2>4. run[i] = p[i] + r[i] /\ run[i - 1] = p[i - 1] + r[i - 1]
    BY <1>5, <2>1
  <2>5. h[i] = f[i] + g[i]
    OBVIOUS
  <2>6. \A a, b, c, d \in Nat : (a + c) + (b + d) = (a + b) + (c + d)
    BY SMT
  <2>7. (p[i - 1] + f[i]) + (r[i - 1] + g[i]) = (p[i - 1] + r[i - 1]) + (f[i] + g[i])
    BY <2>3, <2>6
  <2> QED BY <2>2, <2>4, <2>5, <2>7
<1> QED BY <1>4, <1>6, <1>7 DEF IsSum, RunningTotals

\* The sum of a longer sequence.
LEMMA SumAppended ==
  ASSUME NEW n \in Nat, NEW s \in Nat, NEW v \in Nat, NEW f, NEW g,
         \A i \in 1 .. n : g[i] = f[i], g[n + 1] = v, IsSum(f, n, s)
  PROVE  IsSum(g, n + 1, s + v)
<1>1. PICK p \in [0 .. n -> 0 .. s] : RunningTotals(p, f, n) /\ p[n] = s
  BY DEF IsSum
<1> DEFINE run == [i \in 0 .. (n + 1) |-> IF i = n + 1 THEN s + v ELSE p[i]]
<1>2. \A i \in 0 .. n : p[i] \in 0 .. s
  OBVIOUS
<1>3. run \in [0 .. (n + 1) -> 0 .. (s + v)]
  <2>1. \A i \in 0 .. (n + 1) : (IF i = n + 1 THEN s + v ELSE p[i]) \in 0 .. (s + v)
    BY <1>2, SMT
  <2> QED BY <2>1
<1>4. \A i \in 0 .. (n + 1) : run[i] = IF i = n + 1 THEN s + v ELSE p[i]
  OBVIOUS
<1> HIDE DEF run
<1>5. run[0] = 0 /\ run[n + 1] = s + v /\ \A i \in 0 .. n : run[i] = p[i]
  BY <1>1, <1>4, SMT DEF RunningTotals
<1>6. ASSUME NEW i \in 1 .. (n + 1) PROVE run[i] = run[i - 1] + g[i]
  <2>1. CASE i = n + 1
    <3>1. run[i - 1] = s
      BY <1>1, <1>5, <2>1, SMT
    <3> QED BY <1>5, <2>1, <3>1
  <2>2. CASE i # n + 1
    <3>1. i \in 1 .. n /\ i \in 0 .. n /\ i - 1 \in 0 .. n
      BY <2>2, SMT
    <3> QED BY <1>1, <1>5, <3>1 DEF RunningTotals
  <2> QED BY <2>1, <2>2
<1> QED BY <1>3, <1>5, <1>6 DEF IsSum, RunningTotals

----------------------------------------------------------------------------
(* Buckets *)

\* A violation has a bucket.
LEMMA BucketExists ==
  ASSUME NEW diff \in Nat
  PROVE  \E i \in BucketIndex : i \in bucket_of(diff)
<1> DEFINE Fits == {i \in BucketIndex : i = NumBuckets \/ diff <= Buckets[i]}
<1>1. NumBuckets \in Nat \ {0} /\ \A i \in 1 .. (NumBuckets - 1) : Buckets[i] \in Nat
  BY CrossThreadAssumption
<1>2. Fits \in SUBSET Nat /\ NumBuckets \in Fits
  BY <1>1, SMT DEF BucketIndex
<1>3. PICK i \in Fits : \A j \in Fits : i <= j
  BY <1>2, LeastElement
<1>4. ASSUME NEW j \in BucketIndex, j < i PROVE diff > Buckets[j]
  <2>1. j \notin Fits
    BY <1>2, <1>3, <1>4, SMT
  <2>2. j \in 1 .. (NumBuckets - 1)
    BY <1>1, <1>2, <1>3, <1>4, SMT DEF BucketIndex
  <2> QED BY <1>1, <2>1, <2>2, SMT
<1> QED BY <1>3, <1>4 DEF bucket_of

\* A larger violation has no smaller bucket.
LEMMA BucketMonotone ==
  ASSUME NEW a \in Nat, NEW b \in Nat, a <= b, NEW i \in bucket_of(a), NEW j \in bucket_of(b)
  PROVE  i <= j
<1>1. i \in BucketIndex /\ j \in BucketIndex /\ NumBuckets \in Nat
  BY CrossThreadAssumption DEF bucket_of
<1>2. j = NumBuckets \/ b <= Buckets[j]
  BY DEF bucket_of
<1>3. j < i => a > Buckets[j]
  BY <1>1 DEF bucket_of
<1>4. CASE j = NumBuckets
  BY <1>1, <1>4, SMT DEF BucketIndex
<1>5. CASE j # NumBuckets
  <2>1. Buckets[j] \in Nat
    <3>1. j \in 1 .. (NumBuckets - 1)
      BY <1>1, <1>5, SMT DEF BucketIndex
    <3> QED BY <3>1, CrossThreadAssumption
  <2> QED BY <1>1, <1>2, <1>3, <1>5, <2>1, SMT DEF BucketIndex
<1> QED BY <1>4, <1>5

\* So it has only one.
LEMMA BucketUnique ==
  ASSUME NEW diff \in Nat, NEW i \in bucket_of(diff), NEW j \in bucket_of(diff)
  PROVE  i = j
<1>1. i <= j /\ j <= i
  BY BucketMonotone, SMT
<1>2. i \in Nat /\ j \in Nat
  BY CrossThreadAssumption, SMT DEF bucket_of, BucketIndex
<1> QED BY <1>1, <1>2, SMT

----------------------------------------------------------------------------
(* Tallies *)

\* The larger of two numbers.
LEMMA LargerFacts ==
  ASSUME NEW a \in Nat, NEW b \in Nat
  PROVE  /\ larger(a, b) \in Nat
         /\ \A c \in Nat : a <= c /\ b <= c => larger(a, b) <= c
         /\ larger(a, b) = a \/ larger(a, b) = b
         /\ a <= larger(a, b) /\ b <= larger(a, b)
BY DEF larger

\* Fields of a tally.
LEMMA TallyFields ==
  ASSUME NEW t \in Tally
  PROVE  /\ t.violations \in Nat /\ t.reads \in Nat /\ t.max_violation \in Nat /\ t.preempt \in Nat
         /\ t.histogram \in [BucketIndex -> Nat]
         /\ \A i \in BucketIndex : t.histogram[i] \in Nat
BY DEF Tally

\* Tallies are initially zero.
LEMMA ZerosType == Zeros \in Tally /\ Zeros.max_violation = 0
BY DEF Zeros, Tally

LEMMA ZerosConsistent == Consistent(Zeros)
<1>1. /\ Zeros.violations = 0 /\ Zeros.preempt = 0 /\ Zeros.reads = 0 /\ Zeros.max_violation = 0
      /\ \A i \in 1 .. NumBuckets : Zeros.histogram[i] = 0
  BY DEF Zeros, BucketIndex
<1>2. IsSum(Zeros.histogram, NumBuckets, 0)
  <2>1. NumBuckets \in Nat
    BY CrossThreadAssumption
  <2> QED BY <1>1, <2>1, SumOfZeros
<1> QED BY <1>1, <1>2, SMT DEF Consistent

\* What a consistent tally says of its largest violation: buckets beyond that
\* of any number as large are empty.
LEMMA EmptyBeyond ==
  ASSUME NEW t \in Tally, Consistent(t), NEW m \in Nat, t.max_violation <= m,
         NEW b \in bucket_of(m), NEW j \in BucketIndex, j > b
  PROVE  t.histogram[j] = 0
<1>1. CASE t.violations = 0
  BY <1>1 DEF Consistent, Zeros
<1>2. CASE t.violations # 0
  <2>1. PICK i \in bucket_of(t.max_violation) :
           \A k \in BucketIndex : k > i => t.histogram[k] = 0
    BY <1>2, TallyFields, SMT DEF Consistent
  <2>2. i <= b
    BY TallyFields, BucketMonotone
  <2>3. i \in Nat /\ b \in Nat /\ j \in Nat
    BY CrossThreadAssumption, SMT DEF bucket_of, BucketIndex
  <2>4. j > i
    BY <2>2, <2>3, SMT
  <2> QED BY <2>1, <2>4
<1> QED BY <1>1, <1>2

\* A violation more keeps a tally consistent.
LEMMA CountViolation ==
  ASSUME NEW t \in Tally, NEW u \in Tally, Consistent(t), NEW diff \in Nat,
         u.violations = t.violations + 1, u.reads = t.reads + 1, u.preempt = t.preempt,
         u.max_violation = larger(t.max_violation, diff),
         \A i \in BucketIndex :
            u.histogram[i] = t.histogram[i] + (IF i \in bucket_of(diff) THEN 1 ELSE 0)
  PROVE  Consistent(u)
<1>1. NumBuckets \in Nat /\ BucketIndex = 1 .. NumBuckets
  BY CrossThreadAssumption DEF BucketIndex
<1>2. PICK b \in BucketIndex : b \in bucket_of(diff)
  BY BucketExists
<1>3. /\ u.histogram[b] = t.histogram[b] + 1
      /\ \A i \in BucketIndex : i # b => u.histogram[i] = t.histogram[i]
  <2>1. ASSUME NEW i \in BucketIndex, i # b PROVE u.histogram[i] = t.histogram[i]
    <3>1. i \notin bucket_of(diff)
      BY <1>2, <2>1, BucketUnique
    <3>2. u.histogram[i] = t.histogram[i] + 0
      BY <3>1
    <3> QED BY <3>2, TallyFields, SMT
  <2> QED BY <1>2, <2>1
<1>4. IsSum(u.histogram, NumBuckets, u.violations)
  <2>1. t.violations \in Nat /\ b \in 1 .. NumBuckets
    BY <1>1, <1>2, TallyFields
  <2>2. \A i \in 1 .. NumBuckets : t.histogram[i] \in Nat
    BY <1>1, TallyFields
  <2>3. \A i \in 1 .. NumBuckets : i # b => u.histogram[i] = t.histogram[i]
    BY <1>1, <1>3
  <2>4. IsSum(t.histogram, NumBuckets, t.violations)
    BY DEF Consistent
  <2> QED BY <1>1, <1>3, <2>1, <2>2, <2>3, <2>4, SumPlusOne
<1>5. u.violations + u.preempt <= u.reads /\ u.violations > 0
  BY TallyFields, SMT DEF Consistent
<1>6. /\ t.max_violation \in Nat /\ u.max_violation \in Nat
      /\ t.max_violation <= u.max_violation /\ diff <= u.max_violation
      /\ u.max_violation = t.max_violation \/ u.max_violation = diff
  <2> DEFINE m == t.max_violation
  <2>1. m \in Nat
    BY TallyFields
  <2>2. u.max_violation = larger(m, diff)
    OBVIOUS
  <2> HIDE DEF m
  <2>3. /\ larger(m, diff) \in Nat
        /\ larger(m, diff) = m \/ larger(m, diff) = diff
        /\ m <= larger(m, diff) /\ diff <= larger(m, diff)
    BY <2>1, LargerFacts
  <2>4. /\ m \in Nat /\ u.max_violation \in Nat
        /\ m <= u.max_violation /\ diff <= u.max_violation
        /\ u.max_violation = m \/ u.max_violation = diff
    BY <2>1, <2>2, <2>3
  <2> QED BY <2>4 DEF m
<1>7. PICK c \in BucketIndex : c \in bucket_of(u.max_violation)
  BY <1>6, BucketExists
<1>8. b <= c
  BY <1>2, <1>6, <1>7, BucketMonotone
<1>9. ASSUME NEW j \in BucketIndex, j > c PROVE u.histogram[j] = 0
  <2>1. j # b
    BY <1>1, <1>2, <1>7, <1>8, <1>9, SMT
  <2>2. t.histogram[j] = 0
    BY <1>6, <1>7, <1>9, EmptyBeyond
  <2> QED BY <1>3, <2>1, <2>2
<1>10. u.histogram[c] > 0
  <2>1. CASE b = c
    <3>1. t.histogram[b] \in Nat /\ u.histogram[c] = t.histogram[b] + 1
      BY <1>2, <1>3, <2>1, TallyFields
    <3> QED BY <3>1, SMT
  <2>2. CASE b # c
    <3>1. u.max_violation # diff
      BY <1>2, <1>7, <2>2, BucketUnique
    <3>2. u.max_violation = t.max_violation /\ t.max_violation > 0
      BY <1>6, <3>1, SMT
    <3>3. PICK i \in bucket_of(t.max_violation) : t.histogram[i] > 0
      BY <3>2, TallyFields, SMT DEF Consistent
    <3>4. i = c
      BY <1>6, <1>7, <3>2, <3>3, BucketUnique
    <3> QED BY <1>3, <1>7, <2>2, <3>3, <3>4
  <2> QED BY <2>1, <2>2
<1>11. u.violations # 0
  BY <1>5, TallyFields, SMT
<1> QED BY <1>4, <1>5, <1>7, <1>9, <1>10, <1>11 DEF Consistent

\* So does a read that is none.
LEMMA CountOther ==
  ASSUME NEW t \in Tally, NEW u \in Tally, Consistent(t), NEW d \in {0, 1},
         u.violations = t.violations, u.reads = t.reads + 1, u.preempt = t.preempt + d,
         u.max_violation = t.max_violation, u.histogram = t.histogram
  PROVE  Consistent(u)
<1>1. u.violations + u.preempt <= u.reads
  BY TallyFields, SMT DEF Consistent
<1> QED BY <1>1 DEF Consistent

\* And so does adding two tallies.
LEMMA AddTallies ==
  ASSUME NEW t \in Tally, NEW u \in Tally, NEW v \in Tally, Consistent(t), Consistent(u),
         v.violations = t.violations + u.violations, v.reads = t.reads + u.reads,
         v.preempt = t.preempt + u.preempt,
         v.max_violation = larger(t.max_violation, u.max_violation),
         \A i \in BucketIndex : v.histogram[i] = t.histogram[i] + u.histogram[i]
  PROVE  Consistent(v)
<1>1. NumBuckets \in Nat /\ BucketIndex = 1 .. NumBuckets
  BY CrossThreadAssumption DEF BucketIndex
<1>2. IsSum(v.histogram, NumBuckets, v.violations)
  <2>1. IsSum(t.histogram, NumBuckets, t.violations) /\ IsSum(u.histogram, NumBuckets, u.violations)
    BY DEF Consistent
  <2>2. t.violations \in Nat /\ u.violations \in Nat
    BY TallyFields
  <2>3. \A i \in 1 .. NumBuckets : /\ t.histogram[i] \in Nat /\ u.histogram[i] \in Nat
                                  /\ v.histogram[i] = t.histogram[i] + u.histogram[i]
    BY <1>1, TallyFields
  <2>4. IsSum(v.histogram, NumBuckets, t.violations + u.violations)
    BY <1>1, <2>1, <2>2, <2>3, SumOfSums
  <2> QED BY <2>4
<1>3. v.violations + v.preempt <= v.reads
  BY TallyFields, SMT DEF Consistent
<1>4. /\ t.max_violation \in Nat /\ u.max_violation \in Nat /\ v.max_violation \in Nat
      /\ t.max_violation <= v.max_violation /\ u.max_violation <= v.max_violation
      /\ v.max_violation = t.max_violation \/ v.max_violation = u.max_violation
  <2>1. t.max_violation \in Nat /\ u.max_violation \in Nat
    BY TallyFields
  <2> QED BY <2>1, LargerFacts
<1>5. CASE v.violations = 0
  <2>1. t.violations = 0 /\ u.violations = 0
    BY <1>5, TallyFields, SMT
  <2>2. t.max_violation = 0 /\ u.max_violation = 0
    BY <2>1 DEF Consistent
  <2>3. \A i \in BucketIndex : t.histogram[i] = 0 /\ u.histogram[i] = 0
    BY <2>1 DEF Consistent, Zeros
  <2>4. \A i \in BucketIndex : v.histogram[i] = 0
    BY <2>3, SMT
  <2>5. v.histogram = Zeros.histogram
    BY <2>4, TallyFields DEF Zeros
  <2> QED BY <1>2, <1>3, <1>4, <1>5, <2>2, <2>5, SMT DEF Consistent
<1>6. CASE v.violations # 0
  <2>1. PICK c \in BucketIndex : c \in bucket_of(v.max_violation)
    BY <1>4, BucketExists
  <2>2. ASSUME NEW j \in BucketIndex, j > c PROVE v.histogram[j] = 0
    <3>1. t.histogram[j] = 0 /\ u.histogram[j] = 0
      BY <1>4, <2>1, <2>2, EmptyBeyond
    <3>2. v.histogram[j] = t.histogram[j] + u.histogram[j]
      OBVIOUS
    <3> QED BY <3>1, <3>2, SMT
  <2>3. v.histogram[c] > 0
    <3>1. ASSUME NEW x \in Tally, Consistent(x), x.violations # 0,
                 x.max_violation = v.max_violation
          PROVE  x.histogram[c] > 0
      <4>1. PICK i \in bucket_of(x.max_violation) : x.histogram[i] > 0
        BY <3>1, TallyFields, SMT DEF Consistent
      <4> QED BY <1>4, <2>1, <3>1, <4>1, BucketUnique
    <3>2. t.histogram[c] > 0 \/ u.histogram[c] > 0
      <4>1. t.violations = 0 => t.max_violation = 0
        BY DEF Consistent
      <4>2. u.violations = 0 => u.max_violation = 0
        BY DEF Consistent
      <4>3. \/ t.violations # 0 /\ t.max_violation = v.max_violation
            \/ u.violations # 0 /\ u.max_violation = v.max_violation
        BY <1>4, <1>6, <4>1, <4>2, TallyFields, SMT
      <4> QED BY <3>1, <4>3
    <3>3. t.histogram[c] \in Nat /\ u.histogram[c] \in Nat
          /\ v.histogram[c] = t.histogram[c] + u.histogram[c]
      BY <2>1, TallyFields
    <3> QED BY <3>2, <3>3, SMT
  <2> QED BY <1>2, <1>3, <1>6, <2>1, <2>2, <2>3 DEF Consistent
<1> QED BY <1>5, <1>6

----------------------------------------------------------------------------
(* Readings of the clock *)

\* The constants are numbers, and scales lie within the error.
LEMMA Numbers ==
  /\ WordMod \in Nat /\ QOne \in Nat \ {0}
  /\ MaxSkew \in Nat /\ MaxErr \in Nat /\ TrueScale \in Nat /\ MaxScale \in Nat
  /\ MaxTime \in Nat
  /\ \A c \in CPUs : Skew[c] \in Nat /\ Skew[c] <= MaxSkew
  /\ \A s \in Scales : s \in Word /\ s \in Nat /\ s <= MaxScale /\ MaxScale - 2 * MaxErr <= s
BY WidthAssumption, SourceAssumption, SMT DEF MaxScale, Word

\* Ticks between the anchor and a read, as the subtraction has it.
Seen(c) == IF ticks(c) >= anchor THEN ticks(c) - anchor ELSE 0

\* A reading is the ticks seen at the current scale, rounded down.
LEMMA Reading ==
  ASSUME SourceTypeOK, NEW c \in CPUs
  PROVE  /\ Seen(c) \in Nat /\ now_as_u64(c) \in Nat
         /\ now_as_u64(c) * QOne <= Seen(c) * q
         /\ Seen(c) * q < now_as_u64(c) * QOne + QOne
         /\ Seen(c) <= time + MaxSkew - anchor
         /\ time - anchor <= Seen(c)
<1>1. /\ time \in Nat /\ time <= MaxTime /\ anchor \in Nat /\ anchor <= MaxSkew
      /\ Skew[c] \in Nat /\ Skew[c] <= MaxSkew
      /\ q \in Nat /\ q \in Word /\ q <= MaxScale
  BY Numbers, SMT DEF SourceTypeOK
<1>2. /\ Seen(c) \in Nat /\ Seen(c) <= time + MaxSkew - anchor /\ time - anchor <= Seen(c)
      /\ Seen(c) <= MaxTime + MaxSkew
  BY <1>1, Numbers, SMT DEF Seen, ticks
<1>3. CASE ticks(c) >= anchor
  <2> DEFINE s == Seen(c)
             n == (s * q) \div QOne
  <2>1. s = ticks(c) - anchor
    BY <1>3 DEF Seen
  <2>2. s \in Word /\ s # None
    BY <1>2, Numbers, SourceAssumption, NoneAssumption, SMT DEF Word
  <2>3. now_as_u64(c) = saturate(n)
    <3>1. now_as_u64(c) = as_nanos(ticks_to_duration(s, q))
      BY <1>3, <2>1, <2>2 DEF now_as_u64, u64_checked_sub
    <3> QED BY <1>1, <2>2, <3>1, TicksToDuration
  <2>4. s * q <= (MaxTime + MaxSkew) * MaxScale
    <3>1. s * q <= (MaxTime + MaxSkew) * q
      BY <1>1, <1>2, Numbers, MulMono, SMT
    <3>2. q * (MaxTime + MaxSkew) <= MaxScale * (MaxTime + MaxSkew)
      BY <1>1, Numbers, MulMono, SMT
    <3> QED BY <1>1, <1>2, <3>1, <3>2, Numbers, SMT
  <2>5. s * q \in Nat /\ s * q < WordMod * QOne
    BY <1>1, <1>2, <2>4, Numbers, SourceAssumption, SMT
  <2>6. n \in Nat /\ n * QOne <= s * q /\ s * q < n * QOne + QOne
    BY <2>5, DivBounds, Numbers
  <2>7. n < WordMod
    BY <2>5, DivLess, Numbers
  <2>8. saturate(n) = n
    BY <2>7 DEF saturate
  <2> QED BY <1>2, <2>3, <2>6, <2>8
<1>4. CASE ~(ticks(c) >= anchor)
  <2>1. now_as_u64(c) = 0 /\ Seen(c) = 0
    BY <1>4 DEF now_as_u64, u64_checked_sub, Seen
  <2> QED BY <1>1, <1>2, <2>1, Numbers, SMT
<1> QED BY <1>3, <1>4

----------------------------------------------------------------------------
(* The invariant *)

\* The scale of the readings so far is bounded by this one.
top == IF steady THEN q ELSE MaxScale

\* A reading is at most this, times QOne.
room == (time + MaxSkew - anchor) * top

\* And a violation is less, times QOne.
limit ==
  Bracket * QOne + (IF steady THEN 0 ELSE 2 * MaxErr * time) + MaxSkew * MaxScale + QOne

\* No counter is further ahead of the true time than the skew, and no scale
\* is larger than the largest so far: so the shared maximum and a worker's
\* copy of it are bounded.
AheadOK ==
  /\ max * QOne <= room
  /\ \A w \in Workers : r1[w] * QOne <= room
  /\ \A w \in Workers : prev[w] * QOne <= room

\* The inductive invariant.
IInv == TypeOK /\ AheadOK /\ ViolationsBounded

\* The bound on a violation.
LEMMA ExplainedMeans == \A v : Explained(v) <=> v * QOne < limit
BY DEF Explained, limit

\* What the types say of the numbers.
LEMMA Values ==
  ASSUME SourceTypeOK, steady \in BOOLEAN
  PROVE  /\ time \in Nat /\ anchor \in Nat /\ anchor <= MaxSkew /\ time + MaxSkew - anchor \in Nat
         /\ q \in Nat /\ q <= MaxScale /\ MaxScale - 2 * MaxErr <= q
         /\ top \in Nat /\ q <= top /\ top <= MaxScale
         /\ room \in Nat /\ limit \in Nat
<1>1. /\ time \in Nat /\ anchor \in Nat /\ anchor <= MaxSkew /\ time + MaxSkew - anchor \in Nat
      /\ q \in Nat /\ q <= MaxScale /\ MaxScale - 2 * MaxErr <= q
      /\ top \in Nat /\ q <= top /\ top <= MaxScale
  BY Numbers, SMT DEF SourceTypeOK, top
<1>2. room \in Nat
  BY <1>1, SMT DEF room
<1>3. 2 * MaxErr * time \in Nat /\ Bracket * QOne \in Nat /\ MaxSkew * MaxScale \in Nat
  BY <1>1, Numbers, CrossThreadAssumption, SMT
<1>4. limit \in Nat
  BY <1>3, Numbers, SMT DEF limit
<1> QED BY <1>1, <1>2, <1>4

\* The invariant holds initially.
LEMMA InitInv == Init => IInv
<1> SUFFICES ASSUME Init PROVE IInv
  OBVIOUS
<1>1. SourceTypeOK /\ steady \in BOOLEAN
  BY Numbers, SMT DEF Init, init_anchor, ticks, SourceTypeOK
<1>2. TypeOK
  <2>1. violations_per_thread \in Seq(Nat) /\ joined = 0 /\ joined <= Threads
    BY CrossThreadAssumption, SMT DEF Init, joined
  <2> QED BY <1>1, <2>1, ZerosType DEF Init, TypeOK
<1>3. room \in Nat /\ limit \in Nat /\ 0 * QOne = 0
  BY <1>1, Values, Numbers, SMT
<1>4. limit > 0
  <2>0. time \in Nat
    BY <1>1, Values
  <2>1. 2 * MaxErr * time \in Nat /\ Bracket * QOne \in Nat /\ MaxSkew * MaxScale \in Nat
    BY <2>0, Numbers, CrossThreadAssumption, SMT
  <2> QED BY <2>1, Numbers, SMT DEF limit
<1>5. AheadOK
  BY <1>3, SMT DEF Init, AheadOK
<1>6. ViolationsBounded
  BY <1>3, <1>4, ZerosType, ExplainedMeans DEF Init, ViolationsBounded
<1> QED BY <1>2, <1>5, <1>6 DEF IInv

\* A reading is bounded, and not far below what another can have been.
LEMMA ReadingBounds ==
  ASSUME IInv, NEW c \in CPUs, NEW x \in Nat, x * QOne <= room
  PROVE  /\ now_as_u64(c) \in Nat
         /\ now_as_u64(c) * QOne <= room
         /\ (x - now_as_u64(c)) * QOne + Bracket * QOne < limit
<1> DEFINE n == now_as_u64(c)
           s == Seen(c)
           M == MaxSkew
           b == time + M - anchor
           g == IF time >= anchor THEN time - anchor ELSE 0
           e == 2 * MaxErr
<1>0. SourceTypeOK /\ steady \in BOOLEAN
  BY DEF IInv, TypeOK
<1>1. /\ s \in Nat /\ n \in Nat /\ n * QOne <= s * q /\ s * q < n * QOne + QOne
      /\ s <= b /\ time - anchor <= s
  BY <1>0, Reading
<1>2. /\ b \in Nat /\ M \in Nat /\ top \in Nat /\ q \in Nat /\ q <= top /\ top <= MaxScale
      /\ e \in Nat /\ MaxScale - e <= q
      /\ time \in Nat /\ MaxScale \in Nat /\ QOne \in Nat /\ Bracket \in Nat
  BY <1>0, Values, Numbers, CrossThreadAssumption, SMT
<1>3. g \in Nat /\ g <= s /\ b <= g + M /\ g <= time
  BY <1>0, <1>1, Values, Numbers, SMT
<1>4. x * QOne <= b * top /\ room = b * top
  BY DEF room
<1>5. steady => top = q
  BY DEF top
<1> HIDE DEF n, s, M, b, g, e
<1>6. n * QOne <= b * top
  <2>1. s * q <= b * q
    BY <1>1, <1>2, MulMono
  <2>2. q * b <= top * b
    BY <1>2, MulMono
  <2> QED BY <1>1, <1>2, <2>1, <2>2, SMT
<1>7. b * top <= g * top + M * MaxScale
  <2>1. b * top <= (g + M) * top
    BY <1>2, <1>3, MulMono, SMT
  <2>2. top * M <= MaxScale * M
    BY <1>2, MulMono
  <2> QED BY <1>2, <1>3, <2>1, <2>2, SMT
<1>8. g * q <= s * q
  BY <1>1, <1>2, <1>3, MulMono
<1>9. g * top - g * q <= (IF steady THEN 0 ELSE e * time)
  <2>1. CASE steady
    <3>1. g * top - g * q = 0
      BY <1>2, <1>3, <1>5, <2>1, SMT
    <3> QED BY <2>1, <3>1
  <2>2. CASE ~steady
    <3> DEFINE f == top - q
    <3>1. f \in Nat /\ f <= e /\ top = q + f
      BY <1>2, SMT
    <3> HIDE DEF f
    <3>2. g * top - g * q = g * f
      BY <1>2, <1>3, <3>1, SMT
    <3>3. g * f <= time * f
      BY <1>2, <1>3, <3>1, MulMono
    <3>4. f * time <= e * time
      BY <1>2, <3>1, MulMono
    <3>5. g * f <= e * time
      BY <1>2, <1>3, <3>1, <3>3, <3>4, SMT
    <3> QED BY <2>2, <3>2, <3>5
  <2> QED BY <2>1, <2>2
<1>10. (x - n) * QOne = x * QOne - n * QOne
  BY <1>1, <1>2, SMT
<1>11. /\ x * QOne \in Nat /\ n * QOne \in Nat /\ b * top \in Nat /\ s * q \in Nat
       /\ g * q \in Nat /\ g * top \in Nat /\ M * MaxScale \in Nat /\ e * time \in Nat
       /\ Bracket * QOne \in Nat
  BY <1>1, <1>2, <1>3, SMT
<1>12. (x - n) * QOne + Bracket * QOne < limit
  <2> DEFINE j == IF steady THEN 0 ELSE e * time
             k == Bracket * QOne
  <2>1. j \in Nat /\ g * top - g * q <= j /\ k \in Nat
    BY <1>9, <1>11
  <2>2. limit = k + j + M * MaxScale + QOne
    BY DEF limit, e, M
  <2> HIDE DEF j, k
  <2>3. (x - n) * QOne + k < k + j + M * MaxScale + QOne
    BY <1>1, <1>2, <1>4, <1>7, <1>8, <1>10, <1>11, <2>1, SMT
  <2> QED BY <2>2, <2>3 DEF k
<1> QED BY <1>1, <1>4, <1>6, <1>12 DEF n

\* What gets past the filter is explained.
LEMMA FilterBound ==
  ASSUME IInv, NEW w \in Workers, NEW c \in CPUs,
         ~preempted(w, now_as_u64(c)), r1[w] < prev[w]
  PROVE  prev[w] - r1[w] \in Nat /\ Explained(prev[w] - r1[w])
<1> DEFINE n == now_as_u64(c)
           x == prev[w]
           y == r1[w]
<1>1. x \in Nat /\ y \in Nat /\ Bracket \in Nat /\ QOne \in Nat /\ x * QOne <= room /\ y < x
  BY CrossThreadAssumption, Numbers DEF IInv, TypeOK, AheadOK
<1>2. n \in Nat /\ (x - n) * QOne + Bracket * QOne < limit
  BY <1>1, ReadingBounds
<1>3. ~(n > y /\ n - y > Bracket)
  BY DEF preempted
<1>4. limit \in Nat
  BY Values DEF IInv, TypeOK
<1> HIDE DEF n, x, y
<1>5. x - y \in Nat /\ x - y <= x - n + Bracket /\ x - n + Bracket \in Nat
  BY <1>1, <1>2, <1>3, SMT
<1>6. (x - y) * QOne <= (x - n + Bracket) * QOne
  BY <1>1, <1>5, MulMono
<1>7. (x - n + Bracket) * QOne = (x - n) * QOne + Bracket * QOne
  BY <1>1, <1>2, SMT
<1>8. (x - y) * QOne < limit
  <2>1. (x - y) * QOne \in Nat /\ (x - n) * QOne + Bracket * QOne \in Nat
    BY <1>1, <1>5, <1>7, SMT
  <2> QED BY <1>2, <1>4, <1>6, <1>7, <2>1, SMT
<1> QED BY <1>5, <1>8, ExplainedMeans DEF x, y

\* Of two explained violations the larger is explained.
LEMMA LargerExplained ==
  ASSUME NEW a \in Nat, NEW b \in Nat, Explained(a), Explained(b)
  PROVE  Explained(larger(a, b))
BY LargerFacts

\* The steps that only move a process preserve the invariant.
LEMMA MoveInv ==
  ASSUME IInv,
         pc' \in [Workers \cup {Main} ->
           {"arrive", "wait", "test", "read", "fetch_max", "bracket", "returned",
            "sleep", "join", "reported"}],
         arrived' \subseteq Workers \cup {Main}, stop' \in BOOLEAN,
         UNCHANGED <<source, steady, max, r1, prev, tallies>>
  PROVE  IInv'
<1>1. UNCHANGED <<time, anchor, q, local, total, violations_per_thread, all_reads>>
  BY DEF source, tallies
<1>2. UNCHANGED room /\ \A v : Explained(v)' <=> Explained(v)
  BY <1>1 DEF room, top, Explained
<1>3. TypeOK'
  BY <1>1 DEF IInv, TypeOK, SourceTypeOK, joined
<1>4. AheadOK' /\ ViolationsBounded'
  BY <1>1, <1>2 DEF IInv, AheadOK, ViolationsBounded
<1> QED BY <1>3, <1>4 DEF IInv

\* Time passing and a recalibration only loosen the bounds.
LEMMA EnvironmentInv == IInv /\ (Tick \/ Recalibrate) => IInv'
<1> SUFFICES ASSUME IInv, Tick \/ Recalibrate PROVE IInv'
  OBVIOUS
<1>0. SourceTypeOK /\ steady \in BOOLEAN
  BY DEF IInv, TypeOK
<1>1. UNCHANGED <<anchor, arrived, stop, max, pc, r1, prev, local, total,
                  violations_per_thread, all_reads>>
  BY DEF Tick, Recalibrate, tallies
<1>2. q' \in Scales /\ steady' \in BOOLEAN /\ (steady' => steady /\ q' = q)
  <2>1. CASE Tick
    BY <1>0, <2>1 DEF Tick, SourceTypeOK
  <2>2. CASE Recalibrate
    BY <1>0, <2>2 DEF Recalibrate
  <2> QED BY <2>1, <2>2
<1>3. time' \in 0 .. MaxTime /\ time <= time'
  <2>1. time' = time \/ (time < MaxTime /\ time' = time + 1)
    BY DEF Tick, Recalibrate
  <2> QED BY <1>0, <2>1, Numbers, SMT DEF SourceTypeOK
<1>4. SourceTypeOK' /\ (steady \in BOOLEAN)'
  BY <1>0, <1>1, <1>2, <1>3 DEF SourceTypeOK
<1>5. TypeOK'
  BY <1>1, <1>4 DEF IInv, TypeOK, joined
<1>6. /\ time' \in Nat /\ time' + MaxSkew - anchor' \in Nat /\ top' \in Nat /\ q' <= MaxScale
      /\ room' \in Nat /\ limit' \in Nat
  <2>1. /\ time' \in Nat /\ anchor' \in Nat /\ anchor' <= MaxSkew
        /\ q' \in Nat /\ q' <= MaxScale
    <3>1. time' \in 0 .. MaxTime /\ anchor' \in 0 .. MaxSkew
      BY <1>4 DEF SourceTypeOK
    <3>2. q' \in Nat /\ q' <= MaxScale
      BY <1>2, Numbers
    <3> QED BY <3>1, <3>2, Numbers, SMT
  <2>2. time' + MaxSkew - anchor' \in Nat /\ top' \in Nat
    <3>1. \A x, y, z \in Nat : z <= y => x + y - z \in Nat
      BY SMT
    <3>2. time' + MaxSkew - anchor' \in Nat
      BY <2>1, <3>1, Numbers
    <3>3. top' = IF steady' THEN q' ELSE MaxScale
      BY DEF top
    <3>4. top' = q' \/ top' = MaxScale
      BY <3>3
    <3>5. top' \in Nat
      BY <2>1, <3>4, Numbers
    <3> QED BY <3>2, <3>5
  <2>3. room' \in Nat
    <3> DEFINE b == time' + MaxSkew - anchor'
    <3>1. room' = b * top'
      BY DEF room
    <3> HIDE DEF b
    <3>2. b \in Nat /\ top' \in Nat
      BY <2>2 DEF b
    <3>3. \A x, y \in Nat : x * y \in Nat
      BY SMT
    <3>4. b * top' \in Nat
      BY <3>2, <3>3
    <3> QED BY <3>1, <3>4
  <2>4. 2 * MaxErr * time' \in Nat /\ Bracket * QOne \in Nat /\ MaxSkew * MaxScale \in Nat
    <3>1. \A x, y \in Nat : x * y \in Nat
      BY SMT
    <3>2. 2 * MaxErr \in Nat
      BY <3>1, Numbers
    <3> QED BY <2>1, <3>1, <3>2, Numbers, CrossThreadAssumption
  <2>5. limit' \in Nat
    BY <2>4, Numbers, SMT DEF limit
  <2> QED BY <2>1, <2>2, <2>3, <2>5
<1>7. top <= top'
  BY <1>0, <1>2, <1>6, Values, Numbers, SMT DEF top
<1>8. room <= room'
  <2> DEFINE b  == time + MaxSkew - anchor
             b2 == time' + MaxSkew - anchor'
  <2>1. b \in Nat /\ b2 \in Nat /\ b <= b2 /\ top \in Nat /\ top' \in Nat
    BY <1>0, <1>1, <1>3, <1>6, Values, Numbers, SMT
  <2>2. room = b * top /\ room' = b2 * top'
    BY DEF room
  <2> HIDE DEF b, b2
  <2>3. b * top <= b2 * top
    BY <2>1, MulMono
  <2>4. top * b2 <= top' * b2
    BY <1>7, <2>1, MulMono
  <2>5. \A x, y \in Nat : x * y = y * x /\ x * y \in Nat
    BY SMT
  <2>6. b * top <= b2 * top /\ b2 * top <= b2 * top'
    BY <2>1, <2>3, <2>4, <2>5
  <2>7. b * top \in Nat /\ b2 * top \in Nat /\ b2 * top' \in Nat
    BY <2>1, <2>5
  <2>8. \A x, y, z \in Nat : x <= y /\ y <= z => x <= z
    BY SMT
  <2> QED BY <2>2, <2>6, <2>7, <2>8
<1>9. limit <= limit'
  <2> DEFINE e == 2 * MaxErr
             j == IF steady THEN 0 ELSE e * time
             j2 == IF steady' THEN 0 ELSE e * time'
             k == Bracket * QOne
             m == MaxSkew * MaxScale
  <2>1. e \in Nat /\ k \in Nat /\ m \in Nat /\ QOne \in Nat
    BY Numbers, CrossThreadAssumption, SMT
  <2>2. limit = k + j + m + QOne /\ limit' = k + j2 + m + QOne
    BY DEF limit
  <2> HIDE DEF e, k, m
  <2>3. time * e <= time' * e
    BY <1>0, <1>3, <1>6, <2>1, Values, MulMono
  <2>4. time \in Nat /\ \A x \in Nat : x * e = e * x /\ e * x \in Nat
    BY <1>0, <2>1, Values, SMT
  <2>5. e * time <= e * time' /\ e * time \in Nat /\ e * time' \in Nat
    BY <1>6, <2>3, <2>4
  <2>6. j \in Nat /\ j2 \in Nat /\ j <= j2
    BY <1>2, <2>5, SMT
  <2> HIDE DEF j, j2
  <2> QED BY <2>1, <2>2, <2>6, SMT
<1>10. \A v \in Nat : v * QOne \in Nat
  BY Numbers, SMT
<1>11. AheadOK'
  <2>1. \A v \in Nat : v * QOne <= room => v * QOne <= room'
    BY <1>0, <1>6, <1>8, <1>10, Values, SMT
  <2> QED BY <1>1, <2>1 DEF IInv, TypeOK, AheadOK
<1>12. ViolationsBounded'
  <2>1. \A v \in Nat : Explained(v) => v * QOne < limit'
    BY <1>0, <1>6, <1>9, <1>10, ExplainedMeans, Values, SMT
  <2>2. /\ \A w \in Workers : local[w].max_violation \in Nat
        /\ total.max_violation \in Nat
    BY TallyFields DEF IInv, TypeOK
  <2>3. \A v : Explained(v)' <=> v * QOne < limit'
    BY DEF Explained, limit
  <2> QED BY <1>1, <2>1, <2>2, <2>3 DEF IInv, ViolationsBounded
<1> QED BY <1>5, <1>11, <1>12 DEF IInv

\* What the bookkeeping after the bracket read does to the tally of w.
Violation(w) ==
  \E diff \in Nat :
    /\ Explained(diff)
    /\ local'[w].violations = local[w].violations + 1
    /\ local'[w].preempt = local[w].preempt
    /\ local'[w].max_violation = larger(local[w].max_violation, diff)
    /\ \A i \in BucketIndex :
         local'[w].histogram[i] = local[w].histogram[i] + (IF i \in bucket_of(diff) THEN 1 ELSE 0)

NoViolation(w) ==
  \E d \in {0, 1} :
    /\ local'[w].violations = local[w].violations
    /\ local'[w].preempt = local[w].preempt + d
    /\ local'[w].max_violation = local[w].max_violation
    /\ local'[w].histogram = local[w].histogram

LEMMA BracketedFacts ==
  ASSUME IInv, NEW w \in Workers, Bracketed(w)
  PROVE  /\ local' \in [Workers -> Tally]
         /\ \A v \in Workers : v # w => local'[v] = local[v]
         /\ local'[w].reads = local[w].reads + 1
         /\ Violation(w) \/ NoViolation(w)
<1>1. PICK n \in CPUs :
        LET dropped   == preempted(w, now_as_u64(n))
            violation == ~dropped /\ r1[w] < prev[w]
            diff      == prev[w] - r1[w]
            l         == local[w]
        IN  local' = [local EXCEPT ![w] =
                 [reads         |-> l.reads + 1,
                  preempt       |-> l.preempt + (IF dropped THEN 1 ELSE 0),
                  violations    |-> l.violations + (IF violation THEN 1 ELSE 0),
                  max_violation |-> IF violation THEN larger(l.max_violation, diff)
                                                 ELSE l.max_violation,
                  histogram     |-> [i \in BucketIndex |->
                     l.histogram[i] + (IF violation /\ i \in bucket_of(diff) THEN 1 ELSE 0)]]]
  BY DEF Bracketed
<1> DEFINE dropped   == preempted(w, now_as_u64(n))
           violation == ~dropped /\ r1[w] < prev[w]
           diff      == prev[w] - r1[w]
           l         == local[w]
           m         == IF violation THEN larger(l.max_violation, diff) ELSE l.max_violation
           p         == l.preempt + (IF dropped THEN 1 ELSE 0)
           c         == l.violations + (IF violation THEN 1 ELSE 0)
           h         == [i \in BucketIndex |->
                           l.histogram[i] + (IF violation /\ i \in bucket_of(diff) THEN 1 ELSE 0)]
           new       == [reads |-> l.reads + 1, preempt |-> p, violations |-> c,
                         max_violation |-> m, histogram |-> h]
<1>2. local' = [local EXCEPT ![w] = new]
  BY <1>1
<1>3. l \in Tally /\ local \in [Workers -> Tally]
  BY DEF IInv, TypeOK
<1>4. /\ l.violations \in Nat /\ l.reads \in Nat /\ l.max_violation \in Nat /\ l.preempt \in Nat
      /\ l.histogram \in [BucketIndex -> Nat]
      /\ \A i \in BucketIndex : l.histogram[i] \in Nat
  BY <1>3, TallyFields
<1>5. violation => diff \in Nat /\ Explained(diff)
  BY FilterBound
<1>6. m \in Nat
  <2>1. CASE violation
    <3>1. diff \in Nat
      BY <1>5, <2>1
    <3> HIDE DEF diff
    <3>2. larger(l.max_violation, diff) \in Nat
      BY <1>4, <3>1, LargerFacts
    <3> QED BY <2>1, <3>2
  <2>2. CASE ~violation
    BY <1>4, <2>2
  <2> QED BY <2>1, <2>2
<1>7. p \in Nat /\ c \in Nat /\ l.reads + 1 \in Nat
  BY <1>4, SMT
<1>8. h \in [BucketIndex -> Nat]
  <2>1. \A i \in BucketIndex :
          l.histogram[i] + (IF violation /\ i \in bucket_of(diff) THEN 1 ELSE 0) \in Nat
    BY <1>4, SMT
  <2> QED BY <2>1
<1> HIDE DEF m, p, c, h
<1>9. new \in Tally
  BY <1>6, <1>7, <1>8 DEF Tally
<1>10. /\ new.reads = l.reads + 1 /\ new.preempt = p /\ new.violations = c
       /\ new.max_violation = m /\ new.histogram = h
  OBVIOUS
<1> HIDE DEF new
<1>11. /\ local' \in [Workers -> Tally] /\ local'[w] = new
       /\ \A v \in Workers : v # w => local'[v] = local[v]
  BY <1>2, <1>3, <1>9
<1>12. CASE violation
  <2>1. p = l.preempt + 0 /\ c = l.violations + 1 /\ m = larger(l.max_violation, diff)
    BY <1>12 DEF p, c, m
  <2>2. \A i \in BucketIndex :
           h[i] = l.histogram[i] + (IF i \in bucket_of(diff) THEN 1 ELSE 0)
    BY <1>12 DEF h
  <2>3. p = l.preempt
    BY <1>4, <2>1, SMT
  <2> HIDE DEF diff
  <2> QED BY <1>5, <1>10, <1>11, <1>12, <2>1, <2>2, <2>3 DEF Violation
<1>13. CASE ~violation
  <2>1. c = l.violations + 0 /\ m = l.max_violation
    BY <1>13 DEF c, m
  <2>2. \A i \in BucketIndex : h[i] = l.histogram[i] + 0
    BY <1>13 DEF h
  <2>3. c = l.violations /\ \A i \in BucketIndex : h[i] = l.histogram[i]
    BY <1>4, <2>1, <2>2, SMT
  <2>4. h = l.histogram
    BY <1>4, <1>8, <2>3
  <2>5. \E d \in {0, 1} : p = l.preempt + d
    BY DEF p
  <2> QED BY <1>10, <1>11, <2>1, <2>3, <2>4, <2>5 DEF NoViolation
<1> QED BY <1>10, <1>11, <1>12, <1>13

\* What joining worker w does to the totals.
JoinOf(w) ==
  /\ w = joined + 1 /\ pc[w] = "returned"
  /\ violations_per_thread' = Append(violations_per_thread, local[w].violations)
  /\ violations_per_thread' \in Seq(Nat)
  /\ joined' = w
  /\ joined' <= Threads
  /\ total' \in Tally
  /\ total'.violations = total.violations + local[w].violations
  /\ total'.reads = total.reads + local[w].reads
  /\ total'.preempt = total.preempt + local[w].preempt
  /\ total'.max_violation = larger(total.max_violation, local[w].max_violation)
  /\ \A i \in BucketIndex : total'.histogram[i] = total.histogram[i] + local[w].histogram[i]

LEMMA JoinFacts ==
  ASSUME IInv, Join
  PROVE  \E w \in Workers : JoinOf(w)
<1> DEFINE w == joined + 1
<1>1. w \in Workers /\ AddTally(w) /\ pc[w] = "returned"
  BY DEF Join, AddTally
<1> HIDE DEF w
<1>2. total \in Tally /\ local[w] \in Tally
  BY <1>1 DEF IInv, TypeOK
<1> DEFINE v == total.violations + local[w].violations
           r == total.reads + local[w].reads
           p == total.preempt + local[w].preempt
           m == larger(total.max_violation, local[w].max_violation)
           h == [i \in BucketIndex |-> total.histogram[i] + local[w].histogram[i]]
<1>3. total' = [violations |-> v, reads |-> r, max_violation |-> m, preempt |-> p, histogram |-> h]
  BY <1>1 DEF AddTally
<1>4. v \in Nat /\ r \in Nat /\ p \in Nat
  BY <1>2, TallyFields, SMT
<1>5. m \in Nat
  BY <1>2, TallyFields, LargerFacts
<1>6. h \in [BucketIndex -> Nat]
  <2>1. \A i \in BucketIndex : total.histogram[i] \in Nat /\ local[w].histogram[i] \in Nat
    BY <1>2, TallyFields
  <2>2. \A i \in BucketIndex : total.histogram[i] + local[w].histogram[i] \in Nat
    BY <2>1, SMT
  <2> QED BY <2>2
<1>7. \A i \in BucketIndex : h[i] = total.histogram[i] + local[w].histogram[i]
  OBVIOUS
<1> HIDE DEF h
<1>8. /\ total'.violations = v /\ total'.reads = r /\ total'.preempt = p
      /\ total'.max_violation = m /\ total'.histogram = h
  BY <1>3
<1>9. total' \in Tally
  BY <1>3, <1>4, <1>5, <1>6 DEF Tally
<1>10. /\ violations_per_thread' = Append(violations_per_thread, local[w].violations)
       /\ violations_per_thread \in Seq(Nat) /\ local[w].violations \in Nat
  BY <1>1, <1>2, TallyFields DEF AddTally, IInv, TypeOK
<1>11. violations_per_thread' \in Seq(Nat) /\ joined' = joined + 1
  BY <1>10 DEF joined
<1>12. joined' = w /\ w <= Threads
  BY <1>1, <1>11, CrossThreadAssumption, SMT DEF w, Workers
<1> QED BY <1>1, <1>7, <1>8, <1>9, <1>10, <1>11, <1>12 DEF JoinOf, w

\* Every step preserves it.
LEMMA NextInv == IInv /\ [Next]_vars => IInv'
<1> SUFFICES ASSUME IInv, [Next]_vars PROVE IInv'
  OBVIOUS
<1>0. /\ max \in Nat
      /\ \A w \in Workers : r1[w] \in Nat /\ prev[w] \in Nat
      /\ TypeOK /\ AheadOK /\ ViolationsBounded
  BY DEF IInv, TypeOK
\* The bounds stay where the clock does.
<1>s. ASSUME UNCHANGED <<source, steady>>
      PROVE  /\ UNCHANGED <<time, anchor, q, room>> /\ SourceTypeOK' /\ (steady \in BOOLEAN)'
             /\ \A v : Explained(v)' <=> Explained(v)
  BY <1>0, <1>s DEF source, room, top, Explained, TypeOK, SourceTypeOK
<1>1. CASE Tick \/ Recalibrate
  BY <1>1, EnvironmentInv
<1>2. ASSUME NEW p \in Workers \cup {Main}, Arrive(p) PROVE IInv'
  BY <1>0, <1>2, MoveInv DEF Arrive, Goto, TypeOK
<1>3. ASSUME NEW p \in Workers \cup {Main}, Pass(p) PROVE IInv'
  BY <1>0, <1>3, MoveInv DEF Pass, Goto, TypeOK
<1>4. ASSUME NEW w \in Workers, Test(w) PROVE IInv'
  BY <1>0, <1>4, MoveInv DEF Test, Goto, TypeOK
<1>5. ASSUME NEW w \in Workers, ReadR1(w) PROVE IInv'
  <2>1. PICK c \in CPUs : r1' = [r1 EXCEPT ![w] = now_as_u64(c)]
    BY <1>5 DEF ReadR1
  <2>2. now_as_u64(c) \in Nat /\ now_as_u64(c) * QOne <= room
    BY <1>0, ReadingBounds DEF AheadOK
  <2>3. /\ UNCHANGED <<source, steady, arrived, stop, max, prev, tallies>>
        /\ UNCHANGED <<local, total, violations_per_thread, all_reads>>
    BY <1>5 DEF ReadR1, tallies
  <2>4. TypeOK'
    BY <1>0, <1>5, <1>s, <2>1, <2>2, <2>3 DEF ReadR1, Goto, TypeOK, joined
  <2>5. AheadOK'
    BY <1>0, <1>s, <2>1, <2>2, <2>3 DEF TypeOK, AheadOK
  <2>6. ViolationsBounded'
    BY <1>0, <1>s, <2>3 DEF ViolationsBounded
  <2> QED BY <2>4, <2>5, <2>6 DEF IInv
<1>6. ASSUME NEW w \in Workers, FetchMax(w) PROVE IInv'
  <2>1. /\ UNCHANGED <<source, steady, arrived, stop, r1, tallies>>
        /\ UNCHANGED <<local, total, violations_per_thread, all_reads>>
    BY <1>6 DEF FetchMax, tallies
  <2>2. max' \in Nat /\ max' * QOne <= room
    <3>1. max' = larger(max, r1[w])
      BY <1>6 DEF FetchMax
    <3> QED BY <1>0, <3>1, LargerFacts DEF AheadOK
  <2>3. TypeOK'
    BY <1>0, <1>6, <1>s, <2>1, <2>2 DEF FetchMax, Goto, TypeOK, joined
  <2>4. AheadOK'
    BY <1>0, <1>6, <1>s, <2>1, <2>2 DEF FetchMax, TypeOK, AheadOK
  <2>5. ViolationsBounded'
    BY <1>0, <1>s, <2>1 DEF ViolationsBounded
  <2> QED BY <2>3, <2>4, <2>5 DEF IInv
<1>7. ASSUME NEW w \in Workers, Bracketed(w) PROVE IInv'
  <2>0. /\ UNCHANGED <<source, steady, arrived, stop, max, total, violations_per_thread>>
        /\ r1' = [r1 EXCEPT ![w] = 0] /\ prev' = [prev EXCEPT ![w] = 0]
        /\ pc' = [pc EXCEPT ![w] = "test"] /\ all_reads' = all_reads + 1
    BY <1>7 DEF Bracketed, Goto
  <2>1. /\ local' \in [Workers -> Tally]
        /\ \A v \in Workers : v # w => local'[v] = local[v]
    BY <1>7, BracketedFacts
  <2>2. Explained(local'[w].max_violation)
    <3>1. local[w].max_violation \in Nat /\ Explained(local[w].max_violation)
      BY <1>0, TallyFields DEF TypeOK, ViolationsBounded
    <3>2. CASE Violation(w)
      BY <3>1, <3>2, LargerExplained DEF Violation
    <3>3. CASE NoViolation(w)
      BY <3>1, <3>3 DEF NoViolation
    <3> QED BY <1>7, <3>2, <3>3, BracketedFacts
  <2>3. TypeOK'
    <3>1. all_reads' \in Nat /\ 0 \in Nat
      BY <1>0, <2>0, SMT DEF TypeOK
    <3>2. r1' \in [Workers -> Nat] /\ prev' \in [Workers -> Nat]
      BY <1>0, <2>0, <3>1 DEF TypeOK
    <3>3. SourceTypeOK' /\ (steady \in BOOLEAN)'
      BY <1>s, <2>0
    <3> QED BY <1>0, <2>0, <2>1, <3>1, <3>2, <3>3 DEF TypeOK, joined
  <2>4. AheadOK'
    <3>1. 0 * QOne = 0 /\ room \in Nat
      BY <1>0, Values, Numbers, SMT DEF TypeOK
    <3>2. 0 * QOne <= room
      BY <3>1, SMT
    <3> QED BY <1>0, <1>s, <2>0, <3>2 DEF TypeOK, AheadOK
  <2>5. ViolationsBounded'
    BY <1>0, <1>s, <2>0, <2>1, <2>2 DEF ViolationsBounded
  <2> QED BY <2>3, <2>4, <2>5 DEF IInv
<1>8. CASE Stop
  BY <1>0, <1>8, MoveInv DEF Stop, Goto, TypeOK
<1>9. CASE Join
  <2>0. UNCHANGED <<source, steady, arrived, stop, max, pc, r1, prev, local, all_reads>>
    BY <1>9 DEF Join, AddTally
  <2>1. total.max_violation \in Nat /\ Explained(total.max_violation)
    BY <1>0, TallyFields DEF TypeOK, ViolationsBounded
  <2>2. PICK w \in Workers : JoinOf(w)
    BY <1>9, JoinFacts
  <2>3. local[w].max_violation \in Nat /\ Explained(local[w].max_violation)
    BY <1>0, TallyFields DEF TypeOK, ViolationsBounded
  <2>4. Explained(total'.max_violation)
    BY <2>1, <2>2, <2>3, LargerExplained DEF JoinOf
  <2>5. TypeOK'
    BY <1>0, <1>s, <2>0, <2>2 DEF JoinOf, TypeOK
  <2>6. AheadOK'
    BY <1>0, <1>s, <2>0 DEF AheadOK
  <2>7. ViolationsBounded'
    BY <1>0, <1>s, <2>0, <2>4 DEF ViolationsBounded
  <2> QED BY <2>5, <2>6, <2>7 DEF IInv
<1>10. CASE Report
  BY <1>0, <1>10, MoveInv DEF Report, Goto, TypeOK
<1>11. CASE UNCHANGED vars
  BY <1>0, <1>11, MoveInv DEF vars, tallies, TypeOK
<1> QED
  BY <1>1, <1>2, <1>3, <1>4, <1>5, <1>6, <1>7, <1>8, <1>9, <1>10, <1>11
     DEF Next, WorkerStep, MainStep

----------------------------------------------------------------------------
(* The totals *)

\* Every worker's tally, and the sum so far, is consistent.
CountsOK ==
  /\ \A w \in Workers : Consistent(local[w])
  /\ Consistent(total)

\* The iterations made are the workers' iterations, and the total holds those
\* of the workers that were joined.
ReadsOK ==
  \E run \in [0 .. Threads -> 0 .. all_reads] :
    /\ RunningTotals(run, [w \in Workers |-> local[w].reads], Threads)
    /\ run[Threads] = all_reads /\ run[joined] = total.reads

\* A joined worker has returned and stays as it was counted.
JoinedOK ==
  /\ \A w \in 1 .. joined : pc[w] = "returned" /\ violations_per_thread[w] = local[w].violations
  /\ IsSum(violations_per_thread, joined, total.violations)
  /\ pc[Main] = "reported" => joined = Threads

Totals == CountsOK /\ ReadsOK /\ JoinedOK

\* The number of joined workers.
LEMMA JoinedFacts ==
  ASSUME IInv
  PROVE  /\ Threads \in Nat /\ joined \in Nat /\ joined <= Threads
         /\ violations_per_thread \in Seq(Nat)
         /\ \A w \in 1 .. joined : w \in Workers
         /\ Main \notin Workers
<1>1. Threads \in Nat /\ joined \in Nat /\ joined <= Threads /\ violations_per_thread \in Seq(Nat)
  BY CrossThreadAssumption DEF IInv, TypeOK, joined
<1> QED BY <1>1, SMT DEF Workers, Main

\* Initially nothing is counted.
LEMMA InitTotals == Init => Totals
<1> SUFFICES ASSUME Init PROVE Totals
  OBVIOUS
<1>1. joined = 0 /\ Threads \in Nat /\ all_reads = 0 /\ pc[Main] # "reported"
  BY CrossThreadAssumption DEF Init, joined
<1>2. CountsOK
  BY ZerosConsistent DEF Init, CountsOK
<1>3. ReadsOK
  <2> DEFINE f == [w \in Workers |-> local[w].reads]
  <2>1. \A i \in 1 .. Threads : f[i] = 0
    BY DEF Init, Zeros, Workers
  <2> HIDE DEF f
  <2>2. IsSum(f, Threads, 0)
    BY <1>1, <2>1, SumOfZeros
  <2>3. PICK run \in [0 .. Threads -> 0 .. 0] : RunningTotals(run, f, Threads) /\ run[Threads] = 0
    BY <2>2 DEF IsSum
  <2>4. total.reads = 0 /\ run[0] = 0
    BY <2>3 DEF Init, Zeros, RunningTotals
  <2> QED BY <1>1, <2>3, <2>4 DEF ReadsOK, f
<1>4. JoinedOK
  <2>1. IsSum(violations_per_thread, 0, 0)
    BY SumOfZeros, SMT
  <2>2. total.violations = 0
    BY DEF Init, Zeros
  <2> QED BY <1>1, <2>1, <2>2, SMT DEF JoinedOK
<1> QED BY <1>2, <1>3, <1>4 DEF Totals

\* A step that counts nothing and moves no worker that has returned.
LEMMA MoveTotals ==
  ASSUME IInv, Totals, UNCHANGED <<local, total, violations_per_thread, all_reads>>,
         \A w \in Workers : pc[w] = "returned" => pc'[w] = "returned",
         pc'[Main] = "reported" => joined = Threads
  PROVE  Totals'
<1>1. CountsOK'
  BY DEF Totals, CountsOK, Consistent, IsSum, RunningTotals
<1>2. ReadsOK'
  BY DEF Totals, ReadsOK, RunningTotals, joined
<1>3. JoinedOK'
  <2>1. joined' = joined
    BY DEF joined
  <2>2. IsSum(violations_per_thread, joined, total.violations)'
    BY <2>1 DEF Totals, JoinedOK, IsSum, RunningTotals
  <2> QED BY <2>1, <2>2, JoinedFacts DEF Totals, JoinedOK
<1> QED BY <1>1, <1>2, <1>3 DEF Totals

\* An iteration.
LEMMA BracketedTotals ==
  ASSUME IInv, Totals, NEW w \in Workers, Bracketed(w)
  PROVE  Totals'
<1>1. /\ pc[w] = "bracket" /\ pc' = [pc EXCEPT ![w] = "test"] /\ all_reads' = all_reads + 1
      /\ UNCHANGED <<total, violations_per_thread>> /\ joined' = joined
  BY DEF Bracketed, Goto, joined
<1>2. /\ local' \in [Workers -> Tally] /\ local'[w] \in Tally /\ local[w] \in Tally
      /\ \A v \in Workers : v # w => local'[v] = local[v]
      /\ local'[w].reads = local[w].reads + 1
      /\ Violation(w) \/ NoViolation(w)
  BY BracketedFacts DEF IInv, TypeOK
<1>3. w \notin 1 .. joined /\ w > joined
  <2>1. w \notin 1 .. joined
    BY <1>1 DEF Totals, JoinedOK
  <2> QED BY <2>1, JoinedFacts, SMT DEF Workers
<1>4. CountsOK'
  <2>1. Consistent(local[w])
    BY DEF Totals, CountsOK
  <2>2. Consistent(local'[w])
    <3>1. CASE Violation(w)
      BY <1>2, <2>1, <3>1, CountViolation DEF Violation
    <3>2. CASE NoViolation(w)
      BY <1>2, <2>1, <3>2, CountOther DEF NoViolation
    <3> QED BY <1>2, <3>1, <3>2
  <2>3. \A v \in Workers : Consistent(local'[v])
    BY <1>2, <2>2 DEF Totals, CountsOK
  <2>4. Consistent(total')
    BY <1>1 DEF Totals, CountsOK
  <2> QED BY <2>3, <2>4 DEF CountsOK, Consistent, IsSum, RunningTotals
<1>5. ReadsOK'
  <2> DEFINE f == [v \in Workers |-> local[v].reads]
             g == [v \in Workers |-> local'[v].reads]
  <2>1. PICK run \in [0 .. Threads -> 0 .. all_reads] :
          /\ RunningTotals(run, f, Threads)
          /\ run[Threads] = all_reads /\ run[joined] = total.reads
    BY DEF Totals, ReadsOK
  <2>2. /\ \A i \in 1 .. Threads : f[i] \in Nat
        /\ \A i \in 1 .. Threads : i # w => g[i] = f[i]
        /\ g[w] = f[w] + 1 /\ w \in 1 .. Threads
    BY <1>2, TallyFields DEF Workers, IInv, TypeOK
  <2>3. all_reads \in Nat /\ Threads \in Nat
    BY JoinedFacts DEF IInv, TypeOK
  <2> HIDE DEF f, g
  <2> DEFINE up == Raised(run, Threads, w)
  <2>4. up \in [0 .. Threads -> 0 .. (all_reads + 1)] /\ RunningTotals(up, g, Threads)
    BY <2>1, <2>2, <2>3, TotalsPlusOne
  <2>5. up[Threads] = all_reads + 1 /\ up[joined] = total.reads
    BY <1>3, <2>1, <2>2, <2>3, JoinedFacts, SMT DEF Raised
  <2> HIDE DEF up
  <2>6. /\ up \in [0 .. Threads -> 0 .. all_reads']
        /\ RunningTotals(up, [v \in Workers |-> local[v].reads]', Threads)
        /\ up[Threads] = all_reads' /\ up[joined'] = total'.reads
    BY <1>1, <2>4, <2>5 DEF g
  <2> QED BY <2>6 DEF ReadsOK, RunningTotals
<1>6. JoinedOK'
  <2>1. \A v \in 1 .. joined : v # w /\ v \in Workers /\ pc'[v] = pc[v] /\ local'[v] = local[v]
    BY <1>1, <1>2, <1>3, JoinedFacts DEF IInv, TypeOK
  <2>2. pc'[Main] = pc[Main]
    BY <1>1, JoinedFacts DEF IInv, TypeOK
  <2>3. IsSum(violations_per_thread, joined, total.violations)'
    BY <1>1 DEF Totals, JoinedOK, IsSum, RunningTotals
  <2> QED BY <1>1, <2>1, <2>2, <2>3 DEF Totals, JoinedOK
<1> QED BY <1>4, <1>5, <1>6 DEF Totals

\* A join.
LEMMA JoinTotals ==
  ASSUME IInv, Totals, Join
  PROVE  Totals'
<1>1. UNCHANGED <<pc, local, all_reads>> /\ pc[Main] = "join"
  BY DEF Join, AddTally
<1>2. PICK w \in Workers : JoinOf(w)
  BY JoinFacts
<1>3. /\ w = joined + 1 /\ joined' = w /\ joined' <= Threads /\ joined \in Nat /\ Threads \in Nat
      /\ total \in Tally /\ local[w] \in Tally /\ total' \in Tally
  BY <1>2, JoinedFacts DEF JoinOf, IInv, TypeOK
<1>4. CountsOK'
  <2>1. Consistent(total) /\ Consistent(local[w])
    BY DEF Totals, CountsOK
  <2>2. Consistent(total')
    BY <1>2, <1>3, <2>1, AddTallies DEF JoinOf
  <2>3. \A v \in Workers : Consistent(local'[v])
    BY <1>1 DEF Totals, CountsOK
  <2> QED BY <2>2, <2>3 DEF CountsOK, Consistent, IsSum, RunningTotals
<1>5. ReadsOK'
  <2> DEFINE f == [v \in Workers |-> local[v].reads]
  <2>1. PICK run \in [0 .. Threads -> 0 .. all_reads] :
          /\ RunningTotals(run, f, Threads)
          /\ run[Threads] = all_reads /\ run[joined] = total.reads
    BY DEF Totals, ReadsOK
  <2>2. w \in 1 .. Threads /\ w - 1 = joined
    BY <1>3, SMT DEF Workers
  <2>3. run[w] = run[w - 1] + f[w]
    BY <2>1, <2>2 DEF RunningTotals
  <2>4. run[joined'] = total'.reads
    BY <1>2, <1>3, <2>1, <2>2, <2>3 DEF JoinOf
  <2>5. f' = f /\ all_reads' = all_reads
    BY <1>1
  <2> QED BY <2>1, <2>4, <2>5 DEF ReadsOK, RunningTotals
<1>6. JoinedOK'
  <2>1. /\ violations_per_thread \in Seq(Nat) /\ local[w].violations \in Nat
        /\ Len(violations_per_thread) = joined
        /\ violations_per_thread' = Append(violations_per_thread, local[w].violations)
    BY <1>2, <1>3, JoinedFacts, TallyFields DEF JoinOf, joined
  <2>2. /\ \A i \in 1 .. joined : violations_per_thread'[i] = violations_per_thread[i]
        /\ violations_per_thread'[joined + 1] = local[w].violations
    BY <2>1
  <2>3. total.violations \in Nat /\ total'.violations = total.violations + local[w].violations
    BY <1>2, <1>3, TallyFields DEF JoinOf
  <2>4. IsSum(violations_per_thread, joined, total.violations)
    BY DEF Totals, JoinedOK
  <2>5. IsSum(violations_per_thread', joined + 1, total.violations + local[w].violations)
    BY <1>3, <2>1, <2>2, <2>3, <2>4, SumAppended
  <2>6. IsSum(violations_per_thread', joined', total'.violations)
    BY <1>3, <2>3, <2>5
  <2>7. ASSUME NEW v \in 1 .. joined'
        PROVE  pc'[v] = "returned" /\ violations_per_thread'[v] = local'[v].violations
    <3>1. CASE v = w
      BY <1>1, <1>2, <1>3, <2>2, <3>1 DEF JoinOf
    <3>2. CASE v # w
      <4>1. v \in 1 .. joined
        BY <1>3, <3>2, SMT
      <4> QED BY <1>1, <2>2, <4>1 DEF Totals, JoinedOK
    <3> QED BY <3>1, <3>2
  <2> QED BY <1>1, <2>6, <2>7 DEF JoinedOK, IsSum, RunningTotals
<1> QED BY <1>4, <1>5, <1>6 DEF Totals

\* Every step preserves the totals.
LEMMA NextTotals == IInv /\ Totals /\ [Next]_vars => Totals'
<1> SUFFICES ASSUME IInv, Totals, [Next]_vars PROVE Totals'
  OBVIOUS
<1>0. pc[Main] = "reported" => joined = Threads
  BY DEF Totals, JoinedOK
<1> USE JoinedFacts DEF IInv, TypeOK
<1>1. CASE Tick \/ Recalibrate
  BY <1>0, <1>1, MoveTotals DEF Tick, Recalibrate, tallies
<1>2. ASSUME NEW p \in Workers \cup {Main}, Arrive(p) PROVE Totals'
  BY <1>0, <1>2, MoveTotals DEF Arrive, Goto, tallies
<1>3. ASSUME NEW p \in Workers \cup {Main}, Pass(p) PROVE Totals'
  BY <1>0, <1>3, MoveTotals DEF Pass, Goto, tallies
<1>4. ASSUME NEW w \in Workers, Test(w) PROVE Totals'
  BY <1>0, <1>4, MoveTotals DEF Test, Goto, tallies
<1>5. ASSUME NEW w \in Workers, ReadR1(w) PROVE Totals'
  BY <1>0, <1>5, MoveTotals DEF ReadR1, Goto, tallies
<1>6. ASSUME NEW w \in Workers, FetchMax(w) PROVE Totals'
  BY <1>0, <1>6, MoveTotals DEF FetchMax, Goto, tallies
<1>7. ASSUME NEW w \in Workers, Bracketed(w) PROVE Totals'
  BY <1>7, BracketedTotals
<1>8. CASE Stop
  BY <1>0, <1>8, MoveTotals DEF Stop, Goto, tallies
<1>9. CASE Join
  BY <1>9, JoinTotals
<1>10. CASE Report
  BY <1>10, MoveTotals DEF Report, Goto, tallies
<1>11. CASE UNCHANGED vars
  BY <1>0, <1>11, MoveTotals DEF vars
<1> QED
  BY <1>1, <1>2, <1>3, <1>4, <1>5, <1>6, <1>7, <1>8, <1>9, <1>10, <1>11
     DEF Next, WorkerStep, MainStep

----------------------------------------------------------------------------
(* The theorems *)

\* The inductive invariant holds throughout every behaviour.
LEMMA Invariance == Spec => [](IInv /\ Totals)
BY InitInv, InitTotals, NextInv, NextTotals, PTL DEF Spec

\* The tallies and the report keep their types.
THEOREM TypeCorrect == Spec => []TypeOK
<1>1. IInv => TypeOK
  BY DEF IInv
<1> QED BY <1>1, Invariance, PTL

\* No schedule makes a reported violation exceed the bracket, the skew and one
\* nanosecond of rounding, unless a recalibration changed the scale: then by
\* the change of scale times the age of the anchor and no more.
THEOREM SchedulingIsFiltered == Spec => []ViolationsBounded
<1>1. IInv => ViolationsBounded
  BY DEF IInv
<1> QED BY <1>1, Invariance, PTL

\* Every report is complete and consistent: for any number of workers,
\* buckets and iterations, in any schedule, no read and no violation is lost
\* or counted twice.
THEOREM ReportIsConsistent == Spec => []ReportAddsUp
<1>1. IInv /\ Totals => ReportAddsUp
  <2> SUFFICES ASSUME IInv, Totals, pc[Main] = "reported"
               PROVE  /\ total.reads = all_reads
                      /\ violations_per_thread = [w \in Workers |-> local[w].violations]
                      /\ IsSum(violations_per_thread, Threads, total.violations)
                      /\ Consistent(total)
    BY DEF ReportAddsUp
  <2>1. joined = Threads /\ Workers = 1 .. joined
    BY DEF Totals, JoinedOK, Workers
  <2>2. total.reads = all_reads
    BY <2>1 DEF Totals, ReadsOK
  <2>3. violations_per_thread = [w \in Workers |-> local[w].violations]
    <3>1. \A w \in 1 .. joined : violations_per_thread[w] = local[w].violations
      BY DEF Totals, JoinedOK
    <3>2. /\ violations_per_thread \in [1 .. Len(violations_per_thread) -> Nat]
          /\ Len(violations_per_thread) = joined
      BY JoinedFacts DEF joined
    <3> QED BY <2>1, <3>1, <3>2
  <2> QED BY <2>1, <2>2, <2>3 DEF Totals, CountsOK, JoinedOK
<1> QED BY <1>1, Invariance, PTL
============================================================================
