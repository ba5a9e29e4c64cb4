-------------------------- MODULE ScaleCacheProofs --------------------------
(***************************************************************************)
(* The invariants of ScaleCache and its refinement of ScaleRegister, for   *)
(* any number of threads, any target and any frequencies; and when the two *)
(* statements of the documentation that fail in general do hold.           *)
(***************************************************************************)
EXTENDS ScaleOrder, Platform, Q32Proofs

Initialising == {"ensure", "spawn", "release"}

\* Clients and the background thread stay in their own parts of the code.
PlacesOK ==
  /\ \A t \in Threads : pc[t] \notin {"unborn", "load", "sleep"}
  /\ pc[Bg] \in {"unborn", "load", "sleep", "calibrate", "publish"}

\* What a process holds in its register at each place.
RegistersOK ==
  /\ \A p \in Procs : pc[p] \in {"store", "publish"} => reg[p] \in Hz /\ reg[p] \in frequencies
  /\ \A t \in Threads : pc[t] \in Initialising => reg[t] \in ScaleValues

\* Only targets that have a recalibration are in the middle of one.
RecalibratesOK ==
  \A p \in Procs : pc[p] \in {"calibrate", "publish"} => target.recalibrates

\* The inductive invariant.
IInv == TypeOK /\ OneInitialiser /\ PlacesOK /\ RegistersOK /\ RecalibratesOK

----------------------------------------------------------------------------

\* The scale of a nonzero frequency is a scale.
LEMMA ScaleIsScale ==
  ASSUME NEW f \in Hz, f # 0
  PROVE  scale_of(f) \in ScaleValues
BY DEF ScaleValues

\* A measured frequency is a natural number.
LEMMA HzNat == \A f \in Hz : f \in Nat
BY CacheAssumption, WidthAssumption, SMT DEF Word

\* A client is not the background thread.
LEMMA BgIsNoClient == /\ \A t \in Threads : t # Bg /\ t \in Procs
                      /\ Bg \in Procs
BY CacheAssumption DEF Procs

\* OneInitialiser without its set of threads.
LEMMA OneInitialiserMeans ==
  OneInitialiser <=>
    /\ \A t, u \in Threads : (pc[t] \in {"spawn", "release"} /\ pc[u] \in {"spawn", "release"}) => t = u
    /\ (\E t \in Threads : pc[t] \in {"spawn", "release"}) <=> (once = "running")
    /\ once = "new" => pc[Bg] = "unborn"
    /\ \A t \in Threads : pc[t] = "spawn" => pc[Bg] = "unborn"
BY Zenon DEF OneInitialiser

\* The invariant holds initially.
LEMMA InitInv == Init => IInv
<1> SUFFICES ASSUME Init PROVE IInv
  OBVIOUS
<1>1. \A t \in Threads : pc[t] = "idle" /\ ret[t] = None
  BY BgIsNoClient DEF Init
<1>2. pc[Bg] = "unborn"
  BY BgIsNoClient DEF Init
<1>3. TypeOK
  BY SMT DEF Init, TypeOK, ScaleValues, Locations, DEFAULT_INTERVAL_SECS
<1>4. OneInitialiser
  BY <1>1, <1>2, OneInitialiserMeans DEF Init
<1>5. PlacesOK /\ RegistersOK /\ RecalibratesOK
  BY <1>1, <1>2 DEF PlacesOK, RegistersOK, RecalibratesOK, Initialising, Procs
<1> QED BY <1>3, <1>4, <1>5 DEF IInv

----------------------------------------------------------------------------
(* One lemma per step that changes where a process is *)

\* The type invariant is preserved by every step.
LEMMA NextType == IInv /\ Next => TypeOK'
<1> SUFFICES ASSUME IInv, Next PROVE TypeOK'
  OBVIOUS
<1> USE BgIsNoClient DEF IInv, TypeOK, Goto, Return, Locations
<1>0. 0 \in ScaleValues
  BY DEF ScaleValues
<1>1. target.exact \in Hz \cup {None} /\ target.rates \subseteq Hz
  BY CacheAssumption DEF Target
<1>2. ASSUME NEW t \in Threads, Load(t) PROVE TypeOK'
  BY <1>2 DEF Load
<1>3. ASSUME NEW t \in Threads, Recalibrate(t) PROVE TypeOK'
  BY <1>3 DEF Recalibrate
<1>4. ASSUME NEW t \in Threads, ReadFrequency(t) PROVE TypeOK'
  BY <1>1, <1>4 DEF ReadFrequency
<1>5. ASSUME NEW t \in Threads, Store(t) PROVE TypeOK'
  <2>1. reg[t] # 0 => scale_of(reg[t]) \in ScaleValues
    BY <1>5, ScaleIsScale DEF Store, RegistersOK
  <2> QED BY <1>0, <1>5, <2>1 DEF Store
<1>6. ASSUME NEW t \in Threads, Ensure(t) PROVE TypeOK'
  BY <1>0, <1>6 DEF Ensure, RegistersOK, Initialising
<1>7. ASSUME NEW t \in Threads, Spawn(t) PROVE TypeOK'
  BY <1>7 DEF Spawn
<1>8. ASSUME NEW t \in Threads, Release(t) PROVE TypeOK'
  BY <1>0, <1>8 DEF Release, RegistersOK, Initialising
<1>9. ASSUME NEW p \in Procs, Calibrate(p) PROVE TypeOK'
  BY <1>1, <1>9 DEF Calibrate
<1>10. ASSUME NEW p \in Procs, Publish(p) PROVE TypeOK'
  <2>1. reg[p] # 0 => scale_of(reg[p]) \in ScaleValues
    BY <1>10, ScaleIsScale DEF Publish, RegistersOK
  <2>2. reg[p] \in Nat
    BY <1>10, HzNat DEF Publish, RegistersOK
  <2> QED BY <1>0, <1>10, <2>1, <2>2 DEF Publish
<1>11. CASE LoadInterval
  BY <1>11 DEF LoadInterval
<1>12. CASE Wake
  BY <1>12 DEF Wake
<1>13. ASSUME NEW s \in Intervals, set_recalibration_interval(s) PROVE TypeOK'
  <2>1. clamped(s) \in Nat \ {0}
    BY CacheAssumption, SMT DEF clamped
  <2> QED BY <1>13, <2>1 DEF set_recalibration_interval
<1> QED
  BY <1>2, <1>3, <1>4, <1>5, <1>6, <1>7, <1>8, <1>9, <1>10, <1>11, <1>12, <1>13
     DEF Next, CallStep, BgStep

\* The OnceLock and the background thread.
LEMMA NextOnce == IInv /\ Next => OneInitialiser'
<1> SUFFICES ASSUME IInv, Next PROVE OneInitialiser'
  OBVIOUS
<1> DEFINE In(l) == l \in {"spawn", "release"}
           Once == /\ \A t, u \in Threads : In(pc[t]) /\ In(pc[u]) => t = u
                   /\ (\E t \in Threads : In(pc[t])) <=> (once = "running")
                   /\ once = "new" => pc[Bg] = "unborn"
                   /\ \A t \in Threads : pc[t] = "spawn" => pc[Bg] = "unborn"
<1>1. Once
  BY OneInitialiserMeans DEF IInv
<1>2. SUFFICES Once'
  BY DEF OneInitialiser
<1>3. /\ pc \in [Procs -> Locations]
      /\ \A t \in Threads : pc[t] \notin {"unborn", "load", "sleep"}
  BY DEF IInv, TypeOK, PlacesOK
<1> USE BgIsNoClient DEF Goto, Return
\* A client moves between two places outside the closure.
<1>4. ASSUME NEW t \in Threads, NEW l, ~In(pc[t]), ~In(l), Goto(t, l), UNCHANGED once
      PROVE  Once'
  BY <1>1, <1>3, <1>4
\* The background thread moves on.
<1>5. ASSUME NEW l, pc[Bg] # "unborn", Goto(Bg, l), UNCHANGED once
      PROVE  Once'
  BY <1>1, <1>3, <1>5
<1>6. ASSUME NEW t \in Threads, Load(t) PROVE Once'
  <2>1. CASE UNCHANGED pc
    BY <1>1, <1>6, <2>1 DEF Load
  <2>2. CASE Goto(t, "read")
    BY <1>4, <1>6, <2>2 DEF Load
  <2> QED BY <1>6, <2>1, <2>2 DEF Load
<1>7. ASSUME NEW t \in Threads, Recalibrate(t) PROVE Once'
  BY <1>4, <1>7 DEF Recalibrate
<1>8. ASSUME NEW t \in Threads, ReadFrequency(t) PROVE Once'
  BY <1>4, <1>8 DEF ReadFrequency
<1>9. ASSUME NEW t \in Threads, Store(t) PROVE Once'
  <2>1. UNCHANGED once /\ ~In(pc[t])
    BY <1>9 DEF Store
  <2>2. Goto(t, "panicked") \/ Goto(t, "ensure") \/ Goto(t, "idle")
    BY <1>9 DEF Store
  <2> QED BY <1>4, <2>1, <2>2
<1>10. ASSUME NEW t \in Threads, Ensure(t) PROVE Once'
  <2>1. CASE once = "new" /\ once' = "running" /\ Goto(t, "spawn")
    BY <1>1, <1>3, <1>10, <2>1 DEF Ensure
  <2>2. CASE UNCHANGED once /\ Goto(t, "idle")
    BY <1>4, <1>10, <2>2 DEF Ensure
  <2> QED BY <1>10, <2>1, <2>2 DEF Ensure
<1>11. ASSUME NEW t \in Threads, Spawn(t) PROVE Once'
  <2>1. In(pc[t]) /\ pc[t] = "spawn" /\ UNCHANGED once /\ once = "running"
    BY <1>1, <1>11 DEF Spawn
  <2>2. CASE pc' = [pc EXCEPT ![t] = "release", ![Bg] = "load"]
    <3>1. /\ pc'[t] = "release" /\ pc'[Bg] = "load"
          /\ \A u \in Threads : u # t => pc'[u] = pc[u]
      BY <1>3, <2>2
    <3>2. \A u \in Threads : u # t => ~In(pc[u])
      BY <1>1, <2>1
    <3> QED BY <2>1, <3>1, <3>2
  <2>3. CASE Goto(t, "release")
    <3>1. /\ pc'[t] = "release" /\ pc'[Bg] = pc[Bg]
          /\ \A u \in Threads : u # t => pc'[u] = pc[u]
      BY <1>3, <2>3
    <3>2. \A u \in Threads : u # t => ~In(pc[u])
      BY <1>1, <2>1
    <3> QED BY <2>1, <3>1, <3>2
  <2> QED BY <1>11, <2>2, <2>3 DEF Spawn
<1>12. ASSUME NEW t \in Threads, Release(t) PROVE Once'
  <2>1. In(pc[t]) /\ once' = "done"
    BY <1>12 DEF Release
  <2>2. \A u \in Threads : ~In(pc'[u])
    BY <1>1, <1>3, <1>12, <2>1 DEF Release
  <2> QED BY <2>1, <2>2
<1>13. ASSUME NEW p \in Procs, Calibrate(p) PROVE Once'
  BY <1>4, <1>5, <1>13 DEF Calibrate, Procs
<1>14. ASSUME NEW p \in Procs, Publish(p) PROVE Once'
  BY <1>4, <1>5, <1>14 DEF Publish, Procs
<1>15. CASE LoadInterval
  BY <1>5, <1>15 DEF LoadInterval
<1>16. CASE Wake
  BY <1>5, <1>16 DEF Wake
<1>17. ASSUME NEW s \in Intervals, set_recalibration_interval(s) PROVE Once'
  BY <1>1, <1>17 DEF set_recalibration_interval
<1> QED
  BY <1>6, <1>7, <1>8, <1>9, <1>10, <1>11, <1>12, <1>13, <1>14, <1>15, <1>16, <1>17
     DEF Next, CallStep, BgStep

\* Places, registers and recalibration.
LEMMA NextPlaces == IInv /\ Next => (PlacesOK /\ RegistersOK /\ RecalibratesOK)'
<1> DEFINE Good == PlacesOK /\ RegistersOK /\ RecalibratesOK
<1> SUFFICES ASSUME IInv, Next PROVE Good'
  OBVIOUS
<1> USE BgIsNoClient DEF IInv, TypeOK, PlacesOK, RegistersOK, RecalibratesOK, Goto,
                         Return, Initialising, Procs
<1>0. UNCHANGED target => UNCHANGED frequencies
  BY DEF frequencies
<1>1. /\ \A f \in target.rates : f \in Hz /\ f \in frequencies
      /\ target.exact # None => target.exact \in Hz /\ target.exact \in frequencies
  <2>1. (target.exact # None => target.exact \in Hz) /\ target.rates \subseteq Hz
    BY CacheAssumption DEF Target
  <2>2. None \notin Hz
    BY HzNat, NoneAssumption
  <2> QED BY <2>1, <2>2 DEF frequencies
<1>2. \A p \in Procs : (pc[p] \in {"store", "publish"} /\ reg[p] # 0) =>
                          scale_of(reg[p]) \in ScaleValues
  BY ScaleIsScale
<1>3. ASSUME NEW t \in Threads, Load(t) PROVE Good'
  BY <1>0, <1>3 DEF Load
<1>4. ASSUME NEW t \in Threads, Recalibrate(t) PROVE Good'
  BY <1>0, <1>4 DEF Recalibrate
<1>5. ASSUME NEW t \in Threads, ReadFrequency(t) PROVE Good'
  BY <1>0, <1>1, <1>5 DEF ReadFrequency
<1>6. ASSUME NEW t \in Threads, Store(t) PROVE Good'
  <2>1. UNCHANGED <<target, frequencies>> /\ pc[t] = "store"
    BY <1>0, <1>6 DEF Store
  <2>2. \A p \in Procs : p # t => pc'[p] = pc[p] /\ reg'[p] = reg[p]
    BY <1>6 DEF Store
  <2>3. \/ pc'[t] \in {"panicked", "idle"}
        \/ pc'[t] = "ensure" /\ reg'[t] = scale_of(reg[t]) /\ reg[t] # 0
    BY <1>6 DEF Store
  <2> QED BY <1>2, <2>1, <2>2, <2>3
<1>7. ASSUME NEW t \in Threads, Ensure(t) PROVE Good'
  BY <1>0, <1>7 DEF Ensure
<1>8. ASSUME NEW t \in Threads, Spawn(t) PROVE Good'
  BY <1>0, <1>8 DEF Spawn
<1>9. ASSUME NEW t \in Threads, Release(t) PROVE Good'
  BY <1>0, <1>9 DEF Release
<1>10. ASSUME NEW p \in Procs, Calibrate(p) PROVE Good'
  BY <1>0, <1>1, <1>10 DEF Calibrate
<1>11. ASSUME NEW p \in Procs, Publish(p) PROVE Good'
  <2>1. UNCHANGED <<target, frequencies>>
    BY <1>0, <1>11 DEF Publish
  <2>2. \A o \in Procs : o # p => pc'[o] = pc[o] /\ reg'[o] = reg[o]
    BY <1>11 DEF Publish
  <2>3. pc'[p] = (IF p = Bg THEN "load" ELSE "idle")
    BY <1>11 DEF Publish
  <2> QED BY <2>1, <2>2, <2>3
<1>12. CASE LoadInterval
  BY <1>0, <1>12 DEF LoadInterval
<1>13. CASE Wake
  BY <1>0, <1>13 DEF Wake
<1>14. ASSUME NEW s \in Intervals, set_recalibration_interval(s) PROVE Good'
  BY <1>0, <1>14 DEF set_recalibration_interval
<1> QED
  BY <1>3, <1>4, <1>5, <1>6, <1>7, <1>8, <1>9, <1>10, <1>11, <1>12, <1>13, <1>14
     DEF Next, CallStep, BgStep

\* The inductive invariant holds throughout every behaviour.
LEMMA Invariance == SafetySpec => []IInv
<1>1. IInv /\ UNCHANGED vars => IInv'
  BY DEF IInv, vars, TypeOK, OneInitialiser, PlacesOK, RegistersOK, RecalibratesOK, frequencies
<1>2. IInv /\ [Next]_vars => IInv'
  BY <1>1, NextType, NextOnce, NextPlaces DEF IInv
<1> QED BY <1>2, InitInv, PTL DEF SafetySpec

----------------------------------------------------------------------------
(* The theorems *)

\* The cell, the interval and every register keep their types; the interval
\* is never 0.
THEOREM TypeCorrect == SafetySpec => []TypeOK
<1>1. IInv => TypeOK
  BY DEF IInv
<1> QED BY <1>1, Invariance, PTL

\* However many threads race through the first use, one of them runs the
\* closure and one background thread is started at most.
THEOREM OnceLockExclusive == SafetySpec => []OneInitialiser
<1>1. IInv => OneInitialiser
  BY DEF IInv
<1> QED BY <1>1, Invariance, PTL

\* Every step of the cache is a step of the register, or none.
LEMMA StepSimulation == IInv /\ [Next]_vars => [Register!Next]_(Register!vars)
<1> SUFFICES ASSUME IInv, [Next]_vars PROVE [Register!Next]_(Register!vars)
  OBVIOUS
<1> DEFINE Fixed   == UNCHANGED target
           Missed  == {t \in Threads : pc[t] \in {"read", "store"}}
           Scales  == {scale_of(f) : f \in frequencies \ {0}}
           Stutter == UNCHANGED <<cell, got, Missed, Scales, target.recalibrates>>
           Ans     == Register!Next \/ Stutter
<1> SUFFICES Ans
  BY DEF Register!vars
<1>0. /\ pc \in [Procs -> Locations] /\ reg \in [Procs -> Hz \cup ScaleValues]
      /\ ret \in [Threads -> ScaleValues \cup {None}]
  BY DEF IInv, TypeOK
<1>f. Fixed => Scales' = Scales /\ target.recalibrates' = target.recalibrates
  BY DEF frequencies
<1> USE BgIsNoClient DEF Goto, Return, Initialising, got
\* got and missed change only where the clients' pc, reg or ret do.
<1>1. ASSUME UNCHANGED cell, Fixed, \A t \in Threads : got'[t] = got[t],
             \A t \in Threads : t \in Missed' <=> t \in Missed
      PROVE  Stutter
  BY <1>1, <1>f
<1>2. ASSUME NEW t \in Threads, Load(t) PROVE Ans
  <2>1. CASE cell # 0 /\ ret' = [ret EXCEPT ![t] = cell] /\ UNCHANGED pc
    <3>1. got' = [got EXCEPT ![t] = cell] /\ t \notin Missed /\ Missed' = Missed
      BY <1>0, <1>2, <2>1 DEF Load
    <3>2. UNCHANGED cell /\ Fixed
      BY <1>2 DEF Load
    <3> QED BY <1>f, <2>1, <3>1, <3>2 DEF Register!Next, Register!Serve
  <2>2. CASE cell = 0 /\ Goto(t, "read") /\ UNCHANGED ret
    <3>1. Missed' = Missed \cup {t}
      BY <1>0, <1>2, <2>2 DEF Load
    <3>2. UNCHANGED cell /\ Fixed /\ UNCHANGED got
      BY <1>0, <1>2, <2>2 DEF Load
    <3> QED BY <1>f, <2>2, <3>1, <3>2 DEF Register!Next, Register!Miss
  <2> QED BY <1>2, <2>1, <2>2 DEF Load
<1>3. ASSUME NEW t \in Threads, Recalibrate(t) PROVE Ans
  BY <1>0, <1>1, <1>3 DEF Recalibrate
<1>4. ASSUME NEW t \in Threads, ReadFrequency(t) PROVE Ans
  BY <1>0, <1>1, <1>4 DEF ReadFrequency
<1>5. ASSUME NEW t \in Threads, Store(t) PROVE Ans
  <2>0. t \in Missed /\ Fixed
    BY <1>5 DEF Store
  <2>1. CASE reg[t] = 0
    <3>1. Missed' = Missed \ {t}
      BY <1>0, <1>5, <2>1 DEF Store
    <3>2. UNCHANGED cell /\ UNCHANGED got
      BY <1>0, <1>5, <2>1 DEF Store
    <3> QED BY <1>f, <2>0, <3>1, <3>2 DEF Register!Next, Register!Fail
  <2>2. CASE reg[t] # 0
    <3>1. cell' \in Scales
      BY <1>5, <2>2 DEF Store, IInv, RegistersOK
    <3>2. Missed' = Missed \ {t}
      BY <1>0, <1>5, <2>2 DEF Store
    <3>3. got' = [got EXCEPT ![t] = cell']
      BY <1>0, <1>5, <2>2 DEF Store
    <3> QED BY <1>f, <2>0, <3>1, <3>2, <3>3 DEF Register!Next, Register!Initialise
  <2> QED BY <2>1, <2>2
<1>6. ASSUME NEW t \in Threads, Ensure(t) PROVE Ans
  BY <1>0, <1>1, <1>6 DEF Ensure
<1>7. ASSUME NEW t \in Threads, Spawn(t) PROVE Ans
  BY <1>0, <1>1, <1>7 DEF Spawn
<1>8. ASSUME NEW t \in Threads, Release(t) PROVE Ans
  BY <1>0, <1>1, <1>8 DEF Release
<1>9. ASSUME NEW p \in Procs, Calibrate(p) PROVE Ans
  BY <1>0, <1>1, <1>9 DEF Calibrate
<1>10. ASSUME NEW p \in Procs, Publish(p) PROVE Ans
  <2>1. \A t \in Threads : got'[t] = got[t] /\ (t \in Missed' <=> t \in Missed)
    BY <1>0, <1>10 DEF Publish
  <2>2. CASE reg[p] = 0
    BY <1>1, <1>10, <2>1, <2>2, HzNat DEF Publish
  <2>3. CASE reg[p] # 0
    <3>1. cell' = scale_of(reg[p]) /\ Fixed /\ reg[p] \in frequencies
      BY <1>10, <2>3 DEF Publish, IInv, RegistersOK
    <3>2. cell' \in Scales
      BY <2>3, <3>1
    <3>3. target.recalibrates /\ got' = got /\ Missed' = Missed
      BY <1>10, <2>1 DEF Publish, IInv, RecalibratesOK
    <3> QED BY <1>f, <3>1, <3>2, <3>3 DEF Register!Next, Register!Replace
  <2> QED BY <2>2, <2>3
<1>11. CASE LoadInterval
  BY <1>0, <1>1, <1>11 DEF LoadInterval
<1>12. CASE Wake
  BY <1>0, <1>1, <1>12 DEF Wake
<1>13. ASSUME NEW s \in Intervals, set_recalibration_interval(s) PROVE Ans
  BY <1>1, <1>13 DEF set_recalibration_interval
<1>14. CASE UNCHANGED vars
  BY <1>1, <1>14 DEF vars
<1> QED
  BY <1>2, <1>3, <1>4, <1>5, <1>6, <1>7, <1>8, <1>9, <1>10, <1>11, <1>12, <1>13, <1>14
     DEF Next, CallStep, BgStep

\* The cache implements the register: callers are served from a filled cell
\* only, and it is written only by callers that found it empty, and by
\* recalibrations. Every u64 frequency is allowed, the overlarge ones too.
THEOREM RefinesRegister == SafetySpec => ImplementsRegister
<1>1. Init => Register!Init
  <2> SUFFICES ASSUME Init PROVE Register!Init
    OBVIOUS
  <2>1. target.recalibrates \in BOOLEAN /\ target.rates \subseteq Hz /\ target.exact \in Hz \cup {None}
    BY CacheAssumption DEF Init, Target
  <2>2. got = [t \in Threads |-> None]
    BY BgIsNoClient DEF Init, got
  <2>3. {t \in Threads : pc[t] \in {"read", "store"}} = {}
    BY BgIsNoClient DEF Init
  <2>4. {scale_of(f) : f \in frequencies \ {0}} \subseteq Nat
    <3> SUFFICES ASSUME NEW f \in frequencies \ {0} PROVE scale_of(f) \in Nat
      OBVIOUS
    <3>1. f \in Word \ {0}
      BY <2>1, CacheAssumption DEF frequencies
    <3>2. f \in Nat \ {0} /\ Word \subseteq Nat
      BY <3>1, WidthAssumption, SMT DEF Word
    <3> QED BY <3>2, ScaleNeverSaturates
  <2> QED BY <2>1, <2>2, <2>3, <2>4 DEF Init, Register!Init
<1> QED BY <1>1, StepSimulation, Invariance, PTL
        DEF SafetySpec, ImplementsRegister, Register!Spec

\* The process at p is about to store a measurement above 10^9 << 32.
Overlarge(p) == pc[p] \in {"store", "publish"} /\ reg[p] > NANOS_PER_SECOND_Q32

EmptiedByOverlarge ==
  cell # 0 /\ cell' = 0 => \E p \in Procs : Overlarge(p) /\ pc'[p] # pc[p]

\* The cell is emptied again only by the process that holds a frequency above
\* 10^9 << 32, on first use (arch/mod.rs:37) or in recalibrate
\* (arch/mod.rs:160): no counter runs at such a rate, but a disturbed
\* calibrate_frequency saturates to one (calibration.rs:30).
THEOREM OnlyOverlargeEmpties == SafetySpec => [][EmptiedByOverlarge]_vars
<1>1. ASSUME IInv, NEW p \in Procs, pc[p] \in {"store", "publish"}, reg[p] # 0, scale_of(reg[p]) = 0
      PROVE  Overlarge(p)
  <2>1. reg[p] \in Nat
    BY <1>1, HzNat DEF IInv, RegistersOK
  <2>2. NANOS_PER_SECOND_Q32 \in Nat
    BY WidthAssumption, SMT DEF NANOS_PER_SECOND_Q32
  <2>3. reg[p] \notin 1 .. NANOS_PER_SECOND_Q32
    BY <1>1, ScaleIsNotTheSentinel
  <2>4. reg[p] > NANOS_PER_SECOND_Q32
    BY <1>1, <2>1, <2>2, <2>3, SMT
  <2> QED BY <1>1, <2>4 DEF Overlarge
<1>2. IInv /\ [Next]_vars => [EmptiedByOverlarge]_vars
  <2> SUFFICES ASSUME IInv, Next, cell # 0, cell' = 0
               PROVE  \E p \in Procs : Overlarge(p) /\ pc'[p] # pc[p]
    BY DEF EmptiedByOverlarge
  <2>1. UNCHANGED cell => FALSE
    OBVIOUS
  <2>2. ASSUME NEW t \in Threads, Store(t) PROVE Overlarge(t) /\ pc'[t] # pc[t]
    <3>1. Overlarge(t)
      BY <1>1, <2>1, <2>2, BgIsNoClient DEF Store
    <3>2. pc'[t] \in {"ensure", "idle"} /\ pc[t] = "store"
      BY <2>1, <2>2, BgIsNoClient DEF Store, Return, Goto, IInv, TypeOK
    <3> QED BY <3>1, <3>2
  <2>3. ASSUME NEW p \in Procs, Publish(p) PROVE Overlarge(p) /\ pc'[p] # pc[p]
    <3>1. Overlarge(p)
      BY <1>1, <2>1, <2>3, HzNat DEF Publish, IInv, RegistersOK
    <3>2. pc'[p] # pc[p]
      BY <2>3 DEF Publish, Goto, IInv, TypeOK
    <3> QED BY <3>1, <3>2
  <2> QED
    BY <2>1, <2>2, <2>3, BgIsNoClient
       DEF Next, CallStep, BgStep, Load, Recalibrate, ReadFrequency, Ensure, Spawn, Release,
           Calibrate, LoadInterval, Wake, set_recalibration_interval
<1> QED BY <1>2, Invariance, PTL DEF SafetySpec

----------------------------------------------------------------------------
(* The scale and the counter *)

\* Frequencies on their way to the cell are of the counter too.
Fits ==
  /\ \A p \in Procs : pc[p] \in {"store", "publish"} => reg[p] \in target.rates
  /\ ScaleFitsCounter

\* Where the registers and APIs report the frequency of the counter that is
\* read, the cell always holds a scale of that counter. (The assumption is
\* what the build for Intel Macs breaks.)
THEOREM ScalesFit ==
  ASSUME \A t \in Targets : t.exact # None => t.exact \in t.rates
  PROVE  SafetySpec => []ScaleFitsCounter
<1>1. Init => Fits
  <2> SUFFICES ASSUME Init PROVE Fits
    OBVIOUS
  <2>1. \A p \in Procs : pc[p] \in {"unborn", "idle"}
    BY DEF Init
  <2> QED BY <2>1 DEF Init, Fits, ScaleFitsCounter
<1>2. IInv /\ Fits /\ [Next]_vars => Fits'
  <2> SUFFICES ASSUME IInv, Fits, [Next]_vars PROVE Fits'
    OBVIOUS
  <2>1. target.exact # None => target.exact \in target.rates
    BY DEF IInv, TypeOK
  <2>2. \A p \in Procs : pc[p] \in {"store", "publish"} => reg[p] \in Nat
    BY HzNat DEF IInv, RegistersOK
  <2> USE BgIsNoClient DEF IInv, TypeOK, Fits, ScaleFitsCounter, Goto, Return
  <2>3. ASSUME NEW t \in Threads, Load(t) PROVE Fits'
    BY <2>3 DEF Load
  <2>4. ASSUME NEW t \in Threads, Recalibrate(t) PROVE Fits'
    BY <2>4 DEF Recalibrate
  <2>5. ASSUME NEW t \in Threads, ReadFrequency(t) PROVE Fits'
    BY <2>1, <2>5 DEF ReadFrequency
  <2>6. ASSUME NEW t \in Threads, Store(t) PROVE Fits'
    BY <2>6 DEF Store
  <2>7. ASSUME NEW t \in Threads, Ensure(t) PROVE Fits'
    BY <2>7 DEF Ensure
  <2>8. ASSUME NEW t \in Threads, Spawn(t) PROVE Fits'
    BY <2>8 DEF Spawn
  <2>9. ASSUME NEW t \in Threads, Release(t) PROVE Fits'
    BY <2>9 DEF Release
  <2>10. ASSUME NEW p \in Procs, Calibrate(p) PROVE Fits'
    BY <2>10 DEF Calibrate
  <2>11. ASSUME NEW p \in Procs, Publish(p) PROVE Fits'
    BY <2>2, <2>11 DEF Publish
  <2>12. CASE LoadInterval
    BY <2>12 DEF LoadInterval
  <2>13. CASE Wake
    BY <2>13 DEF Wake
  <2>14. ASSUME NEW s \in Intervals, set_recalibration_interval(s) PROVE Fits'
    BY <2>14 DEF set_recalibration_interval
  <2>15. CASE UNCHANGED vars
    BY <2>15 DEF vars
  <2> QED
    BY <2>3, <2>4, <2>5, <2>6, <2>7, <2>8, <2>9, <2>10, <2>11, <2>12, <2>13, <2>14, <2>15
       DEF Next, CallStep, BgStep
<1>3. Fits => ScaleFitsCounter
  BY DEF Fits
<1> QED BY <1>1, <1>2, <1>3, Invariance, PTL DEF SafetySpec

\* The builds in question. The first line leaves out x86 on macOS and Windows,
\* whose TSC is not what the OS reports on; the others leave out what is no
\* target of Rust or has no counter to read.
Supported(b) ==
  /\ b.os \in {"macos", "windows"} => ~x86(b)
  /\ b.os \in {"macos", "windows"} => b.arch \notin {"riscv64", "loongarch64"}
  /\ b.os = "windows" => b.arch = "aarch64"
  /\ b.os = "wasi" => b.arch = "wasm32"

\* Registers and APIs tell the truth about the counter they are about.
Authoritative(b) ==
  /\ CntfrqHz \in Rates["cntvct"]
  /\ (NanosPerSecond * Timebase.denom) \div Timebase.numer \in Rates["mach_time"]
  /\ NanosPerSecond \in Rates["performance_now"]
  /\ NanosPerSecond \in Rates["wasi_clock_monotonic"]
  /\ cpuid_tsc_hz(b.leaf) # None => cpuid_tsc_hz(b.leaf) \in Rates["tsc"]

\* The cfg attributes of ticks and read_frequency name the same clock.
LEMMA CascadesAgree ==
  ASSUME NEW b, Supported(b), Authoritative(b), read_frequency(b) # None
  PROVE  read_frequency(b) \in Rates[ticks(b)]
<1> USE DEF Supported, Authoritative
<1>1. CASE b.arch = "aarch64"
  <2>1. ticks(b) = "cntvct" /\ read_frequency(b) = CntfrqHz
    BY <1>1 DEF ticks, read_frequency, x86, wasm_host
  <2> QED BY <2>1
<1>2. CASE b.arch # "aarch64" /\ b.os = "macos"
  <2>1. ticks(b) = "mach_time"
    BY <1>2 DEF ticks, x86, wasm_host
  <2>2. read_frequency(b) = (NanosPerSecond * Timebase.denom) \div Timebase.numer
    BY <1>2 DEF read_frequency, x86, wasm_host
  <2> QED BY <2>1, <2>2
<1>3. CASE wasm_host(b)
  <2>1. ticks(b) = "performance_now" /\ read_frequency(b) = NanosPerSecond
    BY <1>3 DEF ticks, read_frequency, x86, wasm_host
  <2> QED BY <2>1
<1>4. CASE b.os = "wasi"
  <2>1. read_frequency(b) = NanosPerSecond
    BY <1>4 DEF read_frequency, x86, wasm_host
  <2>2. ticks(b) = "wasi_clock_monotonic"
    BY <1>4, PlatformAssumption DEF ticks, x86, wasm_host
  <2> QED BY <2>1, <2>2
<1>5. CASE x86(b) /\ b.os \notin {"macos", "windows", "wasi"}
  <2>1. ticks(b) = "tsc"
    BY <1>5 DEF ticks, x86, wasm_host
  <2>2. read_frequency(b) = cpuid_tsc_hz(b.leaf)
    BY <1>5 DEF read_frequency, x86, wasm_host
  <2> QED BY <2>1, <2>2
<1>6. CASE /\ b.arch # "aarch64" /\ b.os \notin {"macos", "windows", "wasi"}
           /\ ~wasm_host(b) /\ ~x86(b)
  BY <1>6 DEF read_frequency
<1> QED BY <1>1, <1>2, <1>3, <1>4, <1>5, <1>6 DEF x86

\* On every supported build, but x86 on macOS and Windows, the cell holds a
\* scale of the counter that ticks() reads, as long as registers and APIs
\* report the truth: the cfg conditions in arch/direct.rs and arch/*.rs agree.
THEOREM BuildsFit ==
  ASSUME NEW CONSTANT Builds,
         Targets \subseteq {target_of(b) : b \in Builds},
         \A b \in Builds : Supported(b) /\ Authoritative(b)
  PROVE  SafetySpec => []ScaleFitsCounter
<1>1. \A t \in Targets : t.exact # None => t.exact \in t.rates
  <2> SUFFICES ASSUME NEW b \in Builds, read_frequency(b) # None
               PROVE  read_frequency(b) \in Rates[ticks(b)]
    BY DEF target_of
  <2> QED BY CascadesAgree
<1> QED BY <1>1, ScalesFit

----------------------------------------------------------------------------
(* The thread on first use *)

\* A client's recalibrate() puts a scale into the empty cell before anyone
\* has gone through the OnceLock.
FilledByRecalibrate ==
  \E t \in Threads : once = "new" /\ cell = 0 /\ cell' # 0 /\ Publish(t)

\* The cell is filled or somebody has been given a scale.
Used == cell # 0 \/ \E t \in Threads : ret[t] # None

\* A cell in use has, or is about to have, gone through the OnceLock, and
\* whoever is past the spawn left a thread behind.
SpawnOK ==
  (target.background /\ ~SpawnMayFail) =>
    /\ Used => once # "new" \/ \E t \in Threads : pc[t] = "ensure"
    /\ (once = "done" \/ \E t \in Threads : pc[t] = "release") => pc[Bg] # "unborn"

\* Every step but a recalibration of the empty cell keeps SpawnOK.
LEMMA NextSpawn == IInv /\ SpawnOK /\ [Next /\ ~FilledByRecalibrate]_vars => SpawnOK'
<1> SUFFICES ASSUME IInv, SpawnOK, [Next /\ ~FilledByRecalibrate]_vars,
                    target.background, ~SpawnMayFail, UNCHANGED target
             PROVE  /\ Used' => once' # "new" \/ \E t \in Threads : pc'[t] = "ensure"
                    /\ (once' = "done" \/ \E t \in Threads : pc'[t] = "release")
                          => pc'[Bg] # "unborn"
  <2>1. [Next]_vars => UNCHANGED target
    BY DEF Next, CallStep, BgStep, Load, Recalibrate, ReadFrequency, Store, Ensure, Spawn,
           Release, Calibrate, Publish, LoadInterval, Wake, set_recalibration_interval, vars
  <2> QED BY <2>1 DEF SpawnOK
<1> DEFINE Filled == Used => once # "new" \/ \E t \in Threads : pc[t] = "ensure"
           Left   == (once = "done" \/ \E t \in Threads : pc[t] = "release") => pc[Bg] # "unborn"
           Good   == Filled /\ Left
<1>1. Good
  BY DEF SpawnOK
<1>2. SUFFICES Good'
  OBVIOUS
<1>3. /\ pc \in [Procs -> Locations]
      /\ once = "new" => pc[Bg] = "unborn"
      /\ \A t \in Threads : pc[t] \notin {"unborn", "load", "sleep"}
  BY OneInitialiserMeans DEF IInv, TypeOK, PlacesOK
<1> USE BgIsNoClient DEF Goto, Return
\* A client moves between places that have no part in this.
<1>4. ASSUME NEW t \in Threads, NEW l, pc[t] \notin {"ensure"}, l # "release",
             Goto(t, l), UNCHANGED once, Used' => Used \/ once # "new"
      PROVE  Good'
  BY <1>1, <1>3, <1>4
<1>5. ASSUME NEW l, l # "unborn", pc[Bg] # "unborn", Goto(Bg, l), UNCHANGED once
      PROVE  Good'
  BY <1>1, <1>3, <1>5
<1>6. ASSUME NEW t \in Threads, Load(t) PROVE Good'
  <2>1. CASE UNCHANGED pc
    <3>1. Used' => Used
      BY <1>6, <2>1 DEF Load, Used
    <3> QED BY <1>1, <1>6, <2>1, <3>1 DEF Load
  <2>2. CASE Goto(t, "read")
    <3>1. Used' => Used
      BY <1>3, <1>6, <2>2 DEF Load, Used
    <3> QED BY <1>4, <1>6, <2>2, <3>1 DEF Load
  <2> QED BY <1>6, <2>1, <2>2 DEF Load
<1>7. ASSUME NEW t \in Threads, Recalibrate(t) PROVE Good'
  BY <1>4, <1>7 DEF Recalibrate, Used
<1>8. ASSUME NEW t \in Threads, ReadFrequency(t) PROVE Good'
  BY <1>4, <1>8 DEF ReadFrequency, Used
<1>9. ASSUME NEW t \in Threads, Store(t) PROVE Good'
  <2>1. CASE reg[t] = 0
    BY <1>4, <1>9, <2>1 DEF Store, Used
  <2>2. CASE reg[t] # 0
    <3>1. pc[t] = "store" /\ Goto(t, "ensure") /\ UNCHANGED once
      BY <1>9, <2>2 DEF Store
    <3>2. pc'[t] = "ensure" /\ pc'[Bg] = pc[Bg]
      BY <1>3, <3>1
    <3>3. \A u \in Threads : pc'[u] = "release" => pc[u] = "release"
      BY <1>3, <3>1
    <3> QED BY <1>1, <3>1, <3>2, <3>3
  <2> QED BY <2>1, <2>2
\* The thread that finds the lock new takes it; the others find it done.
<1>10. ASSUME NEW t \in Threads, Ensure(t) PROVE Good'
  <2>1. once' # "new" /\ (once' = "done" => once = "done")
    BY <1>10 DEF Ensure
  <2>2. pc'[Bg] = pc[Bg] /\ \A u \in Threads : pc'[u] = "release" => pc[u] = "release"
    BY <1>3, <1>10 DEF Ensure
  <2> QED BY <1>1, <2>1, <2>2
<1>11. ASSUME NEW t \in Threads, Spawn(t) PROVE Good'
  <2>1. pc' = [pc EXCEPT ![t] = "release", ![Bg] = "load"] /\ UNCHANGED <<cell, once>>
    BY <1>11 DEF Spawn
  <2>2. pc'[Bg] = "load" /\ pc[t] = "spawn"
    BY <1>3, <1>11, <2>1 DEF Spawn
  <2>3. \A u \in Threads : pc[u] = "ensure" => pc'[u] = "ensure"
    BY <1>3, <2>1, <2>2
  <2>4. Used' => Used
    BY <1>11 DEF Spawn, Used
  <2> QED BY <1>1, <2>1, <2>2, <2>3, <2>4
<1>12. ASSUME NEW t \in Threads, Release(t) PROVE Good'
  <2>1. once' = "done" /\ pc[t] = "release" /\ pc'[Bg] = pc[Bg]
    BY <1>3, <1>12 DEF Release
  <2> QED BY <1>1, <2>1
<1>13. ASSUME NEW p \in Procs, Calibrate(p) PROVE Good'
  BY <1>4, <1>5, <1>13 DEF Calibrate, Procs, Used
<1>14. ASSUME NEW t \in Threads, Publish(t) PROVE Good'
  <2>1. Used' => Used \/ once # "new"
    <3>1. CASE ~FilledByRecalibrate
      BY <1>14, <3>1 DEF FilledByRecalibrate, Publish, Used
    <3>2. CASE UNCHANGED vars
      BY <3>2 DEF vars, Used
    <3> QED BY <3>1, <3>2
  <2>2. pc[t] = "publish" /\ Goto(t, "idle") /\ UNCHANGED once
    BY <1>14 DEF Publish
  <2> QED BY <1>4, <2>1, <2>2
\* Where the background thread is running the lock is no longer new.
<1>15. CASE Publish(Bg)
  BY <1>5, <1>15 DEF Publish
<1>16. CASE LoadInterval
  BY <1>5, <1>16 DEF LoadInterval
<1>17. CASE Wake
  BY <1>5, <1>17 DEF Wake
<1>18. ASSUME NEW s \in Intervals, set_recalibration_interval(s) PROVE Good'
  BY <1>1, <1>18 DEF set_recalibration_interval, Used
<1>19. CASE UNCHANGED vars
  BY <1>1, <1>19 DEF vars, Used
<1> QED
  BY <1>6, <1>7, <1>8, <1>9, <1>10, <1>11, <1>12, <1>13, <1>14, <1>15, <1>16, <1>17, <1>18, <1>19
     DEF Next, CallStep, BgStep

\* The background thread is started on first use as long as no client's
\* recalibrate() fills the cell before a first use does (arch/mod.rs:160):
\* other recalibrations, however they race, do no harm.
THEOREM ThreadOnFirstUse ==
  SafetySpec /\ [][~FilledByRecalibrate]_vars => []SpawnedOnFirstUse
<1>1. Init => SpawnOK
  <2> SUFFICES ASSUME Init PROVE SpawnOK
    OBVIOUS
  <2>1. \A t \in Threads : pc[t] = "idle"
    BY BgIsNoClient DEF Init
  <2> QED BY <2>1 DEF Init, SpawnOK, Used
<1>2. IInv /\ SpawnOK => SpawnedOnFirstUse
  <2> SUFFICES ASSUME IInv, SpawnOK, target.background, ~SpawnMayFail,
                      \A t \in Threads : pc[t] = "idle",
                      NEW u \in Threads, ret[u] # None
               PROVE  pc[Bg] # "unborn"
    BY DEF SpawnedOnFirstUse
  <2>1. Used
    BY DEF Used
  <2>2. once # "new"
    BY <2>1 DEF SpawnOK
  <2>3. once # "running"
    BY OneInitialiserMeans DEF IInv
  <2>4. once = "done"
    BY <2>2, <2>3 DEF IInv, TypeOK
  <2> QED BY <2>4 DEF SpawnOK
<1>3. [Next]_vars /\ [~FilledByRecalibrate]_vars => [Next /\ ~FilledByRecalibrate]_vars
  OBVIOUS
<1> QED BY <1>1, <1>2, <1>3, NextSpawn, Invariance, PTL DEF SafetySpec

----------------------------------------------------------------------------
(* The newest measurement *)

\* A recalibration is published while somebody else holds a measurement.
Interferes == \E p \in Procs : Publish(p) /\ \E o \in Procs \ {p} : Holds(o)

\* Nobody was overtaken; whoever is pending still holds a measurement.
HistoryOK ==
  /\ \A o, p \in Procs : <<o, p>> \in pending => o # p /\ Holds(o) /\ Holds(p)
  /\ overtaken = {}
  /\ ~stale

\* A step in which a process lets go of a recalibration is its Publish.
LEMMA OnlyPublish ==
  ASSUME IInv, Next, NEW p \in Procs, pc[p] = "publish", ~Holds(p)'
  PROVE  Publish(p)
<1>0. pc \in [Procs -> Locations]
  BY DEF IInv, TypeOK
<1>1. pc'[p] # pc[p]
  BY DEF Holds
<1> USE BgIsNoClient DEF Goto, Return
<1>2. ASSUME NEW t \in Threads, Load(t) PROVE FALSE
  BY <1>0, <1>1, <1>2 DEF Load
<1>3. ASSUME NEW t \in Threads, Recalibrate(t) PROVE FALSE
  BY <1>0, <1>1, <1>3 DEF Recalibrate
<1>4. ASSUME NEW t \in Threads, ReadFrequency(t) PROVE FALSE
  BY <1>0, <1>1, <1>4 DEF ReadFrequency
<1>5. ASSUME NEW t \in Threads, Store(t) PROVE FALSE
  BY <1>0, <1>1, <1>5 DEF Store
<1>6. ASSUME NEW t \in Threads, Ensure(t) PROVE FALSE
  BY <1>0, <1>1, <1>6 DEF Ensure
\* The thread is unborn when it is spawned, so it is not publishing.
<1>7. ASSUME NEW t \in Threads, Spawn(t) PROVE FALSE
  <2>1. pc[t] = "spawn" /\ pc[Bg] = "unborn"
    BY <1>7, OneInitialiserMeans DEF Spawn, IInv
  <2> QED BY <1>0, <1>1, <1>7, <2>1 DEF Spawn
<1>8. ASSUME NEW t \in Threads, Release(t) PROVE FALSE
  BY <1>0, <1>1, <1>8 DEF Release
<1>9. ASSUME NEW o \in Procs, Calibrate(o) PROVE FALSE
  BY <1>0, <1>1, <1>9 DEF Calibrate
<1>10. ASSUME NEW o \in Procs, Publish(o) PROVE o = p
  BY <1>0, <1>1, <1>10 DEF Publish
<1>11. ASSUME LoadInterval PROVE FALSE
  BY <1>0, <1>1, <1>11 DEF LoadInterval
<1>12. ASSUME Wake PROVE FALSE
  BY <1>0, <1>1, <1>12 DEF Wake
<1>13. ASSUME NEW s \in Intervals, set_recalibration_interval(s) PROVE FALSE
  BY <1>1, <1>13 DEF set_recalibration_interval
<1> QED
  BY <1>2, <1>3, <1>4, <1>5, <1>6, <1>7, <1>8, <1>9, <1>10, <1>11, <1>12, <1>13
     DEF Next, CallStep, BgStep

\* Every step moves one process, or is the spawn of the background thread.
LEMMA OneHolderMoves ==
  ASSUME IInv, Next, NEW p \in Procs, NEW o \in Procs, o # p,
         Holds(p) # Holds(p)', Holds(o) # Holds(o)'
  PROVE  FALSE
<1>0. pc \in [Procs -> Locations]
  BY DEF IInv, TypeOK
<1>1. pc'[p] # pc[p] /\ pc'[o] # pc[o]
  BY DEF Holds
<1> USE BgIsNoClient DEF Goto, Return
\* All steps but Spawn move one process only.
<1>2. ASSUME NEW r \in Procs, NEW l, Goto(r, l) PROVE FALSE
  BY <1>0, <1>1, <1>2
<1>3. ASSUME UNCHANGED pc PROVE FALSE
  BY <1>1, <1>3
<1>4. ASSUME NEW t \in Threads, Spawn(t) PROVE FALSE
  <2>1. pc[t] = "spawn" /\ pc[Bg] = "unborn"
    BY <1>4, OneInitialiserMeans DEF Spawn, IInv
  <2>2. p \in {t, Bg} /\ ~Holds(p) /\ ~Holds(p)'
    BY <1>0, <1>1, <1>4, <2>1 DEF Spawn, Holds
  <2> QED BY <2>2 DEF Holds
<1>5. ASSUME NEW t \in Threads, Load(t) \/ Recalibrate(t) \/ ReadFrequency(t) \/ Ensure(t) \/ Release(t)
      PROVE  FALSE
  BY <1>2, <1>3, <1>5 DEF Load, Recalibrate, ReadFrequency, Ensure, Release
<1>6. ASSUME NEW t \in Threads, Store(t) PROVE FALSE
  BY <1>2, <1>6 DEF Store
<1>7. ASSUME NEW r \in Procs, Calibrate(r) \/ Publish(r) PROVE FALSE
  BY <1>2, <1>7 DEF Calibrate, Publish
<1>8. ASSUME LoadInterval \/ Wake PROVE FALSE
  BY <1>2, <1>8 DEF LoadInterval, Wake
<1>9. ASSUME NEW s \in Intervals, set_recalibration_interval(s) PROVE FALSE
  BY <1>3, <1>9 DEF set_recalibration_interval
<1> QED
  BY <1>4, <1>5, <1>6, <1>7, <1>8, <1>9 DEF Next, CallStep, BgStep

hvars == <<vars, pending, overtaken, stale>>

\* Without interference nobody is overtaken.
LEMMA NextHistory ==
  IInv /\ HistoryOK /\ [HistoryNext /\ ~Interferes]_hvars => HistoryOK'
<1> SUFFICES ASSUME IInv, HistoryOK, [HistoryNext /\ ~Interferes]_hvars PROVE HistoryOK'
  OBVIOUS
<1>1. CASE UNCHANGED hvars
  BY <1>1 DEF hvars, vars, HistoryOK, Holds
<1>2. ASSUME HistoryNext, ~Interferes,
             NEW p \in Procs, ~Holds(p), Holds(p)', Measured(p)
      PROVE  HistoryOK'
  <2>1. \A o \in Procs : Holds(o) => Holds(o)'
    BY <1>2, OneHolderMoves DEF HistoryNext
  <2>2. \A o, r \in Procs : <<o, r>> \in pending' =>
           <<o, r>> \in pending \/ (r = p /\ Holds(o))
    BY <1>2 DEF Measured
  <2>3. \A o, r \in Procs : <<o, r>> \in pending' => o # r /\ Holds(o)' /\ Holds(r)'
    BY <1>2, <2>1, <2>2 DEF HistoryOK
  <2>4. overtaken' = {} /\ ~stale'
    BY <1>2 DEF HistoryOK, Measured
  <2> QED BY <2>3, <2>4 DEF HistoryOK
<1>3. ASSUME HistoryNext, ~Interferes,
             NEW p \in Procs, Holds(p), ~Holds(p)', LetGo(p)
      PROVE  HistoryOK'
  <2>1. \A o \in Procs : o # p /\ Holds(o) => Holds(o)'
    BY <1>3, OneHolderMoves DEF HistoryNext
  <2>2. \A o, r \in Procs : <<o, r>> \in pending' => <<o, r>> \in pending /\ o # p /\ r # p
    BY <1>3 DEF LetGo
  <2>3. \A o, r \in Procs : <<o, r>> \in pending' => o # r /\ Holds(o)' /\ Holds(r)'
    BY <2>1, <2>2 DEF HistoryOK
  \* Whoever it would overtake holds a measurement, which is interference.
  <2>4. ASSUME NEW o \in Procs, <<o, p>> \in pending, pc[p] = "publish" PROVE FALSE
    <3>1. o # p /\ Holds(o)
      BY <2>4 DEF HistoryOK
    <3>2. Publish(p)
      BY <1>3, <2>4, OnlyPublish DEF HistoryNext
    <3> QED BY <1>3, <3>1, <3>2 DEF Interferes
  <2>5. overtaken' = {}
    BY <1>3, <2>4 DEF LetGo, HistoryOK
  <2>6. ~stale'
    BY <1>3 DEF LetGo, HistoryOK
  <2> QED BY <2>3, <2>5, <2>6 DEF HistoryOK
<1>4. ASSUME \A p \in Procs : Holds(p) = Holds(p)', UNCHANGED <<pending, overtaken, stale>>
      PROVE  HistoryOK'
  BY <1>4 DEF HistoryOK
<1> QED BY <1>1, <1>2, <1>3, <1>4 DEF HistoryNext

\* As long as no recalibration is published while another thread holds a
\* measurement, the newest published measurement stays in the cell: racing
\* first uses alone (arch/mod.rs:37) never make it fall back.
THEOREM NewestStaysUndisturbed ==
  HistorySpec /\ [][~Interferes]_hvars => []NewestMeasurementStays
<1>1. HistoryInit => Init /\ HistoryOK
  BY DEF HistoryInit, HistoryOK
<1>2. [HistoryNext]_hvars => [Next]_vars
  BY DEF HistoryNext, hvars
<1>3. [HistoryNext]_hvars /\ [~Interferes]_hvars => [HistoryNext /\ ~Interferes]_hvars
  OBVIOUS
<1>4. HistoryOK => NewestMeasurementStays
  BY DEF HistoryOK, NewestMeasurementStays
<1>5. HistorySpec => SafetySpec
  BY <1>1, <1>2, PTL DEF HistorySpec, SafetySpec, hvars
<1> QED BY <1>1, <1>3, <1>4, <1>5, NextHistory, Invariance, PTL DEF HistorySpec, hvars
============================================================================
