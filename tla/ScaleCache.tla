----------------------------- MODULE ScaleCache -----------------------------
(***************************************************************************)
(* The process-wide scale cache: the lazily filled NANOS_PER_TICK_Q32,     *)
(* recalibrate() (src/src/arch/mod.rs) and the background thread with its  *)
(* OnceLock and its interval (src/src/background.rs). Any number of        *)
(* threads call nanos_per_tick_q32 (through elapsed, duration_since, + and *)
(* -), recalibrate and set_recalibration_interval.                         *)
(*                                                                         *)
(* One step is one access to shared state; a frequency measurement, which  *)
(* spins for tens of milliseconds between two accesses, is a step of its   *)
(* own. The cell is a single atomic location, so cache coherence makes the *)
(* relaxed accesses to it behave as the interleavings below.               *)
(***************************************************************************)
EXTENDS Q32

CONSTANTS
  Threads,       \* client threads
  Bg,            \* the thread "tach-recalibrate"
  Hz,            \* frequencies
  Targets,       \* what the builds come down to: see Target and Platform
  Intervals,     \* as_secs() of the intervals clients ask for
  SpawnMayFail   \* the OS may refuse a new thread

\* The frequency a build's register or API reports (None where the counter
\* has to be calibrated), what calibrating its counter may yield, whether
\* recalibrate() is more than a no-op, and the feature recalibrate-background.
Target ==
  [exact : Hz \cup {None}, rates : SUBSET Hz, recalibrates : BOOLEAN, background : BOOLEAN]

ASSUME CacheAssumption ==
  /\ Bg \notin Threads
  /\ Hz \subseteq Word
  /\ Targets \subseteq Target
  /\ Intervals \subseteq Nat
  /\ SpawnMayFail \in BOOLEAN

Procs == Threads \cup {Bg}

DEFAULT_INTERVAL_SECS == 60

VARIABLES
  target,     \* the build the process runs
  cell,       \* NANOS_PER_TICK_Q32
  once,       \* THREAD, the OnceLock: "new", "running" or "done"
  interval,   \* INTERVAL_SECS
  pc,         \* where each process is
  reg,        \* the frequency or scale in its hands, 0 when it holds none
  ret,        \* ret[t]: what t's last nanos_per_tick_q32 returned, None if none
  secs        \* the background thread's local

vars == <<target, cell, once, interval, pc, reg, ret, secs>>

Locations ==
  {"idle", "read", "store", "ensure", "spawn", "release", "panicked",
   "calibrate", "publish", "unborn", "load", "sleep"}

Init ==
  /\ target \in Targets
  /\ cell = 0
  /\ once = "new"
  /\ interval = DEFAULT_INTERVAL_SECS
  /\ pc = [p \in Procs |-> IF p = Bg THEN "unborn" ELSE "idle"]
  /\ reg = [p \in Procs |-> 0]
  /\ ret = [t \in Threads |-> None]
  /\ secs = 0

Goto(p, l) == pc' = [pc EXCEPT ![p] = l]

\* nanos_per_tick_q32 returns q to t.
Return(t, q) ==
  /\ Goto(t, "idle")
  /\ ret' = [ret EXCEPT ![t] = q]
  /\ reg' = [reg EXCEPT ![t] = 0]

----------------------------------------------------------------------------
(* nanos_per_tick_q32 *)

\* The test of the loaded value forgotten.
mutant_Load(t) ==
  /\ pc[t] = "idle"
  /\ ret' = [ret EXCEPT ![t] = cell]
  /\ UNCHANGED <<target, cell, once, interval, pc, reg, secs>>

\* The call, up to the test of the loaded value: a filled cell is returned.
Load(t) ==
  /\ pc[t] = "idle"
  /\ \/ cell # 0 /\ ret' = [ret EXCEPT ![t] = cell] /\ UNCHANGED pc
     \/ cell = 0 /\ Goto(t, "read") /\ UNCHANGED ret
  /\ UNCHANGED <<target, cell, once, interval, reg, secs>>

ReadFrequency(t) ==
  /\ pc[t] = "read"
  /\ \E f \in IF target.exact = None THEN target.rates ELSE {target.exact} :
       reg' = [reg EXCEPT ![t] = f]
  /\ Goto(t, "store")
  /\ UNCHANGED <<target, cell, once, interval, ret, secs>>

\* The division panics on a zero frequency; otherwise the scale is stored,
\* whatever the cell holds by now. A frequency above 10^9 << 32, such as a
\* saturated estimate, has the scale 0: it empties the cell and is returned.
Store(t) ==
  /\ pc[t] = "store"
  /\ \/ /\ reg[t] = 0
        /\ Goto(t, "panicked")
        /\ UNCHANGED <<cell, reg, ret>>
     \/ /\ reg[t] # 0
        /\ cell' = scale_of(reg[t])
        /\ IF target.background
           THEN Goto(t, "ensure") /\ reg' = [reg EXCEPT ![t] = cell'] /\ UNCHANGED ret
           ELSE Return(t, cell')
  /\ UNCHANGED <<target, once, interval, secs>>

----------------------------------------------------------------------------
(* ensure_thread: get_or_init runs its closure in one thread only, and the *)
(* others wait until it has run.                                           *)

\* A check of an initialised flag that does not make the others wait.
mutant_Ensure(t) ==
  /\ pc[t] = "ensure"
  /\ \/ once # "done" /\ once' = "running" /\ Goto(t, "spawn") /\ UNCHANGED <<reg, ret>>
     \/ once = "done" /\ UNCHANGED once /\ Return(t, reg[t])
  /\ UNCHANGED <<target, cell, interval, secs>>

Ensure(t) ==
  /\ pc[t] = "ensure"
  /\ \/ once = "new" /\ once' = "running" /\ Goto(t, "spawn") /\ UNCHANGED <<reg, ret>>
     \/ once = "done" /\ UNCHANGED once /\ Return(t, reg[t])
  /\ UNCHANGED <<target, cell, interval, secs>>

\* The closure: the result of spawn is discarded.
Spawn(t) ==
  /\ pc[t] = "spawn"
  /\ \/ pc' = [pc EXCEPT ![t] = "release", ![Bg] = "load"]
     \/ SpawnMayFail /\ Goto(t, "release")
  /\ UNCHANGED <<target, cell, once, interval, reg, ret, secs>>

\* A lock that is left running.
mutant_Release(t) ==
  /\ pc[t] = "release"
  /\ Return(t, reg[t])
  /\ UNCHANGED <<target, cell, once, interval, secs>>

Release(t) ==
  /\ pc[t] = "release"
  /\ once' = "done"
  /\ Return(t, reg[t])
  /\ UNCHANGED <<target, cell, interval, secs>>

----------------------------------------------------------------------------
(* recalibrate, called by a client or by the background thread *)

\* On a target without recalibration the call returns at once.
Recalibrate(t) ==
  /\ pc[t] = "idle"
  /\ target.recalibrates
  /\ Goto(t, "calibrate")
  /\ UNCHANGED <<target, cell, once, interval, reg, ret, secs>>

Calibrate(p) ==
  /\ pc[p] = "calibrate"
  /\ \E f \in target.rates : reg' = [reg EXCEPT ![p] = f]
  /\ Goto(p, "publish")
  /\ UNCHANGED <<target, cell, once, interval, ret, secs>>

\* The background thread given up after one round.
mutant_PublishOnce(p) ==
  /\ pc[p] = "publish"
  /\ \/ reg[p] > 0 /\ cell' = scale_of(reg[p])
     \/ reg[p] = 0 /\ UNCHANGED cell
  /\ Goto(p, IF p = Bg THEN "panicked" ELSE "idle")
  /\ reg' = [reg EXCEPT ![p] = 0]
  /\ UNCHANGED <<target, once, interval, ret, secs>>

\* Only a zero frequency is discarded; one too large has the scale 0 and
\* empties the cell.
Publish(p) ==
  /\ pc[p] = "publish"
  /\ \/ reg[p] > 0 /\ cell' = scale_of(reg[p])
     \/ reg[p] = 0 /\ UNCHANGED cell
  /\ Goto(p, IF p = Bg THEN "load" ELSE "idle")
  /\ reg' = [reg EXCEPT ![p] = 0]
  /\ UNCHANGED <<target, once, interval, ret, secs>>

----------------------------------------------------------------------------
(* The background thread and its interval *)

\* The interval read once and kept.
mutant_LoadInterval ==
  /\ pc[Bg] = "load"
  /\ secs' = (IF secs = 0 THEN interval ELSE secs)
  /\ Goto(Bg, "sleep")
  /\ UNCHANGED <<target, cell, once, interval, reg, ret>>

LoadInterval ==
  /\ pc[Bg] = "load"
  /\ secs' = interval
  /\ Goto(Bg, "sleep")
  /\ UNCHANGED <<target, cell, once, interval, reg, ret>>

\* thread::sleep returns after secs seconds.
Wake ==
  /\ pc[Bg] = "sleep"
  /\ Goto(Bg, IF target.recalibrates THEN "calibrate" ELSE "load")
  /\ UNCHANGED <<target, cell, once, interval, reg, ret, secs>>

\* Duration::as_secs().max(1)
clamped(s) == IF s > 1 THEN s ELSE 1

\* No clamp.
mutant_set_recalibration_interval(s) ==
  /\ target.background
  /\ interval' = s
  /\ UNCHANGED <<target, cell, once, pc, reg, ret, secs>>

\* Called with a duration of s whole seconds; 0 is raised to 1.
set_recalibration_interval(s) ==
  /\ target.background
  /\ interval' = clamped(s)
  /\ UNCHANGED <<target, cell, once, pc, reg, ret, secs>>

----------------------------------------------------------------------------

\* The steps of a call under way.
CallStep(t) ==
  \/ ReadFrequency(t) \/ Store(t)
  \/ Ensure(t) \/ Spawn(t) \/ Release(t)
  \/ Calibrate(t) \/ Publish(t)

BgStep == LoadInterval \/ Wake \/ Calibrate(Bg) \/ Publish(Bg)

Next ==
  \/ \E t \in Threads : Load(t) \/ Recalibrate(t) \/ CallStep(t)
  \/ BgStep
  \/ \E s \in Intervals : set_recalibration_interval(s)

\* The scheduler runs every thread that can take a step; nothing obliges a
\* client to make another call.
Fairness == (\A t \in Threads : WF_vars(CallStep(t))) /\ WF_vars(BgStep)

SafetySpec == Init /\ [][Next]_vars

Spec == SafetySpec /\ Fairness

----------------------------------------------------------------------------
(* Properties *)

\* Scales the cell can hold, the empty mark included.
ScaleValues == {0} \cup {scale_of(f) : f \in Hz \ {0}}

\* The type invariant. The interval is never 0, which would make the
\* background thread spin in calibration.
TypeOK ==
  /\ target \in Targets
  /\ cell \in ScaleValues
  /\ once \in {"new", "running", "done"}
  /\ interval \in Nat \ {0}
  /\ pc \in [Procs -> Locations]
  /\ reg \in [Procs -> Hz \cup ScaleValues]
  /\ ret \in [Threads -> ScaleValues \cup {None}]
  /\ secs \in Nat

\* The closure of get_or_init is being run by at most one thread, exactly
\* while the lock is running, and the background thread exists only if a
\* closure got that far: two racing initialisers never start two threads.
OneInitialiser ==
  LET inside == {t \in Threads : pc[t] \in {"spawn", "release"}}
  IN  /\ \A t, u \in inside : t = u
      /\ (inside # {}) <=> (once = "running")
      /\ once = "new" => pc[Bg] = "unborn"
      /\ \A t \in Threads : pc[t] = "spawn" => pc[Bg] = "unborn"

\* The scale that converts the ticks is one of the counter they were read
\* from, on whichever of the paths it was obtained and whoever stored it last:
\* "the frequency comes from an authoritative register or OS API".
ScaleFitsCounter == cell # 0 => \E f \in target.rates \ {0} : cell = scale_of(f)

\* Frequencies a register reports or a calibration yields.
frequencies == (target.rates \cup {target.exact}) \ {None}

\* What a thread was last given, or is about to be given.
got == [t \in Threads |-> IF pc[t] \in {"ensure", "spawn", "release"} THEN reg[t] ELSE ret[t]]

Register ==
  INSTANCE ScaleRegister WITH value <- cell, recalibrates <- target.recalibrates,
                              missed <- {t \in Threads : pc[t] \in {"read", "store"}},
                              scales <- {scale_of(f) : f \in frequencies \ {0}}

\* The cache implements the register its callers may rely on: whatever races
\* and whatever was measured, a call is served from a filled cell only, the
\* cell is written by a caller that found it empty or by a recalibration, and
\* it is emptied again only where a measurement is too large to have a scale.
ImplementsRegister == Register!Spec

\* A call under way returns, or panics on a zero frequency: nobody waits for
\* ever on the OnceLock.
CallsReturn == \A t \in Threads : (pc[t] # "idle") ~> (pc[t] \in {"idle", "panicked"})

\* Once started, the background thread recalibrates again and again.
KeepsRecalibrating ==
  (pc[Bg] # "unborn" /\ target.recalibrates) ~> (pc[Bg] = "calibrate")

\* An interval that is left alone becomes the one the background thread
\* sleeps for, for good.
IntervalTakesEffect ==
  \A s \in {DEFAULT_INTERVAL_SECS} \cup {clamped(i) : i \in Intervals} :
    <>[](interval = s /\ pc[Bg] # "unborn") => <>[](secs = s)

----------------------------------------------------------------------------
(* What the documentation says *)

\* "Spawn the periodic recalibration thread on first use": when every call
\* has returned, some call was served, the feature is on and the OS refuses
\* no thread, the thread is there.
SpawnedOnFirstUse ==
  (/\ target.background /\ ~SpawnMayFail
   /\ \A t \in Threads : pc[t] = "idle"
   /\ \E t \in Threads : ret[t] # None) => pc[Bg] # "unborn"
============================================================================
