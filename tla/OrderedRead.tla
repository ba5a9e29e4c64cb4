---------------------------- MODULE OrderedRead ----------------------------
(***************************************************************************)
(* OrderedInstant across threads (src/src/instant.rs, src/src/arch). A     *)
(* publisher samples an instant, may move it with += and -= (a deadline),  *)
(* and publishes it in an atomic (Release). The observer loads it (Acquire)*)
(* and relates it to a counter read of its own. Its processor executes the *)
(* load, the barrier and the counter read out of order, within what the    *)
(* barrier allows: a counter read is no memory access and only waits for a *)
(* barrier that holds it back.                                             *)
(*                                                                         *)
(* The fields at, by and shift of a stamp are history: when and by whom    *)
(* the counter was read, and how many ticks were added since; so is        *)
(* observed, the time of the observer's load.                              *)
(***************************************************************************)
EXTENDS Q32

CONSTANTS
  Publishers,
  Observer,
  Archs,      \* architectures the crate is built for
  Scale,      \* NANOS_PER_TICK_Q32
  Boots,      \* counter values at the start of the behaviour
  MaxSkew,    \* by how many ticks two threads' counters may disagree
  Durations,  \* durations the publishers add and subtract
  MaxShift,   \* bound: ticks an instant is moved by
  MaxTime     \* bound: length of a behaviour in ticks

\* "other" is any target that reads a clock of the OS or of the host.
Architectures == {"x86_64", "x86", "aarch64", "riscv64", "loongarch64", "other"}

ASSUME OrderedAssumption ==
  /\ Observer \notin Publishers
  /\ Archs \subseteq Architectures
  /\ Scale \in Word \ {0}
  /\ Boots \subseteq Word
  /\ MaxSkew \in Nat
  /\ Durations \subseteq Duration
  /\ MaxShift \in Nat
  /\ MaxTime \in Nat
  /\ MaxTime + MaxSkew < WordMod

Threads == Publishers \cup {Observer}

VARIABLES
  arch,      \* the target
  holds,     \* on this machine the target's barrier holds counter reads back
  boot,      \* counter value at time 0
  lead,      \* lead[t]: by how many ticks t's counter is ahead
  time,      \* ticks since the start
  own,       \* own[p]: the stamp p is about to publish, or None
  shared,    \* the atomic
  call,      \* the observer's call under way, or None
  executed,  \* its instructions executed so far
  loaded,    \* what its load returned
  observed,  \* when
  sampled    \* what its counter read returned

vars == <<arch, holds, boot, lead, time, own, shared, call, executed, loaded, observed, sampled>>

----------------------------------------------------------------------------
(* Counter reads: the barrier in front of each *)

mutant_rdtsc_ordered == "none"

rdtsc_ordered == "lfence"
x86_rdtsc_ordered == "lfence"
cntvct_ordered == "isb sy"
riscv64_rdtime_ordered == "fence iorw, iorw"
loongarch64_rdtime_ordered == "dbar 0"

\* A call of the OS or of the JavaScript host serialises by itself.
fallback == "call"

ticks_ordered ==
  CASE arch = "x86_64"      -> rdtsc_ordered
    [] arch = "x86"         -> x86_rdtsc_ordered
    [] arch = "aarch64"     -> cntvct_ordered
    [] arch = "riscv64"     -> riscv64_rdtime_ordered
    [] arch = "loongarch64" -> loongarch64_rdtime_ordered
    [] OTHER                -> fallback

\* The plain read is one instruction.
ticks == IF arch = "other" THEN fallback ELSE "none"

\* isb and a call hold a counter read back. Whether lfence does depends on a
\* bit of the OS on AMD, whether a memory fence does on the implementation.
Dependable == {"isb sy", "call"}

\* What a counter read of thread t yields now.
Stamp(t) ==
  [ticks |-> (boot + time + lead[t]) % WordMod, at |-> time, by |-> t, shift |-> 0]

----------------------------------------------------------------------------
(* OrderedInstant, on the value an instant holds *)

\* A difference that is not a u64.
mutant_elapsed(i, end) == ticks_to_duration(end - i, Scale)

\* elapsed and elapsed_unordered, with the end read given.
elapsed(i, end) == ticks_to_duration(wrapping_sub(end, i), Scale)

mutant_checked_duration_since(i, earlier) ==
  ticks_to_duration(wrapping_sub(i, earlier), Scale)

checked_duration_since(i, earlier) ==
  LET delta == u64_checked_sub(i, earlier)
  IN  IF delta = None THEN None ELSE ticks_to_duration(delta, Scale)

duration_since(i, earlier) == unwrap_or_default(checked_duration_since(i, earlier))

checked_add(i, d) ==
  LET delta == duration_to_ticks(d, Scale)
  IN  IF delta = None THEN None ELSE u64_checked_add(i, delta)

checked_sub(i, d) ==
  LET delta == duration_to_ticks(d, Scale)
  IN  IF delta = None THEN None ELSE u64_checked_sub(i, delta)

----------------------------------------------------------------------------
(* Publishers *)

Init ==
  /\ arch \in Archs
  /\ holds \in BOOLEAN
  /\ ticks_ordered \in Dependable => holds
  /\ boot \in Boots
  /\ lead \in [Threads -> 0 .. MaxSkew]
  /\ time = 0
  /\ own = [p \in Publishers |-> None]
  /\ shared = None
  /\ call = None
  /\ executed = {}
  /\ loaded = None
  /\ observed = 0
  /\ sampled = None

Tick ==
  /\ time < MaxTime
  /\ time' = time + 1
  /\ UNCHANGED <<arch, holds, boot, lead, own, shared, call, executed, loaded, observed, sampled>>

\* OrderedInstant::now() in a publisher.
Sample(p) ==
  /\ own[p] = None
  /\ own' = [own EXCEPT ![p] = Stamp(p)]
  /\ UNCHANGED <<arch, holds, boot, lead, time, shared, call, executed, loaded, observed, sampled>>

\* The instant p holds replaced by value, delta more than before. On None
\* the operators panic instead.
Move(p, value, delta) ==
  /\ value # None
  /\ own[p].shift + delta \in -MaxShift .. MaxShift
  /\ own' = [own EXCEPT ![p] =
       [ticks |-> value, at |-> @.at, by |-> @.by, shift |-> @.shift + delta]]
  /\ UNCHANGED <<arch, holds, boot, lead, time, shared, call, executed, loaded, observed, sampled>>

AddAssign(p, d) ==
  own[p] # None /\ Move(p, checked_add(own[p].ticks, d), duration_to_ticks(d, Scale))

SubAssign(p, d) ==
  own[p] # None /\ Move(p, checked_sub(own[p].ticks, d), -duration_to_ticks(d, Scale))

\* The store carries the value read, so it cannot overtake the read.
Publish(p) ==
  /\ own[p] # None
  /\ shared' = own[p]
  /\ own' = [own EXCEPT ![p] = None]
  /\ UNCHANGED <<arch, holds, boot, lead, time, call, executed, loaded, observed, sampled>>

----------------------------------------------------------------------------
(* The observer: a load, then now().duration_since(loaded) or              *)
(* loaded.elapsed(), each with an ordered or a plain counter read.         *)

Call == [op : {"now", "elapsed"}, ordered : BOOLEAN]

\* The barrier of the call under way.
barrier == IF call.ordered THEN ticks_ordered ELSE ticks

Instructions ==
  IF barrier = "none" THEN {"load", "counter"} ELSE {"load", "barrier", "counter"}

Begin(c) ==
  /\ call = None
  /\ call' = c
  /\ UNCHANGED <<arch, holds, boot, lead, time, own, shared, executed, loaded, observed, sampled>>

Load ==
  /\ call # None /\ "load" \notin executed
  /\ loaded' = shared
  /\ observed' = time
  /\ executed' = executed \cup {"load"}
  /\ UNCHANGED <<arch, holds, boot, lead, time, own, shared, call, sampled>>

\* Every barrier waits for the loads before it.
Barrier ==
  /\ call # None /\ "barrier" \in Instructions \ executed
  /\ "load" \in executed
  /\ executed' = executed \cup {"barrier"}
  /\ UNCHANGED <<arch, holds, boot, lead, time, own, shared, call, loaded, observed, sampled>>

ReadCounter ==
  /\ call # None /\ "counter" \notin executed
  /\ (barrier # "none" /\ holds) => "barrier" \in executed
  /\ sampled' = Stamp(Observer)
  /\ executed' = executed \cup {"counter"}
  /\ UNCHANGED <<arch, holds, boot, lead, time, own, shared, call, loaded, observed>>

Complete == call # None /\ executed = Instructions

\* The call found a published instant.
Measured == Complete /\ loaded # None

\* What it returns then.
outcome ==
  IF call.op = "now" THEN duration_since(sampled.ticks, loaded.ticks)
                     ELSE elapsed(loaded.ticks, sampled.ticks)

Return ==
  /\ Complete
  /\ call' = None
  /\ executed' = {}
  /\ loaded' = None /\ sampled' = None
  /\ observed' = 0
  /\ UNCHANGED <<arch, holds, boot, lead, time, own, shared>>

Next ==
  \/ Tick
  \/ \E p \in Publishers :
       \/ Sample(p) \/ Publish(p)
       \/ \E d \in Durations : AddAssign(p, d) \/ SubAssign(p, d)
  \/ \E c \in Call : Begin(c)
  \/ Load \/ Barrier \/ ReadCounter \/ Return

Spec == Init /\ [][Next]_vars

----------------------------------------------------------------------------
(* Properties *)

Stamps == [ticks : Word, at : 0 .. MaxTime, by : Threads, shift : -MaxShift .. MaxShift]

\* The type invariant; a complete call returns a Duration.
TypeOK ==
  /\ arch \in Archs
  /\ holds \in BOOLEAN
  /\ boot \in Word
  /\ lead \in [Threads -> 0 .. MaxSkew]
  /\ time \in 0 .. MaxTime
  /\ own \in [Publishers -> Stamps \cup {None}]
  /\ shared \in Stamps \cup {None}
  /\ call \in Call \cup {None}
  /\ executed \subseteq {"load", "barrier", "counter"}
  /\ loaded \in Stamps \cup {None}
  /\ observed \in 0 .. MaxTime
  /\ sampled \in Stamps \cup {None}
  /\ Measured => outcome \in Duration

\* Nanoseconds of n >= 0 ticks.
Nanos(n) == saturate((n * Scale) \div QOne)

\* No counter has wrapped.
NoWrap == boot + time + MaxSkew < WordMod

\* Ticks from the published instant to the observer's read.
distance == (sampled.at - loaded.at) + (lead[Observer] - lead[loaded.by]) - loaded.shift

\* Where the barrier holds the counter read back, an ordered measurement from
\* a published instant spans exactly the ticks between the two, for counters
\* in step or the observer's ahead: the end is never sampled before the
\* publication was seen, so elapsed() does not wrap and duration_since does
\* not saturate ("sampled after any prior Acquire observation").
OrderedReadExact ==
  (/\ Measured /\ call.ordered /\ holds
   /\ lead[loaded.by] + loaded.shift <= lead[Observer]
   /\ distance < WordMod
   /\ call.op = "now" => NoWrap) =>
     loaded.at <= sampled.at /\ as_nanos(outcome) = Nanos(distance)

\* now().duration_since(published) never reports more than the time since the
\* published moment, give or take the skew, on any machine, ordered or not:
\* for a moment still to come, and for a read hoisted above the load, it
\* saturates to zero.
DurationNeverOverstates ==
  (Measured /\ call.op = "now" /\ NoWrap) =>
     LET most == (time - loaded.at) + MaxSkew - loaded.shift
     IN  as_nanos(outcome) <= Nanos(IF most >= 0 THEN most ELSE 0)

\* A published deadline that has passed by the observer's clock when it is
\* observed is found passed by the ordered read that follows: now() is "safe
\* to correlate with `deadline`" where the barrier holds.
DeadlineSeen ==
  (/\ Measured /\ call.ordered /\ holds /\ NoWrap
   /\ boot + observed + lead[Observer] >= loaded.ticks) =>
     sampled.ticks >= loaded.ticks

\* elapsed_unordered is for uses "where pre-acquire drift is harmless": the
\* drift makes the result somewhat smaller, never larger than the time since
\* a published moment that has passed.
UnorderedDriftHarmless ==
  (/\ Measured /\ call.op = "elapsed" /\ ~call.ordered
   /\ loaded.shift <= 0) =>
     as_nanos(outcome) <= Nanos((time - loaded.at) + MaxSkew - loaded.shift)
============================================================================
