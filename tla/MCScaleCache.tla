---------------------------- MODULE MCScaleCache ----------------------------
(* ScaleCache on the builds of the crate, with a scale of 32 / frequency. *)
EXTENDS ScaleCache, Platform, TLC

\* Frequencies as reported, and what a calibration saturates to: u64::MAX,
\* whose scale is 0.
MCHz == 0 .. 8 \cup {WordMod - 1}

MCTimebase == [numer |-> 1, denom |-> 1]

\* Counters of nanoseconds run at 8 Hz; the estimate of the others is one of
\* two, or after a disturbed calibration 0 or u64::MAX.
MCRates ==
  "tsc" :> {0, 4, 5, WordMod - 1} @@ "time" :> {0, 4, 5, WordMod - 1} @@ "cntvct" :> {5}
    @@ "performance_now" :> {8} @@ "wasi_clock_monotonic" :> {8}
    @@ "mach_time" :> {8} @@ "clock_monotonic" :> {8}

Build(arch, os, leaf, background) ==
  [arch |-> arch, os |-> os, leaf |-> leaf, background |-> background]

Leaf(a, b, c) == [eax |-> a, ebx |-> b, ecx |-> c]

\* The supported targets; the x86 builds with the leaf, zeroed and absent.
MCBuilds ==
  {Build("x86_64", "linux", Leaf(2, 4, 2), TRUE),
   Build("x86", "linux", Leaf(2, 4, 0), FALSE),
   Build("x86_64", "linux", None, TRUE),
   Build("riscv64", "linux", None, TRUE),
   Build("loongarch64", "linux", None, FALSE),
   Build("aarch64", "macos", None, TRUE),
   Build("aarch64", "windows", None, FALSE),
   Build("wasm32", "unknown", None, FALSE),
   Build("wasm32", "wasi", None, FALSE),
   Build("powerpc64", "linux", None, FALSE)}

MCTargets == {target_of(b) : b \in {x \in MCBuilds : Compiles(x)}}

\* The build for Intel Macs.
MCMacTargets == {target_of(Build("x86_64", "macos", Leaf(2, 4, 2), FALSE))}
============================================================================
