------------------------------ MODULE Platform ------------------------------
(***************************************************************************)
(* What the cfg attributes of the crate select on a build: the counter     *)
(* that ticks() reads, where its frequency comes from, and whether         *)
(* recalibrate() does anything (src/src/arch, src/src/lib.rs). ScaleCache  *)
(* runs on the targets these definitions yield.                            *)
(*                                                                         *)
(* A build b is a record: arch and os as in cfg, leaf the registers of     *)
(* CPUID leaf 15h (None where the CPU has no such leaf), and background    *)
(* the feature recalibrate-background.                                     *)
(***************************************************************************)
EXTENDS Q32

CONSTANTS
  Unix,      \* operating systems with cfg(unix), macOS among them
  CntfrqHz,  \* the register cntfrq_el0
  Timebase,  \* mach_timebase_info: [numer, denom]
  QpcHz,     \* QueryPerformanceFrequency
  Rates      \* Rates[c]: what measuring counter c for its frequency yields

ASSUME PlatformAssumption == {"windows", "wasi"} \cap Unix = {}

x86(b) == b.arch \in {"x86_64", "x86"}

\* wasm32 under a JavaScript host.
wasm_host(b) == b.arch = "wasm32" /\ b.os \in {"unknown", "none"}

\* direct::ticks
ticks(b) ==
  CASE x86(b)                               -> "tsc"
    [] b.arch = "aarch64"                   -> "cntvct"
    [] b.arch \in {"riscv64", "loongarch64"} -> "time"
    [] wasm_host(b)                         -> "performance_now"
    [] OTHER -> CASE b.os = "macos" -> "mach_time"
                  [] b.os \in Unix \ {"macos"} -> "clock_monotonic"
                  [] b.os = "wasi"  -> "wasi_clock_monotonic"
                  [] OTHER          -> "panic"

\* Numerator and denominator swapped.
mutant_cpuid_tsc_hz(leaf) ==
  IF leaf = None \/ 0 \in {leaf.eax, leaf.ebx, leaf.ecx}
  THEN None
  ELSE (leaf.ecx * leaf.eax) \div leaf.ebx

\* A hypervisor may zero the leaf.
cpuid_tsc_hz(leaf) ==
  IF leaf = None \/ 0 \in {leaf.eax, leaf.ebx, leaf.ecx}
  THEN None
  ELSE (leaf.ecx * leaf.ebx) \div leaf.eax

\* The frequency a register or an API reports; None where calibrate_frequency
\* is called instead.
read_frequency(b) ==
  CASE b.arch = "aarch64"              -> CntfrqHz
    [] b.arch # "aarch64" /\ b.os = "macos" ->
         (NanosPerSecond * Timebase.denom) \div Timebase.numer
    [] b.arch # "aarch64" /\ b.os = "windows" -> QpcHz
    [] wasm_host(b) \/ b.os = "wasi"   -> NanosPerSecond
    [] x86(b) /\ b.os \notin {"macos", "windows"} -> cpuid_tsc_hz(b.leaf)
    [] OTHER                           -> None

recalibrate(b) == x86(b) /\ b.os \notin {"macos", "windows"}

\* The module calibration, which needs the clock_monotonic of a Unix.
mod_calibration(b) ==
  ~ (b.arch = "aarch64" \/ b.os \in {"macos", "windows", "wasi"} \/ wasm_host(b))

Compiles(b) == mod_calibration(b) => b.os \in Unix

\* The build as ScaleCache sees it.
target_of(b) ==
  [exact        |-> read_frequency(b),
   rates        |-> Rates[ticks(b)],
   recalibrates |-> recalibrate(b),
   background   |-> b.background]
=============================================================================
