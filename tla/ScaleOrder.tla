----------------------------- MODULE ScaleOrder -----------------------------
(***************************************************************************)
(* ScaleCache with the order of the frequency measurements remembered in   *)
(* three history variables, to ask whether the newest one survives.        *)
(***************************************************************************)
EXTENDS ScaleCache

VARIABLES
  pending,    \* <<p, p2>>: both hold an unpublished measurement, p's is older
  overtaken,  \* holders of a measurement older than a published recalibration
  stale       \* the cell holds such a measurement

Holds(p) == pc[p] \in {"store", "publish"}

Measured(p) ==
  /\ pending' = pending \cup {<<o, p>> : o \in {o \in Procs : Holds(o)}}
  /\ UNCHANGED <<overtaken, stale>>

\* p publishes its measurement, or drops it because it is zero.
LetGo(p) ==
  LET older == {o \in Procs : <<o, p>> \in pending /\ pc[p] = "publish" /\ reg[p] # 0}
  IN  /\ pending' = {e \in pending : p \notin {e[1], e[2]}}
      /\ overtaken' = (overtaken \cup older) \ {p}
      /\ stale' = (IF reg[p] = 0 THEN stale ELSE p \in overtaken)

HistoryInit == Init /\ pending = {} /\ overtaken = {} /\ stale = FALSE

HistoryNext ==
  /\ Next
  /\ \/ \E p \in Procs : ~Holds(p) /\ Holds(p)' /\ Measured(p)
     \/ \E p \in Procs : Holds(p) /\ ~Holds(p)' /\ LetGo(p)
     \/ /\ \A p \in Procs : Holds(p) = Holds(p)'
        /\ UNCHANGED <<pending, overtaken, stale>>

HistorySpec == HistoryInit /\ [][HistoryNext]_<<vars, pending, overtaken, stale>>

\* "The next ticks_to_duration call observes the new value": the cell never
\* falls back to a measurement older than that of a recalibration already
\* published (arch/mod.rs:37 and :160 overwrite whatever is there by then).
NewestMeasurementStays == ~stale
============================================================================
