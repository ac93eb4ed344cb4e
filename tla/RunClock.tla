------------------------------ MODULE RunClock ------------------------------
(***************************************************************************)
(* The two deadlines of one stress run.  The simulator computes its own,   *)
(* from the duration its preset may have replaced; main() computes another *)
(* from STRESS_DURATION_S for the admin and Gemini loops.  The shorter one *)
(* passes first; when they are equal, either does.                         *)
(***************************************************************************)
EXTENDS EventMix

CONSTANTS
  Workloads  \* what an instance lets happen in one run: its preset, its most
             \* events and Gemini batches, the patterns and event types drawn,
             \* the statuses and errors of the requests, whether admin pages
             \* are fetched, and whether Gemini is the mock

ASSUME WorkloadAssumption ==
  \A w \in Workloads : /\ w.preset \in PresetNames
                       /\ w.events \in Nat /\ w.batches \in Nat
                       /\ w.kinds \subseteq PatternNames
                       /\ w.types \subseteq DrawnTypes
                       /\ w.statuses \subseteq 200..599
                       /\ "none" \notin w.errors

VARIABLES
  work,        \* the workload of this run (`mock`: no SDK or key for Gemini)
  config,      \* SimulatorConfig
  streamOver,  \* the deadline of VirtualEventSimulator.stream has passed
  loopsOver    \* the deadline of run_admin_loop and run_gemini_loop has passed

clock == <<work, config, streamOver, loopsOver>>

ClockInit ==
  /\ work \in Workloads
  /\ config = Config[work.preset]
  /\ streamOver = FALSE
  /\ loopsOver = FALSE

StreamDeadline ==
  /\ ~streamOver
  /\ config.duration > Duration => loopsOver
  /\ streamOver' = TRUE
  /\ UNCHANGED <<work, config, loopsOver>>
LoopsDeadline ==
  /\ ~loopsOver
  /\ config.duration < Duration => streamOver
  /\ loopsOver' = TRUE
  /\ UNCHANGED <<work, config, streamOver>>

\* The part of a running total that a draw can reach.
Within(total) == IF total < 100 THEN total ELSE 100

\* The comment at virtual_events.py:41 says that the ratios add up to a whole.
\* Those of chaos add up to 98, of retry-storm and failure-recovery to 105, of
\* burst and data-consistency to 110, and nothing scales them.  So a pattern gets
\* exactly what of its ratio lies within a whole, where the patterns before it in
\* the order have taken theirs, and the default one what is left over as well.
RatiosAreShares ==
  LET sum == UpTo(PatternOrder, config.ratios)
      left == 100 - Within(sum[Len(PatternOrder)])
  IN  \A i \in DOMAIN PatternOrder :
        LET p == PatternOrder[i]
        IN  Shares[work.preset][p] = Within(sum[i]) - Within(sum[i - 1])
                                     + (IF p = "normal" THEN left ELSE 0)
=============================================================================
