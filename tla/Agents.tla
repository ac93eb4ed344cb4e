------------------------------- MODULE Agents -------------------------------
(***************************************************************************)
(* The agents of stress-test/agents that judge the results of a run: the   *)
(* triggers that call for a conditional agent, and what the agents conclude*)
(* from the same statistics.  The triggers on Gemini and the app are left  *)
(* out: nothing in the repository computes the numbers they read.          *)
(***************************************************************************)
EXTENDS Reports

CONSTANTS
  Trigger429,  \* 100 responses call for an agent
  Agent429,    \* 50 of them make it recommend something
  Agent5xx     \* 10

ASSUME AgentAssumption ==
  /\ Agent429 \in Nat /\ Trigger429 \in Nat
  /\ Many429 <= Agent429 /\ Agent429 <= Trigger429
  /\ Agent5xx \in Nat /\ Many500 <= Agent5xx

AgentsInit == rs = <<>>
AgentsNext == AddResult
AgentsSpec == AgentsInit /\ [][AgentsNext]_rs

-----------------------------------------------------------------------------
\* evaluate_triggers, of the agents it calls for by the statistics
Triggered(stats) ==
  {agent \in {"bottleneck", "api_failure"} :
     CASE agent = "bottleneck"  -> stats.high > Slow * 100
       [] agent = "api_failure" -> \/ TooMany(stats.failed, stats)
                                   \/ Status(stats, 429) > Trigger429}

Verdict(severity, actions) == [severity |-> severity, actions |-> actions]
When(test, action) == IF test THEN {action} ELSE {}

\* AWSLoadAgent: the last test that holds decides the severity.
AWSLoadAgent(stats) ==
  LET many429 == Status(stats, 429) > Many429
      many500 == Status(stats, 500) > Many500
      slow    == stats.high > Slow * 100
  IN  Verdict(IF slow THEN "warn" ELSE IF many500 THEN "critical"
              ELSE IF many429 THEN "warn" ELSE "info",
              When(many429, "quota") \union When(slow, "pool"))

\* Fault: the index is rounded down from one place short of the end.
FaultHighOf(target) ==
  LET n == Cardinality(Answered(target))
  IN  Sorted(Answered(target))[((n - 1) * High) \div 100 + 1]

\* The percentile of BottleneckInvestigationAgent, which is not percentile().
HighOf(target) ==
  LET n == Cardinality(Answered(target))
  IN  Sorted(Answered(target))[IF n > 1 THEN (n * High) \div 100 + 1 ELSE 1]

\* BottleneckInvestigationAgent: the actions for the three slowest targets.
BottleneckAgent ==
  LET answered == {rs[i].target : i \in Good}
      slowest  == {t \in answered :
                     Cardinality({u \in answered : HighOf(u) > HighOf(t)}) < 3}
  IN  Verdict("warn", {t \in slowest : HighOf(t) > Slow})

\* APIFailureAnalysisAgent
APIFailureAgent(stats) ==
  LET errors == Status(stats, 500) + Status(stats, 502) + Status(stats, 503)
  IN  Verdict(IF Status(stats, 500) > Many500 THEN "critical" ELSE "warn",
              When(Status(stats, 429) > Agent429, "rate limit")
                \union When(errors > Agent5xx, "server logs"))

-----------------------------------------------------------------------------
\* When the tail of a run is slow enough to call for the bottleneck agent, the
\* agent names a target: its own percentile, of one target and by another
\* formula, never loses the tail that the report's percentile has seen.
SlowRunIsExplained ==
  LET stats == Stats IN
  "bottleneck" \in Triggered(stats) => BottleneckAgent.actions # {}

\* A report without a bottleneck line hides nothing that another part of the
\* harness complains about: no trigger fires on the same statistics, the load
\* agent sees nothing to warn of and no failure is critical.
QuietReportIsQuiet ==
  LET stats == Stats IN
  Bottlenecks(stats) = {} =>
    /\ Triggered(stats) = {}
    /\ AWSLoadAgent(stats).severity = "info"
    /\ APIFailureAgent(stats) = Verdict("warn", {})
=============================================================================
