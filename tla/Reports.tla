------------------------------- MODULE Reports -------------------------------
(***************************************************************************)
(* stress-test/reports/generator.py: the statistics, the bottlenecks and   *)
(* the lists of the report, as functions of the results of a run.  The     *)
(* results grow one at a time, so that every prefix of a run is a state.   *)
(* A latency is a whole number; a percentile is a hundred times a latency, *)
(* so that its interpolation stays a whole number.                         *)
(***************************************************************************)
EXTENDS Integers, Sequences, FiniteSets

CONSTANTS
  Latencies, Targets, Codes,  \* what a request can end with
  MaxResults,                 \* bound on the results
  Slow,                       \* 5.0 s
  High,                       \* 99: the percentile that is compared with it
  Rate,                       \* 5 per cent
  Many429, Many500            \* 10 and 5 responses

ASSUME ReportAssumption ==
  /\ Latencies \subseteq Nat /\ MaxResults \in Nat
  /\ Slow \in Nat /\ Rate \in 1..99
  /\ High \in 50..99 /\ 100 % (100 - High) = 0
  /\ Many429 \in Nat /\ Many500 \in Nat

VARIABLE rs  \* aws_results

OK(target, latency) ==
  [ok |-> TRUE, target |-> target, status |-> 200, latency |-> latency]
Failed(target, status) ==
  [ok |-> FALSE, target |-> target, status |-> status, latency |-> 0]
\* A throttled event has none of the fields; the report reads "?" and 0.
Throttled == [ok |-> FALSE, target |-> "?", status |-> -1, latency |-> 0]

Outcomes == {OK(t, l) : t \in Targets, l \in Latencies}
            \union {Failed(t, c) : t \in Targets, c \in Codes} \union {Throttled}

AddResult ==
  /\ Len(rs) < MaxResults
  /\ \E r \in Outcomes : rs' = Append(rs, r)

-----------------------------------------------------------------------------
\* Fault: the values are taken as they come.
FaultSorted(chosen) ==
  [k \in 1..Cardinality(chosen) |->
     rs[CHOOSE i \in chosen : Cardinality({j \in chosen : j <= i}) = k].latency]

\* sorted(): the k-th latency of the chosen results is the one with fewer than
\* k below it and at least k up to it.
Sorted(chosen) ==
  [k \in 1..Cardinality(chosen) |->
     CHOOSE v \in {rs[i].latency : i \in chosen} :
       /\ Cardinality({i \in chosen : rs[i].latency < v}) < k
       /\ Cardinality({i \in chosen : rs[i].latency <= v}) >= k]

\* percentile, times 100.
Percentile(chosen, pct) ==
  IF chosen = {} THEN 0
  ELSE LET n == Cardinality(chosen)
           s == Sorted(chosen)
           k == (n - 1) * pct
           f == k \div 100
           c == IF f + 1 < n THEN f + 1 ELSE n - 1
       IN  s[f + 1] * 100 + (s[c + 1] - s[f + 1]) * (k % 100)

\* A dict of counts, as compute_stats builds it with get(key, 0) + 1.
CountBy(field) ==
  [v \in {rs[i][field] : i \in DOMAIN rs} |->
     Cardinality({i \in DOMAIN rs : rs[i][field] = v})]

Good == {i \in DOMAIN rs : rs[i].ok}
Answered(target) == {i \in Good : rs[i].target = target}

Stats ==
  [total |-> Len(rs), ok |-> Cardinality(Good), failed |-> Len(rs) - Cardinality(Good),
   p50 |-> Percentile(Good, 50), high |-> Percentile(Good, High),
   byStatus |-> CountBy("status"), byTarget |-> CountBy("target")]

Status(stats, code) ==
  IF code \in DOMAIN stats.byStatus THEN stats.byStatus[code] ELSE 0

TooMany(part, stats) == part * 100 > stats.total * Rate

\* Fault: of the server errors only 500 is looked at.
FaultServerErrors(stats) == Status(stats, 500) > Many500

ServerErrors(stats) ==
  Status(stats, 500) > Many500 \/ Status(stats, 502) > 0 \/ Status(stats, 503) > 0

\* detect_bottlenecks: the lines of the report.
Bottlenecks(stats) ==
  {line \in {"slow", "failures", "429", "5xx", "slow ai"} :
     CASE line = "slow"     -> stats.high > Slow * 100
       [] line = "failures" -> TooMany(stats.failed, stats)
       [] line = "429"      -> Status(stats, 429) > Many429
       [] line = "5xx"      -> ServerErrors(stats)
       [] line = "slow ai"  -> /\ "ai" \in DOMAIN stats.byTarget
                               /\ Percentile(Answered("ai"), 95) > Slow * 100}

-----------------------------------------------------------------------------
\* A percentile splits the latencies where it says: of n, at least the part
\* below its rank are no larger and the part above it are no smaller, and a
\* higher percentile is never below a lower one.
PercentilesSplit ==
  LET stats == Stats
      splits(p, pct) ==
        LET rank == ((stats.ok - 1) * pct) \div 100
        IN  /\ Cardinality({i \in Good : rs[i].latency * 100 <= p}) > rank
            /\ Cardinality({i \in Good : rs[i].latency * 100 >= p}) >= stats.ok - 1 - rank
  IN  Good # {} => /\ splits(stats.p50, 50) /\ splits(stats.high, High)
                   /\ stats.p50 <= stats.high
=============================================================================
