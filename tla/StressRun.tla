------------------------------ MODULE StressRun ------------------------------
(***************************************************************************)
(* One stress run: main() of stress-test/scripts/orchestrate-load.py       *)
(* gathers the load, admin and Gemini tasks, then writes summary.json and  *)
(* requests.json and calls generate_reports, which writes the other files; *)
(* run alone, reports/generator.py writes those again from what it finds.  *)
(* The process may be killed at any point, also in the middle of a file.   *)
(***************************************************************************)
EXTENDS LoadLoop, GeminiLoop

CONSTANTS
  Keep,     \* 10000: results kept in requests.json
  MaxAgain  \* bound on the regenerations of the report

ASSUME StressAssumption == Keep \in Nat /\ MaxAgain \in Nat

VARIABLES
  admin,   \* where the admin task stands
  main,    \* "running" the tasks, "writing", "reported", "exited" or "dead"
  source,  \* the results generate_reports is given
  files,   \* the run's folder
  current, \* the file being written, in the order of Order
  again    \* regenerations so far

mainVars == <<admin, main, source, files, current, again>>
allVars  == <<clock, loopVars, gemVars, mainVars>>

Order   == <<"summary", "requests", "stats", "csv", "html">>
Missing == [at |-> "missing"]
Partial == [at |-> "partial"]

StressInit ==
  /\ ClockInit /\ LoadInit /\ GemInit
  /\ admin = "top" /\ main = "running"
  /\ source = <<>> /\ current = 0 /\ again = 0
  /\ files = [f \in {Order[i] : i \in DOMAIN Order} |-> Missing]

Written(f) == files[f].at = "written"

-----------------------------------------------------------------------------
(* run_admin_loop: a page fetch never raises and always ends; what the     *)
(* loop returns is dropped by main().                                      *)

AdminFetch ==
  /\ admin = "top" /\ ~loopsOver /\ work.pages
  /\ admin' = "fetch"
AdminFetched ==
  /\ admin = "fetch"
  /\ admin' = "top"
AdminEnds ==
  /\ admin = "top" /\ loopsOver
  /\ admin' = "done"
AdminTask == /\ AdminFetch \/ AdminFetched \/ AdminEnds
             /\ UNCHANGED <<main, source, files, current, again>>

-----------------------------------------------------------------------------
Counts(rs) ==
  LET ok == Cardinality({i \in DOMAIN rs : rs[i].ok})
  IN  [total |-> Len(rs), ok |-> ok, failed |-> Len(rs) - ok]

Cut(rs) == IF Len(rs) > Keep THEN SubSeq(rs, 1, Keep) ELSE rs

\* What a file says, as far as another file can contradict it.
Content(f) ==
  CASE f = "summary"  -> [at |-> "written", counts |-> Counts(results)]
    [] f = "requests" -> [at |-> "written", results |-> Cut(results)]
    [] OTHER          -> [at |-> "written", counts |-> Counts(source)]

\* Fault: the report is made from the results that requests.json keeps.
FaultGathered ==
  /\ at = "done" /\ gem = "done" /\ admin = "done"
  /\ main = "running"
  /\ main' = "writing" /\ current' = 1
  /\ source' = Cut(results)
  /\ UNCHANGED <<admin, files, again>>

Gathered ==
  /\ at = "done" /\ gem = "done" /\ admin = "done"
  /\ main = "running"
  /\ main' = "writing" /\ current' = 1
  /\ source' = results
  /\ UNCHANGED <<admin, files, again>>

\* Opening a file empties it; closing it is when its content is there.
Open ==
  /\ main = "writing"
  /\ files[Order[current]].at # "partial"
  /\ files' = [files EXCEPT ![Order[current]] = Partial]
  /\ UNCHANGED <<admin, main, source, current, again>>
Close ==
  /\ main = "writing"
  /\ files[Order[current]].at = "partial"
  /\ files' = [files EXCEPT ![Order[current]] = Content(Order[current])]
  /\ current' = IF current = Len(Order) THEN 0 ELSE current + 1
  /\ main' = IF current = Len(Order) THEN "reported" ELSE "writing"
  /\ UNCHANGED <<admin, source, again>>

\* The memory of a process ends with it; its files stay.
Forgotten ==
  /\ LoadForgotten /\ GemForgotten
  /\ admin' = "top" /\ source' = <<>> /\ current' = 0
  /\ UNCHANGED <<clock, files, again>>

\* asyncio.run joins the threads of the pool before the process ends.
Exit ==
  /\ main = "reported"
  /\ stuck = 0
  /\ main' = "exited"
  /\ Forgotten

Kill ==
  /\ main \in {"running", "writing", "reported"}
  /\ main' = "dead"
  /\ Forgotten

\* generator.py as a program: a file that does not parse ends it.
ReadBack ==
  /\ Written("summary")
  /\ files.requests.at # "partial"
  /\ source' = IF Written("requests") THEN files.requests.results ELSE <<>>

Regenerate ==
  /\ main \in {"exited", "dead"} /\ again < MaxAgain
  /\ ReadBack
  /\ again' = again + 1
  /\ main' = "writing" /\ current' = 3
  /\ UNCHANGED <<admin, files, clock, loopVars, gemVars>>

Load   == main = "running" /\ LoadStep /\ UNCHANGED <<gemVars, mainVars>>
Gemini == main = "running" /\ GeminiTask /\ UNCHANGED <<loopVars, mainVars>>
Admin  == main = "running" /\ AdminTask /\ UNCHANGED <<clock, loopVars, gemVars>>
Main   == \/ (Gathered \/ Open \/ Close) /\ UNCHANGED <<clock, loopVars, gemVars>>
          \/ Exit
Time   == /\ main = "running" /\ (StreamDeadline \/ LoopsDeadline)
          /\ UNCHANGED <<loopVars, gemVars, mainVars>>
Waited(c) == main = "running" /\ TimeOut(c) /\ UNCHANGED <<loopVars, mainVars>>
Outside ==
  \/ Provider /\ UNCHANGED <<loopVars, mainVars>>
  \/ Kill \/ Regenerate

StressNext == \/ Load \/ Gemini \/ Admin \/ Main \/ Time \/ Outside
              \/ \E c \in Calls : Waited(c)

\* Time passes, the event loop runs what is ready, and both HTTP clients have
\* a time-out.  Nothing is asked of the provider: it may hang for ever.
StressSpec ==
  /\ StressInit /\ [][StressNext]_allVars
  /\ WF_allVars(Load) /\ WF_allVars(Gemini) /\ WF_allVars(Admin)
  /\ WF_allVars(Main) /\ WF_allVars(Time)
  /\ \A c \in Calls : WF_allVars(Waited(c))

-----------------------------------------------------------------------------
StressTypeOK ==
  /\ work \in Workloads /\ streamOver \in BOOLEAN /\ loopsOver \in BOOLEAN
  /\ at \in {"top", "chaos", "send", "resume", "done"} /\ burst \in Nat
  /\ seen \subseteq 1..seq /\ Cardinality(seen) <= MaxSeen
  /\ send.tries < MaxTries /\ seq <= work.events
  /\ gem \in {"top", "batch", "done"} /\ call \in [Calls -> Stages]
  /\ used \in Nat /\ Busy <= Threads
  /\ admin \in {"top", "fetch", "done"} /\ current \in 0..Len(Order)
  /\ main \in {"running", "writing", "reported", "exited", "dead"}

\* The HTML report counts the requests that the summary of the run counts,
\* whenever both can be read; a regenerated one may count fewer, only because
\* requests.json was cut at 10000 or had not been written when the run died.
ReportAgrees ==
  Written("summary") /\ Written("html") =>
    \/ files.html.counts = files.summary.counts
    \/ again > 0 /\ (files.summary.counts.total > Keep \/ files.requests = Missing)

\* The stream ends after its deadline although services do not answer, a
\* burst is under way, or requests are being retried.
StreamStops == streamOver ~> (at = "done" \/ main # "running")

\* Once both deadlines have passed the report is written, whatever the Gemini
\* provider does: the time-out of a call frees its batch, not its thread.
ReportWritten ==
  (streamOver /\ loopsOver) ~> main \in {"reported", "exited", "dead"}
=============================================================================
