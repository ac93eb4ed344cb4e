------------------------------ MODULE LoadLoop ------------------------------
(***************************************************************************)
(* The load task of a stress run: run_event_loop pulls events out of       *)
(* VirtualEventSimulator.stream, asks the chaos worker about each one, and *)
(* sends it with AWSLoadWorker.send, which retries.  One asyncio task: the *)
(* other tasks, the deadline and the answers come between its steps.       *)
(***************************************************************************)
EXTENDS RunClock

CONSTANTS
  BurstSizes,  \* 5..20
  MaxSeen,     \* 1000: ids remembered before the memory guard cuts in
  KeepSeen,    \* 500: ids it keeps
  MaxTries,    \* max_retries
  ChaosKinds   \* what maybe_inject returns; {"none"} when chaos is disabled

ASSUME LoadAssumption ==
  /\ BurstSizes \subseteq Nat \ {0}
  /\ KeepSeen \in Nat \ {0} /\ MaxSeen \in Nat /\ KeepSeen <= MaxSeen
  /\ MaxTries \in Nat \ {0}
  /\ "none" \in ChaosKinds

VARIABLES
  at,       \* where the task stands
  burst,    \* events the burst under way has still to make
  event,    \* the event in hand
  seen,     \* _seen_event_ids
  seq,      \* _seq; a fresh event id is its number
  chaos,    \* what maybe_inject returned for it
  send,     \* the locals of send: attempts, last_status, last_error
  results,  \* aws_results
  retried   \* the counter stress_retry_total

loopVars == <<at, burst, event, seen, seq, chaos, send, results, retried>>

NoEvent == [id |-> 0, type |-> "feed.list", pattern |-> "normal"]
Fresh   == [tries |-> 0, status |-> 0, error |-> "none"]

LoadInit ==
  /\ at = "top" /\ burst = 0
  /\ event = NoEvent /\ seen = {} /\ seq = 0
  /\ chaos = "none" /\ send = Fresh
  /\ results = <<>> /\ retried = 0

\* The process ends.
LoadForgotten ==
  /\ at' = "top" /\ burst' = 0
  /\ event' = NoEvent /\ seen' = {} /\ seq' = 0
  /\ chaos' = "none" /\ send' = Fresh
  /\ results' = <<>> /\ retried' = 0

-----------------------------------------------------------------------------
(* stream().  The deadline is read at the top only: a burst is always      *)
(* finished, one event at a time.                                          *)

\* Fault: the memory guard starts again from nothing.
FaultRemembered(ids) == IF Cardinality(ids) > MaxSeen THEN {{}} ELSE {ids}

\* Fault: there is no guard.
FaultUncut(ids) == {ids}

\* The guard keeps the tail of list(set), which is any part of it.
Remembered(ids) ==
  IF Cardinality(ids) > MaxSeen
  THEN {kept \in SUBSET ids : Cardinality(kept) = KeepSeen}
  ELSE {ids}

\* _make_event
MakeEvent(pattern) ==
  /\ \E type \in work.types :
       \/ /\ pattern = "duplicate" /\ seen # {}
          /\ \E id \in seen :
               event' = [id |-> id, type |-> type, pattern |-> pattern]
          /\ seen' = seen
       \/ /\ pattern # "duplicate" \/ seen = {}
          /\ event' = [id |-> seq + 1, type |-> type, pattern |-> pattern]
          /\ seen' \in Remembered(seen \union {seq + 1})
  /\ seq' = seq + 1
  /\ at' = "chaos"
  /\ UNCHANGED <<chaos, send, results, retried, clock>>

DrawSingle ==
  /\ at = "top" /\ ~streamOver /\ seq < work.events
  /\ \E pattern \in (Drawn(work.preset) \intersect work.kinds) \ {"burst"} : MakeEvent(pattern)
  /\ UNCHANGED burst

DrawBurst ==
  /\ at = "top" /\ ~streamOver
  /\ "burst" \in Drawn(work.preset) \intersect work.kinds
  /\ \E n \in BurstSizes : seq + n <= work.events /\ burst' = n - 1
  /\ MakeEvent("normal")

\* The consumer asks for the next event: the rest of the burst, or the pause
\* that ends a turn of the loop.
Resume ==
  /\ at = "resume"
  /\ \/ /\ burst > 0
        /\ burst' = burst - 1
        /\ MakeEvent("normal")
     \/ /\ burst = 0
        /\ at' = "top" /\ event' = NoEvent
        /\ UNCHANGED <<burst, seen, seq, chaos, send, results, retried, clock>>

StreamEnds ==
  /\ at = "top" /\ streamOver
  /\ at' = "done"
  /\ UNCHANGED <<burst, event, seen, seq, chaos, send, results, retried, clock>>

-----------------------------------------------------------------------------
(* run_event_loop, maybe_inject and send.  Only "throttle" changes what    *)
(* happens to the request; the other kinds wait and label its result.      *)

\* Fault: the throttled event leaves no trace in the results.
FaultRecord(result) ==
  IF result.skipped THEN UNCHANGED results ELSE results' = Append(results, result)

Record(result) == results' = Append(results, result)

Result(ok, status, error, tries) ==
  [id |-> event.id, pattern |-> event.pattern, target |-> Service(event.type),
   ok |-> ok, skipped |-> FALSE, status |-> status, error |-> error,
   attempts |-> tries, chaos |-> chaos]
Skipped == [id |-> event.id, ok |-> FALSE, skipped |-> TRUE]

Throttle ==
  /\ at = "chaos" /\ "throttle" \in ChaosKinds
  /\ Record(Skipped)
  /\ at' = "resume"
  /\ UNCHANGED <<burst, event, seen, seq, chaos, send, retried, clock>>

Inject ==
  /\ at = "chaos"
  /\ chaos' \in ChaosKinds \ {"throttle"}
  /\ send' = Fresh
  /\ at' = "send"
  /\ UNCHANGED <<burst, event, seen, seq, results, retried, clock>>

Finish(result) ==
  /\ Record(result)
  /\ at' = "resume" /\ chaos' = "none" /\ send' = Fresh
  /\ UNCHANGED <<burst, event, seen, seq, clock>>

\* Fault: the counter also counts the attempt that gives up.
FaultTryAgain(status, error) ==
  LET tries == send.tries + 1 IN
  /\ retried' = retried + 1
  /\ \/ /\ tries < MaxTries
        /\ send' = [tries |-> tries, status |-> status, error |-> error]
        /\ UNCHANGED <<at, burst, event, seen, seq, chaos, results, clock>>
     \/ /\ tries >= MaxTries
        /\ Finish(Result(FALSE, status, error, tries))

\* The tail of the while loop: back off, or give up with the last status and
\* the last error, which may come from different attempts.
TryAgain(status, error) ==
  LET tries == send.tries + 1 IN
  \/ /\ tries < MaxTries
     /\ send' = [tries |-> tries, status |-> status, error |-> error]
     /\ retried' = retried + 1
     /\ UNCHANGED <<at, burst, event, seen, seq, chaos, results, clock>>
  \/ /\ tries >= MaxTries
     /\ Finish(Result(FALSE, status, error, tries))
     /\ UNCHANGED retried

Answered ==
  /\ at = "send"
  /\ \E status \in work.statuses :
       \/ /\ status < 500
          /\ Finish(Result(status < 400, status, "none", send.tries + 1))
          /\ UNCHANGED retried
       \/ /\ status >= 500
          /\ TryAgain(status, send.error)

\* The status line arrived, the body did not.
BodyLost ==
  /\ at = "send"
  /\ \E status \in {s \in work.statuses : s < 500}, error \in work.errors :
       TryAgain(status, error)

\* Fault: only a time-out is remembered as an error.
FaultNoAnswer ==
  /\ at = "send"
  /\ \E error \in work.errors :
       TryAgain(send.status, IF error = "timeout" THEN error ELSE send.error)

\* Fault: a time-out does not count as an attempt.
FaultCountNoAnswer ==
  /\ at = "send"
  /\ \E error \in work.errors : send' = [send EXCEPT !.error = error]
  /\ UNCHANGED <<at, burst, event, seen, seq, chaos, results, retried, clock>>

NoAnswer ==
  /\ at = "send"
  /\ \E error \in work.errors : TryAgain(send.status, error)

LoadStep == \/ DrawSingle \/ DrawBurst \/ Resume \/ StreamEnds
            \/ Throttle \/ Inject \/ Answered \/ BodyLost \/ NoAnswer

-----------------------------------------------------------------------------
InHand == IF at \in {"chaos", "send"} THEN 1 ELSE 0

\* Every event the simulator made has exactly one entry in the results, but
\* the one being handled: main() reports len(aws_results) as the requests.
EveryEventRecorded == seq = Len(results) + InHand

\* An event drawn as a duplicate carries the id of an event before it, even
\* just after the memory guard has forgotten half of the ids; only the first
\* event of a run has nothing to repeat.
DuplicatesRepeat ==
  \A i \in 2..Len(results) :
    ~results[i].skipped /\ results[i].pattern = "duplicate" =>
      \E j \in 1..(i - 1) : results[j].id = results[i].id

\* A failed request tells why: a status of 400 or more, or an error, although
\* the two may come from different attempts of the same request.
FailuresExplained ==
  \A i \in DOMAIN results :
    ~results[i].ok /\ ~results[i].skipped =>
      results[i].status >= 400 \/ results[i].error # "none"

\* What APIFailureAnalysisAgent adds up from the attempts of the results
\* (conditional_agents.py:59) is what the counter stress_retry_total counted.
Tries(result) == IF result.skipped THEN 1 ELSE result.attempts
Retries(rs)    == UNION {{i} \X (2..Tries(rs[i])) : i \in DOMAIN rs}
RetryCount(rs) == Cardinality(Retries(rs))
RetriesAdd == retried = RetryCount(results) + send.tries
=============================================================================
