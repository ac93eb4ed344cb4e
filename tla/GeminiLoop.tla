----------------------------- MODULE GeminiLoop -----------------------------
(***************************************************************************)
(* The Gemini task of a stress run: run_gemini_loop gathers a batch of     *)
(* calls, each of which tests the token budget, hands a blocking request   *)
(* to the thread pool of the event loop, and waits for it with a time-out. *)
(* A time-out cancels a request that is still queued; one that is running  *)
(* keeps its thread, and its answer is billed and thrown away.             *)
(***************************************************************************)
EXTENDS RunClock

CONSTANTS
  Batch,      \* prompts in a batch: 4
  Budget,     \* max_tokens_per_run
  MaxCall,    \* bound: the most tokens one call is billed
  MockTokens, \* 15, what a mock reply claims to have used
  Threads     \* workers of the default executor

ASSUME GeminiAssumption ==
  /\ Batch \in Nat \ {0} /\ Budget \in Nat \ {0}
  /\ MaxCall \in Nat /\ MockTokens \in Nat
  /\ Threads \in Nat \ {0}

VARIABLES
  gem,       \* where the task stands
  call,      \* call[c]: the stage of each call of the batch
  batches,   \* batches started
  used,      \* _tokens_used
  reported,  \* the tokens in the results returned so far
  billed,    \* what the provider has billed (environment)
  unpaid,    \* calls that ran and ended without being charged (history)
  stuck      \* pool threads whose call has timed out

gemVars == <<gem, call, batches, used, reported, billed, unpaid, stuck>>

Calls  == 1..Batch
Stages == {"none", "mock", "queued", "running", "ended"}

GemInit ==
  /\ gem = "top"
  /\ call = [c \in Calls |-> "none"]
  /\ batches = 0 /\ used = 0 /\ reported = 0 /\ billed = 0
  /\ unpaid = 0 /\ stuck = 0

\* The process ends.
GemForgotten ==
  /\ gem' = "top"
  /\ call' = [c \in Calls |-> "none"]
  /\ batches' = 0 /\ used' = 0 /\ reported' = 0 /\ billed' = 0
  /\ unpaid' = 0 /\ stuck' = 0

\* Fault: the budget may be reached exactly and spent once more.
FaultFirstStage ==
  IF used > Budget THEN "ended" ELSE IF work.mock THEN "mock" ELSE "queued"

\* What a call does up to its first await.
FirstStage ==
  IF used >= Budget THEN "ended" ELSE IF work.mock THEN "mock" ELSE "queued"

\* gather() runs every call up to its first await before any of them goes on.
StartBatch ==
  /\ gem = "top" /\ ~loopsOver
  /\ batches < work.batches
  /\ batches' = batches + 1
  /\ call' = [c \in Calls |-> FirstStage]
  /\ gem' = "batch"
  /\ UNCHANGED <<used, reported, billed, unpaid, stuck, clock>>

Busy == Cardinality({c \in Calls : call[c] = "running"}) + stuck

Stage(c, from, to) ==
  /\ call[c] = from
  /\ call' = [call EXCEPT ![c] = to]
  /\ UNCHANGED <<gem, batches, clock>>

\* A free thread takes the oldest request of its queue.
Take(c) ==
  /\ Busy < Threads
  /\ \A d \in 1..(c - 1) : call[d] # "queued"
  /\ Stage(c, "queued", "running")
  /\ UNCHANGED <<used, reported, billed, unpaid, stuck>>

MockReply(c) ==
  /\ Stage(c, "mock", "ended")
  /\ reported' = reported + MockTokens
  /\ UNCHANGED <<used, billed, unpaid, stuck>>

Reply(c) ==
  /\ Stage(c, "running", "ended")
  /\ \E n \in 0..MaxCall : /\ used' = used + n
                           /\ reported' = reported + n
                           /\ billed' = billed + n
  /\ UNCHANGED <<unpaid, stuck>>

\* Fault: the usage is charged before the text of the reply is read.
FaultRaise(c) ==
  /\ Stage(c, "running", "ended")
  /\ \E n \in 0..MaxCall : billed' = billed + n /\ used' = used + n
  /\ unpaid' = unpaid + 1
  /\ UNCHANGED <<reported, stuck>>

\* The request fails, or resp.text raises (a blocked reply has no text).
Raise(c) ==
  /\ Stage(c, "running", "ended")
  /\ \E n \in 0..MaxCall : billed' = billed + n
  /\ unpaid' = unpaid + 1
  /\ UNCHANGED <<used, reported, stuck>>

\* Fault: wait_for has no time-out.
FaultTimeOut(c) ==
  /\ FALSE
  /\ Stage(c, "running", "ended")
  /\ UNCHANGED <<used, reported, billed, unpaid, stuck>>

TimeOut(c) ==
  /\ \/ /\ Stage(c, "queued", "ended")
        /\ UNCHANGED <<unpaid, stuck>>
     \/ /\ Stage(c, "running", "ended")
        /\ stuck' = stuck + 1 /\ unpaid' = unpaid + 1
  /\ UNCHANGED <<used, reported, billed>>

\* An answer nobody waits for frees its thread.
LateAnswer ==
  /\ stuck > 0 /\ stuck' = stuck - 1
  /\ \E n \in 0..MaxCall : billed' = billed + n
  /\ UNCHANGED <<gem, call, batches, used, reported, unpaid, clock>>

EndBatch ==
  /\ gem = "batch"
  /\ \A c \in Calls : call[c] = "ended"
  /\ call' = [c \in Calls |-> "none"]
  /\ gem' = "top"
  /\ UNCHANGED <<batches, used, reported, billed, unpaid, stuck, clock>>

GeminiEnds ==
  /\ gem = "top" /\ loopsOver
  /\ gem' = "done"
  /\ UNCHANGED <<call, batches, used, reported, billed, unpaid, stuck, clock>>

Provider == LateAnswer \/ \E c \in Calls : Reply(c) \/ Raise(c)
GeminiTask == \/ StartBatch \/ EndBatch \/ GeminiEnds
              \/ \E c \in Calls : Take(c) \/ MockReply(c)
GeminiStep == GeminiTask \/ Provider \/ \E c \in Calls : TimeOut(c)

-----------------------------------------------------------------------------
\* The budget of the README ("cost limit ... enforced") is a stop sign read
\* before four calls are sent: the charged tokens pass it by less than one
\* batch, and what is billed passes that only by calls that raised or ran
\* past their time-out, each of which can hide one whole call.
OvershootBounded ==
  /\ used < Budget + Batch * MaxCall
  /\ billed <= used + unpaid * MaxCall

\* The tokens GeminiValidationAgent adds up from the results are the tokens
\* the budget was charged for: a reply is never charged and lost.
TokensReported == ~work.mock => reported = used
=============================================================================
