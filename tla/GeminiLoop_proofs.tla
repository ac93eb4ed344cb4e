-------------------------- MODULE GeminiLoop_proofs --------------------------
(***************************************************************************)
(* The token budget of a stress run, for any budget, batch, pool of        *)
(* threads, workload and provider: what a run may be charged, reported and *)
(* billed, inside the whole of StressRun.                                  *)
(***************************************************************************)
EXTENDS StressRun, FiniteSetTheorems, TLAPS

GemTyped ==
  /\ gem \in {"top", "batch", "done"}
  /\ call \in [Calls -> Stages]
  /\ {used, reported, billed, unpaid, stuck} \subseteq Nat

Finished == {c \in Calls : call[c] = "ended"}
AtWork   == {c \in Calls : call[c] \in {"queued", "running"}}

\* While a call of the batch is at work, each one that has ended cost at most
\* one call, on top of a sum that was below the budget when the batch began.
Charged ==
  /\ gem # "batch" => AtWork = {}
  /\ AtWork # {} => used < Budget + Cardinality(Finished) * MaxCall
  /\ used < Budget + Batch * MaxCall

\* A thread whose call has timed out may still bill one call.
Billed == billed + stuck * MaxCall <= used + unpaid * MaxCall

Reported ==
  /\ \A c \in Calls : call[c] = "mock" => work.mock
  /\ ~work.mock => reported = used

GemInv == GemTyped /\ Charged /\ Billed /\ Reported

\* Calls are finitely many, and one that has not ended leaves room for it.
LEMMA CallsCount ==
  /\ IsFiniteSet(Calls) /\ Cardinality(Calls) = Batch
  /\ \A s \in SUBSET Calls :
       /\ IsFiniteSet(s) /\ Cardinality(s) \in Nat /\ Cardinality(s) <= Batch
       /\ \A c \in Calls \ s : /\ Cardinality(s \union {c}) = Cardinality(s) + 1
                               /\ Cardinality(s) + 1 <= Batch
<1>1. IsFiniteSet(Calls) /\ Cardinality(Calls) = Batch
  BY GeminiAssumption, FS_Interval DEF Calls
<1>2. ASSUME NEW s \in SUBSET Calls
      PROVE IsFiniteSet(s) /\ Cardinality(s) \in Nat /\ Cardinality(s) <= Batch
  BY <1>1, FS_Subset, FS_CardinalityType
<1>3. ASSUME NEW s \in SUBSET Calls, NEW c \in Calls \ s
      PROVE  /\ Cardinality(s \union {c}) = Cardinality(s) + 1
             /\ Cardinality(s) + 1 <= Batch
  <2>1. Cardinality(s \union {c}) = Cardinality(s) + 1
    BY <1>2, FS_AddElement
  <2>2. s \union {c} \in SUBSET Calls
    OBVIOUS
  <2>3. QED
    BY <1>2, <2>1, <2>2
<1>4. QED
  BY <1>1, <1>2, <1>3

\* Products of naturals, for provers that do not multiply variables.
LEMMA Products ==
  ASSUME NEW m \in Nat, NEW n \in Nat
  PROVE  /\ n * m \in Nat /\ (n + 1) * m = n * m + m
         /\ \A k \in Nat : k <= n => k * m <= n * m
<1>1. n * m \in Nat /\ (n + 1) * m = n * m + m
  OBVIOUS
<1>2. ASSUME NEW k \in Nat, k <= n PROVE k * m <= n * m
  <2>1. PICK d \in Nat : n = k + d
    BY <1>2
  <2>2. n * m = k * m + d * m /\ d * m \in Nat /\ k * m \in Nat
    BY <2>1
  <2>3. QED
    BY <2>2
<1>3. QED
  BY <1>1, <1>2

\* No call has been made at first.
LEMMA InitGem == StressInit => GemInv
<1> SUFFICES ASSUME StressInit PROVE GemInv
  OBVIOUS
<1> USE DEF StressInit, GemInit
<1>1. GemTyped
  BY DEF GemTyped, Stages
<1>2. AtWork = {}
  BY DEF AtWork
<1>3. Charged
  BY <1>2, GeminiAssumption, Products DEF Charged
<1>4. Billed /\ Reported
  BY GeminiAssumption DEF Billed, Reported
<1>5. QED
  BY <1>1, <1>3, <1>4 DEF GemInv

-----------------------------------------------------------------------------
\* A call that ends makes the finished ones more by one and the working fewer.
LEMMA EndsOne ==
  ASSUME GemTyped, NEW c \in Calls, call[c] # "ended",
         call' = [call EXCEPT ![c] = "ended"]
  PROVE  /\ Cardinality(Finished') = Cardinality(Finished) + 1
         /\ Cardinality(Finished) + 1 <= Batch
         /\ Cardinality(Finished) \in Nat
         /\ AtWork' \subseteq AtWork
<1>1. Finished' = Finished \union {c} /\ c \in Calls \ Finished
  BY DEF GemTyped, Finished
<1>2. AtWork' \subseteq AtWork
  BY DEF GemTyped, AtWork
<1>3. Finished \in SUBSET Calls
  BY DEF Finished
<1>4. QED
  BY <1>1, <1>2, <1>3, CallsCount

\* The end of a working call that was charged n tokens, or none.
LEMMA ChargedEnd ==
  ASSUME GemTyped, Charged, NEW c \in Calls, c \in AtWork,
         call' = [call EXCEPT ![c] = "ended"], gem' = gem,
         NEW n \in 0..MaxCall, used' = used + n
  PROVE  Charged'
<1> DEFINE k == Cardinality(Finished)
<1>1. /\ Cardinality(Finished') = k + 1 /\ k + 1 <= Batch /\ k \in Nat
      /\ AtWork' \subseteq AtWork
  BY EndsOne DEF AtWork
<1>2. used < Budget + k * MaxCall /\ gem = "batch"
  BY DEF Charged
<1>3. /\ (k + 1) * MaxCall = k * MaxCall + MaxCall /\ k * MaxCall \in Nat
      /\ (k + 1) * MaxCall <= Batch * MaxCall /\ Batch * MaxCall \in Nat
  BY <1>1, GeminiAssumption, Products
<1>4. used' < Budget + (k + 1) * MaxCall /\ used' < Budget + Batch * MaxCall
  <2> HIDE DEF k
  <2>1. used \in Nat /\ MaxCall \in Nat /\ Budget \in Nat
    BY GeminiAssumption DEF GemTyped
  <2>2. QED
    BY <1>2, <1>3, <2>1
<1>5. QED
  BY <1>1, <1>2, <1>4 DEF Charged

\* The end of a call that had no request, or steps that end none.
LEMMA ChargedSame ==
  ASSUME GemTyped, Charged, UNCHANGED used,
         Cardinality(Finished) <= Cardinality(Finished'),
         Cardinality(Finished) \in Nat, Cardinality(Finished') \in Nat,
         AtWork = {} => AtWork' = {}, gem' # "batch" => AtWork' = {}
  PROVE  Charged'
<1>1. Cardinality(Finished) * MaxCall <= Cardinality(Finished') * MaxCall
  BY GeminiAssumption, Products
<1>2. Cardinality(Finished) * MaxCall \in Nat /\ Cardinality(Finished') * MaxCall \in Nat
  BY GeminiAssumption, Products
<1>3. QED
  BY <1>1, <1>2, GeminiAssumption DEF Charged, GemTyped

\* Only a working call charges, and it was let through below the budget.
LEMMA StepCharged == GemInv /\ GeminiStep => Charged'
<1> SUFFICES ASSUME GemInv, GeminiStep PROVE Charged'
  OBVIOUS
<1> USE DEF GemInv, GemTyped, Stages
<1>1. CASE StartBatch
  <2>1. used >= Budget => AtWork' = {}
    BY <1>1 DEF StartBatch, FirstStage, AtWork
  <2>2. used < Budget => Finished' = {}
    <3>1. used < Budget => ~(used >= Budget)
      BY GeminiAssumption
    <3>2. used < Budget => FirstStage \in {"mock", "queued"}
      BY <3>1 DEF FirstStage
    <3>3. QED
      BY <1>1, <3>2 DEF StartBatch, Finished
  <2>3. Cardinality({}) = 0
    BY FS_EmptySet
  <2>4. 0 * MaxCall = 0
    BY GeminiAssumption
  <2>5. used' = used /\ gem' = "batch"
    BY <1>1 DEF StartBatch
  <2>6. AtWork' # {} => used' < Budget + Cardinality(Finished') * MaxCall
    <3>1. used < Budget \/ used >= Budget
      BY GeminiAssumption
    <3>2. used < Budget => Cardinality(Finished') * MaxCall = 0
      BY <2>2, <2>3, <2>4
    <3>3. QED
      BY <2>1, <2>5, <3>1, <3>2, GeminiAssumption
  <2>7. QED
    BY <2>5, <2>6 DEF Charged
<1>2. CASE EndBatch
  BY <1>2 DEF EndBatch, AtWork, Charged
<1>3. CASE GeminiEnds
  BY <1>3 DEF GeminiEnds, AtWork, Finished, Charged
<1>4. ASSUME NEW c \in Calls, Take(c) PROVE Charged'
  <2>1. Finished' = Finished /\ AtWork' = AtWork /\ gem' = gem /\ used' = used
    BY <1>4 DEF Take, Stage, Finished, AtWork
  <2>2. QED
    BY <2>1 DEF Charged
<1>5. ASSUME NEW c \in Calls, MockReply(c) PROVE Charged'
  <2>1. call[c] # "ended" /\ call' = [call EXCEPT ![c] = "ended"]
        /\ gem' = gem /\ used' = used
    BY <1>5 DEF MockReply, Stage
  <2>2. /\ Cardinality(Finished') = Cardinality(Finished) + 1
        /\ Cardinality(Finished) \in Nat /\ AtWork' \subseteq AtWork
    BY <2>1, EndsOne
  <2>3. gem' # "batch" => AtWork' = {}
    BY <2>1, <2>2 DEF Charged
  <2>4. QED
    BY <2>1, <2>2, <2>3, ChargedSame
<1>6. ASSUME NEW c \in Calls, Reply(c) \/ Raise(c) \/ TimeOut(c) PROVE Charged'
  <2>1. /\ c \in AtWork /\ call' = [call EXCEPT ![c] = "ended"] /\ gem' = gem
        /\ \E n \in 0..MaxCall : used' = used + n
    BY <1>6, GeminiAssumption DEF Reply, Raise, TimeOut, Stage, AtWork
  <2>2. QED
    BY <2>1, ChargedEnd
<1>7. CASE LateAnswer
  BY <1>7 DEF LateAnswer, AtWork, Finished, Charged
<1>8. QED
  BY <1>1, <1>2, <1>3, <1>4, <1>5, <1>6, <1>7 DEF GeminiStep, GeminiTask, Provider

\* Each step of the task moves its calls between their stages.
LEMMA StepTyped == GemInv /\ GeminiStep => GemTyped'
<1> SUFFICES ASSUME GemInv, GeminiStep PROVE GemTyped'
  OBVIOUS
<1> USE GeminiAssumption DEF GemInv, GemTyped, Stages, Stage
<1>1. CASE StartBatch \/ EndBatch \/ GeminiEnds \/ LateAnswer
  BY <1>1 DEF StartBatch, EndBatch, GeminiEnds, LateAnswer, FirstStage
<1>2. ASSUME NEW c \in Calls,
             Take(c) \/ MockReply(c) \/ Reply(c) \/ Raise(c) \/ TimeOut(c)
      PROVE  GemTyped'
  BY <1>2 DEF Take, MockReply, Reply, Raise, TimeOut
<1>3. QED
  BY <1>1, <1>2 DEF GeminiStep, GeminiTask, Provider

\* What is billed and not charged has raised or timed out.
LEMMA StepBilled == GemInv /\ GeminiStep => Billed'
<1> SUFFICES ASSUME GemInv, GeminiStep PROVE Billed'
  OBVIOUS
<1> USE GeminiAssumption DEF GemInv, GemTyped
<1>1. CASE UNCHANGED <<used, billed, unpaid, stuck>>
  BY <1>1 DEF Billed
<1>2. /\ \A n \in Nat : n * MaxCall \in Nat /\ (n + 1) * MaxCall = n * MaxCall + MaxCall
  BY Products
<1>3. ASSUME NEW n \in 0..MaxCall, used' = used + n, billed' = billed + n,
             UNCHANGED <<unpaid, stuck>>
      PROVE  Billed'
  BY <1>2, <1>3 DEF Billed
<1>4. ASSUME NEW n \in 0..MaxCall, billed' = billed + n, unpaid' = unpaid + 1,
             UNCHANGED <<used, stuck>>
      PROVE  Billed'
  BY <1>2, <1>4 DEF Billed
<1>5. CASE /\ stuck' = stuck + 1 /\ unpaid' = unpaid + 1 /\ UNCHANGED <<used, billed>>
  BY <1>2, <1>5 DEF Billed
<1>6. CASE LateAnswer
  <2>1. PICK n \in 0..MaxCall : billed' = billed + n
    BY <1>6 DEF LateAnswer
  <2>2. stuck' \in Nat /\ stuck = stuck' + 1 /\ UNCHANGED <<used, unpaid>>
    BY <1>6 DEF LateAnswer
  <2>3. stuck * MaxCall = stuck' * MaxCall + MaxCall
    BY <1>2, <2>2
  <2>4. QED
    BY <1>2, <2>1, <2>2, <2>3 DEF Billed
<1>7. ASSUME NEW c \in Calls, Reply(c) \/ Raise(c) \/ TimeOut(c) PROVE Billed'
  BY <1>1, <1>3, <1>4, <1>5, <1>7 DEF Reply, Raise, TimeOut
<1>8. QED
  BY <1>1, <1>6, <1>7
     DEF GeminiStep, GeminiTask, Provider, StartBatch, EndBatch, GeminiEnds,
         Take, MockReply

\* A reply is charged and returned in one step; a mock one is not charged.
LEMMA StepReported == GemInv /\ GeminiStep => Reported'
<1> SUFFICES ASSUME GemInv, GeminiStep PROVE Reported'
  OBVIOUS
<1> USE DEF GemInv, GemTyped, Reported, Stage, clock
<1>1. CASE StartBatch \/ EndBatch \/ GeminiEnds \/ LateAnswer
  BY <1>1 DEF StartBatch, EndBatch, GeminiEnds, LateAnswer, FirstStage
<1>2. ASSUME NEW c \in Calls,
             Take(c) \/ MockReply(c) \/ Reply(c) \/ Raise(c) \/ TimeOut(c)
      PROVE  Reported'
  BY <1>2 DEF Take, MockReply, Reply, Raise, TimeOut
<1>3. QED
  BY <1>1, <1>2 DEF GeminiStep, GeminiTask, Provider

\* The other tasks leave the Gemini task alone; the end of a process resets it.
LEMMA StepGem == GemInv /\ [StressNext]_allVars => GemInv'
<1> SUFFICES ASSUME GemInv, [StressNext]_allVars PROVE GemInv'
  OBVIOUS
<1>1. CASE GeminiStep
  BY <1>1, StepTyped, StepCharged, StepBilled, StepReported DEF GemInv
<1>2. CASE UNCHANGED <<gemVars, work>>
  BY <1>2 DEF gemVars, GemInv, GemTyped, Charged, Billed, Reported, AtWork, Finished
<1>3. CASE GemForgotten
  <2>1. GemTyped' /\ AtWork' = {}
    BY <1>3 DEF GemForgotten, GemTyped, Stages, AtWork
  <2>2. Charged'
    BY <1>3, <2>1, GeminiAssumption, Products DEF GemForgotten, Charged
  <2>3. Billed' /\ Reported'
    BY <1>3, GeminiAssumption DEF GemForgotten, Billed, Reported
  <2>4. QED
    BY <2>1, <2>2, <2>3 DEF GemInv
<1>4. CASE Load
  <2>1. UNCHANGED gemVars /\ UNCHANGED clock
    BY <1>4 DEF Load, LoadStep, DrawSingle, DrawBurst, Resume, MakeEvent,
       StreamEnds, Throttle, Inject, Answered, BodyLost, NoAnswer, TryAgain, Finish
  <2>2. QED
    BY <1>2, <2>1 DEF clock
<1>5. CASE Admin \/ Main \/ Time
  BY <1>2, <1>3, <1>5
     DEF Admin, Main, Time, Exit, Forgotten, StreamDeadline, LoopsDeadline, clock
<1>6. CASE Gemini \/ \E c \in Calls : Waited(c)
  BY <1>1, <1>6 DEF Gemini, Waited, GeminiStep
<1>7. CASE Outside
  BY <1>1, <1>2, <1>3, <1>7
     DEF Outside, GeminiStep, Kill, Forgotten, Regenerate, clock
<1>8. CASE UNCHANGED allVars
  BY <1>2, <1>8 DEF allVars, clock
<1>9. QED
  BY <1>4, <1>5, <1>6, <1>7, <1>8 DEF StressNext

\* The tokens charged pass the budget by less than one batch, and the tokens
\* billed pass those by at most one call for each that raised or timed out
\* (gemini_validation_worker.py:80-113).
THEOREM BudgetIsNearlyKept == StressSpec => []OvershootBounded
<1>1. GemInv => OvershootBounded
  <2> SUFFICES ASSUME GemInv PROVE OvershootBounded
    OBVIOUS
  <2>1. stuck * MaxCall \in Nat /\ unpaid * MaxCall \in Nat
    BY GeminiAssumption, Products DEF GemInv, GemTyped
  <2>2. QED
    BY <2>1 DEF GemInv, GemTyped, Charged, Billed, OvershootBounded
<1>2. QED
  BY <1>1, InitGem, StepGem, PTL DEF StressSpec

\* What the validation agent adds up from the replies is what the budget was
\* charged (gemini_validation_worker.py:106-113).
THEOREM ChargesAreReported == StressSpec => []TokensReported
<1>1. GemInv => TokensReported
  BY DEF GemInv, Reported, TokensReported
<1>2. QED
  BY <1>1, InitGem, StepGem, PTL DEF StressSpec
=============================================================================
