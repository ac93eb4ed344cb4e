--------------------------- MODULE StressRun_proofs ---------------------------
(***************************************************************************)
(* The load task and the report of a stress run, for any workloads, burst  *)
(* sizes, memory guard, retries, chaos and cut of requests.json: the       *)
(* events and their results, and the files main() leaves behind.           *)
(***************************************************************************)
EXTENDS GeminiLoop_proofs

Errors   == {"none"} \union UNION {w.errors : w \in Workloads}
Sent     == [id : Nat, pattern : PatternNames, target : {"admin", "ai", "server"},
             ok : BOOLEAN, skipped : {FALSE}, status : Nat, error : Errors,
             attempts : Nat, chaos : ChaosKinds]
NotSent  == [id : Nat, ok : {FALSE}, skipped : {TRUE}]
Entries  == Sent \union NotSent

LoadTyped ==
  /\ work \in Workloads
  /\ at \in {"top", "chaos", "send", "resume", "done"}
  /\ {burst, seq, event.id, send.status, send.tries} \subseteq Nat
  /\ event.pattern \in PatternNames /\ chaos \in ChaosKinds /\ send.error \in Errors
  /\ results \in Seq(Entries)

\* The bounds of the run: a burst fits into what is left of it.
Bounded ==
  /\ seq + burst <= work.events
  /\ at \in {"top", "done"} => burst = 0
  /\ send.tries < MaxTries
  /\ seen \subseteq 1..seq /\ Cardinality(seen) <= MaxSeen

\* Whatever can be drawn again has an entry, or is in hand; the memory guard
\* never forgets everything, and an event in hand that is a duplicate repeats an
\* entry, unless it is the first of the run.
Ids == {results[j].id : j \in DOMAIN results}
Remembering ==
  /\ seen \subseteq Ids \union (IF InHand = 1 THEN {event.id} ELSE {})
  /\ seq > 0 => seen # {}
  /\ InHand = 1 /\ event.pattern = "duplicate" => event.id \in Ids \/ results = <<>>

LoadInv == /\ LoadTyped /\ Bounded /\ Remembering
           /\ EveryEventRecorded /\ DuplicatesRepeat /\ FailuresExplained

-----------------------------------------------------------------------------
(* What the steps of the load task do to the events and their results.     *)

\* The entry of the event in hand, as main() and the agents will read it.
EntryOf(r) ==
  /\ r \in Entries /\ r.id = event.id
  /\ r.skipped \/ r.pattern = event.pattern
  /\ ~r.ok /\ ~r.skipped => r.status >= 400 \/ r.error # "none"

Making(pattern) ==
  /\ at \in {"top", "resume"} /\ pattern \in PatternNames
  /\ MakeEvent(pattern)
  /\ burst' \in Nat /\ seq + 1 + burst' <= work.events
Recording(r) ==
  /\ InHand = 1 /\ at' = "resume"
  /\ EntryOf(r) /\ results' = Append(results, r)
  /\ UNCHANGED <<work, burst, event, seen, seq>>
  /\ chaos' \in ChaosKinds /\ send' \in {send, Fresh}
Holding ==
  /\ InHand = 1 /\ at' = "send"
  /\ UNCHANGED <<work, burst, event, seen, seq, results>>
  /\ chaos' \in ChaosKinds
  /\ send'.tries \in Nat /\ send'.tries < MaxTries
  /\ send'.status \in Nat /\ send'.error \in Errors
Turning ==
  /\ at \in {"top", "resume"} /\ burst = 0 /\ at' \in {"top", "done"}
  /\ event' \in {event, NoEvent}
  /\ UNCHANGED <<work, burst, seen, seq, chaos, send, results>>

LEMMA Names ==
  /\ {"normal", "duplicate"} \subseteq PatternNames
  /\ \A preset : Drawn(preset) \subseteq PatternNames
<1>1. {"normal", "duplicate"} \subseteq PatternNames
  <2>1. PatternOrder[1] = "normal" /\ PatternOrder[2] = "duplicate"
        /\ {1, 2} \subseteq DOMAIN PatternOrder
    BY DEF PatternOrder
  <2>2. QED
    BY <2>1 DEF PatternNames
<1>2. QED
  BY <1>1 DEF Drawn

\* A status code or an error of the workload, and what send keeps of them.
LEMMA AnswerTypes ==
  ASSUME LoadTyped
  PROVE  /\ work.events \in Nat /\ work.kinds \subseteq PatternNames
         /\ work.statuses \subseteq 200..599
         /\ work.errors \subseteq Errors \ {"none"} /\ "none" \in Errors
<1>1. work \in Workloads
  BY DEF LoadTyped
<1>2. work.errors \subseteq Errors
  BY <1>1 DEF Errors
<1>3. "none" \in Errors
  BY DEF Errors
<1>4. QED
  BY <1>1, <1>2, <1>3, WorkloadAssumption

LEMMA ResultTypes ==
  ASSUME LoadTyped, NEW ok \in BOOLEAN, NEW status \in Nat, NEW error \in Errors,
         NEW tries \in Nat, ~ok => status >= 400 \/ error # "none"
  PROVE  EntryOf(Result(ok, status, error, tries))
<1>1. Service(event.type) \in {"admin", "ai", "server"}
  BY DEF Service
<1>2. Result(ok, status, error, tries) \in Sent
  BY <1>1 DEF Result, Sent, LoadTyped
<1>3. QED
  BY <1>2 DEF EntryOf, Entries, Result

\* An attempt that failed is one more of its request, or ends it with a reason.
LEMMA TriesOrGivesUp ==
  ASSUME LoadTyped, at = "send", NEW status \in Nat, NEW error \in Errors,
         status >= 400 \/ error # "none", TryAgain(status, error)
  PROVE  Holding \/ \E r \in Entries : Recording(r)
<1>1. send.tries + 1 \in Nat /\ InHand = 1
  BY DEF LoadTyped, InHand
<1>2. CASE send.tries + 1 < MaxTries
  <2>1. ~(send.tries + 1 >= MaxTries)
    BY <1>1, <1>2, LoadAssumption
  <2>2. /\ send' = [tries |-> send.tries + 1, status |-> status, error |-> error]
        /\ UNCHANGED <<at, burst, event, seen, seq, chaos, results, clock>>
    BY <2>1 DEF TryAgain
  <2>3. QED
    BY <1>1, <1>2, <2>2 DEF Holding, LoadTyped, clock
<1>3. CASE send.tries + 1 >= MaxTries
  <2> DEFINE result == Result(FALSE, status, error, send.tries + 1)
  <2>1. EntryOf(result)
    BY <1>1, ResultTypes
  <2>2. ~(send.tries + 1 < MaxTries)
    BY <1>1, <1>3, LoadAssumption
  <2>3. Finish(result)
    BY <2>2 DEF TryAgain
  <2>4. Recording(result)
    BY <1>1, <2>1, <2>3, LoadAssumption DEF Finish, Record, Recording, clock
  <2>5. QED
    BY <2>1, <2>4 DEF EntryOf
<1>4. QED
  BY <1>1, <1>2, <1>3, LoadAssumption

\* Every step of the task makes an event, records one, holds on to one or turns.
LEMMA LoadSteps ==
  ASSUME LoadTyped, Bounded, LoadStep
  PROVE  \/ \E pattern \in PatternNames : Making(pattern)
         \/ \E r \in Entries : Recording(r)
         \/ Holding \/ Turning
<1> USE Names, AnswerTypes DEF Bounded
<1>1. CASE DrawSingle
  <2>1. PICK pattern \in PatternNames : MakeEvent(pattern)
    BY <1>1 DEF DrawSingle
  <2>2. QED
    BY <1>1, <2>1 DEF DrawSingle, Making, LoadTyped
<1>2. CASE DrawBurst
  <2>1. PICK n \in BurstSizes : seq + n <= work.events /\ burst' = n - 1
    BY <1>2 DEF DrawBurst
  <2>2. n - 1 \in Nat /\ seq + 1 + (n - 1) <= work.events
    BY <2>1, LoadAssumption DEF LoadTyped
  <2>3. QED
    BY <1>2, <2>1, <2>2 DEF DrawBurst, Making
<1>3. CASE Resume
  <2>1. CASE burst > 0
    BY <1>3, <2>1 DEF Resume, Making, LoadTyped
  <2>2. CASE ~(burst > 0)
    BY <1>3, <2>2 DEF Resume, Turning, LoadTyped, clock
  <2>3. QED
    BY <2>1, <2>2
<1>4. CASE StreamEnds
  BY <1>4 DEF StreamEnds, Turning, LoadTyped, clock
<1>5. CASE Throttle
  <2>1. EntryOf(Skipped)
    BY DEF EntryOf, Skipped, Entries, NotSent, LoadTyped
  <2>2. QED
    BY <1>5, <2>1 DEF Throttle, Record, Recording, EntryOf, InHand, LoadTyped, clock
<1>6. CASE Inject
  BY <1>6, LoadAssumption DEF Inject, Holding, InHand, Fresh, clock
<1>7. CASE Answered
  <2>1. PICK status \in work.statuses :
          \/ status < 500 /\ Finish(Result(status < 400, status, "none", send.tries + 1))
          \/ status >= 500 /\ TryAgain(status, send.error)
    BY <1>7 DEF Answered
  <2>2. status \in Nat /\ (status < 500 \/ status >= 500)
    <3>1. status \in 200..599
      BY <2>1
    <3>2. QED
      BY <3>1
  <2>3. send.error \in Errors /\ send.tries + 1 \in Nat /\ at = "send"
    BY <1>7 DEF LoadTyped, Answered
  <2>4. CASE status < 500
    <3> DEFINE result == Result(status < 400, status, "none", send.tries + 1)
    <3>1. EntryOf(result)
      <4>1. (status < 400) \in BOOLEAN /\ (~(status < 400) => status >= 400)
        BY <2>2
      <4>2. QED
        BY <2>2, <2>3, <4>1, ResultTypes, Zenon
    <3>2. Finish(result)
      BY <2>1, <2>2, <2>4
    <3>3. Recording(result)
      BY <2>3, <3>1, <3>2, LoadAssumption DEF Finish, Record, Recording, InHand, clock
    <3>4. QED
      BY <3>1, <3>3 DEF EntryOf
  <2>5. CASE status >= 500
    <3>1. TryAgain(status, send.error)
      BY <2>1, <2>2, <2>5
    <3>2. QED
      BY <2>2, <2>3, <2>5, <3>1, TriesOrGivesUp
  <2>6. QED
    BY <2>2, <2>4, <2>5
<1>8. CASE BodyLost
  <2>1. PICK status \in work.statuses, error \in work.errors : TryAgain(status, error)
    BY <1>8 DEF BodyLost
  <2>2. QED
    BY <1>8, <2>1, TriesOrGivesUp DEF BodyLost
<1>9. CASE NoAnswer
  <2>1. PICK error \in work.errors : TryAgain(send.status, error)
    BY <1>9 DEF NoAnswer
  <2>2. QED
    BY <1>9, <2>1, TriesOrGivesUp DEF NoAnswer, LoadTyped
<1>10. QED
  BY <1>1, <1>2, <1>3, <1>4, <1>5, <1>6, <1>7, <1>8, <1>9 DEF LoadStep

-----------------------------------------------------------------------------
(* The memory of the simulator.                                            *)

\* The guard keeps some of the ids, at most MaxSeen of them and never none.
LEMMA RememberedSome ==
  ASSUME NEW ids, IsFiniteSet(ids), ids # {}, NEW kept \in Remembered(ids)
  PROVE  kept \subseteq ids /\ kept # {} /\ Cardinality(kept) <= MaxSeen
<1>1. CASE Cardinality(ids) > MaxSeen
  <2>1. kept \subseteq ids /\ Cardinality(kept) = KeepSeen
    BY <1>1 DEF Remembered
  <2>2. Cardinality({}) = 0
    BY FS_EmptySet
  <2>3. QED
    BY <2>1, <2>2, LoadAssumption
<1>2. CASE ~(Cardinality(ids) > MaxSeen)
  <2>1. kept = ids
    BY <1>2 DEF Remembered
  <2>2. Cardinality(ids) \in Nat
    BY FS_CardinalityType
  <2>3. QED
    BY <1>2, <2>1, <2>2, LoadAssumption
<1>3. QED
  BY <1>1, <1>2

\* A new event takes the next number, or repeats one that is remembered.
LEMMA Makes ==
  ASSUME LoadInv, NEW pattern \in PatternNames, Making(pattern)
  PROVE  /\ seq' = seq + 1 /\ at' = "chaos"
         /\ UNCHANGED <<work, chaos, send, results>>
         /\ event'.id \in Nat /\ event'.pattern = pattern
         /\ seen' # {} /\ Cardinality(seen') <= MaxSeen
         /\ \/ event'.id \in seen /\ seen' = seen
            \/ /\ pattern # "duplicate" \/ seen = {}
               /\ event'.id = seq + 1 /\ seen' \subseteq seen \union {seq + 1}
<1>1. /\ seq' = seq + 1 /\ at' = "chaos" /\ UNCHANGED <<work, chaos, send, results>>
  BY DEF Making, MakeEvent, clock
<1>2. PICK type \in work.types :
        \/ /\ pattern = "duplicate" /\ seen # {}
           /\ \E id \in seen :
                event' = [id |-> id, type |-> type, pattern |-> pattern]
           /\ seen' = seen
        \/ /\ pattern # "duplicate" \/ seen = {}
           /\ event' = [id |-> seq + 1, type |-> type, pattern |-> pattern]
           /\ seen' \in Remembered(seen \union {seq + 1})
  BY DEF Making, MakeEvent
<1>3. seq \in Nat /\ seen \subseteq 1..seq /\ Cardinality(seen) <= MaxSeen
  BY DEF LoadInv, LoadTyped, Bounded
<1>4. CASE /\ seen # {} /\ seen' = seen
           /\ \E id \in seen :
                event' = [id |-> id, type |-> type, pattern |-> pattern]
  <2>1. PICK id \in seen : event' = [id |-> id, type |-> type, pattern |-> pattern]
    BY <1>4
  <2>2. event'.id = id /\ event'.pattern = pattern
    BY <2>1
  <2>3. id \in Nat
    BY <1>3
  <2>4. QED
    BY <1>1, <1>3, <1>4, <2>2, <2>3
<1>5. CASE /\ pattern # "duplicate" \/ seen = {}
           /\ event' = [id |-> seq + 1, type |-> type, pattern |-> pattern]
           /\ seen' \in Remembered(seen \union {seq + 1})
  <2>1. IsFiniteSet(seen \union {seq + 1})
    <3>1. IsFiniteSet(1..seq)
      BY <1>3, FS_Interval
    <3>2. IsFiniteSet(seen)
      BY <1>3, <3>1, FS_Subset
    <3>3. QED
      BY <3>2, FS_AddElement
  <2>2. /\ seen' \subseteq seen \union {seq + 1} /\ seen' # {}
        /\ Cardinality(seen') <= MaxSeen
    BY <1>5, <2>1, RememberedSome
  <2>3. QED
    BY <1>1, <1>3, <1>5, <2>2
<1>6. QED
  BY <1>2, <1>4, <1>5

\* Appending an entry adds its id, and leaves the other entries where they were.
LEMMA Appended ==
  ASSUME LoadTyped, NEW r \in Entries, results' = Append(results, r)
  PROVE  /\ results' \in Seq(Entries)
         /\ Len(results) \in Nat /\ DOMAIN results = 1..Len(results)
         /\ Len(results') = Len(results) + 1 /\ DOMAIN results' = 1..Len(results) + 1
         /\ \A i \in 1..Len(results) : results'[i] = results[i]
         /\ results'[Len(results) + 1] = r
         /\ Ids' = Ids \union {r.id}
<1>1. /\ results' \in Seq(Entries)
      /\ Len(results) \in Nat /\ DOMAIN results = 1..Len(results)
      /\ Len(results') = Len(results) + 1 /\ DOMAIN results' = 1..Len(results) + 1
      /\ \A i \in 1..Len(results) : results'[i] = results[i]
      /\ results'[Len(results) + 1] = r
  BY DEF LoadTyped
<1>2. Ids' = Ids \union {r.id}
  BY <1>1 DEF Ids
<1>3. QED
  BY <1>1, <1>2

-----------------------------------------------------------------------------
(* The inductive steps.                                                    *)

LEMMA MakingKeeps ==
  ASSUME LoadInv, NEW pattern \in PatternNames, Making(pattern)
  PROVE  LoadInv'
<1> DEFINE new == pattern # "duplicate" \/ seen = {}
<1>1. /\ seq' = seq + 1 /\ at' = "chaos"
      /\ UNCHANGED <<work, chaos, send, results>>
      /\ event'.id \in Nat /\ event'.pattern = pattern
      /\ seen' # {} /\ Cardinality(seen') <= MaxSeen
      /\ \/ event'.id \in seen /\ seen' = seen
         \/ /\ new
            /\ event'.id = seq + 1 /\ seen' \subseteq seen \union {seq + 1}
  BY Makes
<1>2. at \in {"top", "resume"} /\ burst' \in Nat /\ seq + 1 + burst' <= work.events
  BY DEF Making
<1>3. InHand = 0 /\ InHand' = 1 /\ Ids' = Ids
  BY <1>1, <1>2 DEF InHand, Ids
<1>4. seq = Len(results) /\ seq \in Nat
  BY <1>3 DEF LoadInv, LoadTyped, EveryEventRecorded
<1>5. LoadTyped'
  BY <1>1, <1>2, <1>4 DEF LoadInv, LoadTyped
<1>6. Bounded'
  <2>1. seen' \subseteq 1..seq'
    <3>1. seen \subseteq 1..(seq + 1) /\ seq + 1 \in 1..(seq + 1)
      BY <1>4 DEF LoadInv, Bounded
    <3>2. QED
      BY <1>1, <3>1
  <2>2. seq' + burst' <= work'.events /\ send'.tries < MaxTries
    BY <1>1, <1>2 DEF LoadInv, Bounded
  <2>3. QED
    BY <1>1, <2>1, <2>2 DEF Bounded
<1>7. Remembering'
  <2>1. seen \subseteq Ids
    BY <1>3 DEF LoadInv, Remembering
  <2>2. seen = {} => results = <<>>
    BY <1>4 DEF LoadInv, LoadTyped, Remembering
  <2>3. QED
    BY <1>1, <1>3, <1>4, <2>1, <2>2 DEF Remembering
<1>8. EveryEventRecorded' /\ DuplicatesRepeat' /\ FailuresExplained'
  BY <1>1, <1>3, <1>4
     DEF LoadInv, EveryEventRecorded, DuplicatesRepeat, FailuresExplained
<1>9. QED
  BY <1>5, <1>6, <1>7, <1>8 DEF LoadInv

LEMMA RecordingKeeps ==
  ASSUME LoadInv, NEW r \in Entries, Recording(r)
  PROVE  LoadInv'
<1>1. /\ InHand = 1 /\ at' = "resume" /\ InHand' = 0
      /\ EntryOf(r) /\ results' = Append(results, r)
      /\ UNCHANGED <<work, burst, event, seen, seq>>
      /\ chaos' \in ChaosKinds /\ send' \in {send, Fresh}
  BY DEF Recording, InHand
<1>2. /\ results' \in Seq(Entries)
      /\ Len(results) \in Nat /\ DOMAIN results = 1..Len(results)
      /\ Len(results') = Len(results) + 1 /\ DOMAIN results' = 1..Len(results) + 1
      /\ \A i \in 1..Len(results) : results'[i] = results[i]
      /\ results'[Len(results) + 1] = r
      /\ Ids' = Ids \union {r.id}
  BY <1>1, Appended DEF LoadInv
<1>3. LoadTyped' /\ Bounded'
  <2>1. send'.tries \in Nat /\ send'.status \in Nat /\ send'.error \in Errors
        /\ send'.tries < MaxTries
    BY <1>1, AnswerTypes, LoadAssumption DEF LoadInv, LoadTyped, Bounded, Fresh
  <2>2. QED
    BY <1>1, <1>2, <2>1 DEF LoadInv, LoadTyped, Bounded
<1>4. Remembering'
  BY <1>1, <1>2 DEF LoadInv, Remembering, EntryOf
<1>5. EveryEventRecorded'
  BY <1>1, <1>2 DEF LoadInv, EveryEventRecorded
<1>6. DuplicatesRepeat'
  <2> SUFFICES ASSUME NEW i \in 2..Len(results'), ~results'[i].skipped,
                      results'[i].pattern = "duplicate"
               PROVE  \E j \in 1..(i - 1) : results'[j].id = results'[i].id
    BY DEF DuplicatesRepeat
  <2>1. CASE i \in 1..Len(results)
    <3>1. PICK j \in 1..(i - 1) : results[j].id = results[i].id
      BY <1>2, <2>1 DEF LoadInv, DuplicatesRepeat
    <3>2. QED
      BY <1>2, <2>1, <3>1
  <2>2. CASE i = Len(results) + 1
    <3>1. event.pattern = "duplicate" /\ r.id = event.id /\ results # <<>>
      BY <1>1, <1>2, <2>2 DEF EntryOf
    <3>2. PICK j \in 1..Len(results) : results[j].id = event.id
      BY <1>1, <1>2, <3>1 DEF LoadInv, Remembering, Ids
    <3>3. QED
      BY <1>2, <2>2, <3>1, <3>2
  <2>3. QED
    BY <1>2, <2>1, <2>2
<1>7. FailuresExplained'
  BY <1>1, <1>2 DEF LoadInv, FailuresExplained, EntryOf
<1>8. QED
  BY <1>3, <1>4, <1>5, <1>6, <1>7 DEF LoadInv

LEMMA OthersKeep ==
  ASSUME LoadInv, Holding \/ Turning
  PROVE  LoadInv'
<1>1. CASE Holding
  <2>1. InHand = 1 /\ InHand' = 1 /\ at' = "send"
    BY <1>1 DEF Holding, InHand
  <2>2. QED
    BY <1>1, <2>1 DEF Holding, LoadInv, LoadTyped, Bounded, Remembering, Ids,
       EveryEventRecorded, DuplicatesRepeat, FailuresExplained
<1>2. CASE Turning
  <2>1. InHand = 0 /\ InHand' = 0 /\ event'.id \in Nat /\ event'.pattern \in PatternNames
    BY <1>2, Names DEF Turning, InHand, NoEvent, LoadInv, LoadTyped
  <2>2. QED
    BY <1>2, <2>1 DEF Turning, LoadInv, LoadTyped, Bounded, Remembering, Ids,
       EveryEventRecorded, DuplicatesRepeat, FailuresExplained
<1>3. QED
  BY <1>1, <1>2

\* A run starts with no event, and so does what is left of one that ended.
LEMMA InitLoad == StressInit => LoadInv
<1> SUFFICES ASSUME StressInit PROVE LoadInv
  OBVIOUS
<1> USE DEF StressInit, ClockInit, LoadInit
<1>1. LoadTyped
  BY Names, LoadAssumption DEF LoadTyped, NoEvent, Fresh, Errors
<1>2. work.events \in Nat
  BY <1>1, AnswerTypes
<1>3. Bounded /\ Remembering
  BY <1>2, FS_EmptySet, LoadAssumption DEF Bounded, Remembering, Fresh, InHand
<1>4. EveryEventRecorded /\ DuplicatesRepeat /\ FailuresExplained
  BY DEF EveryEventRecorded, DuplicatesRepeat, FailuresExplained, InHand
<1>5. QED
  BY <1>1, <1>3, <1>4 DEF LoadInv

LEMMA ForgottenKeeps == LoadInv /\ LoadForgotten /\ UNCHANGED work => LoadInv'
<1> SUFFICES ASSUME LoadInv, LoadForgotten, UNCHANGED work PROVE LoadInv'
  OBVIOUS
<1> USE DEF LoadForgotten
<1>1. LoadTyped'
  BY Names, LoadAssumption DEF LoadInv, LoadTyped, NoEvent, Fresh, Errors
<1>2. work.events \in Nat
  BY AnswerTypes DEF LoadInv
<1>3. Bounded' /\ Remembering'
  BY <1>2, FS_EmptySet, LoadAssumption DEF Bounded, Remembering, Fresh, InHand
<1>4. EveryEventRecorded' /\ DuplicatesRepeat' /\ FailuresExplained'
  BY DEF EveryEventRecorded, DuplicatesRepeat, FailuresExplained, InHand
<1>5. QED
  BY <1>1, <1>3, <1>4 DEF LoadInv

\* The other tasks, the files, the clock and the provider leave the load task alone.
LEMMA StepLoad == LoadInv /\ [StressNext]_allVars => LoadInv'
<1> SUFFICES ASSUME LoadInv, [StressNext]_allVars PROVE LoadInv'
  OBVIOUS
<1>1. CASE Load
  BY <1>1, LoadSteps, MakingKeeps, RecordingKeeps, OthersKeep DEF Load, LoadInv
<1>2. CASE UNCHANGED <<loopVars, work>>
  BY <1>2 DEF loopVars, LoadInv, LoadTyped, Bounded, Remembering, Ids, InHand,
     EveryEventRecorded, DuplicatesRepeat, FailuresExplained
<1>3. CASE Exit \/ Kill
  BY <1>3, ForgottenKeeps DEF Exit, Kill, Forgotten, clock
<1>4. CASE Gemini \/ \E c \in Calls : Waited(c)
  BY <1>2, <1>4
     DEF Gemini, GeminiTask, Waited, StartBatch, EndBatch, GeminiEnds, Take,
         MockReply, TimeOut, Stage, clock
<1>5. CASE Admin \/ Time \/ UNCHANGED allVars
  BY <1>2, <1>5 DEF Admin, Time, StreamDeadline, LoopsDeadline, allVars, clock
<1>6. CASE Main
  BY <1>2, <1>3, <1>6 DEF Main, clock
<1>7. CASE Outside
  BY <1>2, <1>3, <1>7
     DEF Outside, Provider, Reply, Raise, LateAnswer, Stage, Regenerate, clock
<1>8. QED
  BY <1>1, <1>4, <1>5, <1>6, <1>7 DEF StressNext

LEMMA LoadInductive == StressSpec => []LoadInv
BY InitLoad, StepLoad, PTL DEF StressSpec

\* Every event that was made has one entry in aws_results, but the one in hand:
\* throttled, given up or answered, in a burst or not (orchestrate-load.py:36-49,
\* virtual_events.py:163-186).
THEOREM NothingIsDropped == StressSpec => []EveryEventRecorded
<1>1. LoadInv => EveryEventRecorded
  BY DEF LoadInv
<1>2. QED
  BY <1>1, LoadInductive, PTL

\* A duplicate repeats an event that has an entry before it, for any memory guard
\* that keeps something (virtual_events.py:106-136).
THEOREM DuplicatesAreReal == StressSpec => []DuplicatesRepeat
<1>1. LoadInv => DuplicatesRepeat
  BY DEF LoadInv
<1>2. QED
  BY <1>1, LoadInductive, PTL

\* A request that failed has a status of 400 or more, or an error, for any number
\* of retries and any order of answers (aws_load_worker.py:113-141).
THEOREM FailuresHaveReasons == StressSpec => []FailuresExplained
<1>1. LoadInv => FailuresExplained
  BY DEF LoadInv
<1>2. QED
  BY <1>1, LoadInductive, PTL

-----------------------------------------------------------------------------
(* The retries.                                                            *)

\* Only a request under way has failed attempts behind it.
Retrying ==
  /\ IsFiniteSet(Retries(results)) /\ RetriesAdd
  /\ at # "send" => send.tries = 0

\* An entry adds the attempts after its first to what the agent counts.
LEMMA RetriesAppended ==
  ASSUME LoadTyped, IsFiniteSet(Retries(results)), NEW r \in Entries,
         Tries(r) \in Nat \ {0}, results' = Append(results, r)
  PROVE  /\ IsFiniteSet(Retries(results'))
         /\ RetryCount(results') = RetryCount(results) + Tries(r) - 1
<1> DEFINE n     == Len(results) + 1
           its   == 2..Tries(r)
           added == {n} \X its
<1>1. /\ Len(results) \in Nat /\ DOMAIN results = 1..Len(results)
      /\ DOMAIN results' = 1..n
      /\ \A i \in 1..Len(results) : results'[i] = results[i]
      /\ results'[n] = r
  BY Appended
<1>2. Retries(results') = Retries(results) \union added
  <2>1. \A x : x \in Retries(results') <=>
                 \E i \in 1..n : x \in {i} \X (2..Tries(results'[i]))
    BY <1>1 DEF Retries
  <2>2. \A x : x \in Retries(results) <=>
                 \E i \in 1..Len(results) : x \in {i} \X (2..Tries(results[i]))
    BY <1>1 DEF Retries
  <2>3. 1..n = 1..Len(results) \union {n} /\ added = {n} \X (2..Tries(results'[n]))
    BY <1>1
  <2>4. ASSUME NEW x
        PROVE  x \in Retries(results') <=> x \in Retries(results) \/ x \in added
    BY <1>1, <2>1, <2>2, <2>3, Zenon
  <2>5. QED
    BY <2>4, Zenon
<1>3. Retries(results) \intersect added = {}
  BY <1>1 DEF Retries
<1>4. IsFiniteSet(added) /\ Cardinality(added) = Tries(r) - 1
  <2>1. IsFiniteSet(its) /\ Cardinality(its) = Tries(r) - 1
    <3>1. 2 \in Int /\ Tries(r) \in Int
      OBVIOUS
    <3>2. /\ IsFiniteSet(its)
          /\ Cardinality(its) = IF 2 > Tries(r) THEN 0 ELSE Tries(r) - 2 + 1
      BY <3>1, FS_Interval, Zenon
    <3>3. QED
      BY <3>2
  <2>2. IsFiniteSet({n}) /\ Cardinality({n}) = 1
    BY FS_Singleton
  <2>3. IsFiniteSet(added) /\ Cardinality(added) = Cardinality({n}) * Cardinality(its)
    BY <2>1, <2>2, FS_Product
  <2>4. QED
    BY <2>1, <2>2, <2>3
<1>5. IsFiniteSet(Retries(results) \union added)
      /\ Cardinality(Retries(results) \union added) =
           Cardinality(Retries(results)) + Cardinality(added) - Cardinality({})
  BY <1>3, <1>4, FS_Union
<1>6. Cardinality({}) = 0 /\ Cardinality(Retries(results)) \in Nat
  BY FS_EmptySet, FS_CardinalityType
<1>7. QED
  BY <1>2, <1>4, <1>5, <1>6 DEF RetryCount

\* A request that is over counts what its attempts had counted.
LEMMA FinishRetrying ==
  ASSUME LoadInv, Retrying, at = "send", NEW ok \in BOOLEAN, NEW status \in Nat,
         NEW error \in Errors, ~ok => status >= 400 \/ error # "none",
         Finish(Result(ok, status, error, send.tries + 1)), UNCHANGED retried
  PROVE  Retrying'
<1> DEFINE result == Result(ok, status, error, send.tries + 1)
<1>1. send.tries \in Nat /\ send.tries + 1 \in Nat
  BY DEF LoadInv, LoadTyped
<1>2. result \in Entries
  BY <1>1, ResultTypes DEF EntryOf, LoadInv
<1>3. Tries(result) = send.tries + 1
  BY DEF Tries, Result
<1>4. results' = Append(results, result) /\ at' = "resume" /\ send'.tries = 0
  BY DEF Finish, Record, Fresh
<1>5. /\ IsFiniteSet(Retries(results'))
      /\ RetryCount(results') = RetryCount(results) + (send.tries + 1) - 1
  BY <1>1, <1>2, <1>3, <1>4, RetriesAppended DEF LoadInv, Retrying
<1>6. RetryCount(results) \in Nat
  BY FS_CardinalityType DEF Retrying, RetryCount
<1>7. QED
  BY <1>1, <1>4, <1>5, <1>6 DEF Retrying, RetriesAdd

\* A failed attempt is counted when another one follows.
LEMMA TryRetrying ==
  ASSUME LoadInv, Retrying, at = "send", NEW status \in Nat, NEW error \in Errors,
         status >= 400 \/ error # "none", TryAgain(status, error)
  PROVE  Retrying'
<1>1. send.tries \in Nat /\ RetryCount(results) \in Nat
  BY FS_CardinalityType DEF LoadInv, LoadTyped, Retrying, RetryCount
<1>2. CASE /\ send' = [tries |-> send.tries + 1, status |-> status, error |-> error]
           /\ retried' = retried + 1 /\ UNCHANGED <<at, results>>
  BY <1>1, <1>2 DEF Retrying, RetriesAdd
<1>3. CASE Finish(Result(FALSE, status, error, send.tries + 1)) /\ UNCHANGED retried
  BY <1>3, FinishRetrying
<1>4. QED
  BY <1>2, <1>3 DEF TryAgain

LEMMA LoadRetrying == LoadInv /\ Retrying /\ LoadStep => Retrying'
<1> SUFFICES ASSUME LoadInv, Retrying, LoadStep PROVE Retrying'
  OBVIOUS
<1> USE AnswerTypes DEF LoadInv
<1>1. CASE DrawSingle \/ DrawBurst \/ Resume \/ StreamEnds
  BY <1>1 DEF DrawSingle, DrawBurst, Resume, StreamEnds, MakeEvent, Retrying, RetriesAdd
<1>2. CASE Throttle
  <2>1. Skipped \in Entries /\ Tries(Skipped) = 1
    BY DEF Skipped, Entries, NotSent, LoadTyped, Tries
  <2>2. /\ results' = Append(results, Skipped) /\ UNCHANGED <<retried, send>>
        /\ at = "chaos" /\ at' = "resume"
    BY <1>2 DEF Throttle, Record
  <2>3. /\ IsFiniteSet(Retries(results'))
        /\ RetryCount(results') = RetryCount(results) + 1 - 1
    BY <2>1, <2>2, RetriesAppended DEF Retrying
  <2>4. RetryCount(results) \in Nat
    BY FS_CardinalityType DEF Retrying, RetryCount
  <2>5. QED
    BY <2>2, <2>3, <2>4 DEF Retrying, RetriesAdd
<1>3. CASE Inject
  BY <1>3 DEF Inject, Fresh, Retrying, RetriesAdd
<1>4. CASE Answered
  <2>1. PICK status \in work.statuses :
          \/ /\ status < 500 /\ UNCHANGED retried
             /\ Finish(Result(status < 400, status, "none", send.tries + 1))
          \/ status >= 500 /\ TryAgain(status, send.error)
    BY <1>4 DEF Answered
  <2>2. /\ status \in Nat /\ (status < 500 \/ status >= 500)
        /\ (status < 400) \in BOOLEAN /\ (~(status < 400) => status >= 400)
    <3>1. status \in 200..599
      BY <2>1
    <3>2. QED
      BY <3>1
  <2>3. at = "send" /\ send.error \in Errors
    BY <1>4 DEF Answered, LoadTyped
  <2>4. CASE /\ UNCHANGED retried
             /\ Finish(Result(status < 400, status, "none", send.tries + 1))
    BY <2>2, <2>3, <2>4, FinishRetrying, Zenon
  <2>5. CASE status >= 500 /\ TryAgain(status, send.error)
    BY <2>2, <2>3, <2>5, TryRetrying
  <2>6. QED
    BY <2>1, <2>4, <2>5
<1>5. CASE BodyLost
  BY <1>5, TryRetrying DEF BodyLost
<1>6. CASE NoAnswer
  BY <1>6, TryRetrying DEF NoAnswer, LoadTyped
<1>7. QED
  BY <1>1, <1>2, <1>3, <1>4, <1>5, <1>6 DEF LoadStep

LEMMA NoRetries == Retries(<<>>) = {} /\ RetryCount(<<>>) = 0
<1>1. Retries(<<>>) = {}
  BY DEF Retries
<1>2. QED
  BY <1>1, FS_EmptySet DEF RetryCount

LEMMA StepRetrying == LoadInv /\ Retrying /\ [StressNext]_allVars => Retrying'
<1> SUFFICES ASSUME LoadInv, Retrying, [StressNext]_allVars PROVE Retrying'
  OBVIOUS
<1>1. CASE Load
  BY <1>1, LoadRetrying DEF Load
<1>2. CASE UNCHANGED loopVars
  BY <1>2 DEF loopVars, Retrying, RetriesAdd
<1>3. CASE Exit \/ Kill
  <2>1. results' = <<>> /\ retried' = 0 /\ send'.tries = 0
    BY <1>3 DEF Exit, Kill, Forgotten, LoadForgotten, Fresh
  <2>2. Retries(results') = {} /\ RetryCount(results') = 0
    BY <2>1, NoRetries
  <2>3. IsFiniteSet(Retries(results'))
    BY <2>2, FS_EmptySet
  <2>4. RetriesAdd'
    BY <2>1, <2>2 DEF RetriesAdd
  <2>5. QED
    BY <2>1, <2>3, <2>4 DEF Retrying
<1>4. CASE Gemini \/ Admin \/ Time \/ (\E c \in Calls : Waited(c)) \/ UNCHANGED allVars
  BY <1>2, <1>4 DEF Gemini, Admin, Time, Waited, allVars
<1>5. CASE Main
  BY <1>2, <1>3, <1>5 DEF Main
<1>6. CASE Outside
  BY <1>2, <1>3, <1>6 DEF Outside, Regenerate
<1>7. QED
  BY <1>1, <1>4, <1>5, <1>6 DEF StressNext

\* The retries that the failure agent adds up from the attempts of the results are
\* those that the counter stress_retry_total counted, but for the request under
\* way (aws_load_worker.py:113-141, conditional_agents.py:59).
THEOREM RetriesAreCounted == StressSpec => []RetriesAdd
<1>1. StressInit => Retrying
  BY NoRetries, FS_EmptySet DEF StressInit, LoadInit, Fresh, Retrying, RetriesAdd
<1>2. Retrying => RetriesAdd
  BY DEF Retrying
<1>3. QED
  BY <1>1, <1>2, StepRetrying, LoadInductive, PTL DEF StressSpec

-----------------------------------------------------------------------------
(* The threads of the pool.                                                *)

Running == {c \in Calls : call[c] = "running"}
Pooled  == Cardinality(Running) + stuck <= Threads

\* A call that takes a thread, or leaves one, is counted once.
LEMMA RunningCount ==
  ASSUME GemTyped, NEW c \in Calls, NEW to \in Stages,
         call' = [call EXCEPT ![c] = to]
  PROVE  /\ Cardinality(Running) \in Nat /\ Cardinality(Running') \in Nat
         /\ call[c] # "running" /\ to = "running" =>
              Cardinality(Running') = Cardinality(Running) + 1
         /\ call[c] = "running" /\ to # "running" =>
              Cardinality(Running) = Cardinality(Running') + 1
         /\ call[c] # "running" /\ to # "running" => Running' = Running
<1>1. Running \in SUBSET Calls /\ Running' \in SUBSET Calls
  BY DEF Running
<1>2. Cardinality(Running) \in Nat /\ Cardinality(Running') \in Nat
  BY <1>1, CallsCount
<1>3. ASSUME call[c] # "running", to = "running"
      PROVE  Cardinality(Running') = Cardinality(Running) + 1
  <2>1. Running' = Running \union {c} /\ c \in Calls \ Running
    BY <1>3 DEF GemTyped, Running
  <2>2. QED
    BY <1>1, <2>1, CallsCount
<1>4. ASSUME call[c] = "running", to # "running"
      PROVE  Cardinality(Running) = Cardinality(Running') + 1
  <2>1. Running = Running' \union {c} /\ c \in Calls \ Running'
    BY <1>4 DEF GemTyped, Running
  <2>2. QED
    BY <1>1, <2>1, CallsCount
<1>5. call[c] # "running" /\ to # "running" => Running' = Running
  BY DEF GemTyped, Running
<1>6. QED
  BY <1>2, <1>3, <1>4, <1>5

\* Without a call at work only the threads that timed out are taken.
LEMMA NoneRunning ==
  ASSUME GemTyped, Pooled, Running' = {}, stuck' <= stuck, stuck' \in Nat
  PROVE  Pooled'
<1>1. Cardinality(Running) \in Nat /\ Cardinality(Running') = 0
  BY CallsCount, FS_EmptySet DEF Running
<1>2. QED
  BY <1>1, GeminiAssumption DEF GemTyped, Pooled

\* A time-out keeps the thread it waited for; only Take asks for a new one.
LEMMA StepPooled == GemTyped /\ Pooled /\ GeminiStep => Pooled'
<1> SUFFICES ASSUME GemTyped, Pooled, GeminiStep PROVE Pooled'
  OBVIOUS
<1>0. Cardinality(Running) \in Nat /\ stuck \in Nat /\ Threads \in Nat
  BY CallsCount, GeminiAssumption DEF Running, GemTyped
<1>1. CASE StartBatch
  <2>1. Running' = {}
    BY <1>1 DEF StartBatch, FirstStage, Running
  <2>2. QED
    BY <1>0, <1>1, <2>1, NoneRunning DEF StartBatch
<1>2. CASE EndBatch
  <2>1. Running' = {}
    BY <1>2 DEF EndBatch, Running
  <2>2. QED
    BY <1>0, <1>2, <2>1, NoneRunning DEF EndBatch
<1>3. CASE GeminiEnds
  BY <1>3 DEF GeminiEnds, Running, Pooled
<1>4. CASE LateAnswer
  <2>1. stuck' = stuck - 1 /\ Running' = Running
    BY <1>4 DEF LateAnswer, Running
  <2>2. QED
    BY <1>0, <2>1 DEF Pooled
<1>5. ASSUME NEW c \in Calls, Take(c) PROVE Pooled'
  <2>1. /\ Cardinality(Running) + stuck < Threads /\ stuck' = stuck
        /\ call[c] = "queued" /\ call' = [call EXCEPT ![c] = "running"]
    BY <1>5 DEF Take, Stage, Busy, Running
  <2>2. Cardinality(Running') = Cardinality(Running) + 1
    BY <2>1, RunningCount DEF Stages
  <2>3. QED
    BY <1>0, <2>1, <2>2 DEF Pooled
<1>6. ASSUME NEW c \in Calls, MockReply(c) PROVE Pooled'
  <2>1. call[c] = "mock" /\ call' = [call EXCEPT ![c] = "ended"] /\ stuck' = stuck
    BY <1>6 DEF MockReply, Stage
  <2>2. Running' = Running
    BY <2>1, RunningCount DEF Stages
  <2>3. QED
    BY <2>1, <2>2 DEF Pooled
<1>7. ASSUME NEW c \in Calls, Reply(c) \/ Raise(c) \/ TimeOut(c) PROVE Pooled'
  <2>1. /\ call' = [call EXCEPT ![c] = "ended"]
        /\ \/ call[c] = "running" /\ stuck' \in {stuck, stuck + 1}
           \/ call[c] = "queued" /\ stuck' = stuck
    BY <1>7 DEF Reply, Raise, TimeOut, Stage
  <2>2. CASE call[c] = "running"
    <3>1. /\ Cardinality(Running) = Cardinality(Running') + 1
          /\ Cardinality(Running') \in Nat
      BY <2>1, <2>2, RunningCount DEF Stages
    <3>2. QED
      BY <1>0, <2>1, <2>2, <3>1 DEF Pooled
  <2>3. CASE call[c] = "queued"
    <3>1. Running' = Running
      BY <2>1, <2>3, RunningCount DEF Stages
    <3>2. QED
      BY <2>1, <2>3, <3>1 DEF Pooled
  <2>4. QED
    BY <2>1, <2>2, <2>3
<1>8. QED
  BY <1>1, <1>2, <1>3, <1>4, <1>5, <1>6, <1>7 DEF GeminiStep, GeminiTask, Provider

-----------------------------------------------------------------------------
(* main() and its files.                                                   *)

FileNames == {"summary", "requests", "stats", "csv", "html"}
Phases    == {"running", "writing", "reported", "exited", "dead"}
Alive     == {"running", "writing", "reported"}

MainTyped ==
  /\ streamOver \in BOOLEAN /\ loopsOver \in BOOLEAN
  /\ admin \in {"top", "fetch", "done"}
  /\ main \in Phases /\ again \in Nat /\ current \in 0..5
  /\ main = "writing" => current \in 1..5
  /\ files = [f \in FileNames |-> files[f]]
  /\ \A f \in FileNames : files[f] \in {Missing, Partial} \/ Written(f)

\* The process that made the requests writes about those it has.
Own ==
  /\ Written("summary")  => files.summary.counts = Counts(results)
  /\ Written("requests") => files.requests.results = Cut(results)
  /\ Written("html")     => files.html.counts = Counts(results)
FirstRun ==
  again = 0 =>
    /\ main = "running" => \A f \in FileNames : files[f] = Missing
    /\ main \in {"writing", "reported"} => source = results
    /\ main \in Alive => Own

\* What is left of it: as long as nothing was cut, requests.json has the
\* requests that the summary counts.
Between ==
  Written("summary") /\ Written("requests") =>
    \/ files.summary.counts.total > Keep
    \/ Counts(files.requests.results) = files.summary.counts

\* A regeneration reads both files, and writes neither.
LaterRun ==
  again > 0 =>
    /\ main # "running"
    /\ main = "writing" =>
         /\ current \in 3..5
         /\ IF Written("requests") THEN source = files.requests.results
                                   ELSE files.requests = Missing

ReportInv == MainTyped /\ FirstRun /\ Between /\ LaterRun /\ ReportAgrees

LEMMA OrderIs ==
  /\ Order[1] = "summary" /\ Order[2] = "requests" /\ Order[3] = "stats"
  /\ Order[4] = "csv" /\ Order[5] = "html" /\ Len(Order) = 5
  /\ {Order[i] : i \in DOMAIN Order} = FileNames
<1>1. /\ Order[1] = "summary" /\ Order[2] = "requests" /\ Order[3] = "stats"
      /\ Order[4] = "csv" /\ Order[5] = "html" /\ Len(Order) = 5
      /\ DOMAIN Order = 1..5
  BY DEF Order
<1>2. 1..5 = {1, 2, 3, 4, 5}
  OBVIOUS
<1>3. QED
  BY <1>1, <1>2 DEF FileNames

\* Files written from the same results agree.
LEMMA OwnAgrees == Own => Between /\ ReportAgrees
<1> SUFFICES ASSUME Own PROVE Between /\ ReportAgrees
  OBVIOUS
<1>1. Counts(results).total = Len(results)
  BY DEF Counts
<1>2. Len(results) > Keep \/ Cut(results) = results
  BY DEF Cut
<1>3. Between
  BY <1>1, <1>2 DEF Own, Between
<1>4. ReportAgrees
  BY DEF Own, ReportAgrees
<1>5. QED
  BY <1>3, <1>4

LEMMA InitReport == StressInit => ReportInv
<1> SUFFICES ASSUME StressInit PROVE ReportInv
  OBVIOUS
<1>1. files = [f \in FileNames |-> Missing]
  BY OrderIs DEF StressInit
<1>2. \A f \in FileNames : files[f] = Missing /\ ~Written(f)
  BY <1>1 DEF Missing, Written
<1>3. ~Written("summary") /\ ~Written("requests") /\ ~Written("html")
  BY <1>2 DEF FileNames
<1>4. MainTyped
  <2>1. files = [f \in FileNames |-> files[f]]
    BY <1>1
  <2>2. streamOver \in BOOLEAN /\ loopsOver \in BOOLEAN
    BY DEF StressInit, ClockInit
  <2>3. admin = "top" /\ main = "running" /\ again = 0 /\ current = 0
    BY DEF StressInit
  <2>4. QED
    BY <1>2, <2>1, <2>2, <2>3 DEF MainTyped, Phases
<1>5. FirstRun /\ LaterRun
  BY <1>2, <1>3 DEF StressInit, FirstRun, Own, LaterRun
<1>6. Between /\ ReportAgrees
  BY <1>3 DEF Between, ReportAgrees
<1>7. QED
  BY <1>4, <1>5, <1>6 DEF ReportInv

\* Opening a file empties one that the phase may write.
LEMMA OpenKeeps == ReportInv /\ Open /\ UNCHANGED <<clock, loopVars, gemVars>> => ReportInv'
<1> SUFFICES ASSUME ReportInv, Open, UNCHANGED <<clock, loopVars, gemVars>>
             PROVE  ReportInv'
  OBVIOUS
<1> DEFINE f == Order[current]
<1>1. /\ main = "writing" /\ files' = [files EXCEPT ![f] = Partial]
      /\ UNCHANGED <<admin, main, source, current, again, results, streamOver, loopsOver>>
  BY DEF Open, clock, loopVars
<1>2. f \in FileNames /\ (current \in 3..5 => f \notin {"summary", "requests"})
  BY <1>1, OrderIs DEF ReportInv, MainTyped, FileNames
<1> HIDE DEF f
<1>3. /\ files' = [g \in FileNames |-> files'[g]]
      /\ files'[f].at = "partial"
      /\ \A g \in FileNames \ {f} : files'[g] = files[g]
  <2>1. files = [g \in FileNames |-> files[g]]
    BY DEF ReportInv, MainTyped
  <2>2. files' = [g \in FileNames |-> IF g = f THEN Partial ELSE files[g]]
    BY <1>1, <2>1
  <2>3. QED
    BY <1>2, <2>2 DEF Partial
<1>4. /\ Written("summary")' => Written("summary") /\ files'.summary = files.summary
      /\ Written("requests")' => Written("requests") /\ files'.requests = files.requests
      /\ Written("html")' => Written("html") /\ files'.html = files.html
  BY <1>3 DEF Written, FileNames
<1>5. MainTyped'
  <2>1. files'[f] = Partial
    BY <1>1, <1>2 DEF ReportInv, MainTyped
  <2>2. \A g \in FileNames : files'[g] \in {Missing, Partial} \/ Written(g)'
    BY <1>3, <2>1 DEF ReportInv, MainTyped, Written
  <2>3. QED
    BY <1>1, <1>3, <2>2 DEF ReportInv, MainTyped
<1>6. FirstRun'
  BY <1>1, <1>4 DEF ReportInv, FirstRun, Own
<1>7. LaterRun'
  BY <1>1, <1>2, <1>3 DEF ReportInv, LaterRun, Written, FileNames
<1>8. Between'
  BY <1>4 DEF ReportInv, Between
<1>9. ReportAgrees'
  <2>1. again = 0 \/ again > 0
    BY DEF ReportInv, MainTyped
  <2>2. again = 0 => Own'
    BY <1>1, <1>6 DEF FirstRun, Alive
  <2>3. again > 0 => files'.requests = files.requests
    BY <1>1, <1>2, <1>3 DEF ReportInv, LaterRun, FileNames
  <2>4. again > 0 => ReportAgrees'
    BY <1>1, <1>4, <2>3 DEF ReportInv, ReportAgrees
  <2>5. Own' => ReportAgrees'
    BY <1>1 DEF Own, ReportAgrees
  <2>6. QED
    BY <2>1, <2>2, <2>4, <2>5
<1>10. QED
  BY <1>5, <1>6, <1>7, <1>8, <1>9 DEF ReportInv

\* Closing one gives it what the results in memory, or those read back, count.
LEMMA CloseKeeps == ReportInv /\ Close /\ UNCHANGED <<clock, loopVars, gemVars>> => ReportInv'
<1> SUFFICES ASSUME ReportInv, Close, UNCHANGED <<clock, loopVars, gemVars>>
             PROVE  ReportInv'
  OBVIOUS
<1> DEFINE f == Order[current]
<1>1. /\ main = "writing" /\ files' = [files EXCEPT ![f] = Content(f)]
      /\ current' = IF current = 5 THEN 0 ELSE current + 1
      /\ main' = IF current = 5 THEN "reported" ELSE "writing"
      /\ UNCHANGED <<admin, source, again, results, streamOver, loopsOver>>
  BY OrderIs DEF Close, clock, loopVars
<1>2. f \in FileNames /\ (current \in 3..5 => f \notin {"summary", "requests"})
  BY <1>1, OrderIs DEF ReportInv, MainTyped, FileNames
<1> HIDE DEF f
<1>3. /\ files' = [g \in FileNames |-> files'[g]]
      /\ files'[f] = Content(f)
      /\ \A g \in FileNames \ {f} : files'[g] = files[g]
  <2>1. files = [g \in FileNames |-> files[g]]
    BY DEF ReportInv, MainTyped
  <2>2. files' = [g \in FileNames |-> IF g = f THEN Content(f) ELSE files[g]]
    BY <1>1, <2>1
  <2>3. QED
    BY <1>2, <2>2
<1>4. /\ files'.summary \in {files.summary, Content("summary")}
      /\ files'.requests \in {files.requests, Content("requests")}
      /\ files'.html \in {files.html, Content("html")}
  BY <1>3 DEF FileNames
<1>5. MainTyped'
  <2>1. current' \in 0..5 /\ (main' = "writing" => current' \in 1..5)
    BY <1>1 DEF ReportInv, MainTyped
  <2>2. Content(f).at = "written"
    BY DEF Content
  <2>3. \A g \in FileNames : files'[g] \in {Missing, Partial} \/ Written(g)'
    BY <1>3, <2>2 DEF ReportInv, MainTyped, Written
  <2>4. QED
    BY <1>1, <1>3, <2>1, <2>3 DEF ReportInv, MainTyped, Phases
<1>6. CASE again = 0
  <2>1. source = results /\ Own
    BY <1>1, <1>6 DEF ReportInv, FirstRun, Alive
  <2>2. Own'
    <3>1. Content("summary").counts = Counts(results)
      BY DEF Content
    <3>2. Content("requests").results = Cut(results)
      BY DEF Content
    <3>3. Content("html").counts = Counts(results)
      BY <2>1 DEF Content
    <3>4. Written("summary")' => files'.summary.counts = Counts(results)
      BY <1>4, <2>1, <3>1 DEF Own, Written
    <3>5. Written("requests")' => files'.requests.results = Cut(results)
      BY <1>4, <2>1, <3>2 DEF Own, Written
    <3>6. Written("html")' => files'.html.counts = Counts(results)
      BY <1>4, <2>1, <3>3 DEF Own, Written
    <3>7. QED
      BY <1>1, <3>4, <3>5, <3>6 DEF Own
  <2>3. Between' /\ ReportAgrees'
    BY <2>2, OwnAgrees, PTL
  <2>4. FirstRun' /\ LaterRun'
    BY <1>1, <1>6, <2>1, <2>2 DEF FirstRun, LaterRun
  <2>5. QED
    BY <1>5, <2>3, <2>4 DEF ReportInv
<1>7. CASE again > 0
  <2>1. /\ current \in 3..5 /\ f \notin {"summary", "requests"}
        /\ IF Written("requests") THEN source = files.requests.results
                                  ELSE files.requests = Missing
    BY <1>1, <1>2, <1>7 DEF ReportInv, LaterRun
  <2>2. files'.summary = files.summary /\ files'.requests = files.requests
    BY <1>3, <2>1 DEF FileNames
  <2>3. FirstRun' /\ LaterRun'
    <3>1. main' = "writing" => current' \in 3..5
      BY <1>1, <2>1
    <3>2. QED
      BY <1>1, <1>7, <2>1, <2>2, <3>1 DEF FirstRun, LaterRun, Written
  <2>4. Between'
    BY <2>2 DEF ReportInv, Between, Written
  <2>5. ReportAgrees'
    <3>1. CASE files'.html = files.html
      BY <1>1, <2>2, <3>1 DEF ReportInv, ReportAgrees, Written
    <3>2. CASE files'.html = Content("html")
      <4>1. files'.html.counts = Counts(source)
        BY <3>2 DEF Content
      <4>2. QED
        BY <1>1, <1>7, <2>1, <2>2, <4>1 DEF ReportInv, Between, ReportAgrees, Written
    <3>3. QED
      BY <1>4, <3>1, <3>2
  <2>6. QED
    BY <1>5, <2>3, <2>4, <2>5 DEF ReportInv
<1>8. QED
  BY <1>6, <1>7 DEF ReportInv, MainTyped

\* While the tasks run there is no file yet; later nothing but main() counts.
LEMMA TasksKeep ==
  ASSUME ReportInv, UNCHANGED <<main, source, files, current, again>>,
         main = "running" \/ UNCHANGED results,
         admin' \in {"top", "fetch", "done"}, streamOver' \in BOOLEAN, loopsOver' \in BOOLEAN
  PROVE  ReportInv'
<1>1. MainTyped'
  BY DEF ReportInv, MainTyped, Written
<1>2. FirstRun'
  <2>1. CASE main = "running"
    <3>1. again = 0 => \A f \in FileNames : files[f] = Missing
      BY <2>1 DEF ReportInv, FirstRun
    <3>2. again = 0 => Own'
      BY <3>1 DEF Own, Written, Missing, FileNames
    <3>3. QED
      BY <2>1, <3>1, <3>2 DEF FirstRun
  <2>2. CASE UNCHANGED results
    BY <2>2 DEF ReportInv, FirstRun, Own, Written
  <2>3. QED
    BY <2>1, <2>2
<1>3. Between' /\ LaterRun' /\ ReportAgrees'
  BY DEF ReportInv, Between, LaterRun, ReportAgrees, Written
<1>4. QED
  BY <1>1, <1>2, <1>3 DEF ReportInv

\* The tasks have ended: the first report is about what they gathered.
LEMMA GatheredKeeps == ReportInv /\ Gathered /\ UNCHANGED <<clock, loopVars, gemVars>> => ReportInv'
<1> SUFFICES ASSUME ReportInv, Gathered, UNCHANGED <<clock, loopVars, gemVars>>
             PROVE  ReportInv'
  OBVIOUS
<1>1. /\ main = "running" /\ main' = "writing" /\ current' = 1 /\ source' = results
      /\ UNCHANGED <<admin, files, again, results, streamOver, loopsOver>>
  BY DEF Gathered, clock, loopVars
<1>2. again = 0
  BY <1>1 DEF ReportInv, MainTyped, LaterRun
<1>3. Own
  BY <1>1, <1>2 DEF ReportInv, FirstRun, Alive
<1>4. MainTyped'
  BY <1>1 DEF ReportInv, MainTyped, Phases, Written
<1>5. FirstRun' /\ LaterRun'
  BY <1>1, <1>2, <1>3 DEF FirstRun, LaterRun, Own, Written
<1>6. Between' /\ ReportAgrees'
  BY <1>1 DEF ReportInv, Between, ReportAgrees, Written
<1>7. QED
  BY <1>4, <1>5, <1>6 DEF ReportInv

\* A process that ends leaves its files as they are.
LEMMA EndKeeps == ReportInv /\ (Exit \/ Kill) => ReportInv'
<1> SUFFICES ASSUME ReportInv, Exit \/ Kill PROVE ReportInv'
  OBVIOUS
<1>1. /\ main' \in {"exited", "dead"} /\ admin' = "top" /\ current' = 0
      /\ UNCHANGED <<files, again, streamOver, loopsOver>>
  BY DEF Exit, Kill, Forgotten, clock
<1>2. MainTyped'
  BY <1>1 DEF ReportInv, MainTyped, Phases, Written
<1>3. FirstRun' /\ LaterRun'
  BY <1>1 DEF FirstRun, LaterRun, Alive
<1>4. Between' /\ ReportAgrees'
  BY <1>1 DEF ReportInv, Between, ReportAgrees, Written
<1>5. QED
  BY <1>2, <1>3, <1>4 DEF ReportInv

\* A regeneration starts from a requests.json that is whole, or from nothing.
LEMMA RegenerateKeeps == ReportInv /\ Regenerate => ReportInv'
<1> SUFFICES ASSUME ReportInv, Regenerate PROVE ReportInv'
  OBVIOUS
<1>1. /\ again' = again + 1 /\ main' = "writing" /\ current' = 3
      /\ UNCHANGED <<admin, files, results, streamOver, loopsOver>>
      /\ files.requests.at # "partial"
      /\ source' = IF Written("requests") THEN files.requests.results ELSE <<>>
  BY DEF Regenerate, ReadBack, clock, loopVars
<1>2. MainTyped' /\ again' > 0
  BY <1>1 DEF ReportInv, MainTyped, Phases, Written
<1>3. FirstRun'
  BY <1>2 DEF FirstRun, MainTyped
<1>4. LaterRun'
  <2>1. Written("requests") \/ files.requests = Missing
    BY <1>1 DEF ReportInv, MainTyped, FileNames, Partial
  <2>2. QED
    BY <1>1, <2>1 DEF LaterRun, Written
<1>5. Between' /\ ReportAgrees'
  BY <1>1, <1>2 DEF ReportInv, MainTyped, Between, ReportAgrees, Written
<1>6. QED
  BY <1>2, <1>3, <1>4, <1>5 DEF ReportInv

LEMMA StepReport == ReportInv /\ [StressNext]_allVars => ReportInv'
<1> SUFFICES ASSUME ReportInv, [StressNext]_allVars PROVE ReportInv'
  OBVIOUS
<1>0. /\ admin \in {"top", "fetch", "done"}
      /\ streamOver \in BOOLEAN /\ loopsOver \in BOOLEAN
  BY DEF ReportInv, MainTyped
<1>1. CASE Load
  <2>1. main = "running" /\ UNCHANGED mainVars /\ UNCHANGED clock
    BY <1>1 DEF Load, LoadStep, DrawSingle, DrawBurst, Resume, MakeEvent,
       StreamEnds, Throttle, Inject, Answered, BodyLost, NoAnswer, TryAgain, Finish
  <2>2. QED
    BY <1>0, <2>1, TasksKeep DEF mainVars, clock
<1>2. CASE Gemini \/ \E c \in Calls : Waited(c)
  <2>1. UNCHANGED mainVars /\ UNCHANGED clock /\ UNCHANGED loopVars
    BY <1>2
       DEF Gemini, GeminiTask, Waited, StartBatch, EndBatch, GeminiEnds, Take,
           MockReply, TimeOut, Stage
  <2>2. QED
    BY <1>0, <2>1, TasksKeep DEF mainVars, clock, loopVars
<1>3. CASE Admin
  <2>1. /\ admin' \in {"top", "fetch", "done"} /\ UNCHANGED clock /\ UNCHANGED loopVars
        /\ UNCHANGED <<main, source, files, current, again>>
    BY <1>3 DEF Admin, AdminTask, AdminFetch, AdminFetched, AdminEnds
  <2>2. QED
    BY <1>0, <2>1, TasksKeep DEF clock, loopVars
<1>4. CASE Main
  BY <1>4, GatheredKeeps, OpenKeeps, CloseKeeps, EndKeeps DEF Main
<1>5. CASE Time
  <2>1. /\ streamOver' \in BOOLEAN /\ loopsOver' \in BOOLEAN
        /\ UNCHANGED mainVars /\ UNCHANGED loopVars
    BY <1>0, <1>5 DEF Time, StreamDeadline, LoopsDeadline
  <2>2. QED
    BY <1>0, <2>1, TasksKeep DEF mainVars, loopVars
<1>6. CASE Outside
  <2>1. CASE Kill \/ Regenerate
    BY <2>1, EndKeeps, RegenerateKeeps
  <2>2. CASE Provider /\ UNCHANGED <<loopVars, mainVars>>
    <3>1. UNCHANGED clock /\ UNCHANGED mainVars /\ UNCHANGED loopVars
      BY <2>2 DEF Provider, Reply, Raise, LateAnswer, Stage
    <3>2. QED
      BY <1>0, <3>1, TasksKeep DEF mainVars, clock, loopVars
  <2>3. QED
    BY <1>6, <2>1, <2>2 DEF Outside
<1>7. CASE UNCHANGED allVars
  BY <1>0, <1>7, TasksKeep DEF allVars, mainVars, clock, loopVars
<1>8. QED
  BY <1>1, <1>2, <1>3, <1>4, <1>5, <1>6, <1>7 DEF StressNext

\* Only the Gemini task, the provider and the time-outs use the pool.
LEMMA InitPooled == StressInit => Pooled
<1> SUFFICES ASSUME StressInit PROVE Pooled
  OBVIOUS
<1>1. Running = {} /\ stuck = 0
  BY DEF StressInit, GemInit, Running
<1>2. QED
  BY <1>1, FS_EmptySet, GeminiAssumption DEF Pooled

LEMMA PoolKept == GemInv /\ Pooled /\ [StressNext]_allVars => Pooled'
<1> SUFFICES ASSUME GemInv, Pooled, [StressNext]_allVars PROVE Pooled'
  OBVIOUS
<1>1. CASE GeminiStep
  BY <1>1, StepPooled DEF GemInv
<1>2. CASE UNCHANGED gemVars
  BY <1>2 DEF gemVars, Pooled, Running
<1>3. CASE GemForgotten
  <2>1. Running' = {} /\ stuck' = 0
    BY <1>3 DEF GemForgotten, Running
  <2>2. QED
    BY <2>1, FS_EmptySet, GeminiAssumption DEF Pooled
<1>4. CASE Gemini \/ (\E c \in Calls : Waited(c)) \/ Provider
  BY <1>1, <1>4 DEF Gemini, Waited, GeminiStep
<1>5. CASE Load \/ Admin \/ Time \/ UNCHANGED allVars
  BY <1>2, <1>5 DEF Load, Admin, Time, allVars
<1>6. CASE Main
  BY <1>2, <1>3, <1>6 DEF Main, Exit, Forgotten
<1>7. CASE Outside
  BY <1>2, <1>3, <1>4, <1>7 DEF Outside, Kill, Forgotten, Regenerate
<1>8. QED
  BY <1>4, <1>5, <1>6, <1>7 DEF StressNext

\* The whole run keeps its types and its bounds: no event beyond those of the
\* workload, no more tries than max_retries, no more ids remembered than the guard
\* allows, no more threads than the pool has (virtual_events.py:106-186,
\* aws_load_worker.py:107-141, gemini_validation_worker.py:80-113).
THEOREM RunTypeCorrect == StressSpec => []StressTypeOK
<1> DEFINE all == LoadInv /\ GemInv /\ Pooled /\ ReportInv
<1>1. StressInit => all
  BY InitLoad, InitGem, InitPooled, InitReport
<1>2. all /\ [StressNext]_allVars => all'
  BY StepLoad, StepGem, PoolKept, StepReport
<1>3. all => StressTypeOK
  <2> SUFFICES ASSUME all PROVE StressTypeOK
    OBVIOUS
  <2>1. seq <= work.events
    BY AnswerTypes DEF LoadInv, LoadTyped, Bounded
  <2>2. Busy <= Threads /\ used \in Nat /\ call \in [Calls -> Stages]
        /\ gem \in {"top", "batch", "done"}
    BY DEF Pooled, Running, Busy, GemInv, GemTyped
  <2>3. /\ work \in Workloads /\ burst \in Nat /\ send.tries < MaxTries
        /\ at \in {"top", "chaos", "send", "resume", "done"}
        /\ seen \subseteq 1..seq /\ Cardinality(seen) <= MaxSeen
    BY DEF LoadInv, LoadTyped, Bounded
  <2>4. /\ streamOver \in BOOLEAN /\ loopsOver \in BOOLEAN
        /\ admin \in {"top", "fetch", "done"} /\ current \in 0..Len(Order)
        /\ main \in {"running", "writing", "reported", "exited", "dead"}
    BY OrderIs DEF ReportInv, MainTyped, Phases
  <2>5. QED
    BY <2>1, <2>2, <2>3, <2>4 DEF StressTypeOK
<1>4. QED
  BY <1>1, <1>2, <1>3, PTL DEF StressSpec

\* The HTML report, the first or a regenerated one, counts what the summary counts,
\* but for requests that were cut or never written, whenever the process is killed
\* (orchestrate-load.py:129-147, generator.py:173-212).
THEOREM ReportsAgree == StressSpec => []ReportAgrees
<1>1. ReportInv => ReportAgrees
  BY DEF ReportInv
<1>2. QED
  BY <1>1, InitReport, StepReport, PTL DEF StressSpec
-----------------------------------------------------------------------------
(* The mix of a preset.  The totals of _pick_pattern split the draws 0..99   *)
(* into intervals, one for each pattern, as wide as its ratio.             *)

Ratios == [PatternNames -> Nat]
Sum(weight) == UpTo(PatternOrder, weight)

\* The order and the names, one by one.
LEMMA Patterns ==
  /\ PatternNames = {"normal", "duplicate", "out_of_order", "malformed",
                     "timeout", "burst", "reconnect", "abnormal_state"}
  /\ Len(PatternOrder) = 8 /\ DOMAIN PatternOrder = 1..8
  /\ PatternOrder[1] = "normal" /\ PatternOrder[2] = "duplicate"
  /\ PatternOrder[3] = "out_of_order" /\ PatternOrder[4] = "malformed"
  /\ PatternOrder[5] = "timeout" /\ PatternOrder[6] = "burst"
  /\ PatternOrder[7] = "reconnect" /\ PatternOrder[8] = "abnormal_state"
<1>1. Len(PatternOrder) = 8 /\ DOMAIN PatternOrder = 1..8
  BY DEF PatternOrder
<1>2. \A i \in 1..8 : i \in {1, 2, 3, 4, 5, 6, 7, 8}
  OBVIOUS
<1>3. /\ PatternOrder[1] = "normal" /\ PatternOrder[2] = "duplicate"
      /\ PatternOrder[3] = "out_of_order" /\ PatternOrder[4] = "malformed"
      /\ PatternOrder[5] = "timeout" /\ PatternOrder[6] = "burst"
      /\ PatternOrder[7] = "reconnect" /\ PatternOrder[8] = "abnormal_state"
  BY DEF PatternOrder
<1>4. QED
  BY <1>1, <1>2, <1>3 DEF PatternNames

\* The recursive definition of the totals has a solution: the totals written out.
LEMMA Sums ==
  ASSUME NEW w \in Ratios
  PROVE  /\ Sum(w)[0] = 0
         /\ \A i \in 1..8 : Sum(w)[i] = Sum(w)[i - 1] + w[PatternOrder[i]]
<1> DEFINE Adds(f) == f = [i \in 0..Len(PatternOrder) |->
                             IF i = 0 THEN 0 ELSE f[i - 1] + w[PatternOrder[i]]]
           s1 == w["normal"]          s2 == s1 + w["duplicate"]
           s3 == s2 + w["out_of_order"] s4 == s3 + w["malformed"]
           s5 == s4 + w["timeout"]    s6 == s5 + w["burst"]
           s7 == s6 + w["reconnect"]  s8 == s7 + w["abnormal_state"]
           all == [i \in 0..8 |-> IF i = 0 THEN 0 ELSE <<s1, s2, s3, s4, s5, s6, s7, s8>>[i]]
<1>1. Adds(all)
  <2>1. \A i \in 0..8 : i \in {0, 1, 2, 3, 4, 5, 6, 7, 8}
    OBVIOUS
  <2>2. \A i \in 0..8 : all[i] = IF i = 0 THEN 0 ELSE all[i - 1] + w[PatternOrder[i]]
    BY <2>1, Patterns DEF Ratios
  <2>3. QED
    BY <2>2, Patterns
<1>2. Sum(w) = CHOOSE f : Adds(f)
  BY DEF Sum, UpTo
<1> HIDE DEF all
<1>3. Adds(Sum(w))
  BY <1>1, <1>2
<1>4. QED
  BY <1>3, Patterns

\* A running total never falls.
LEMMA Rises ==
  ASSUME NEW w \in Ratios
  PROVE  /\ \A i \in 0..8 : Sum(w)[i] \in Nat
         /\ \A i, j \in 0..8 : i <= j => Sum(w)[i] <= Sum(w)[j]
<1> DEFINE s == Sum(w)
<1>1. \A i \in 1..8 : w[PatternOrder[i]] \in Nat
  BY DEF Ratios, PatternNames, PatternOrder
<1>2. s[0] = 0 /\ \A i \in 1..8 : s[i] = s[i - 1] + w[PatternOrder[i]]
  BY Sums
<1> HIDE DEF s
<1>3. /\ s[0] \in Nat /\ s[1] \in Nat /\ s[2] \in Nat /\ s[3] \in Nat /\ s[4] \in Nat
      /\ s[5] \in Nat /\ s[6] \in Nat /\ s[7] \in Nat /\ s[8] \in Nat
      /\ s[0] <= s[1] /\ s[1] <= s[2] /\ s[2] <= s[3] /\ s[3] <= s[4]
      /\ s[4] <= s[5] /\ s[5] <= s[6] /\ s[6] <= s[7] /\ s[7] <= s[8]
  BY <1>1, <1>2
<1>4. \A i \in 0..8 : i \in {0, 1, 2, 3, 4, 5, 6, 7, 8}
  OBVIOUS
<1>5. \A i \in 0..8 : s[i] \in Nat
  BY <1>3, <1>4
<1>6. \A i, j \in 0..8 : i <= j => s[i] <= s[j]
  BY <1>3, <1>4
<1>7. QED
  BY <1>5, <1>6 DEF s

\* Every preset replaces some ratios by whole percentages.
LEMMA Mixes ==
  ASSUME NEW preset \in PresetNames
  PROVE  Config[preset].ratios \in Ratios
<1> DEFINE change == MixChange(preset)
<1>1. Config[preset].ratios = Replaced(DefaultRatios, change)
  BY DEF Config, MakeSimulator
<1>2. DefaultRatios \in Ratios
  BY Patterns DEF DefaultRatios, Ratios
<1>3. \A p \in DOMAIN change : change[p] \in Nat
  BY DEF MixChange, NoChange
<1> HIDE DEF change
<1>4. QED
  BY <1>1, <1>2, <1>3 DEF Replaced, Ratios

\* The draws that end on the i-th pattern.
Interval(w, i) == {r \in Draws : Sum(w)[i - 1] <= r /\ r < Sum(w)[i]}

\* The draws of an interval, and no others, end on its pattern; the first one also
\* gets those that no interval has.
LEMMA Picked ==
  ASSUME NEW w \in Ratios, NEW r \in Draws, NEW i \in 1..8
  PROVE  LET pick == Pick(PatternOrder, w, r, "normal")
         IN  pick = PatternOrder[i] <=>
               \/ r \in Interval(w, i)
               \/ i = 1 /\ Sum(w)[8] <= r
<1> DEFINE s == Sum(w)
           hit == {j \in 1..8 : r < s[j]}
           Is(j) == j \in hit /\ \A k \in hit : j <= k
           pick == Pick(PatternOrder, w, r, "normal")
<1>1. pick = IF hit = {} THEN "normal" ELSE PatternOrder[CHOOSE j \in hit : \A k \in hit : j <= k]
  BY Patterns DEF Pick, Sum
<1>2. s[0] = 0 /\ r \in Nat
  BY Sums DEF Draws
<1>3. /\ \A j \in 0..8 : s[j] \in Nat
      /\ \A j, k \in 0..8 : j <= k => s[j] <= s[k]
  BY Rises
<1> HIDE DEF s
<1>4. ASSUME NEW j \in 1..8, s[j - 1] <= r, r < s[j]
      PROVE  pick = PatternOrder[j]
  <2>1. j \in hit
    BY <1>4
  <2>2. ASSUME NEW k \in hit PROVE j <= k
    <3>1. k <= j - 1 => s[k] <= s[j - 1]
      BY <1>3
    <3>2. QED
      BY <1>2, <1>3, <1>4, <3>1
  <2>3. \A k \in hit : (\A m \in hit : k <= m) => k = j
    BY <2>1, <2>2
  <2> HIDE DEF hit
  <2>4. j = CHOOSE k \in hit : \A m \in hit : k <= m
    BY <2>1, <2>2, <2>3
  <2>5. QED
    BY <1>1, <2>1, <2>4
<1>5. ASSUME s[8] <= r PROVE pick = "normal"
  <2>1. hit = {}
    BY <1>2, <1>3, <1>5
  <2>2. QED
    BY <1>1, <2>1
<1>6. s[8] <= r \/ \E j \in 1..8 : s[j - 1] <= r /\ r < s[j]
  <2>1. \/ s[8] <= r
        \/ s[0] <= r /\ r < s[1]
        \/ s[1] <= r /\ r < s[2]
        \/ s[2] <= r /\ r < s[3]
        \/ s[3] <= r /\ r < s[4]
        \/ s[4] <= r /\ r < s[5]
        \/ s[5] <= r /\ r < s[6]
        \/ s[6] <= r /\ r < s[7]
        \/ s[7] <= r /\ r < s[8]
    BY <1>2, <1>3
  <2>2. QED
    BY <2>1
<1>7. \A j, k \in 1..8 : PatternOrder[j] = PatternOrder[k] => j = k
  <2>1. \A j \in 1..8 : j \in {1, 2, 3, 4, 5, 6, 7, 8}
    OBVIOUS
  <2>2. QED
    BY <2>1, Patterns
<1> HIDE DEF pick
<1>8. r \in Interval(w, i) <=> s[i - 1] <= r /\ r < s[i]
  BY DEF Interval, s
<1>9. pick = PatternOrder[i] <=> r \in Interval(w, i) \/ (i = 1 /\ s[8] <= r)
  <2>1. ASSUME pick = PatternOrder[i]
        PROVE  r \in Interval(w, i) \/ (i = 1 /\ s[8] <= r)
    <3>1. CASE s[8] <= r
      <4>1. pick = PatternOrder[1]
        BY <1>5, <3>1, Patterns
      <4>2. i = 1
        <5>1. 1 \in 1..8
          OBVIOUS
        <5>2. QED
          BY <1>7, <2>1, <4>1, <5>1
      <4>3. QED
        BY <3>1, <4>2
    <3>2. CASE \E j \in 1..8 : s[j - 1] <= r /\ r < s[j]
      <4>1. PICK j \in 1..8 : s[j - 1] <= r /\ r < s[j]
        BY <3>2
      <4>2. pick = PatternOrder[j]
        BY <1>4, <4>1
      <4>3. j = i
        BY <1>7, <2>1, <4>2
      <4>4. QED
        BY <1>8, <4>1, <4>3
    <3>3. QED
      BY <1>6, <3>1, <3>2
  <2>2. ASSUME r \in Interval(w, i) PROVE pick = PatternOrder[i]
    BY <1>4, <1>8, <2>2
  <2>3. ASSUME i = 1, s[8] <= r PROVE pick = PatternOrder[i]
    BY <1>5, <2>3, Patterns
  <2>4. QED
    BY <2>1, <2>2, <2>3
<1>10. QED
  BY <1>9 DEF pick, s

\* As many draws as lie below 100 between two running totals end on a pattern.
LEMMA Width ==
  ASSUME NEW w \in Ratios, NEW i \in 1..8
  PROVE  /\ Cardinality(Interval(w, i)) = Within(Sum(w)[i]) - Within(Sum(w)[i - 1])
         /\ IsFiniteSet(Interval(w, i))
<1> DEFINE a == Sum(w)[i - 1]
           b == Sum(w)[i]
           last == IF b <= 100 THEN b - 1 ELSE 99
<1>1. a \in Nat /\ b \in Nat /\ a <= b
  BY Rises
<1>2. Interval(w, i) = {r \in 0..99 : a <= r /\ r < b}
  BY DEF Interval, Draws
<1> HIDE DEF a, b
<1>3. Interval(w, i) = a..last /\ last \in Int
  BY <1>1, <1>2
<1>4. /\ Cardinality(a..last) = IF a > last THEN 0 ELSE last - a + 1
      /\ IsFiniteSet(a..last)
  <2>1. a \in Int
    BY <1>1
  <2>2. QED
    BY <1>3, <2>1, FS_Interval
<1>5. Cardinality(Interval(w, i)) = Within(b) - Within(a)
  BY <1>1, <1>3, <1>4 DEF Within
<1>6. QED
  BY <1>3, <1>4, <1>5 DEF a, b

\* As many draws as the totals leave below 100 end on no pattern of the order.
LEMMA Rest ==
  ASSUME NEW w \in Ratios
  PROVE  LET rest == {r \in Draws : Sum(w)[8] <= r}
         IN  Cardinality(rest) = 100 - Within(Sum(w)[8]) /\ IsFiniteSet(rest)
<1> DEFINE total == Sum(w)[8]
           rest == {r \in Draws : total <= r}
<1>1. total \in Nat
  BY Rises
<1> HIDE DEF total
<1>2. rest = total..99
  BY <1>1 DEF Draws
<1>3. /\ Cardinality(total..99) = IF total > 99 THEN 0 ELSE 99 - total + 1
      /\ IsFiniteSet(total..99)
  <2>1. total \in Int
    BY <1>1
  <2>2. QED
    BY <2>1, FS_Interval
<1>4. Cardinality(total..99) = 100 - Within(total)
  BY <1>1, <1>3 DEF Within
<1>5. Cardinality(rest) = 100 - Within(total) /\ IsFiniteSet(rest)
  BY <1>2, <1>3, <1>4, Zenon
<1>6. QED
  BY <1>5 DEF total

\* Intervals do not overlap, so the shares are the widths of the intervals.
LEMMA MixIsShared ==
  ASSUME work.preset \in PresetNames, config = Config[work.preset]
  PROVE  RatiosAreShares
<1> DEFINE w == config.ratios
           share(p) == Shares[work.preset][p]
           width(i) == Within(Sum(w)[i]) - Within(Sum(w)[i - 1])
           left == 100 - Within(Sum(w)[8])
<1>1. w \in Ratios
  BY Mixes
<1>2. \A p \in PatternNames :
        share(p) = Cardinality({r \in Draws : Pick(PatternOrder, w, r, "normal") = p})
  BY DEF Shares, PickPattern
<1>3. \A i \in 1..8 : PatternOrder[i] \in PatternNames
  BY Patterns DEF PatternNames
<1>4. \A i \in 1..8 : i = 1 <=> PatternOrder[i] = "normal"
  <2>1. \A i \in 1..8 : i \in {1, 2, 3, 4, 5, 6, 7, 8}
    OBVIOUS
  <2>2. QED
    BY <2>1, Patterns
<1> HIDE DEF w, share
<1>5. ASSUME NEW i \in 1..8
      PROVE  share(PatternOrder[i]) = width(i) + (IF i = 1 THEN left ELSE 0)
  <2> DEFINE p == PatternOrder[i]
             lands == {r \in Draws : Pick(PatternOrder, w, r, "normal") = p}
             rest == {r \in Draws : Sum(w)[8] <= r}
  <2>1. share(p) = Cardinality(lands)
    BY <1>2, <1>3
  <2>2. lands = {r \in Draws : r \in Interval(w, i) \/ (i = 1 /\ Sum(w)[8] <= r)}
    BY <1>1, Picked
  <2>3. Cardinality(Interval(w, i)) = width(i) /\ width(i) \in Int
    BY <1>1, Width, Rises DEF Within
  <2>4. CASE i # 1
    <3>1. lands = Interval(w, i)
      BY <2>2, <2>4 DEF Interval
    <3>2. QED
      BY <2>1, <2>3, <2>4, <3>1
  <2>5. CASE i = 1
    <3>1. lands = Interval(w, 1) \union rest
      BY <2>2, <2>5 DEF Interval
    <3>2. Interval(w, 1) \intersect rest = {}
      <4>1. Sum(w)[1] \in Nat /\ Sum(w)[8] \in Nat /\ Sum(w)[1] <= Sum(w)[8]
        BY <1>1, Rises
      <4>2. QED
        BY <4>1 DEF Interval, Draws
    <3>3. Cardinality(rest) = left /\ IsFiniteSet(rest)
      BY <1>1, Rest
    <3>4. IsFiniteSet(Interval(w, 1))
      BY <1>1, Width
    <3>5. Cardinality(lands) = Cardinality(Interval(w, 1)) + Cardinality(rest)
      <4>1. Cardinality(lands) = Cardinality(Interval(w, 1)) + Cardinality(rest)
                                 - Cardinality(Interval(w, 1) \intersect rest)
        BY <3>1, <3>3, <3>4, FS_Union, Zenon
      <4>2. Cardinality(Interval(w, 1) \intersect rest) = 0
        BY <3>2, FS_EmptySet, Zenon
      <4>3. Cardinality(Interval(w, 1)) \in Int /\ Cardinality(rest) \in Int
        BY <3>3, <3>4, FS_CardinalityType
      <4>4. QED
        BY <4>1, <4>2, <4>3
    <3>6. QED
      BY <2>1, <2>3, <2>5, <3>3, <3>5
  <2>6. QED
    BY <2>4, <2>5
<1>6. Len(PatternOrder) = 8 /\ DOMAIN PatternOrder = 1..8
  BY DEF PatternOrder
<1>7. QED
  BY <1>4, <1>5, <1>6 DEF RatiosAreShares, Sum, w, share

\* The preset of a run and the mix it stands for never change.
MixInv == work \in Workloads /\ config = Config[work.preset]

LEMMA StepMix == MixInv /\ [StressNext]_allVars => MixInv'
<1> SUFFICES ASSUME MixInv, [StressNext]_allVars PROVE UNCHANGED <<work, config>>
  BY DEF MixInv
<1>1. CASE UNCHANGED clock
  BY <1>1 DEF clock
<1>2. CASE LoadStep
  <2>1. CASE DrawSingle \/ DrawBurst \/ Resume \/ StreamEnds
    BY <1>1, <2>1 DEF DrawSingle, DrawBurst, Resume, StreamEnds, MakeEvent
  <2>2. CASE Throttle \/ Inject
    BY <1>1, <2>2 DEF Throttle, Inject
  <2>3. \A status, error : TryAgain(status, error) => UNCHANGED clock
    BY DEF TryAgain, Finish
  <2>4. CASE Answered \/ BodyLost \/ NoAnswer
    BY <1>1, <2>3, <2>4 DEF Answered, BodyLost, NoAnswer, Finish
  <2>5. QED
    BY <1>2, <2>1, <2>2, <2>4 DEF LoadStep
<1>3. CASE GeminiStep
  <2>1. CASE StartBatch \/ EndBatch \/ GeminiEnds \/ LateAnswer
    BY <1>1, <2>1 DEF StartBatch, EndBatch, GeminiEnds, LateAnswer
  <2>2. CASE \E c \in Calls : Take(c) \/ MockReply(c) \/ Reply(c) \/ Raise(c) \/ TimeOut(c)
    BY <1>1, <2>2 DEF Take, MockReply, Reply, Raise, TimeOut, Stage
  <2>3. QED
    BY <1>3, <2>1, <2>2 DEF GeminiStep, GeminiTask, Provider
<1>4. CASE Admin \/ Main \/ Kill \/ Regenerate
  BY <1>1, <1>4 DEF Admin, Main, Exit, Kill, Forgotten, Regenerate
<1>5. CASE Time
  BY <1>5 DEF Time, StreamDeadline, LoopsDeadline
<1>6. CASE UNCHANGED allVars
  BY <1>1, <1>6 DEF allVars
<1>7. CASE Load \/ Gemini \/ (\E c \in Calls : Waited(c)) \/ Provider
  BY <1>2, <1>3, <1>7 DEF Load, Gemini, Waited, GeminiStep
<1>8. QED
  BY <1>4, <1>5, <1>6, <1>7 DEF StressNext, Outside

\* Whatever preset a run has, a pattern gets exactly what of its ratio lies within
\* the 100 draws once those before it have theirs, "normal" also what is left over
\* (virtual_events.py:75-83, orchestrator.py:12-104): no run scales a mix that does
\* not add up.
THEOREM MixIsKept == StressSpec => []RatiosAreShares
<1>1. StressInit => MixInv
  BY DEF StressInit, ClockInit, MixInv
<1>2. MixInv => RatiosAreShares
  <2> SUFFICES ASSUME MixInv PROVE RatiosAreShares
    OBVIOUS
  <2>1. work.preset \in PresetNames /\ config = Config[work.preset]
    BY WorkloadAssumption DEF MixInv
  <2>2. QED
    BY <2>1, MixIsShared
<1>3. QED
  BY <1>1, <1>2, StepMix, PTL DEF StressSpec
===============================================================================
