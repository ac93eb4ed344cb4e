------------------------ MODULE DeployPipeline_proofs ------------------------
(***************************************************************************)
(* What the deploy workflow guarantees for every set of runs, operators    *)
(* and versions, and that it implements AtomicRelease.                     *)
(***************************************************************************)
EXTENDS DeployPipeline, TLAPS

Held     == Deployers \union {First}
Commands == [at : {"none", "tarball", "sidecar", "install", "ok", "failed"}, got : Held]

Typed ==
  /\ tarball \in Held /\ sidecar \in Held \union {NoSidecar}
  /\ puts \in [Deployers -> 0..3]
  /\ phase \in [Deployers -> {"idle", "pending"} \union Jobs \union Closed]
  /\ cmd \in [Callers -> Commands]
  /\ live \in Held \union {Nothing}
  /\ disturbed \in BOOLEAN /\ crossed \in BOOLEAN /\ unchecked \in BOOLEAN

\* The group: one run in progress, one waiting; operators are outside of it.
Group ==
  /\ \A q, r \in Runs : phase[q] \in Jobs /\ phase[r] \in Jobs => q = r
  /\ \A q, r \in Runs : phase[q] = "pending" /\ phase[r] = "pending" => q = r
  /\ \A o \in Operators : /\ phase[o] \notin {"pending", "gates", "smoke", "cancelled"}
                          /\ phase[o] # "idle" => disturbed

\* How far a deployer's puts are in each of its phases.
Progress ==
  /\ \A d \in Deployers :
       phase[d] \in {"idle", "pending", "gates", "cancelled"} => puts[d] = 0
  /\ \A r \in Runs : phase[r] \in {"deploy", "poll", "smoke"} => puts[r] = 3

\* How far its command is; one that runs on has been left behind.  Before the
\* first boot there is none, and while it lasts one that runs was sent across it.
Commanded ==
  /\ \A d \in Deployers :
    /\ phase[d] \in {"idle", "pending", "gates", "build", "deploy"} => cmd[d].at = "none"
    /\ phase[d] = "smoke" => cmd[d].at = "ok"
    /\ Active(d) /\ ~disturbed => phase[d] = "poll"
    /\ cmd[Boot].at = "none" \/ (Active(Boot) /\ ~crossed) => cmd[d].at = "none"
  /\ cmd[Boot].at = "none" \/ (Active(Boot) /\ ~crossed) => live = Nothing

\* Whose puts the two keys hold.
Bucket ==
  /\ tarball \in Deployers => puts[tarball] >= 2
  /\ sidecar \in Deployers => puts[sidecar] = 3
  /\ (\A o \in Operators : phase[o] = "idle") =>
       \A r \in Runs : phase[r] \in Jobs =>
         /\ puts[r] >= 2 => tarball = r
         /\ puts[r] = 3  => sidecar = r

\* What a command holds was offered, and what it installs was finished.
Holding ==
  \A c \in Callers :
    /\ cmd[c].got \in Deployers => puts[cmd[c].got] >= 2
    /\ cmd[c].at = "install" /\ cmd[c].got \in Deployers =>
         puts[cmd[c].got] = 3 \/ unchecked

\* Undisturbed and clear of the first boot, a run's command holds and installs
\* the run's own version.
Own ==
  ~disturbed /\ ~crossed => \A r \in Runs : phase[r] \in {"poll", "smoke"} =>
                  /\ cmd[r].at \in {"sidecar", "install"} => cmd[r].got = r
                  /\ cmd[r].at = "ok" => live = r

Inv == /\ Typed /\ Group /\ Progress /\ Commanded /\ Bucket
       /\ Holding /\ Own /\ ServedWasFinished
-----------------------------------------------------------------------------
USE DEF Deployers, Callers

\* Nothing has been put, sent or disturbed at first.
LEMMA InitInv == PipeInit => Inv
<1> SUFFICES ASSUME PipeInit PROVE Inv
  OBVIOUS
<1> USE DEF PipeInit, StoreInit
<1>1. Typed
  <2>1. [at |-> "none", got |-> First] \in Commands
    BY DEF Commands, Held
  <2>2. cmd \in [Callers -> Commands] /\ puts \in [Deployers -> 0..3]
    BY <2>1 DEF Commands, Held
  <2>3. QED
    BY <2>2 DEF Typed, Held
<1>2. Group /\ Progress /\ Commanded
  BY HostAssumption DEF Group, Progress, Commanded, Active, Jobs
<1>3. Bucket /\ Holding /\ ServedWasFinished
  BY StoreAssumption, HostAssumption DEF Bucket, Holding, ServedWasFinished, Jobs
<1>4. Own
  BY DEF Own
<1>5. QED
  BY <1>1, <1>2, <1>3, <1>4 DEF Inv

\* A step is one of these, by one deployer or by the first boot.
RunStep(d)  == Trigger(d) \/ Admit(d) \/ Gates(d) \/ Smoke(d)
Command(c)  == Host(c) \/ (FirstBoot /\ c = Boot)
JobStep(d)  == Upload(d) \/ Built(d) \/ Send(d) \/ Poll(d) \/ PollTimesOut(d) \/ Stop(d)

\* Every action keeps the types.
LEMMA StepTyped == Typed /\ [PipeNext]_pipeVars => Typed'
<1> SUFFICES ASSUME Typed, [PipeNext]_pipeVars PROVE Typed'
  OBVIOUS
<1> USE DEF Typed, Held, Jobs, Closed, Goto, storeVars
<1>1. ASSUME NEW r \in Runs, RunStep(r) PROVE Typed'
  BY <1>1 DEF RunStep, Trigger, Admit, Gates, Smoke
<1>2. ASSUME NEW o \in Operators, Operator(o) PROVE Typed'
  BY <1>2 DEF Operator
<1>3. ASSUME NEW d \in Deployers, Upload(d) PROVE Typed'
  BY <1>3 DEF Upload, PutVersioned, PutLatest, PutSidecar
<1>4. ASSUME NEW d \in Deployers, JobStep(d), ~Upload(d) PROVE Typed'
  <2>1. CASE Send(d)
    <3>1. cmd' \in [Callers -> Commands]
      BY <2>1 DEF Send, Commands
    <3>2. crossed' \in BOOLEAN
      BY <2>1 DEF Send, Active
    <3>3. QED
      BY <2>1, <3>1, <3>2 DEF Send
  <2>2. CASE Built(d) \/ Poll(d) \/ PollTimesOut(d) \/ Stop(d)
    BY <2>2 DEF Built, Poll, PollTimesOut, Stop, Active
  <2>3. QED
    BY <1>4, <2>1, <2>2 DEF JobStep
<1>5. ASSUME NEW c \in Callers, Command(c) PROVE Typed'
  <2>1. CASE FirstBoot
    <3>1. cmd' \in [Callers -> Commands]
      BY <2>1 DEF FirstBoot, Commands
    <3>2. QED
      BY <2>1, <3>1 DEF FirstBoot
  <2>2. CASE FetchTarball(c)
    BY <2>2 DEF FetchTarball, Commands
  <2>3. ASSUME NEW at \in {"install", "failed"}, cmd' = [cmd EXCEPT ![c].at = at]
        PROVE  cmd' \in [Callers -> Commands]
    BY <2>3 DEF Commands
  <2>4. ASSUME NEW at \in {"ok", "failed"}, Exit(c, at)
        PROVE  cmd' \in [Callers -> Commands]
    BY <2>4 DEF Exit, Commands
  <2>5. CASE Check(c) \/ SkipCheck(c)
    BY <2>3, <2>4, <2>5 DEF Check, SkipCheck
  <2>6. CASE Install(c) \/ HostFails(c)
    <3>1. cmd' \in [Callers -> Commands]
      BY <2>4, <2>6 DEF Install, HostFails
    <3>2. cmd[c].got \in Held
      BY DEF Commands
    <3>3. QED
      BY <2>6, <3>1, <3>2 DEF Install, HostFails
  <2>7. QED
    BY <1>5, <2>1, <2>2, <2>5, <2>6 DEF Command, Host
<1>6. CASE UNCHANGED pipeVars
  BY <1>6 DEF pipeVars
<1>7. QED
  BY <1>1, <1>2, <1>3, <1>4, <1>5, <1>6 DEF PipeNext, RunStep, JobStep, Command

\* GitHub admits a run when none is in progress and keeps one waiting.
LEMMA StepGroup == Typed /\ Group /\ [PipeNext]_pipeVars => Group'
<1> SUFFICES ASSUME Typed, Group, [PipeNext]_pipeVars PROVE Group'
  OBVIOUS
<1> USE StoreAssumption DEF Typed, Group, Jobs, Closed, Goto
<1>1. ASSUME NEW r \in Runs, RunStep(r) PROVE Group'
  BY <1>1 DEF RunStep, Trigger, Admit, Gates, Smoke
<1>2. ASSUME NEW o \in Operators, Operator(o) PROVE Group'
  BY <1>2 DEF Operator
<1>3. ASSUME NEW d \in Deployers, JobStep(d) PROVE Group'
  BY <1>3 DEF JobStep, Upload, Built, Send, Poll, PollTimesOut, Stop
<1>4. ASSUME NEW d \in Callers, Command(d) PROVE Group'
  BY <1>4 DEF Command, FirstBoot, Host, FetchTarball, Check, SkipCheck, Install, HostFails
<1>5. CASE UNCHANGED pipeVars
  BY <1>5 DEF pipeVars
<1>6. QED
  BY <1>1, <1>2, <1>3, <1>4, <1>5 DEF PipeNext, RunStep, JobStep, Command

\* A job ends after its puts, and only a waiting run is cancelled.
LEMMA StepProgress == Typed /\ Group /\ Progress /\ [PipeNext]_pipeVars => Progress'
<1> SUFFICES ASSUME Typed, Group, Progress, [PipeNext]_pipeVars PROVE Progress'
  OBVIOUS
<1> USE StoreAssumption DEF Typed, Progress, Jobs, Closed, Goto, storeVars
<1>1. ASSUME NEW r \in Runs, RunStep(r) PROVE Progress'
  BY <1>1 DEF RunStep, Trigger, Admit, Gates, Smoke
<1>2. ASSUME NEW o \in Operators, Operator(o) PROVE Progress'
  BY <1>2 DEF Operator
<1>3. ASSUME NEW d \in Deployers, Upload(d) PROVE Progress'
  BY <1>3 DEF Upload, PutVersioned, PutLatest, PutSidecar
<1>4. ASSUME NEW d \in Deployers, JobStep(d), ~Upload(d) PROVE Progress'
  BY <1>4 DEF JobStep, Built, Send, Poll, PollTimesOut, Stop, Published
<1>5. ASSUME NEW d \in Callers, Command(d) PROVE Progress'
  BY <1>5 DEF Command, FirstBoot, Host, FetchTarball, Check, SkipCheck, Install, HostFails
<1>6. CASE UNCHANGED pipeVars
  BY <1>6 DEF pipeVars
<1>7. QED
  BY <1>1, <1>2, <1>3, <1>4, <1>5, <1>6 DEF PipeNext, RunStep, JobStep, Command

\* Whoever stops waiting for a command that runs on has disturbed the host.
LEMMA StepCommanded ==
  Typed /\ Group /\ Commanded /\ [PipeNext]_pipeVars => Commanded'
<1> SUFFICES ASSUME Typed, Group, Commanded, [PipeNext]_pipeVars PROVE Commanded'
  OBVIOUS
<1> USE StoreAssumption DEF Typed, Commanded, Active, Jobs, Closed, Goto
<1>1. ASSUME NEW r \in Runs, RunStep(r) PROVE Commanded'
  BY <1>1 DEF RunStep, Trigger, Admit, Gates, Smoke
<1>2. ASSUME NEW o \in Operators, Operator(o) PROVE Commanded'
  BY <1>2 DEF Operator
<1>3. ASSUME NEW d \in Deployers, JobStep(d) PROVE Commanded'
  <2>1. CASE Send(d)
    BY <2>1, HostAssumption DEF Send, Commands
  <2>2. CASE Upload(d) \/ Built(d)
    BY <2>2 DEF Upload, Built
  <2>3. CASE Poll(d) \/ PollTimesOut(d) \/ Stop(d)
    BY <2>3 DEF Poll, PollTimesOut, Stop
  <2>4. QED
    BY <1>3, <2>1, <2>2, <2>3 DEF JobStep
<1>4. ASSUME NEW c \in Callers, Command(c) PROVE Commanded'
  <2> USE HostAssumption DEF Commands
  <2>1. CASE FirstBoot
    BY <2>1 DEF FirstBoot
  <2>2. CASE FetchTarball(c)
    BY <2>2 DEF FetchTarball
  <2>3. CASE Check(c) \/ SkipCheck(c)
    BY <2>3 DEF Check, SkipCheck, Exit
  <2>4. CASE Install(c) \/ HostFails(c)
    BY <2>4 DEF Install, HostFails, Exit
  <2>5. QED
    BY <1>4, <2>1, <2>2, <2>3, <2>4 DEF Command, Host
<1>5. CASE UNCHANGED pipeVars
  BY <1>5 DEF pipeVars
<1>6. QED
  BY <1>1, <1>2, <1>3, <1>4, <1>5 DEF PipeNext, RunStep, JobStep, Command

\* The run in progress is the only one that puts, unless an operator does.
LEMMA StepBucket ==
  Typed /\ Group /\ Progress /\ Bucket /\ [PipeNext]_pipeVars => Bucket'
<1> SUFFICES ASSUME Typed, Group, Progress, Bucket, [PipeNext]_pipeVars PROVE Bucket'
  OBVIOUS
<1> USE StoreAssumption DEF Typed, Group, Progress, Bucket, Jobs, Closed, Goto, storeVars
<1>1. ASSUME NEW r \in Runs, RunStep(r) PROVE Bucket'
  BY <1>1 DEF RunStep, Trigger, Admit, Gates, Smoke
<1>2. ASSUME NEW o \in Operators, Operator(o) PROVE Bucket'
  BY <1>2 DEF Operator
<1>3. ASSUME NEW d \in Deployers, Upload(d) PROVE Bucket'
  <2>1. CASE PutVersioned(d)
    BY <1>3, <2>1 DEF Upload, PutVersioned
  <2>2. CASE PutLatest(d)
    BY <1>3, <2>2 DEF Upload, PutLatest
  <2>3. CASE PutSidecar(d)
    BY <1>3, <2>3 DEF Upload, PutSidecar
  <2>4. QED
    BY <1>3, <2>1, <2>2, <2>3 DEF Upload
<1>4. ASSUME NEW d \in Deployers, JobStep(d), ~Upload(d) PROVE Bucket'
  BY <1>4 DEF JobStep, Built, Send, Poll, PollTimesOut, Stop
<1>5. ASSUME NEW d \in Callers, Command(d) PROVE Bucket'
  BY <1>5 DEF Command, FirstBoot, Host, FetchTarball, Check, SkipCheck, Install, HostFails
<1>6. CASE UNCHANGED pipeVars
  BY <1>6 DEF pipeVars
<1>7. QED
  BY <1>1, <1>2, <1>3, <1>4, <1>5, <1>6 DEF PipeNext, RunStep, JobStep, Command

\* A command gets the tarball of a finished publication or no checksum.
LEMMA StepHolding ==
  Typed /\ Commanded /\ Bucket /\ Holding /\ [PipeNext]_pipeVars => Holding'
<1> SUFFICES ASSUME Typed, Commanded, Bucket, Holding, [PipeNext]_pipeVars
             PROVE  Holding'
  OBVIOUS
<1> USE StoreAssumption DEF Typed, Holding, Commands, Held, Goto, storeVars
<1>1. ASSUME NEW r \in Runs, RunStep(r) PROVE Holding'
  BY <1>1 DEF RunStep, Trigger, Admit, Gates, Smoke
<1>2. ASSUME NEW o \in Operators, Operator(o) PROVE Holding'
  BY <1>2 DEF Operator
<1>3. ASSUME NEW d \in Deployers, Upload(d) PROVE Holding'
  BY <1>3 DEF Upload, PutVersioned, PutLatest, PutSidecar
<1>4. ASSUME NEW d \in Deployers, JobStep(d), ~Upload(d) PROVE Holding'
  BY <1>4 DEF JobStep, Built, Send, Poll, PollTimesOut, Stop
<1>5. ASSUME NEW c \in Callers, Command(c) PROVE Holding'
  <2>1. CASE FirstBoot
    BY <2>1 DEF FirstBoot
  <2>2. CASE FetchTarball(c)
    BY <2>2 DEF FetchTarball, Bucket
  <2>3. CASE Check(c)
    BY <2>3 DEF Check, Exit, Bucket
  <2>4. CASE SkipCheck(c)
    BY <2>4 DEF SkipCheck
  <2>5. CASE Install(c) \/ HostFails(c)
    BY <2>5 DEF Install, HostFails, Exit
  <2>6. QED
    BY <1>5, <2>1, <2>2, <2>3, <2>4, <2>5 DEF Command, Host
<1>6. CASE UNCHANGED pipeVars
  BY <1>6 DEF pipeVars
<1>7. QED
  BY <1>1, <1>2, <1>3, <1>4, <1>5, <1>6 DEF PipeNext, RunStep, JobStep, Command

\* What serves came out of a command.
LEMMA StepServed ==
  Typed /\ Holding /\ ServedWasFinished /\ [PipeNext]_pipeVars => ServedWasFinished'
<1> SUFFICES ASSUME Typed, Holding, ServedWasFinished, [PipeNext]_pipeVars
             PROVE  ServedWasFinished'
  OBVIOUS
<1> USE StoreAssumption, HostAssumption DEF Typed, ServedWasFinished, Published, Held, storeVars
<1>1. ASSUME NEW d \in Deployers, Upload(d) PROVE ServedWasFinished'
  BY <1>1 DEF Upload, PutVersioned, PutLatest, PutSidecar
<1>2. ASSUME NEW c \in Callers, Install(c) \/ HostFails(c)
      PROVE  ServedWasFinished'
  BY <1>2 DEF Install, HostFails, Holding
<1>3. CASE UNCHANGED <<puts, live>> /\ unchecked' \in {unchecked, TRUE}
  BY <1>3
<1>4. QED
  BY <1>1, <1>2, <1>3
     DEF PipeNext, Trigger, Admit, Gates, Smoke, Operator, Built, Send, Poll,
         PollTimesOut, Stop, FirstBoot, Host, FetchTarball, Check, SkipCheck, pipeVars

\* Undisturbed, the one active command is that of the run that polls.
LEMMA StepOwn ==
  Typed /\ Group /\ Progress /\ Commanded /\ Bucket /\ Own /\ [PipeNext]_pipeVars
    => Own'
<1> SUFFICES ASSUME Typed, Group, Progress, Commanded, Bucket, Own,
                    [PipeNext]_pipeVars
             PROVE  Own'
  OBVIOUS
<1> USE StoreAssumption DEF Typed, Own, Commands, Held, Jobs, Closed, Goto
<1>1. ASSUME NEW r \in Runs, RunStep(r) PROVE Own'
  BY <1>1 DEF RunStep, Trigger, Admit, Gates, Smoke
<1>2. ASSUME NEW o \in Operators, Operator(o) PROVE Own'
  BY <1>2 DEF Operator
<1>3. ASSUME NEW d \in Deployers, JobStep(d) PROVE Own'
  <2>1. CASE Send(d)
    BY <2>1 DEF Send
  <2>2. CASE Upload(d) \/ Built(d)
    BY <2>2 DEF Upload, Built
  <2>3. CASE Poll(d) \/ PollTimesOut(d) \/ Stop(d)
    BY <2>3 DEF Poll, PollTimesOut, Stop
  <2>4. QED
    BY <1>3, <2>1, <2>2, <2>3 DEF JobStep
<1>4. ASSUME NEW d \in Deployers, Host(d), ~disturbed, ~crossed PROVE Own'
  <2>1. Active(d) /\ UNCHANGED <<phase, disturbed, crossed>>
    BY <1>4 DEF Host, FetchTarball, Check, SkipCheck, Install, HostFails, Active
  <2>2. d \in Runs /\ phase[d] = "poll"
    BY <1>4, <2>1 DEF Commanded, Group, Active
  <2>3. /\ \A r \in Runs : phase[r] \in {"poll", "smoke"} => r = d
        /\ d # Boot
    BY <2>2, HostAssumption DEF Group
  <2>4. CASE FetchTarball(d)
    <3>1. tarball = d
      BY <1>4, <2>2 DEF Bucket, Group, Progress
    <3>2. QED
      BY <2>1, <2>3, <2>4, <3>1 DEF FetchTarball
  <2>5. CASE Check(d) \/ SkipCheck(d)
    BY <1>4, <2>1, <2>2, <2>3, <2>5 DEF Check, SkipCheck, Exit
  <2>6. CASE Install(d) \/ HostFails(d)
    BY <1>4, <2>1, <2>2, <2>3, <2>6 DEF Install, HostFails, Exit
  <2>7. QED
    BY <1>4, <2>4, <2>5, <2>6 DEF Host
<1>5. ASSUME Command(Boot), ~crossed PROVE Own'
  <2>1. cmd[Boot].at = "none" \/ Active(Boot)
    BY <1>5 DEF Command, FirstBoot, Host, FetchTarball, Check, SkipCheck, Install,
       HostFails, Active
  <2>2. \A d \in Deployers : cmd[d].at = "none"
    BY <1>5, <2>1 DEF Commanded
  <2>3. UNCHANGED phase /\ \A d \in Deployers : cmd'[d] = cmd[d]
    BY <1>5, HostAssumption DEF Command, FirstBoot, Host, FetchTarball, Check,
       SkipCheck, Install, HostFails, Exit
  <2>4. QED
    BY <2>2, <2>3
<1>5a. ASSUME NEW c \in Callers, Command(c), disturbed \/ crossed PROVE Own'
  BY <1>5a DEF Command, FirstBoot, Host, FetchTarball, Check, SkipCheck, Install, HostFails
<1>6. CASE UNCHANGED pipeVars
  BY <1>6 DEF pipeVars
<1>7. QED
  BY <1>1, <1>2, <1>3, <1>4, <1>5, <1>5a, <1>6 DEF PipeNext, RunStep, JobStep, Command

\* The parts together are inductive, none of them is on its own.
LEMMA StepInv == Inv /\ [PipeNext]_pipeVars => Inv'
BY StepTyped, StepGroup, StepProgress, StepCommanded, StepBucket, StepHolding,
   StepServed, StepOwn DEF Inv

\* Every reachable state satisfies it.
LEMMA InvHolds == PipeSpec => []Inv
BY InitInv, StepInv, PTL DEF PipeSpec

-----------------------------------------------------------------------------
\* While a run deploys, latest.tar.gz and its sidecar are its own, although
\* earlier runs may have died between their puts (build-and-upload.sh:125-129),
\* as long as no operator has published: any number of runs.
THEOREM BucketIsTheRuns == PipeSpec => []LatestIsTheRuns
<1>1. Inv => LatestIsTheRuns
  BY DEF Inv, Bucket, Progress, Group, Typed, Jobs, LatestIsTheRuns
<1>2. QED
  BY <1>1, InvHolds, PTL

\* Any number of runs never has two commands on the host at once, from the
\* concurrency group of deploy.yml:44-47 and the polling of trigger-deploy.sh,
\* without an operator or a polling that gave up; what may overlap with a run's
\* command is that of the first boot (user-data.sh.tftpl:243).
THEOREM OnlyTheBootOverlaps == PipeSpec => []OneCommandAtATime
<1>1. Inv => OneCommandAtATime
  <2> SUFFICES ASSUME Inv, ~disturbed, NEW c \in Callers, NEW e \in Callers,
                      Active(c), Active(e), c # e
               PROVE  crossed /\ Boot \in {c, e}
    BY DEF OneCommandAtATime
  <2> USE DEF Inv, Commanded, Active
  <2>1. CASE c \in Deployers /\ e \in Deployers
    <3>1. phase[c] = "poll" /\ phase[e] = "poll"
      BY <2>1
    <3>2. QED
      BY <2>1, <3>1 DEF Group, Jobs
  <2>2. CASE c = Boot \/ e = Boot
    BY <2>2, HostAssumption
  <2>3. QED
    BY <2>1, <2>2
<1>2. QED
  BY <1>1, InvHolds, PTL

\* A version whose publication stopped half way never serves, with any number
\* of operators publishing and deploying as well.
THEOREM ServesFinished == PipeSpec => []ServedWasFinished
BY InvHolds, PTL DEF Inv

-----------------------------------------------------------------------------
(* The refinement: what each step is to AtomicRelease.                     *)

Offered == {First} \union {d \in Deployers : puts[d] > 0}
Ended(d) == IF phase[d] \in Closed THEN phase[d] ELSE "open"
Verdict == [d \in Deployers |-> Ended(d)]
Booting == cmd[Boot].at # "ok"
AbsVars == <<Offered, live, Verdict, Booting, ~(disturbed \/ crossed)>>

\* A job that ends closes its release, any other move leaves all open.
LEMMA Moves ==
  ASSUME Typed, NEW d \in Deployers, phase[d] \notin Closed,
         NEW to, Goto(d, to)
  PROVE  /\ to \notin Closed => Verdict' = Verdict
         /\ to \in Closed => Verdict' = [Verdict EXCEPT ![d] = to]
BY DEF Typed, Goto, Verdict, Ended, Closed

\* A job that ends ends its release, with what that way of ending promises.
LEMMA Ends ==
  ASSUME Typed, NEW d \in Deployers, NEW how \in Closed,
         phase[d] \notin Closed, Goto(d, how),
         UNCHANGED <<puts, live, crossed>>, disturbed' \in {disturbed, TRUE},
         Booting' = Booting,
         how = "green" => disturbed \/ crossed \/ live = d,
         how = "built" => puts[d] > 0,
         how = "cancelled" => puts[d] = 0
  PROVE  Abs!End(d, how)
<1>1. Verdict[d] = "open" /\ Verdict' = [Verdict EXCEPT ![d] = how]
  BY Moves DEF Verdict, Ended
<1>2. Offered' = Offered
  BY DEF Offered
<1>3. CASE how = "green"
  BY <1>1, <1>2, <1>3 DEF Abs!End, Typed, Offered, Ended, Verdict, Booting
<1>4. CASE how = "built"
  BY <1>1, <1>2, <1>4 DEF Abs!End, Typed, Offered, Ended, Verdict, Booting
<1>5. CASE how = "cancelled"
  <2>1. d \notin Offered
    BY <1>5, StoreAssumption DEF Offered
  <2>2. QED
    BY <1>1, <1>2, <1>5, <2>1 DEF Abs!End, Typed, Offered, Ended, Verdict, Booting
<1>6. CASE how = "red"
  BY <1>1, <1>2, <1>6 DEF Abs!End, Typed, Offered, Ended, Verdict, Booting
<1>7. QED
  BY <1>3, <1>4, <1>5, <1>6 DEF Closed

\* A trigger cancels the run that was waiting, if there is one.
LEMMA TriggerMaps ==
  ASSUME Inv, NEW r \in Runs, Trigger(r)
  PROVE  Abs!ReleaseNext \/ UNCHANGED AbsVars
<1> USE DEF Inv, Typed
<1>1. UNCHANGED <<puts, live, disturbed, crossed>> /\ Booting' = Booting
  BY DEF Trigger, storeVars, Booting
<1>2. CASE \A d \in Deployers : phase[d] # "pending"
  <2>1. Verdict' = Verdict
    BY <1>2 DEF Trigger, Verdict, Ended, Closed
  <2>2. QED
    BY <1>1, <2>1 DEF AbsVars, Offered
<1>3. ASSUME NEW q \in Deployers, phase[q] = "pending"
      PROVE  Abs!End(q, "cancelled")
  <2>1. \A d \in Deployers : phase[d] = "pending" => d = q
    BY <1>3 DEF Group
  <2>2. Verdict[q] = "open" /\ Verdict' = [Verdict EXCEPT ![q] = "cancelled"]
    BY <1>3, <2>1 DEF Trigger, Verdict, Ended, Closed
  <2>3. q \notin Offered /\ Offered' = Offered
    BY <1>1, <1>3, StoreAssumption DEF Progress, Offered
  <2>4. QED
    BY <1>1, <2>2, <2>3 DEF Abs!End, Offered, Ended, Verdict, Booting
<1>4. QED
  BY <1>2, <1>3 DEF Abs!ReleaseNext, Closed

\* The first put offers a version; the others repeat the offer.
LEMMA UploadMaps ==
  ASSUME Inv, NEW d \in Deployers, Upload(d)
  PROVE  Abs!ReleaseNext \/ UNCHANGED AbsVars
<1> USE DEF Inv, Typed
<1>1. /\ UNCHANGED <<phase, live, disturbed, crossed>>
      /\ Verdict' = Verdict /\ Booting' = Booting
  BY DEF Upload, Verdict, Ended, Booting
<1>2. CASE PutVersioned(d)
  <2>1. Verdict[d] = "open"
    BY DEF Upload, Verdict, Ended, Closed
  <2>2. Offered' = Offered \union {d}
    BY <1>2 DEF PutVersioned, Offered
  <2>3. Abs!Offer(d)
    BY <1>1, <2>1, <2>2 DEF Abs!Offer, Offered, Ended, Verdict, Booting
  <2>4. QED
    BY <2>3 DEF Abs!ReleaseNext
<1>3. CASE PutLatest(d) \/ PutSidecar(d)
  <2>1. Offered' = Offered
    BY <1>3 DEF PutLatest, PutSidecar, Offered
  <2>2. QED
    BY <1>1, <2>1 DEF AbsVars
<1>4. QED
  BY <1>2, <1>3 DEF Upload

\* A job goes on, or ends its release with what is then true of it.
LEMMA JobMaps ==
  ASSUME Inv, NEW d \in Deployers,
         \/ d \in Runs /\ (Admit(d) \/ Gates(d) \/ Smoke(d))
         \/ JobStep(d) /\ ~Upload(d)
  PROVE  Abs!ReleaseNext \/ UNCHANGED AbsVars
<1> USE DEF Inv
<1>1. /\ phase[d] \notin Closed
      /\ UNCHANGED <<puts, live>> /\ disturbed' \in {disturbed, TRUE}
      /\ crossed' \in {crossed, TRUE}
      /\ Booting' = Booting
  BY HostAssumption DEF JobStep, Admit, Gates, Smoke, Built, Send, Poll, PollTimesOut,
         Stop, Active, storeVars, Jobs, Closed, Typed, Booting
<1>2. ASSUME NEW to \in Jobs, Goto(d, to), UNCHANGED disturbed
      PROVE  Abs!Interfere \/ UNCHANGED AbsVars
  <2>1. Verdict' = Verdict
    BY <1>1, <1>2, Moves DEF Jobs, Closed
  <2>2. CASE UNCHANGED crossed
    BY <1>1, <1>2, <2>1, <2>2 DEF AbsVars, Offered
  <2>3. CASE crossed' = TRUE
    <3>1. ~(disturbed' \/ crossed') = FALSE
      BY <2>3
    <3>2. QED
      BY <1>1, <2>1, <3>1 DEF Abs!Interfere, Offered, Ended, Verdict, Booting
  <2>4. QED
    <3>1. crossed' = crossed \/ crossed' = TRUE
      BY <1>1
    <3>2. QED
      BY <2>2, <2>3, <3>1
<1>3. ASSUME NEW how \in {"green", "built", "red"}, Goto(d, how), UNCHANGED crossed,
             how = "green" => disturbed \/ crossed \/ live = d,
             how = "built" => puts[d] > 0
      PROVE  Abs!ReleaseNext
  <2>1. Abs!End(d, how)
    BY <1>1, <1>3, Ends DEF Closed
  <2>2. QED
    BY <2>1 DEF Abs!ReleaseNext
<1>4. CASE d \in Runs /\ (Admit(d) \/ Gates(d) \/ Smoke(d))
  <2>1. phase[d] = "smoke" => disturbed \/ crossed \/ live = d
    BY <1>4 DEF Commanded, Own
  <2>2. QED
    BY <1>2, <1>3, <1>4, <2>1 DEF Admit, Gates, Smoke, Jobs, Abs!ReleaseNext
<1>5. CASE Built(d)
  BY <1>2, <1>3, <1>5 DEF Built, Published, Jobs, Abs!ReleaseNext
<1>6. CASE Send(d)
  BY <1>2, <1>3, <1>6 DEF Send, Jobs, Abs!ReleaseNext
<1>7. CASE Poll(d)
  <2>1. d \notin Runs => disturbed
    BY <1>7 DEF Poll, Group
  <2>2. QED
    BY <1>2, <1>3, <1>7, <2>1 DEF Poll, Jobs, Abs!ReleaseNext
<1>8. CASE PollTimesOut(d) \/ Stop(d)
  BY <1>3, <1>8 DEF PollTimesOut, Stop
<1>9. QED
  BY <1>4, <1>5, <1>6, <1>7, <1>8 DEF JobStep

\* The host installs the version of an open release, loses what it had during
\* one, or nothing changes.
LEMMA HostMaps ==
  ASSUME Inv, NEW d \in Deployers, Host(d)
  PROVE  Abs!ReleaseNext \/ UNCHANGED AbsVars
<1> USE DEF Inv
<1>1. UNCHANGED <<puts, phase, disturbed, crossed>> /\ Active(d)
  BY DEF Host, FetchTarball, Check, SkipCheck, Install, HostFails, storeVars, Active
<1>2. Offered' = Offered /\ Verdict' = Verdict /\ Booting' = Booting
  <2>1. cmd'[Boot] = cmd[Boot]
    BY HostAssumption DEF Typed, Host, FetchTarball, Check, SkipCheck, Install,
       HostFails, Exit
  <2>2. QED
    BY <1>1, <2>1 DEF Offered, Verdict, Ended, Booting
<1>3. live' = live \/ (cmd[d].at = "install" /\ live' \in {cmd[d].got, Nothing})
  BY DEF Host, FetchTarball, Check, SkipCheck, Install, HostFails
<1>4. CASE live' = live
  BY <1>1, <1>2, <1>4 DEF AbsVars
<1>5. CASE cmd[d].at = "install" /\ live' = cmd[d].got
  <2> DEFINE v == cmd[d].got
  <2>1. v \in Held /\ v \in Offered
    BY DEF Typed, Commands, Held, Holding, Offered
  <2>2. ~disturbed /\ ~crossed => v = d /\ Verdict[d] = "open"
    BY <1>1, <1>5 DEF Commanded, Group, Own, Verdict, Ended, Closed, Active
  <2>3. Abs!Serve(v)
    BY <1>1, <1>2, <1>5, <2>1, <2>2 DEF Abs!Serve, Offered, Ended, Verdict, Booting
  <2>4. QED
    BY <2>1, <2>3 DEF Abs!ReleaseNext, Held
<1>6. CASE live' = Nothing
  <2>1. ~disturbed => Verdict[d] = "open"
    BY <1>1 DEF Commanded, Verdict, Ended, Closed, Active
  <2>2. Abs!Outage
    BY <1>1, <1>2, <1>6, <2>1 DEF Abs!Outage, Offered, Ended, Verdict, Booting
  <2>3. QED
    BY <2>2 DEF Abs!ReleaseNext
<1>7. QED
  BY <1>3, <1>4, <1>5, <1>6

\* The first boot ends with a version that is offered or with none.
LEMMA BootMaps ==
  ASSUME Inv, Command(Boot)
  PROVE  Abs!BootUp \/ UNCHANGED AbsVars
<1> USE DEF Inv
<1>1. /\ UNCHANGED <<puts, phase, disturbed, crossed>>
      /\ cmd[Boot].at = "none" \/ Active(Boot)
  BY DEF Command, FirstBoot, Host, FetchTarball, Check, SkipCheck, Install, HostFails,
     storeVars, Active
<1>2. Offered' = Offered /\ Verdict' = Verdict /\ Booting
  BY <1>1 DEF Offered, Verdict, Ended, Booting, Active
<1>3. ~crossed => live = Nothing
  BY <1>1 DEF Commanded
<1>4. live' = live \/ live' \in {cmd[Boot].got, Nothing}
  BY DEF Command, FirstBoot, Host, FetchTarball, Check, SkipCheck, Install, HostFails
<1>5. cmd[Boot].got \in Offered
  BY DEF Typed, Commands, Held, Holding, Offered
<1>6. CASE ~Booting'
  BY <1>1, <1>2, <1>3, <1>4, <1>5, <1>6
     DEF Abs!BootUp, Offered, Ended, Verdict, Booting
<1>7. CASE Booting'
  <2>1. Booting' = Booting
    BY <1>2, <1>7 DEF Booting
  <2>2. live' = live
    BY <1>7 DEF Command, FirstBoot, Host, FetchTarball, Check, SkipCheck, Install,
       HostFails, Exit, Booting, Typed
  <2>3. QED
    BY <1>1, <1>2, <2>1, <2>2 DEF AbsVars
<1>8. QED
  BY <1>6, <1>7

\* An operator is the interference AtomicRelease speaks of.
LEMMA OperatorMaps ==
  ASSUME Inv, NEW o \in Operators, Operator(o)
  PROVE  Abs!ReleaseNext \/ UNCHANGED AbsVars
<1>1. /\ Verdict' = Verdict /\ Offered' = Offered /\ live' = live /\ disturbed' = TRUE
      /\ Booting' = Booting
  <2>1. \E to \in {"build", "deploy"} : Goto(o, to)
    BY DEF Operator
  <2>2. /\ phase[o] \notin Closed /\ UNCHANGED <<puts, live>> /\ disturbed' = TRUE
        /\ Booting' = Booting
    BY DEF Operator, Closed, storeVars, Booting
  <2>3. QED
    BY <2>1, <2>2, Moves DEF Inv, Closed, Offered
<1>2. Abs!Interfere
  BY <1>1 DEF Abs!Interfere, Offered, Ended, Verdict, Booting
<1>3. QED
  BY <1>2 DEF Abs!ReleaseNext

\* The pipeline implements AtomicRelease (deploy.yml with the scripts it calls):
\* but for the first boot a version goes live during its own release, and green
\* means that it did, unless an operator, a command that was left behind or the
\* first boot's interferes.
THEOREM Implements == PipeSpec => ReleasesAreAtomic
<1>1. PipeInit => Abs!ReleaseInit
  BY DEF PipeInit, StoreInit, Abs!ReleaseInit, Closed
<1>2. Inv /\ [PipeNext]_pipeVars => [Abs!ReleaseNext]_(Abs!releaseVars)
  <2> SUFFICES ASSUME Inv, [PipeNext]_pipeVars
               PROVE  Abs!ReleaseNext \/ UNCHANGED AbsVars
    BY DEF Abs!releaseVars, AbsVars, Offered, Verdict, Ended, Booting
  <2>1. CASE UNCHANGED pipeVars
    BY <2>1 DEF pipeVars, storeVars, AbsVars, Offered, Verdict, Ended, Booting
  <2>2. CASE PipeNext
    BY <2>2, TriggerMaps, UploadMaps, JobMaps, HostMaps, BootMaps, OperatorMaps
       DEF PipeNext, JobStep, Command, Abs!ReleaseNext
  <2>3. QED
    BY <2>1, <2>2
<1>3. QED
  BY <1>1, <1>2, InvHolds, PTL DEF PipeSpec, ReleasesAreAtomic, Abs!ReleaseSpec
=============================================================================
