--------------------------- MODULE DeployPipeline ---------------------------
(***************************************************************************)
(* A release from the tag to the smoke test: the jobs and the concurrency  *)
(* group of .github/workflows/deploy.yml, scripts/trigger-deploy.sh and    *)
(* the command that it starts on the host, operators who run the same      *)
(* scripts by hand, the bucket between them, and the host's first boot,    *)
(* which runs the same command by itself.  The command is what HostDeploy  *)
(* models step by step; here it is a download, a check and an installation *)
(* that works or not.                                                      *)
(***************************************************************************)
EXTENDS ArtifactStore

CONSTANTS
  Nothing,  \* what a host without a live version serves
  Boot      \* the first boot, as one who starts a command on the host

Callers == Deployers \union {Boot}

ASSUME HostAssumption == Nothing \notin Deployers \union {First} /\ Boot \notin Deployers

VARIABLES
  phase,     \* phase[d]: the job a deployer is in, or how it ended
  cmd,       \* cmd[c]: the host command that c started, and the version it holds
  live,      \* the version the host serves, or Nothing
  disturbed, \* history: an operator stepped in, or a command was left running
  crossed,   \* history: a command was sent while that of the first boot ran
  unchecked  \* history: a download went on without a checksum

pipeVars == <<storeVars, phase, cmd, live, disturbed, crossed, unchecked>>

Closed == {"green", "built", "red", "cancelled"}
Jobs   == {"gates", "build", "deploy", "poll", "smoke"}
Active(c) == cmd[c].at \in {"tarball", "sidecar", "install"}

\* The host is running, or has yet to be started for the first time.
PipeInit ==
  /\ StoreInit
  /\ phase = [d \in Deployers |-> "idle"]
  /\ \/ /\ cmd = [c \in Callers |-> [at |-> "none", got |-> First]]
        /\ live = Nothing
     \/ /\ cmd = [c \in Callers |-> [at |-> IF c = Boot THEN "ok" ELSE "none", got |-> First]]
        /\ live = First
  /\ disturbed = FALSE /\ crossed = FALSE /\ unchecked = FALSE

Goto(d, to) == phase' = [phase EXCEPT ![d] = to]

-----------------------------------------------------------------------------
(* GitHub's scheduling of the group: one run in progress, one waiting.     *)

\* Fault: cancel-in-progress is true, and the command of the run goes on.
FaultTrigger(r) ==
  /\ phase[r] = "idle" /\ \A q \in Runs : q < r => phase[q] # "idle"
  /\ phase' = [d \in Deployers |->
                 IF d = r THEN "pending"
                 ELSE IF d \in Runs /\ phase[d] \in Jobs \union {"pending"}
                      THEN IF phase[d] = "pending" THEN "cancelled" ELSE "red"
                 ELSE phase[d]]
  /\ UNCHANGED <<storeVars, cmd, live, disturbed, crossed, unchecked>>

\* A tag or a dispatch, numbered in this order; the run that was waiting is
\* cancelled for it.
Trigger(r) ==
  /\ phase[r] = "idle" /\ \A q \in Runs : q < r => phase[q] # "idle"
  /\ phase' = [d \in Deployers |-> IF d = r THEN "pending"
                                   ELSE IF phase[d] = "pending" THEN "cancelled"
                                   ELSE phase[d]]
  /\ UNCHANGED <<storeVars, cmd, live, disturbed, crossed, unchecked>>

\* Fault: no concurrency group.
FaultAdmit(r) ==
  /\ phase[r] = "pending"
  /\ Goto(r, "gates")
  /\ UNCHANGED <<storeVars, cmd, live, disturbed, crossed, unchecked>>

Admit(r) ==
  /\ phase[r] = "pending"
  /\ \A q \in Runs : phase[q] \notin Jobs
  /\ Goto(r, "gates")
  /\ UNCHANGED <<storeVars, cmd, live, disturbed, crossed, unchecked>>

\* preflight and test-gate.
Gates(r) ==
  /\ phase[r] = "gates"
  /\ Goto(r, "build") \/ Goto(r, "red")
  /\ UNCHANGED <<storeVars, cmd, live, disturbed, crossed, unchecked>>

-----------------------------------------------------------------------------
(* The jobs, for an operator the same scripts.                             *)

Upload(d) ==
  /\ phase[d] = "build"
  /\ PutVersioned(d) \/ PutLatest(d) \/ PutSidecar(d)
  /\ UNCHANGED <<phase, cmd, live, disturbed, crossed, unchecked>>

\* Fault: the deploy job does not need the build job.
FaultBuilt(d) ==
  /\ phase[d] = "build"
  /\ Goto(d, "deploy")
  /\ UNCHANGED <<storeVars, cmd, live, disturbed, crossed, unchecked>>

\* A dry run ends here, which its trigger decided and nothing reads before, and so
\* does an operator without --trigger-deploy.
Built(d) ==
  /\ phase[d] = "build" /\ Published(d)
  /\ Goto(d, "deploy") \/ Goto(d, "built")
  /\ UNCHANGED <<storeVars, cmd, live, disturbed, crossed, unchecked>>

\* SendCommand to an instance that runs, though its first boot may not be over;
\* without one, or without permission, it fails.
Send(d) ==
  /\ phase[d] = "deploy"
  /\ \/ /\ cmd[Boot].at # "none"
        /\ Goto(d, "poll")
        /\ cmd' = [cmd EXCEPT ![d].at = "tarball"]
        /\ crossed' = (crossed \/ Active(Boot))
     \/ Goto(d, "red") /\ UNCHANGED <<cmd, crossed>>
  /\ UNCHANGED <<storeVars, live, disturbed, unchecked>>

Poll(d) ==
  /\ phase[d] = "poll"
  /\ \/ cmd[d].at = "ok" /\ Goto(d, IF d \in Runs THEN "smoke" ELSE "green")
     \/ cmd[d].at = "failed" /\ Goto(d, "red")
  /\ UNCHANGED <<storeVars, cmd, live, disturbed, crossed, unchecked>>

\* Fault: the polling has no deadline, it waits for the command to end.
FaultPollTimesOut(d) ==
  /\ phase[d] = "poll" /\ ~Active(d)
  /\ Goto(d, "red")
  /\ UNCHANGED <<storeVars, cmd, live, disturbed, crossed, unchecked>>

\* Exit 3 after 600 s.  The command is not cancelled.
PollTimesOut(d) ==
  /\ phase[d] = "poll"
  /\ Goto(d, "red")
  /\ disturbed' = (disturbed \/ Active(d))
  /\ UNCHANGED <<storeVars, cmd, live, crossed, unchecked>>

\* The smoke test asks for health, not for a version.
Smoke(r) ==
  /\ phase[r] = "smoke"
  /\ Goto(r, "green") \/ Goto(r, "red")
  /\ UNCHANGED <<storeVars, cmd, live, disturbed, crossed, unchecked>>

\* A step fails under set -e, the job's time is over, the runner is lost, or a
\* person cancels the run: what is in the bucket and on the host stays.
Stop(d) ==
  /\ phase[d] \in Jobs
  /\ Goto(d, "red")
  /\ disturbed' = (disturbed \/ Active(d))
  /\ UNCHANGED <<storeVars, cmd, live, crossed, unchecked>>

Operator(o) ==
  /\ phase[o] = "idle"
  /\ Goto(o, "build") \/ Goto(o, "deploy")
  /\ disturbed' = TRUE
  /\ UNCHANGED <<storeVars, cmd, live, crossed, unchecked>>

-----------------------------------------------------------------------------
(* The host: ec2-pull-and-restart.sh, started by SSM or by the first boot. *)

\* user-data fetches the script from the bucket and runs it, or does not find it;
\* how either ends is only logged.
FirstBoot ==
  /\ cmd[Boot].at = "none"
  /\ \E at \in {"tarball", "ok"} : cmd' = [cmd EXCEPT ![Boot].at = at]
  /\ UNCHANGED <<storeVars, phase, live, disturbed, crossed, unchecked>>

\* The script ends, and what it has downloaded goes with it; the status is lost on
\* the first boot.
Exit(c, how) ==
  cmd' = [cmd EXCEPT ![c] = [at |-> IF c = Boot THEN "ok" ELSE how, got |-> First]]

FetchTarball(c) ==
  /\ cmd[c].at = "tarball"
  /\ cmd' = [cmd EXCEPT ![c] = [at |-> "sidecar", got |-> tarball]]
  /\ UNCHANGED <<storeVars, phase, live, disturbed, crossed, unchecked>>

\* Fault: a checksum that differs is only logged.
FaultCheck(c) ==
  /\ cmd[c].at = "sidecar" /\ sidecar # NoSidecar
  /\ cmd' = [cmd EXCEPT ![c].at = "install"]
  /\ UNCHANGED <<storeVars, phase, live, disturbed, crossed, unchecked>>

Check(c) ==
  /\ cmd[c].at = "sidecar" /\ sidecar # NoSidecar
  /\ IF sidecar = cmd[c].got
     THEN cmd' = [cmd EXCEPT ![c].at = "install"]
     ELSE Exit(c, "failed")
  /\ UNCHANGED <<storeVars, phase, live, disturbed, crossed, unchecked>>

\* No sidecar, or any failure to fetch it: a warning.
SkipCheck(c) ==
  /\ cmd[c].at = "sidecar"
  /\ cmd' = [cmd EXCEPT ![c].at = "install"]
  /\ unchecked' = TRUE
  /\ UNCHANGED <<storeVars, phase, live, disturbed, crossed>>

Install(c) ==
  /\ cmd[c].at = "install"
  /\ live' = cmd[c].got
  /\ Exit(c, "ok")
  /\ UNCHANGED <<storeVars, phase, disturbed, crossed, unchecked>>

\* A failure before the swap or a rollback leaves the old version, a failure
\* after the swap the new one, and one between its two moves none: the endings
\* that AtomicDeploy, which HostDeploy implements, promises of a command that
\* runs alone.
HostFails(c) ==
  /\ Active(c)
  /\ Exit(c, "failed")
  /\ live' \in IF cmd[c].at = "install" THEN {live, cmd[c].got, Nothing} ELSE {live}
  /\ UNCHANGED <<storeVars, phase, disturbed, crossed, unchecked>>

-----------------------------------------------------------------------------
Job(r) ==
  \/ Admit(r) \/ Gates(r) \/ Upload(r) \/ Built(r) \/ Send(r)
  \/ Poll(r) \/ PollTimesOut(r) \/ Smoke(r)
Host(c) == FetchTarball(c) \/ Check(c) \/ SkipCheck(c) \/ Install(c) \/ HostFails(c)

PipeNext ==
  \/ \E r \in Runs : Trigger(r) \/ Admit(r) \/ Gates(r) \/ Smoke(r)
  \/ \E o \in Operators : Operator(o)
  \/ \E d \in Deployers : \/ Upload(d) \/ Built(d) \/ Send(d) \/ Poll(d)
                          \/ PollTimesOut(d) \/ Stop(d)
  \/ FirstBoot
  \/ \E c \in Callers : Host(c)

\* GitHub runs what it has admitted and the polling has a deadline.  Nothing
\* is asked of the host, which may hang, or of operators.
PipeSpec ==
  /\ PipeInit /\ [][PipeNext]_pipeVars
  /\ \A r \in Runs : WF_pipeVars(Job(r))

-----------------------------------------------------------------------------
\* While a run deploys, the bucket holds its version with its checksum, though
\* earlier runs may have died between their puts, unless an operator publishes
\* as well: the group serialises runs and the build job repairs a torn pair.
LatestIsTheRuns ==
  (\A o \in Operators : phase[o] = "idle") =>
    \A r \in Runs : phase[r] \in {"deploy", "poll", "smoke"} =>
                      tarball = r /\ sidecar = r

\* The host takes no lock, yet as long as no operator sends a command and no
\* polling ends before its command, two commands overlap only where one is that
\* of the first boot: the pipeline's own never do.
OneCommandAtATime ==
  ~disturbed => \A c, e \in Callers :
                  Active(c) /\ Active(e) => c = e \/ (crossed /\ Boot \in {c, e})

\* A version whose publication stopped half way never serves, whoever deploys
\* next, as long as every download could fetch a sidecar.
ServedWasFinished ==
  live \in Deployers => Published(live) \/ unchecked

\* Every run that is asked for ends, with a hanging host too: the polling gives
\* up, so that the group never blocks the next release for ever.
RunsEnd == \A r \in Runs : phase[r] = "pending" ~> phase[r] \in Closed

Abs == INSTANCE AtomicRelease WITH
  Versions <- Deployers,
  offered  <- {First} \union {d \in Deployers : puts[d] > 0},
  serving  <- live,
  verdict  <- [d \in Deployers |-> IF phase[d] \in Closed THEN phase[d] ELSE "open"],
  booting  <- cmd[Boot].at # "ok",
  alone    <- ~(disturbed \/ crossed)

\* The pipeline implements AtomicRelease: a green run means that the version it
\* built is the one that serves, and but for the first boot a version goes live
\* only during its run, unless an operator, a command left behind or the first
\* boot's interferes.
ReleasesAreAtomic == Abs!ReleaseSpec
=============================================================================
