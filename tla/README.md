# ICONIA-CI in TLA+

ICONIA-CI is the operations repository of the ICONIA service: shell and PowerShell
scripts that build, publish and install three services (server, ai, admin) on EC2,
Terraform with three Lambda functions, GitHub workflows, Kubernetes manifests, a
policy site and a Python stress-test harness.  The program logic worth checking is
in the scripts that run on the hosts, in the Lambdas and in the harness: each is
short, but each is a sequence of steps on state that others change too, and none of
them takes a lock.

This directory holds the TLA+ modules of those parts, the TLC configurations that
check them and the proofs that TLAPS checks.

## Running

    tlc -workers 2 -config MCHostDeploySerial.cfg MCHostDeploy.tla
    tlc -workers 2 -config MCDeployPipeline.cfg MCDeployPipeline.tla
    tlapm HostDeploy_proofs.tla      (and the other seven *_proofs modules)

Each configuration names its module by its prefix: `MC<Module><Case>.cfg` goes with
`MC<Module>.tla`.  `PROJECT.json` lists every run, what it checks and what is
expected, the source lines behind every definition, the hazards and the findings.

## Inventory

### Host deploy: `pull_one` (scripts/ec2-pull-and-restart.sh, deploy/systemd)
- State: `/opt/iconia/<svc>`, its `.old.<ts>` and `.failed.<ts>` siblings, the
  systemd service's process, the database schema; per run of the script `$TMP`,
  `$TS` and the place in the script.
- Operations: download and checksum, swap by two `mv`, `npm ci`, cleanup of old
  backups, `prisma migrate deploy`, restart, health check, rollback by two `mv`.
- Interactions: started by first boot (user-data), by SSM (trigger-deploy, the pipeline)
  and by hand, with nothing that keeps the three apart; reads what publishing put in S3;
  migrates the shared database.
- Hard: `set -e` exits and kills between any two commands; no lock, so runs overlap;
  `$TS` has a granularity of a second; `mv` onto a directory that exists nests;
  cleanup sorts by an mtime that tar kept from the build; systemd respawns at any time.
- Correct when: the process runs the live tree; the backup of a deploy survives until
  its rollback may need it; success is only said of the build that was fetched; a
  rollback restores exactly what was there.

### RDS password rotator (terraform/lambda/rds_password_rotator.py)
- State: the secret's versions with the labels AWSCURRENT, AWSPREVIOUS, AWSPENDING;
  the instance's password, pending modification and status.
- Operations: createSecret, setSecret, testSecret, finishSecret, each idempotent by
  intent, each two or three API calls.
- Interactions: Secrets Manager invokes and retries, on schedule or when someone calls
  rotate-secret; RDS applies the change minutes later; hosts read AWSCURRENT.
- Hard: repeated, overlapping, late and dying invocations; the status "available" before a
  queued change is picked up; a rotation that starts before the last change is applied;
  rotation switched off half way.
- Correct when: the password that opens the database is always found in the secret;
  AWSCURRENT never names a password nobody asked RDS for; a rotation that stored its
  password is carried through.

### Credential delivery (inject_database_url, inject_all_secrets, pull_bootstrap)
- State: `/etc/iconia.{server,ai,admin}.env`, the environment the processes were
  started with, the nginx configuration and its backups.
- Operations: fetch secrets, delete and append lines in the env files, render, test,
  restore and reload nginx.
- Interactions: between the rotator and the server process; the migration of a deploy
  uses the same file.
- Hard: the env file is a cached copy that only `all` and `_bootstrap` refresh; the
  delete and the append are two steps; nginx's file is replaced first and tested after.
- Correct when: a deploy after a rotation leaves file, process and database in step.

### EFS user-space provisioner (terraform/lambda/efs_userspace_provisioner.py)
- State: access points (user, uid, client token), the directories they leave behind.
- Operations: ensure (find, probe up to ten uids, create), delete, reconcile a list.
- Interactions: SNS and EventBridge deliver; EFS enforces the client token.
- Hard: repeated, reordered, lost and overlapping deliveries; check-then-act on the uid.
- Correct when: one access point for each user; no two users share a uid; a user keeps
  the uid that owns its files.

### Artifact publishing (scripts/build-and-upload.*)
- State: for each service `<version>.tar.gz`, `latest.tar.gz` and its `.sha256`.
- Operations: three puts in that order; the puller's two gets.
- Interactions: called by the build job and by operators; read by every host.
- Hard: no transaction over the puts or over the gets; two publishers; a publisher that
  dies between two puts; a sidecar that cannot be fetched is a warning only.
- Correct when: a host never serves a build whose publication stopped half way.

### Deploy pipeline and trigger (.github/workflows/deploy.yml, trigger-deploy, smoke)
- State: the jobs of each run, the concurrency group, the SSM command and its status.
- Operations: trigger, gates, build, deploy (send, poll), smoke; the same scripts from an
  operator's shell.
- Interactions: writes the bucket, starts `pull_one` on the host.
- Hard: a poll that gives up after 600 s while the host runs on; a lost runner; operators
  the group knows nothing of; a host that is picked while its first boot still runs the
  same script; the one host of an auto scaling group that is deployed to.
- Correct when: a green run means that its own build serves, and runs end.

### Quota auto-lift (terraform/lambda/gcp_quotas_auto_lift.py)
- State: the effective quota and the preferences under review, at Google.
- Operations: a weekly request of baseline times multiplier under a ceiling.
- Hard: overlapping retries; a reply that is lost; a review that takes days while the
  limit changes; rounding; settings that do not convert.
- Correct when: never above the ceiling, never a request that does not raise what was
  read, and the limit gets there.

### Stress-test harness (stress-test/)
- State: one asyncio process with three tasks (load, admin, Gemini), two deadlines, a
  thread pool, lists of results, and the files of the run's folder.
- Operations: draw and make events, inject chaos, send with retries, batches of Gemini
  calls under a token budget, admin page fetches, writing the reports; regenerating them
  from the files; triggers and agents that judge the figures.
- Hard: a budget tested before an await and charged after it; threads that outlive their
  time-out; a result assembled from several attempts; a memory guard that forgets half of
  the ids; kills between files; two formulas for the same percentile.
- Correct when: every event has one result, the budget is overshot by a known amount
  only, the run ends with a report that agrees with its summary, and the judgements do
  not contradict each other.

### Not candidates
Terraform resources, Kubernetes manifests, the policy site, documents and licence lists
are declarative.  The preflight and catalogue checks are stateless text scans with
tests of their own; the first-time setup scripts are interactive wrappers around the
AWS CLI.  They are listed in `PROJECT.json` with their reasons.

## What is modelled

### HostDeploy
An action is one command of `pull_one`, the grain at which another invocation, a
`set -e` exit, a kill or a respawn can come in between.

| Model | Code |
|---|---|
| `pc[i]`, `tar[i]`, `ts[i]` | the place in the script, the tarball in `$TMP`, `$TS` (line 36) |
| `dir` | trees under `/opt/iconia` by name; a tree has a version, whole or broken `node_modules`, an mtime and what `mv` nested in it |
| `proc` | what the process was started from |
| `schema` | the highest migration applied |
| `before[i]` | history: the live tree when `i` began |
| `Init` | the empty directory that user-data makes before its first pull (`ec2-bootstrap/user-data.sh.tftpl:92`), or a build that was installed before |
| `Download` .. `CheckOldFails` | lines 113-206 in their order |
| `DownloadFails`, `MvAborts`, `NpmCiFails`, `CleanupFails`, `MigrateFails`, `RestartFails` | the exits of `fail` and of `set -euo pipefail` |
| `Kill`, `Respawn` | SSM cancel or shutdown; `Restart=always` or a reboot |

`mv` is modelled by what it does: a rename onto a free name, a move into a directory
that exists, an error if that directory already holds the name.  `/opt/iconia` and
`$TMP` are taken to be on one file system, so that a single `mv` is atomic.  The
cleanup is modelled with its sort by mtime, and with the exit of line 158, whose `ls`
fails under `pipefail` when it finds no `.old.*` (`CleanupFails`).  Since the directory
exists from the first boot on, the first deploy has something to back up (`HasBuild` tells
a build from the empty directory), and that exit takes a swap without a backup: an
overlapping rollback, in deploy_concurrent.  The health check may fail on a version
that works (thirty probes may be too few) and passes only on one that serves the
schema the database has.  The script's ai and admin services have no migration; that is
`SkipMigrate`, which the server's run takes too when it has no env file.

`Serial`, `UniqueTs` and `FreshBuilds` are the three circumstances that the properties
depend on and that the code does not enforce: one invocation at a time, no two in one
second, builds newer than all that is installed.

`AtomicDeploy` is what a deploy promises to whoever starts it: it happens at once, when it
ends, and leaves its build live and serving (`done`), or what it found (`rolledBack`,
`rollbackFailed`), or its build for want of a backup (`noBackup`), or either if it stopped
half way (`aborted`), or perhaps nothing if it was killed (`killed`).  HostDeploy
implements it (`DeploysAreAtomic`) under the mapping `live` = what the invocation under way
found (`before[i]`), or else what is in `/opt/iconia/<svc>`; `serves` = `proc`; `state` =
`pc` with every place in the script read as "busy"; `build` = `tar`.

### PasswordRotation
An action is one API call of the four steps.  `value`, `cur`, `prev`, `pend`, `enabled`
are the secret; `rds` is the instance, with the change requested and its phase
(queued: reported as "available", modifying, applied); `lam[l]` is an invocation with
what it has read so far (`got`, `saw`).  `Raise` is an API error, the deadline of
testSecret or the Lambda's timeout at any point.  Secrets Manager and RDS are external:
they are modelled from what the code relies on (steps in order, each at least once, a
label moved only from the version it is on, a refused modification while one is being
applied).  A rotation may start whenever AWSPENDING is not on a version of its own: neither
the rotator nor Secrets Manager waits for RDS or for calls that are still running, and
`rds-password-rotation.tf:169` tells how to start one by hand.  A step of an earlier token
that has passed may be delivered once more (`Called`).  `overlap` is the history of these
two: a rotation started with a change queued or a call running, or a late call came.

`PasswordHandover` is the promise to the database's clients: passwords are handed over one
at a time and never backwards, for as long as rotations are kept apart (`orderly`); the
step that ends that is `Overtake`.  PasswordRotation implements it (`HandsOver`) under the
mapping `issued` = `rot`, `named` = `cur`, `asked` and `inForce` = the rotations that made
`rds.target` and `rds.password`, `orderly` = `~overlap`.  So what the rotator gives is a
promise to an operator who waits, and the properties name that premise.  Without it the
database can be locked out: drop `~overlap` from `DatabaseRecoverable` and TLC finds a
second rotation that is started while the first one's change is queued, finishes early as
in rotation_early, and leaves AWSCURRENT and AWSPREVIOUS on the two new passwords with the
database still at the seeded one.

### CredentialSync
EXTENDS PasswordRotation with the host: the env file, the process's environment and
the deploy's `inject_database_url` (fetch, delete, append), `prisma migrate deploy`,
restart, failures, reboots and respawns.  `env = None` is the file between the delete
and the append.  `asOf` and `synced` are history variables that say which rotation a
completed deploy belongs to.

### EfsProvisioner
Any invocation for any user or list may come at any time and any number of times, which
covers repeated, reordered and lost deliveries.  Find, probe, create and delete are
separate steps; the paginated describe is one read.  A client token in use makes
create fail.  `Mount` makes the directory with the first uid and nothing removes it.
`raced` is the history of users whose access point was made while another ensuring
invocation ran.

### ArtifactStore, DeployPipeline, AtomicRelease
`ArtifactStore` is one service's keys: `tarball` and `sidecar` are the versions in
`latest.tar.gz` and `latest.tar.gz.sha256`, `puts[d]` how far deployer `d` is with its
three puts (`build_one`).  A version is named by the deployer that built it.

`DeployPipeline` EXTENDS it.  `Callers` are the deployers and `Boot`, the host's first boot.

| Model | Code |
|---|---|
| `phase[r]`, `Trigger`, `Admit` | the runs of deploy.yml and its concurrency group: one in progress, one waiting, the waiting one cancelled for a newer one |
| `Gates`, `Upload`, `Built`, `Send`, `Poll`, `PollTimesOut`, `Smoke` | the jobs and the scripts they call, in `needs` order; a dry run ends at `Built` |
| `Stop` | a failing step, the job's time limit, a lost runner, a cancellation |
| `Operator` | a person who runs build-and-upload or trigger-deploy from a shell |
| `FirstBoot` | `user-data.sh.tftpl:237-246`: a new host runs the same script by itself and only logs how it ended (`|| echo`); `trigger-deploy.sh` may send it a command as soon as it is running (`Send`) |
| `cmd[c]`, `FetchTarball` .. `HostFails` | the command on the host: two gets, the checksum or the warning without one, the installation |
| `disturbed`, `crossed`, `unchecked` | history: an operator stepped in or a command was left running; a command was sent while the first boot's ran; a download went on without a checksum |

The host's `Install` and `HostFails` are the endings that AtomicDeploy has: its build live,
what was there, either after a failure on one side of the swap, and `Nothing` after a kill
between the two `mv`.  Those are the endings of a command that runs alone; `crossed` and
`disturbed` mark where one may not.  `OneCommandAtATime` says what the pipeline provides of
HostDeploy's `Serial`: without an operator and without a poll that gave up, the only
overlap is that of the first boot with a command that was sent during it.  Nothing in the
code excludes that one, so `Serial` stays an assumption of HostDeploy's results.

`AtomicRelease` is the promise: a version is offered, serves, and its release ends once,
green only with that version serving, built only with it in the bucket, cancelled only
with nothing of it there; and the host serves nothing (`Outage`) only while some release is
still open, unless another hand was there.  `DeployPipeline` implements it
(`ReleasesAreAtomic`) under the mapping `offered` = the versions with at least one put,
`serving` = `live`, `verdict` = the closed phases, `booting` = the first boot's command has not ended, `alone` = neither
disturbed nor crossed.  `BootUp` is the step of the first boot: it ends with a version that
was offered, or none, or what serves already.

### QuotaLift
`lam[l]` is an invocation between its reading of the limit and its request; `pending` are
the preferences under review with the baseline each was computed from, so that approvals
may come in any order and late.  `Requested` is `min(int(baseline * multiplier), ceiling)`
with the multiplier as a fraction.  `parses` says whether `float()` and `int()` take the
settings: the two conversions stand before the `try` (lines 178-179), so that with a
ceiling of `100.5`, which the variable's type allows, every invocation raises before it
reads the quota (`BadSettings`).  `GiveUp` are the other ways out before the request,
`LoseReply` those at the request, which may or may not have reached Google.  What the
handler publishes is left out: metrics are best effort, and nothing reads them.

### EventMix, RunClock, LoadLoop, GeminiLoop, StressRun
One stress run, a module for each task and one for the process.

| Module | Code |
|---|---|
| EventMix | the sixteen presets of `make_simulator`, and the two weighted draws.  All ratios are whole hundredths, so a draw `d` of 0..99 stands for the interval from `d`/100 up to `(d+1)`/100 of `random.random()`, on which `_pick_pattern` is constant |
| RunClock | the two deadlines: the stream's, from the preset's duration, and that of main() |
| LoadLoop | `stream`, `_make_event`, `maybe_inject`, `send` with its retries, `aws_results`; `seen` is the memory guard's set, which keeps an arbitrary half |
| GeminiLoop | `run_gemini_loop` and `GeminiValidationWorker.call`: the budget test, the executor's queue and threads, the time-out that cancels a queued request and leaves a running one its thread (`stuck`), replies that raise after they were billed (`unpaid`) |
| StressRun | main(): gather, then the five files, each emptied by its opening and whole at its closing; kills; `generator.py` run alone on what it finds |

Latencies, payloads and waits are not in these modules.  A preset's rate only changes how
many events fit before the deadline, which is nondeterministic here.

### Reports, Agents
`Reports` has `percentile`, `compute_stats` and `detect_bottlenecks` as operators over
`rs`, which grows by one result at a time so that every short list is a state.  A
percentile is kept times 100, which makes the linear interpolation exact.  `sorted(...)[k]`
is the k-th latency by its definition (`Sorted`): the least that has more than k results no
slower than it.  `Agents` adds the triggers that read these statistics and the agents that
judge them; an agent is a severity and a set of actions.  `evaluate_triggers` also reads
`gemini_stats["invalid_rate"]` and the app's counts, which nothing in the repository
computes: those two triggers and the agents on replies and app counts are left out.

## Runs

| Run | Expected | Shows |
|---|---|---|
| deploy_serial | pass | three deploys one after another with every failure, kill and respawn: type, backup, live tree, exact rollback, AtomicDeploy is implemented |
| deploy_concurrent | pass | two overlapping deploys, shared `$TS`, old builds: the process is the live tree's outside swaps and aborts |
| deploy_failure | violation | a failure after the swap is not rolled back |
| rotation | pass | two rotations, the second perhaps too early, two overlapping rotators, late steps, two failures: as long as rotations are kept apart no lockout, PasswordHandover is implemented, and completion under fairness |
| rotation_early | violation | finishSecret before the password is in force |
| credential_sync | pass | one `all` deploy after a rotation is enough until the next |
| credential_reboot | violation | a reboot does not pick up the rotated password |
| efs_provisioner | pass | two overlapping invocations, three users, collisions |
| pipeline | pass | two runs, an operator and the first boot: the bucket and the host stay in step with the run, which commands may overlap, runs end, AtomicRelease is implemented |
| quota_lift | pass | two overlapping invocations and late reviews: raises only, the limit ends at the ceiling |
| stress_run | pass | a whole run in every preset: one result for each event, the budget's overshoot, a report that agrees and is written |
| agents | pass | every short list of results: percentiles split, report, triggers and agents agree |

What some of them rest on:

- `LatestIsTheRuns` holds although a run may die between its puts, because the next run
  repairs the pair before it deploys; an operator who publishes breaks it, so it speaks
  of operators that did nothing.
- `ServedWasFinished` holds with operators and torn pairs, as long as every download
  found a sidecar: a pair that does not match fails the checksum.
- `DatabaseRecoverable`, `CurrentWasRequested`, `HandsOver`, `RotationCompletes` and
  `OneDeployIsEnough` speak of rotations that are kept apart (`~overlap`); of
  the states after an overlap nothing is claimed but types.
- `OneCommandAtATime` and `ReleasesAreAtomic` do not claim that a host is free of overlaps:
  they name the three ways to one (an operator, a command left running, the first boot).
- `RatiosAreShares`: the comment of `virtual_events.py:41` says of the ratios "sum = 1.0".
  That is not so for five presets: the ratios of chaos add up to 98, those of retry-storm
  and failure-recovery to 105, of data-consistency and burst to 110.  The property says of
  every preset, these included, how many of the hundred draws each pattern gets: the
  patterns at the end of the order lose what is above 100 (data-consistency never draws
  burst, reconnect and abnormal_state; burst gets 25 of its 30 and the other two nothing),
  and the two points that chaos lacks go to normal.
- `OvershootBounded`: the budget is a stop sign read before a batch of four; what is
  charged passes it by less than one batch, what is billed by one call more for each call
  that raised or timed out.
- `SlowRunIsExplained` relates two percentile formulas, the report's over all targets
  and the agent's over one.  It needs 100 to be a multiple of 100 minus the percentile, as
  for the code's 99 (`ReportAssumption`).
- `LimitIsLifted` needs settings that convert, or no invocation ever asks, and a multiplier
  of 2 or more: `int(1 * 1.5)` is 1, so that a limit of 1 would stay; the default of 2 is
  on the safe side.

### Bounds
- deploy_serial: three invocations and three builds, of which v2 carries a migration
  that v1 cannot serve and v3 never becomes healthy.  Three is enough for a deploy to
  meet a backup and a failed copy of two earlier ones.  `KeepBackups = 1`, where the
  code has 3, so that cleanup deletes within three deploys.
- deploy_concurrent: two invocations; every pair of commands interleaves.
- rotation: two tokens after the seed, so that a second rotation meets the change, the
  calls and the labels of the first; two invocations; at most two that raise or die
  (`MaxFailures`).  The constraint `Orderly` checks a state in which an overlap of
  rotations has just happened and goes no further: every property of the run but the types
  is of rotations that are kept apart, `RotationCompletes` holds of a behaviour that gets
  there, and `Overtake`, the step that does, is checked.  credential_sync has no
  constraint and goes on, and the theorems have no bound.
- credential_sync: one rotator invocation at a time, as its overlaps are checked in
  rotation; two rotations, one failure.
- efs_provisioner: four uids, two probes (10 in the code), two of three users collide
  and wrap around, lists of at most two.
- pipeline: two runs and one operator, each of whom publishes and deploys at most once,
  and a host that boots at any time or has booted; the second run meets what the first left
  behind, at every point where it can stop.  Runs are numbered in the order in which they
  are triggered, as GitHub numbers them, so that a state and its mirror image are not both
  explored.
- quota_lift: two invocations, each any number of times; limits 1, 2 and 9 around a
  ceiling of 7, which twice 2 reaches in two steps, the second of them cut; one change by
  the operator (`MaxChanges`), two failures or rejections (`MaxTrouble`).
- stress_run: the workloads of `MCStressRun`, each of which lets one part of the run
  loose (four events with duplicates; a burst with failing requests; retries with both
  errors; two Gemini batches; a little of all with admin pages; nothing, for each preset).
  Bursts of 2 (5..20), 2 tries (3), a memory guard at 2 keeping 1 (1000, 500), batches of
  2 (4), a budget of 2 with calls of at most 2 tokens, three threads, 2 results kept in
  requests.json (10000), one regeneration.
- agents: four results; thresholds scaled to them in the order the code has
  (`AgentAssumption`); the high percentile is 75, at which one of four results is the tail
  (with 99 they would have to be a hundred) and which differs from the median.

Symmetry is used over invocations, in the deploy runs and efs_provisioner, and never with
liveness: the refinement checked with it (`DeploysAreAtomic`) is a safety property.  `CHECK_DEADLOCK
FALSE` stands where the system comes to rest: all deploys have ended, every run and
operator is done, Google has nothing to review and the bound on changes is reached, the
stress process has ended, the lists are full.

### Fairness
- `RotationCompletes` is checked under `FairSpec`: weak fairness of every Lambda's own
  steps (AWS runs what it has started or times it out) and of RDS (a queued change is
  picked up and applied), strong fairness of the invocation of the step that has not
  passed (Secrets Manager retries a rotation until it succeeds; strong, because while a
  repeated invocation runs the next one cannot start).  It is conditional on rotation
  not being switched off for good, which an operator may do.  Failures are bounded by
  `MaxFailures`.
- `RunsEnd`: weak fairness of each run's jobs, of which the poll's deadline is one.  GitHub
  admits a waiting run and carries on one in progress.  Nothing is asked of the host, which may hang, of SSM or of operators.
- `StreamStops`, `ReportWritten`: weak fairness of the event loop's tasks, of the clock
  and of the time-out of each HTTP or Gemini call.  Nothing is asked of the Gemini
  provider; the report is written with every thread of the pool stuck.  The process
  itself may then wait for its threads for ever, which `Exit` models.
- `LimitIsLifted`: weak fairness of the cron's invocations and of approvals.  The second
  is the assumption of the property ("if Google grants what it is asked") and not
  something the code can see to.

## Findings
Each is a run that TLC must find violated; the quoted line is in `PROJECT.json`.
1. **Failure after the swap** (deploy_failure).  Only a failed health check rolls back.
   A failing `npm ci` or migration leaves the new tree live.
2. **Early finish** (rotation_early).  "available" is also the status before the change
   is picked up.
3. **Reboot** (credential_reboot).  The docstring's "or an EC2 reboot" does not hold.

Six more facts have no run of their own.  A rotation started too early may lock the
database out (see PasswordRotation).  The pre-check of the rotator, by its comment
(`rds_password_rotator.py:165`) that "this version is the one being rotated", asks for any
label: a late finishSecret of an earlier token moves AWSCURRENT back.  The ratios of five
presets do not add up to the 1.0 of `virtual_events.py:41` (see `RatiosAreShares` above).
With `Serial` off, an overlapping swap nests one tree in another, and the second deploy
reports the first one's tree.  With `FreshBuilds` off, cleanup removes the backup of the
deploy under way, for the sort is by the build's mtime.  A
colliding user who is deleted and made again may get another uid than the one that owns
its directory; `FarHashKeepsUid` says who cannot.

## What is proved
Eight modules hold the theorems.  None of them bounds the sets: invocations, builds, users,
runs, lambdas and workloads are any sets, finite or not, and the bounds of the models
(`MaxRotations`, `MaxChanges`, `MaxAgain`, ...) are any numbers.  The assumptions on the
constants are the named ones of the modules, and each run evaluates those of its module.
Every inductive invariant below was an INVARIANT of TLC on the instances of the runs
before it was proved.

### HostDeploy_proofs
For any number of invocations, builds, stamps, schemas and backups kept:

- `TypeCorrect`: `Spec => []TypeOK`.  Strengthened by `Begun`: an invocation under way
  has a `$TS` that the clock has handed out.
- `RunningLive`: `Spec => []RunningIsLive`, with no assumption on overlap, names or
  mtimes.  It is inductive by itself: a command that changes the live tree either
  leaves its invocation inside `Swapping` or aborted, or does not change what a process
  would be started from; a restart or respawn makes both equal.
- `RollbackIsExact`, `LiveTreeStays`, `DoneIsTheBuild`: the properties `RollbackRestores`,
  `LiveTreePresent` and `SuccessIsTheBuild`, for `Serial /\ UniqueTs`.
- `BackupSurvives`, `UnhealthyIsRolledBack`: `BackupKept` and `UnhealthyRollsBack`, for
  `Serial /\ UniqueTs /\ FreshBuilds`.
- `DeploysAreAtomicAlways`: `Spec => DeploysAreAtomic` for `Serial /\ UniqueTs`.  It is the
  sum of the others: a deploy that nobody overlaps is one step of AtomicDeploy and otherwise
  stutters there, so that all a caller can observe of thirty commands is one of six endings.
  `UnhealthyRollsBack`, and what `SuccessIsTheBuild` says but for nested trees, follow from
  it, so that no run checks these two apart.

None of the last six is inductive.  The invariant `SerialInv` says: at most one
invocation is active (`Alone`), names of stamps not yet handed out are free (`Unused`),
no mtime is ahead of the clock (`Dated`), and for the active invocation what its place
in the script says of its own backup (`Own`).  With fresh builds it adds that the live
tree is the newest (`DstNewest`) and the backup is the newest of the backups
(`NewestOld`): what cleanup deletes depends on the mtimes of them all, the newest has
none listed before it, and with `KeepBackups` at least 1 it is not expired.  Without
fresh builds cleanup may take the backup, but then `[ -d ]` finds none and the rollback
is not begun, which is why the others do without.  `DeployInv` adds what the
invocation has installed so far (`Built`) and the live tree itself; `AtomInv`, for the
refinement, that nothing is fetched before the download and nothing restarted in a rollback
that found nothing (`Fetched`).  There is a lemma for
each group of commands and a final case split on `Next`.

Each assumption of `BackupSurvives` is necessary: with any one of the three switched
off, and the other two kept, TLC finds `BackupKept` violated by three invocations with
`KeepBackups = 1` (`MCHostDeployConcurrent.cfg` with that flag and `INVARIANTS
BackupKept`).

### CredentialSync_proofs
For any number of rotations, invocations, failures, deploys and reboots, with no
assumption but that `None` is not a password.  The first part is about PasswordRotation
alone:

- `TypeCorrect`, `NeverLockedOut` (`DatabaseRecoverable`), `CurrentIsReal`
  (`CurrentWasRequested`).  The last two hold up to the first `overlap`; `Inv` below says
  nothing after it.

The two safety properties are not inductive: a step that moves a label relies on what
earlier invocations did and this one has only seen.  `Inv` says which versions have a
value and that AWSPENDING is on the rotation's as soon as that has one (`Stored`); for
each invocation, that it is past the steps its own step follows, and that the password or
label it carries from its last call is still the one in the secret (`Working`); and for
the instance, that once setSecret has passed it was asked for the rotation's password,
that it was asked for one labelled AWSCURRENT or AWSPENDING, and has that or the one
before (`Asked`).  The argument is that within a rotation labels move only to the right
version, so that a repeated call asks again for what was asked.

- `PasswordsAreHandedOver`: `Spec => HandsOver`.  `HandoverInv` adds to `Inv` that a version
  holds a password of the rotation it belongs to (`Stamped`).  There is a lemma for each of
  the steps that the clients see: the start of a rotation, the modification asked for, the
  move of AWSCURRENT and RDS applying what it was asked.  A rotation that starts too
  early, or a late call, is `Overtake`, and after it every step maps.

- `SyncTypeCorrect`, `DeployedOnce` (`OneDeployIsEnough`) are about the composition with
  the host.  `SyncInv` adds that the deploys of record name rotations that have begun
  (`Past`), and `Carried`: if the deploy under way fetched after the rotation, or one has
  gone through since, the rotation is over (`Over`), and what was fetched, the env file
  and the server have its password at the commands where they should.  `OverStays` is the
  lemma between the two: as long as rotations are kept apart, no step of the rotator undoes a
  rotation that is over until the next one starts.

### EfsProvisioner_proofs
For any users, hash, directory of uids, retries, page sizes and invocations:
`TypeCorrect`, `OnePointEach` (`OnePerUser`), `SharingNeedsARace`
(`SharedUidsCameFromARace`), `FarHashIsStable` (`FarHashKeepsUid`).  What makes them
inductive is about the time between a read and the create that relies on it.  `Careful`:
if the uid an invocation is about to create with has been taken since it probed, all who
have it were made in a race and so will this one be.  `Unmade`: an ensure that nobody
overlapped still finds no access point of its user, and is still at its first candidate
if no other user's probes reach that.  `Alone`: such an ensure is the only one there is.
`OnePerUser` needs none of them: it rests on the client token.  `FarHashKeepsUid` needs
also that every uid is one of its user's probes (`Probed`) and what the directory's owner
is (`Stays`).

### DeployPipeline_proofs
For any set of run numbers and any operators (`StoreAssumption` and `HostAssumption` only
keep the names of versions and of the first boot apart):

- `BucketIsTheRuns` (`LatestIsTheRuns`), `OnlyTheBootOverlaps` (`OneCommandAtATime`),
  `ServesFinished` (`ServedWasFinished`): the three invariants of the run.
- `Implements`: `PipeSpec => ReleasesAreAtomic`.

The invariant `Inv` has a part for each thing the code relies on without saying so: one
run in progress and one waiting (`Group`), the puts made in each phase (`Progress`), the
command of each phase and that one left running means `disturbed` (`Commanded`), whose
puts the two keys hold (`Bucket`), that what a command holds was offered and what it
installs finished (`Holding`), and that an undisturbed run's command holds its own version
(`Own`).  `OnlyTheBootOverlaps` needs the first and the third, `BucketIsTheRuns` the first
two and `Bucket`.  The refinement has a lemma for each kind of step: a trigger is the
cancellation of the run that waited, the first put an offer, the end of a job the end of
its release, an installation the serving of an open release's version, a kill in the swap
an outage, an operator the interference, the end of the first boot's command `BootUp`.
None of this discharges the premise `Serial` of HostDeploy's theorems: it holds of a host
whose first boot is over before a command is sent, that no operator deploys to and whose
commands end before their polls.

### StressRun_proofs and GeminiLoop_proofs
Both are about the steps of the whole `StressSpec`, so that the tasks, the deadlines, the
writing of the report and the kills interleave in them as in the runs.

- The load task, for any workload, burst sizes, memory guard, retries and chaos:
  `NothingIsDropped` (`EveryEventRecorded`), `DuplicatesAreReal` (`DuplicatesRepeat`),
  `FailuresHaveReasons` (`FailuresExplained`).  `LoadInv` adds to the three the types, that
  a burst fits into what is left of the events (`Bounded`), and what the guard remembers
  (`Remembering`): an id that can be drawn again has an entry or is the one in hand, and
  the guard never forgets everything, which needs `KeepSeen` at least 1.
- `RetriesAreCounted` (`RetriesAdd`), for any number of tries.  A retry is a pair of a result
  and one of its attempts but the last; a new result adds as many pairs as it had tries, those
  of the event in hand are counted by `send.tries`, and `Retrying` says that an event not
  being sent has none.
- The mix, for every preset: `MixIsKept` (`RatiosAreShares`).  It rests on the preset never
  changing during a run (`MixInv`) and on lemmas for any eight whole ratios: a draw ends
  on the pattern whose interval of running totals it is in (`Picked`), an interval is as wide
  as what of it lies below 100 (`Width`), and what no interval has (`Rest`) goes to the first
  pattern of the order.
- The Gemini task, for any budget, batch, pool and workload: `BudgetIsNearlyKept`
  (`OvershootBounded`), `ChargesAreReported` (`TokensReported`).  `OvershootBounded` is not
  inductive: while calls are at work, each finished call of the batch has cost at most
  `MaxCall` on top of a sum below the budget (`Charged`), and every thread that is stuck
  may still bill one call (`Billed`).
- The report, for any cut of requests.json, kills at any point and any number of
  regenerations: `ReportsAgree` (`ReportAgrees`).  `ReportInv` says what the files have of
  the first run (`FirstRun`), that a summary and a requests.json that are both whole agree
  unless something was cut (`Between`), and that a regeneration writes neither of them and
  has read what is there (`LaterRun`).
- `RunTypeCorrect` (`StressTypeOK`): all of the above together with the size of the pool
  (`Pooled`).

### QuotaLift_proofs
For any multiplier, ceiling and number of invocations: `OnlyRaises` (`RequestsAreRaises`),
strengthened by what an invocation is about to send (`Sending`).

### Agents_proofs
For any results.  The three invariants need no strengthening but the types.

- `QuietIsQuiet` (`QuietReportIsQuiet`): the proof is about thresholds, and shows which orders
  among them the agreement rests on.  Those are `AgentAssumption`: the report warns of 429s no
  later than the load agent and that no later than the trigger (10, 50, 100), of server
  errors no later than the failure agent (5, 10).
- `PercentilesAreRight` (`PercentilesSplit`): that sorting has a k-th element is shown by
  least counterexample (`Least`); at most k results are faster than it and more than k are
  no slower (`SortedSplits`), and what a percentile interpolates lies between two neighbours
  (`Interpolated`).
- `SlowRunsAreExplained` (`SlowRunIsExplained`): with the report's high percentile late, more
  than one in `OneIn` results is late (`OneIn` = 100 ÷ (100 - High), a hundred for 99); with
  every target's own percentile timely, no target has that share.  The targets partition the
  results, and a smallest group of whole targets with too many late results could do without
  any one of its targets (`TimelyRun`): that is the sum over targets without a recursion.

### How models are written for the prover
`[f EXCEPT ![a].x = v, ![a].y = w]`, two changes under one index, is not translated
faithfully by the SMT backend of tlapm 1.4.5, which can then prove what is false.  No module
has it: such a step names the new record and writes `[f EXCEPT ![a] = new]` (`Touched` in
HostDeploy, the LETs in PasswordRotation and EfsProvisioner).

### Only model-checked
- Liveness: `RotationCompletes`, `RunsEnd`, `StreamStops`, `ReportWritten`,
  `LimitIsLifted`, and anything with ENABLED.
- The three findings, which are counterexamples.

Every invariant, and every safety property of behaviours, that a passing run checks is stated by
a theorem.  The library's induction theorems take an operator as a parameter, which the
provers cannot instantiate.  Where a proof here needs an induction it is by least
counterexample, with a well-founded order from the library (`Least`, `Minimal`), or the
recursion is over a fixed length and is written out (`Sums`); the definitions are chosen so that
this is possible: counts of sets rather than folds, a rank rather than a sorted sequence.

## Not modelled
- Wording, logging, metrics (the quota Lambda's too), IAM: no property is about them.
- The contents of a tarball, of a password or of a URL: a build is a model value, a
  password is the token and the invocation that made it.
- The `.failed.<ts>` directories are never removed by the code; the disk filling up is
  not modelled.
- Host bootstrap: the secrets other than DATABASE_URL, the ai env file, and nginx's
  replace, test and restore.  `inject_database_url`, the part that meets the rotator, is in
  CredentialSync.  Two deploys at once in CredentialSync: that is HostDeploy's subject.
- The `_bootstrap` objects, which have no checksum, and the PowerShell twins of the
  scripts, which repeat the shell ones.
- The other hosts of the auto scaling group: the trigger takes the first running one,
  and what the others run, and when a host is replaced by a new one, is decided outside
  this code.  What two overlapping installations leave is HostDeploy's subject
  (deploy_concurrent); DeployPipeline has each end as if alone and only marks the overlap.
- GitHub's re-run of a run's failed jobs.
- The smoke test's probes: its verdict is nondeterministic.
- Of the stress harness: the workers that nothing calls (AppVerificationWorker,
  `verify_filter_search`), the agents that only print, the memory-leak agent (nothing
  samples memory), the agents and triggers on Gemini replies and app counts (nothing
  computes what they read), the locust and k6 scenarios, the HTML and CSV layout, and what the
  staging services do with a POST that is sent again.
- Terraform resources, Kubernetes manifests, the policy site, the preflight checks and
  the setup scripts, for the reasons under "Not candidates".

## Plan
Left to model: `HostBootstrap` (inject_all_secrets and the nginx replace, test, restore).

Left to prove: what a host serves when the first boot's command meets another.
`DeploysAreAtomicAlways` says what a command may rely on that runs alone, and DeployPipeline's
`Install` and `HostFails` have no other endings.  A module that composes one host of
HostDeploy with the pipeline's commands would replace this argument by a refinement; it has
to say of HostDeploy what two overlapping invocations leave, which today only
deploy_concurrent explores.
