----------------------------- MODULE HostDeploy -----------------------------
(***************************************************************************)
(* pull_one of scripts/ec2-pull-and-restart.sh for one service on one EC2  *)
(* host.  Every run of the script is an invocation (first boot, an SSM     *)
(* command, an operator's shell): nothing in the script takes a lock, so   *)
(* several may run at once.  An action is one command of the script, the   *)
(* grain at which another invocation, a kill or a `set -e` exit can come   *)
(* in between.                                                             *)
(***************************************************************************)
EXTENDS Naturals, FiniteSets

CONSTANTS
  Invocations,    \* runs of the script on this host
  Versions,       \* builds that latest.tar.gz may hold
  Empty,          \* what is in a directory that was made and never deployed to
  None,           \* no directory, no process, no tarball
  Level,          \* Level[v]: the schema level v's migrations lead to
  Works,          \* <<v, l>> : v passes its health probe on schema level l
  MaxTs,          \* bound on the clock that $TS is read from
  KeepBackups,    \* how many .old.<ts> directories cleanup keeps (3)
  Serial,         \* TRUE: one invocation at a time
  UniqueTs,       \* TRUE: no two invocations start within one second
  FreshBuilds     \* TRUE: a tarball is newer than all that is installed

Schemas == Nat
Stamps  == 1..MaxTs

(***************************************************************************)
(* A name is a directory under /opt/iconia: the live one, the backups and  *)
(* the failed copies.  A tree has its version, whether its node_modules    *)
(* are whole, its mtime, and what an `mv` put INSIDE it because the target *)
(* name was taken.                                                         *)
(***************************************************************************)
Dst       == <<"dst", 0>>
Old(t)    == <<"old", t>>
Failed(t) == <<"failed", t>>
Stage     == <<"stage", 0>>
Names     == {Dst} \union ({"old", "failed"} \X Stamps)
Trees     == [ver: Versions \union {Empty}, deps: BOOLEAN, mtime: Nat,
              inside: SUBSET (Names \union {Stage})]
Processes == [ver: Versions, deps: BOOLEAN]

Running == {"download", "testDst", "backup", "install", "npmCi", "cleanup",
            "migrate", "restart", "check", "testBackup", "moveFailed",
            "moveBack", "restartOld", "checkOld"}
Aborted == {"aborted", "killed"}
Ended   == {"done", "rolledBack", "rollbackFailed", "noBackup"} \union Aborted

ASSUME EmptyAssumption   == Empty \notin Versions
ASSUME NoneAssumption    == None \notin Trees \union Versions \union Processes
ASSUME VersionAssumption == Level \in [Versions -> Schemas]
ASSUME KeepAssumption    == KeepBackups \in Nat \ {0}
ASSUME ClockAssumption   == MaxTs \in Nat
ASSUME FlagAssumption    == /\ Serial \in BOOLEAN
                            /\ UniqueTs \in BOOLEAN
                            /\ FreshBuilds \in BOOLEAN

VARIABLES
  pc,      \* pc[i]: the next command of invocation i
  tar,     \* tar[i]: the version in i's $TMP tarball
  ts,      \* ts[i]: $TS
  dir,     \* the trees under /opt/iconia, by name
  proc,    \* the service process, by what it was started from
  schema,  \* the migrations applied to the database
  now,     \* last $TS handed out
  tick,    \* mtime clock: one tick per tree written
  before   \* before[i]: the live tree when i began (history)

vars == <<pc, tar, ts, dir, proc, schema, now, tick, before>>

Active(i) == pc[i] \in Running
\* Fault: the unit file's path is kept instead of what was started from it.
FaultAsProcess(tree) == tree

\* The tree holds a build: a package-lock.json, migrations, code to start.
HasBuild(tree) == tree # None /\ tree.ver # Empty

AsProcess(tree) ==
  IF HasBuild(tree) THEN [ver |-> tree.ver, deps |-> tree.deps] ELSE None

\* service_healthcheck can only pass on a process that serves this schema.
CanServe(p, level) ==
  /\ p # None
  /\ p.deps
  /\ <<p.ver, level>> \in Works

-----------------------------------------------------------------------------
(* `mv a b` of directories: onto a free name it renames, onto an existing  *)
(* directory it moves a INTO b, and fails if b already holds that name.    *)

Holding(tree, name) == [tree EXCEPT !.inside = @ \union {name}, !.mtime = tick + 1]
MvFails(a, b) ==
  \/ dir[a] = None
  \/ dir[b] # None /\ a \in dir[b].inside
Moved(a, b) ==
  IF dir[b] = None
  THEN [dir EXCEPT ![b] = dir[a], ![a] = None]
  ELSE [dir EXCEPT ![b] = Holding(dir[b], a), ![a] = None]

-----------------------------------------------------------------------------
\* The host's first boot made an empty directory for the service; what was
\* installed since then, if anything, is whole and runs.
Init ==
  /\ pc = [i \in Invocations |-> "idle"]
  /\ tar = [i \in Invocations |-> None]
  /\ ts = [i \in Invocations |-> 0]
  /\ before = [i \in Invocations |-> None]
  /\ now = 0
  /\ tick = 1
  /\ \E first \in Versions \union {Empty} :
       /\ dir = [n \in Names |->
                   IF n = Dst
                   THEN [ver |-> first, deps |-> first # Empty, mtime |-> 1, inside |-> {}]
                   ELSE None]
       /\ proc = AsProcess(dir[Dst])
       /\ schema = IF first = Empty THEN 0 ELSE Level[first]

\* i ends its command, the rest of its state untouched.
Goto(i, label) == pc' = [pc EXCEPT ![i] = label]
Disk  == <<dir, tick>>
Fixed == <<tar, ts, now, before>>

\* The script starts: $TS is the second it starts in.
Start(i) ==
  /\ pc[i] = "idle"
  /\ Serial => \A j \in Invocations : ~Active(j)
  /\ \E t \in (IF UniqueTs THEN {now + 1} ELSE {now, now + 1}) \intersect Stamps :
       /\ now' = t
       /\ ts' = [ts EXCEPT ![i] = t]
  /\ before' = [before EXCEPT ![i] = dir[Dst]]
  /\ Goto(i, "download")
  /\ UNCHANGED <<tar, dir, proc, schema, tick>>

\* latest.tar.gz fetched, checked against its sidecar and unpacked in $TMP.
Download(i) ==
  /\ pc[i] = "download"
  /\ \E v \in Versions : tar' = [tar EXCEPT ![i] = v]
  /\ Goto(i, "testDst")
  /\ UNCHANGED <<ts, dir, proc, schema, now, tick, before>>

\* if [ -d dst ]
TestDst(i) ==
  /\ pc[i] = "testDst"
  /\ Goto(i, IF dir[Dst] # None THEN "backup" ELSE "install")
  /\ UNCHANGED <<Disk, Fixed, proc, schema>>

\* mv dst dst.old.TS
Backup(i) ==
  /\ pc[i] = "backup"
  /\ ~MvFails(Dst, Old(ts[i]))
  /\ dir' = Moved(Dst, Old(ts[i]))
  /\ tick' = tick + 1
  /\ Goto(i, "install")
  /\ UNCHANGED <<Fixed, proc, schema>>

\* The mtime of an unpacked tree is the build's, kept by tar.
BuildTimes == IF FreshBuilds THEN {tick + 1} ELSE {0, tick + 1}
StageTree(v, m) == [ver |-> v, deps |-> TRUE, mtime |-> m, inside |-> {}]
StageRefused == dir[Dst] # None /\ Stage \in dir[Dst].inside

\* mv stage dst
Install(i) ==
  /\ pc[i] = "install"
  /\ ~StageRefused
  /\ \/ /\ dir[Dst] = None
        /\ \E m \in BuildTimes : dir' = [dir EXCEPT ![Dst] = StageTree(tar[i], m)]
     \/ /\ dir[Dst] # None
        /\ dir' = [dir EXCEPT ![Dst] = Holding(dir[Dst], Stage)]
  /\ tick' = tick + 1
  /\ Goto(i, "npmCi")
  /\ UNCHANGED <<Fixed, proc, schema>>

\* node_modules of the live tree written or removed in place.
Touched(whole) == [dir[Dst] EXCEPT !.deps = whole, !.mtime = tick + 1]

\* npm ci in whatever dst now is.
NpmCi(i) ==
  /\ pc[i] = "npmCi"
  /\ dir' = IF HasBuild(dir[Dst]) THEN [dir EXCEPT ![Dst] = Touched(TRUE)] ELSE dir
  /\ tick' = tick + 1
  /\ Goto(i, "cleanup")
  /\ UNCHANGED <<Fixed, proc, schema>>

\* npm ci fails before (tree untouched) or after it removed node_modules.
NpmCiFails(i) ==
  /\ pc[i] = "npmCi"
  /\ HasBuild(dir[Dst])
  /\ dir' \in {dir, [dir EXCEPT ![Dst] = Touched(FALSE)]}
  /\ tick' = tick + 1
  /\ Goto(i, "aborted")
  /\ UNCHANGED <<Fixed, proc, schema>>

\* ls -1dt dst.old.*: newest mtime first, equal mtimes by name.
OldTimes == {t \in 1..now : dir[Old(t)] # None}
\* Fault: `ls -1dtr`, oldest first.
FaultListedBefore(s, t) == dir[Old(s)].mtime < dir[Old(t)].mtime

ListedBefore(s, t) ==
  \/ dir[Old(s)].mtime > dir[Old(t)].mtime
  \/ dir[Old(s)].mtime = dir[Old(t)].mtime /\ s < t

Expired(t) ==
  /\ t \in OldTimes
  /\ Cardinality({s \in OldTimes : ListedBefore(s, t)}) >= KeepBackups

\* ... | tail -n +4 | xargs rm -rf
Cleanup(i) ==
  /\ pc[i] = "cleanup"
  /\ OldTimes # {}
  /\ dir' = [n \in Names |->
               IF n[1] = "old" /\ Expired(n[2]) THEN None ELSE dir[n]]
  /\ Goto(i, "migrate")
  /\ UNCHANGED <<Fixed, proc, schema, tick>>

Max2(a, b) == IF a >= b THEN a ELSE b

\* prisma migrate deploy applies what dst has and the database lacks.
Migrate(i) ==
  /\ pc[i] = "migrate"
  /\ schema' = IF HasBuild(dir[Dst]) THEN Max2(schema, Level[dir[Dst].ver])
               ELSE schema
  /\ Goto(i, "restart")
  /\ UNCHANGED <<Disk, Fixed, proc>>

\* No /etc/iconia.server.env: a warning, and on to the restart.
SkipMigrate(i) ==
  /\ pc[i] = "migrate"
  /\ Goto(i, "restart")
  /\ UNCHANGED <<Disk, Fixed, proc, schema>>

\* systemctl restart: the process is started from what dst is now.
Restart(i) ==
  /\ pc[i] = "restart"
  /\ proc' = AsProcess(dir[Dst])
  /\ Goto(i, "check")
  /\ UNCHANGED <<Disk, Fixed, schema>>

CheckPasses(i) ==
  /\ pc[i] = "check"
  /\ CanServe(proc, schema)
  /\ Goto(i, "done")
  /\ UNCHANGED <<Disk, Fixed, proc, schema>>

\* Thirty probes without an answer; a good version may be just as slow.
CheckFails(i) ==
  /\ pc[i] = "check"
  /\ Goto(i, "testBackup")
  /\ UNCHANGED <<Disk, Fixed, proc, schema>>

\* if [ -d dst.old.TS ]
TestBackup(i) ==
  /\ pc[i] = "testBackup"
  /\ Goto(i, IF dir[Old(ts[i])] # None THEN "moveFailed" ELSE "noBackup")
  /\ UNCHANGED <<Disk, Fixed, proc, schema>>

\* Fault: the failed tree is not moved out of the way.
FaultMoveFailed(i) ==
  /\ pc[i] = "moveFailed"
  /\ Goto(i, "moveBack")
  /\ UNCHANGED <<Disk, Fixed, proc, schema>>

\* Fault: the failed tree goes and the backup does not come back.
FaultMoveAway(i) ==
  /\ pc[i] = "moveFailed"
  /\ ~MvFails(Dst, Failed(ts[i]))
  /\ dir' = Moved(Dst, Failed(ts[i]))
  /\ tick' = tick + 1
  /\ Goto(i, "restartOld")
  /\ UNCHANGED <<Fixed, proc, schema>>

\* mv dst dst.failed.TS
MoveFailed(i) ==
  /\ pc[i] = "moveFailed"
  /\ ~MvFails(Dst, Failed(ts[i]))
  /\ dir' = Moved(Dst, Failed(ts[i]))
  /\ tick' = tick + 1
  /\ Goto(i, "moveBack")
  /\ UNCHANGED <<Fixed, proc, schema>>

\* Fault: the rollback probes the service without restarting it.
FaultMoveBack(i) ==
  /\ pc[i] = "moveBack"
  /\ ~MvFails(Old(ts[i]), Dst)
  /\ dir' = Moved(Old(ts[i]), Dst)
  /\ tick' = tick + 1
  /\ Goto(i, "checkOld")
  /\ UNCHANGED <<Fixed, proc, schema>>

\* mv dst.old.TS dst
MoveBack(i) ==
  /\ pc[i] = "moveBack"
  /\ ~MvFails(Old(ts[i]), Dst)
  /\ dir' = Moved(Old(ts[i]), Dst)
  /\ tick' = tick + 1
  /\ Goto(i, "restartOld")
  /\ UNCHANGED <<Fixed, proc, schema>>

RestartOld(i) ==
  /\ pc[i] = "restartOld"
  /\ proc' = AsProcess(dir[Dst])
  /\ Goto(i, "checkOld")
  /\ UNCHANGED <<Disk, Fixed, schema>>

CheckOldPasses(i) ==
  /\ pc[i] = "checkOld"
  /\ CanServe(proc, schema)
  /\ Goto(i, "rolledBack")
  /\ UNCHANGED <<Disk, Fixed, proc, schema>>

CheckOldFails(i) ==
  /\ pc[i] = "checkOld"
  /\ Goto(i, "rollbackFailed")
  /\ UNCHANGED <<Disk, Fixed, proc, schema>>

-----------------------------------------------------------------------------
(* The ways out that `set -euo pipefail` and `|| fail` add.                *)

\* The download, the checksum or tar fails: nothing outside $TMP changed.
DownloadFails(i) ==
  /\ pc[i] = "download"
  /\ Goto(i, "aborted")
  /\ UNCHANGED <<Disk, Fixed, proc, schema>>

\* An mv whose source is gone or whose target already holds the name.
MvAborts(i) ==
  /\ \/ pc[i] = "backup" /\ MvFails(Dst, Old(ts[i]))
     \/ pc[i] = "install" /\ StageRefused
     \/ pc[i] = "moveFailed" /\ MvFails(Dst, Failed(ts[i]))
     \/ pc[i] = "moveBack" /\ MvFails(Old(ts[i]), Dst)
  /\ Goto(i, "aborted")
  /\ UNCHANGED <<Disk, Fixed, proc, schema>>

\* Under pipefail `ls` of a pattern that matches nothing ends the script, after
\* the swap and before the restart.
CleanupFails(i) ==
  /\ pc[i] = "cleanup"
  /\ OldTimes = {}
  /\ Goto(i, "aborted")
  /\ UNCHANGED <<Disk, Fixed, proc, schema>>

\* No DATABASE_URL, or a migration fails with none or all before it applied.
MigrateFails(i) ==
  /\ pc[i] = "migrate"
  /\ HasBuild(dir[Dst])
  /\ schema' \in {schema, Max2(schema, Level[dir[Dst].ver])}
  /\ Goto(i, "aborted")
  /\ UNCHANGED <<Disk, Fixed, proc>>

\* systemctl restart fails: the old process is stopped, none started.
RestartFails(i) ==
  /\ pc[i] \in {"restart", "restartOld"}
  /\ proc' = None
  /\ Goto(i, "aborted")
  /\ UNCHANGED <<Disk, Fixed, schema>>

\* SSM cancels the command, or the host goes down under it.
Kill(i) ==
  /\ Active(i)
  /\ Goto(i, "killed")
  /\ UNCHANGED <<Disk, Fixed, proc, schema>>

\* Restart=always, or a reboot: systemd starts what dst is now.
Respawn ==
  /\ proc' = AsProcess(dir[Dst])
  /\ UNCHANGED <<Disk, Fixed, pc, schema>>

Proceed(i) ==
  \/ Download(i) \/ TestDst(i) \/ Backup(i) \/ Install(i) \/ NpmCi(i)
  \/ Cleanup(i) \/ Migrate(i) \/ SkipMigrate(i) \/ Restart(i)
  \/ CheckPasses(i) \/ CheckFails(i) \/ TestBackup(i) \/ MoveFailed(i)
  \/ MoveBack(i) \/ RestartOld(i) \/ CheckOldPasses(i) \/ CheckOldFails(i)
Abort(i) ==
  \/ DownloadFails(i) \/ MvAborts(i) \/ NpmCiFails(i) \/ CleanupFails(i)
  \/ MigrateFails(i) \/ RestartFails(i)
Step(i) == Start(i) \/ Proceed(i) \/ Abort(i) \/ Kill(i)
Next == (\E i \in Invocations : Step(i)) \/ Respawn
Spec == Init /\ [][Next]_vars

-----------------------------------------------------------------------------
(* Properties.                                                             *)

\* Type invariant: every variable has the values the script can give it.
TypeOK ==
  /\ pc \in [Invocations -> {"idle"} \union Running \union Ended]
  /\ tar \in [Invocations -> Versions \union {None}]
  /\ ts \in [Invocations -> 0..MaxTs]
  /\ dir \in [Names -> Trees \union {None}]
  /\ proc \in Processes \union {None}
  /\ schema \in Schemas
  /\ now \in 0..MaxTs
  /\ tick \in Nat
  /\ before \in [Invocations -> Trees \union {None}]

Swapping == {"install", "npmCi", "cleanup", "migrate", "restart",
             "moveBack", "restartOld"}

\* The service runs what is on its disk unless an invocation is between a
\* swap and the restart that follows it, or ended there without one
\* (lines 146-183 and 192-195), however many invocations overlap.  An aborted
\* invocation excuses any difference from then on.
RunningIsLive ==
  proc # AsProcess(dir[Dst]) =>
    \E i \in Invocations : pc[i] \in Swapping \union Aborted

\* From the swap to the rollback the tree that was live when the invocation
\* began is still .old.<ts>, whatever cleanup (line 158) removes.
BackupKept ==
  \A i \in Invocations :
    /\ pc[i] \in {"install", "npmCi", "cleanup", "migrate", "restart",
                  "check", "testBackup", "moveFailed", "moveBack"}
    /\ before[i] # None
    => dir[Old(ts[i])] = before[i]

\* The service has a live tree except during a swap and after a kill: no failing
\* command leaves /opt/iconia/<svc> missing.
LiveTreePresent ==
  dir[Dst] = None =>
    \E i \in Invocations : pc[i] \in {"install", "moveBack", "killed"}

Ends(i, how) == pc[i] # how /\ pc'[i] = how

\* "healthy after deploy" (line 188) is said of the build that was fetched:
\* it is the live tree, alone in it, and the process that runs.
SuccessIsTheBuild ==
  [][\A i \in Invocations : Ends(i, "done") =>
       /\ dir'[Dst].ver = tar[i]
       /\ dir'[Dst].inside = {}
       /\ proc' = AsProcess(dir'[Dst])]_vars

\* A finished rollback (lines 192-206) leaves the very tree the deploy found.
RollbackRestores ==
  [][\A i \in Invocations :
       Ends(i, "rolledBack") \/ Ends(i, "rollbackFailed") =>
         dir'[Dst] = before[i]]_vars

\* An unhealthy deploy goes without rollback (line 208) only where there
\* was no live tree to go back to.  README.md line 221 promises the
\* swap-back on every failed health check.
UnhealthyRollsBack ==
  [][\A i \in Invocations : Ends(i, "noBackup") => before[i] = None]_vars

\* README.md line 153: when a deploy fails the previous version is restored.
FailureRestores ==
  [][\A i \in Invocations :
       Ends(i, "aborted") /\ HasBuild(before[i]) =>
         dir'[Dst] # None /\ dir'[Dst].ver = before[i].ver]_vars

\* What is live as seen from outside: while an invocation is under way what it
\* found, or else what is there.
LiveTree ==
  IF \E i \in Invocations : Active(i)
  THEN before[CHOOSE i \in Invocations : Active(i)]
  ELSE dir[Dst]

Abs == INSTANCE AtomicDeploy WITH
  Fresh  <- FreshBuilds,
  live   <- AsProcess(LiveTree),
  serves <- proc,
  state  <- [i \in Invocations |-> IF Active(i) THEN "busy" ELSE pc[i]],
  build  <- tar

\* Deploys that do not overlap are atomic (AtomicDeploy): each leaves its build
\* live and serving, or what it found, or either if it stopped half way; only
\* one that was killed leaves nothing (lines 113-208).
DeploysAreAtomic == Abs!DeploySpec
=============================================================================
