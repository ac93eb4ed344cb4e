-------------------------- MODULE HostDeploy_proofs --------------------------
(***************************************************************************)
(* What pull_one guarantees for every set of invocations and builds.       *)
(***************************************************************************)
EXTENDS HostDeploy, FiniteSetTheorems, TLAPS

\* An invocation that has begun has its $TS, and past the download its build.
Begun ==
  \A i \in Invocations :
    /\ pc[i] # "idle" => ts[i] \in Stamps
    /\ pc[i] \in Running \ {"download"} => tar[i] \in Versions
Typed == TypeOK /\ Begun

USE DEF Stamps, Schemas

\* The names the script builds are names of the model.
LEMMA NameTypes ==
  /\ Dst \in Names
  /\ \A t \in Stamps : Old(t) \in Names /\ Failed(t) \in Names
BY DEF Dst, Old, Failed, Names

\* A tree that takes in another directory is still a tree.
LEMMA HoldingType ==
  ASSUME NEW tree \in Trees, NEW name \in Names \union {Stage}, tick \in Nat
  PROVE  Holding(tree, name) \in Trees
<1>1. tree.inside \union {name} \in SUBSET (Names \union {Stage}) /\ tick + 1 \in Nat
  BY DEF Trees
<1>2. \A s, m : m \in Nat /\ s \in SUBSET (Names \union {Stage}) =>
        [tree EXCEPT !.inside = s, !.mtime = m] \in Trees
  BY DEF Trees
<1>3. QED
  BY <1>1, <1>2 DEF Holding

\* npm ci leaves a tree a tree, whole or not, of the same build.
LEMMA TouchType ==
  ASSUME dir[Dst] \in Trees, NEW b \in BOOLEAN, tick \in Nat
  PROVE  /\ Touched(b) \in Trees
         /\ Touched(b).ver = dir[Dst].ver /\ Touched(b).inside = dir[Dst].inside
         /\ Touched(b).mtime = tick + 1
<1>1. tick + 1 \in Nat
  OBVIOUS
<1>2. \A m \in Nat, tree \in Trees : [tree EXCEPT !.deps = b, !.mtime = m] \in Trees
  BY Zenon DEF Trees
<1>3. /\ Touched(b).ver = dir[Dst].ver /\ Touched(b).inside = dir[Dst].inside
      /\ Touched(b).mtime = tick + 1
  BY DEF Touched, Trees
<1>4. QED
  BY <1>1, <1>2, <1>3 DEF Touched

\* An mv that does not fail leaves every name with a tree or nothing.
LEMMA MovedType ==
  ASSUME TypeOK, NEW a \in Names, NEW b \in Names, ~MvFails(a, b)
  PROVE  Moved(a, b) \in [Names -> Trees \union {None}]
<1>1. dir \in [Names -> Trees \union {None}] /\ tick \in Nat
  BY DEF TypeOK
<1>2. CASE dir[b] = None
  BY <1>1, <1>2 DEF Moved
<1>3. CASE dir[b] # None
  <2>1. Holding(dir[b], a) \in Trees
    BY <1>1, <1>3, HoldingType
  <2>2. QED
    BY <1>1, <1>3, <2>1 DEF Moved
<1>4. QED
  BY <1>2, <1>3

\* What systemd starts from a tree is a process.
LEMMA AsProcessType ==
  ASSUME TypeOK
  PROVE  AsProcess(dir[Dst]) \in Processes \union {None}
BY NameTypes DEF TypeOK, AsProcess, HasBuild, Trees, Processes

LEMMA InitTyped == Init => Typed
<1> SUFFICES ASSUME Init PROVE Typed
  OBVIOUS
<1>1. PICK first \in Versions \union {Empty} :
        /\ dir = [n \in Names |->
                    IF n = Dst
                    THEN [ver |-> first, deps |-> first # Empty, mtime |-> 1, inside |-> {}]
                    ELSE None]
        /\ proc = AsProcess(dir[Dst])
        /\ schema = IF first = Empty THEN 0 ELSE Level[first]
  BY DEF Init
<1>2. dir \in [Names -> Trees \union {None}]
  <2>1. [ver |-> first, deps |-> first # Empty, mtime |-> 1, inside |-> {}] \in Trees
    BY DEF Trees
  <2>2. QED
    BY <1>1, <2>1
<1>3. proc \in Processes \union {None}
  BY <1>1, <1>2, NameTypes DEF AsProcess, HasBuild, Trees, Processes
<1>4. schema \in Nat
  BY <1>1, VersionAssumption
<1>5. TypeOK
  <2>1. pc \in [Invocations -> {"idle"} \union Running \union Ended]
    BY DEF Init
  <2>2. /\ tar \in [Invocations -> Versions \union {None}]
        /\ ts \in [Invocations -> 0..MaxTs]
        /\ before \in [Invocations -> Trees \union {None}]
    BY ClockAssumption DEF Init
  <2>3. now \in 0..MaxTs /\ tick \in Nat
    BY ClockAssumption DEF Init
  <2>4. QED
    BY <1>2, <1>3, <1>4, <2>1, <2>2, <2>3 DEF TypeOK
<1>6. Begun
  BY DEF Init, Begun, Running
<1>7. QED
  BY <1>5, <1>6 DEF Typed

\* Every command keeps the types; the trees move by MovedType.
LEMMA StepTyped == Typed /\ [Next]_vars => Typed'
<1> SUFFICES ASSUME Typed, [Next]_vars PROVE Typed'
  OBVIOUS
<1> USE DEF Typed
<1> USE DEF Goto, Disk, Fixed, Active, Running, Ended, Aborted
<1>1. ASSUME NEW i \in Invocations, Start(i) PROVE Typed'
  <2>1. PICK t \in {now, now + 1} \intersect Stamps :
          now' = t /\ ts' = [ts EXCEPT ![i] = t]
    BY <1>1 DEF Start
  <2>2. dir[Dst] \in Trees \union {None}
    BY NameTypes DEF TypeOK
  <2>3. TypeOK'
    BY <1>1, <2>1, <2>2 DEF Start, TypeOK
  <2>4. Begun'
    BY <1>1, <2>1 DEF Start, TypeOK, Begun
  <2>5. QED
    BY <2>3, <2>4
<1>2. ASSUME NEW i \in Invocations, Download(i) PROVE Typed'
  BY <1>2 DEF Download, TypeOK, Begun
<1>3. ASSUME NEW i \in Invocations,
             \/ TestDst(i) \/ SkipMigrate(i) \/ CheckPasses(i) \/ CheckFails(i)
             \/ TestBackup(i) \/ CheckOldPasses(i) \/ CheckOldFails(i)
             \/ DownloadFails(i) \/ MvAborts(i) \/ CleanupFails(i) \/ Kill(i)
      PROVE Typed'
  <2>1. \E l \in Running \union Ended :
          /\ pc' = [pc EXCEPT ![i] = l]
          /\ l \in Running \ {"download"} =>
               pc[i] \in Running \ {"download"}
    BY <1>3 DEF TestDst, SkipMigrate, CheckPasses, CheckFails, TestBackup,
                CheckOldPasses, CheckOldFails, DownloadFails, MvAborts, CleanupFails, Kill
  <2>2. pc[i] # "idle" /\ UNCHANGED <<Disk, Fixed, proc, schema>>
    BY <1>3 DEF TestDst, SkipMigrate, CheckPasses, CheckFails, TestBackup,
                CheckOldPasses, CheckOldFails, DownloadFails, MvAborts, CleanupFails, Kill
  <2>3. QED
    BY <2>1, <2>2 DEF TypeOK, Begun
<1>4. ASSUME NEW i \in Invocations, Backup(i) \/ MoveFailed(i) \/ MoveBack(i)
      PROVE Typed'
  <2>1. ts[i] \in Stamps
    BY <1>4 DEF Backup, MoveFailed, MoveBack, Begun
  <2>2. dir' \in [Names -> Trees \union {None}]
    BY <1>4, <2>1, MovedType, NameTypes DEF Backup, MoveFailed, MoveBack
  <2>3. \E l \in {"install", "moveBack", "restartOld"} :
          pc' = [pc EXCEPT ![i] = l]
    BY <1>4 DEF Backup, MoveFailed, MoveBack
  <2>4. /\ pc[i] \in {"backup", "moveFailed", "moveBack"}
        /\ tick' = tick + 1
        /\ UNCHANGED <<Fixed, proc, schema>>
    BY <1>4 DEF Backup, MoveFailed, MoveBack
  <2>5. QED
    BY <2>2, <2>3, <2>4 DEF TypeOK, Begun
<1>5. ASSUME NEW i \in Invocations, Install(i) PROVE Typed'
  <2>1. tar[i] \in Versions /\ dir[Dst] \in Trees \union {None} /\ tick \in Nat
    BY <1>5, NameTypes DEF Install, Begun, TypeOK
  <2>2. \A m \in BuildTimes : StageTree(tar[i], m) \in Trees
    BY <2>1 DEF StageTree, Trees, BuildTimes
  <2>3. dir[Dst] # None => Holding(dir[Dst], Stage) \in Trees
    BY <2>1, HoldingType
  <2>4. dir' \in [Names -> Trees \union {None}]
    BY <1>5, <2>2, <2>3, NameTypes DEF Install, TypeOK
  <2>5. QED
    BY <1>5, <2>4 DEF Install, TypeOK, Begun
<1>6. ASSUME NEW i \in Invocations, NpmCi(i) \/ NpmCiFails(i) PROVE Typed'
  <2>1. dir[Dst] \in Trees \union {None} /\ tick \in Nat
    BY NameTypes DEF TypeOK
  <2>2. \A b \in BOOLEAN : dir[Dst] # None =>
          [dir EXCEPT ![Dst] = Touched(b)] \in [Names -> Trees \union {None}]
    BY <2>1, TouchType, NameTypes DEF TypeOK
  <2>3. dir' \in [Names -> Trees \union {None}]
    BY <1>6, <2>2 DEF NpmCi, NpmCiFails, HasBuild, TypeOK
  <2>4. \E l \in {"cleanup", "aborted"} : pc' = [pc EXCEPT ![i] = l]
    BY <1>6 DEF NpmCi, NpmCiFails
  <2>5. pc[i] = "npmCi" /\ tick' = tick + 1 /\ UNCHANGED <<Fixed, proc, schema>>
    BY <1>6 DEF NpmCi, NpmCiFails
  <2>6. QED
    BY <2>3, <2>4, <2>5 DEF TypeOK, Begun
<1>7. ASSUME NEW i \in Invocations, Cleanup(i) PROVE Typed'
  <2>1. dir' \in [Names -> Trees \union {None}]
    BY <1>7 DEF Cleanup, TypeOK
  <2>2. QED
    BY <1>7, <2>1 DEF Cleanup, TypeOK, Begun
<1>8. ASSUME NEW i \in Invocations, Migrate(i) \/ MigrateFails(i) PROVE Typed'
  <2>1. HasBuild(dir[Dst]) => Level[dir[Dst].ver] \in Nat
    BY NameTypes, VersionAssumption DEF HasBuild, TypeOK, Trees
  <2>2. schema' \in Nat
    BY <1>8, <2>1 DEF Migrate, MigrateFails, Max2, TypeOK
  <2>3. \E l \in {"restart", "aborted"} : pc' = [pc EXCEPT ![i] = l]
    BY <1>8 DEF Migrate, MigrateFails
  <2>4. pc[i] = "migrate" /\ UNCHANGED <<Disk, Fixed, proc>>
    BY <1>8 DEF Migrate, MigrateFails
  <2>5. QED
    BY <2>2, <2>3, <2>4 DEF TypeOK, Begun
<1>9. ASSUME NEW i \in Invocations, Restart(i) \/ RestartOld(i) \/ RestartFails(i)
      PROVE Typed'
  <2>1. proc' \in Processes \union {None}
    BY <1>9, AsProcessType DEF Restart, RestartOld, RestartFails
  <2>2. \E l \in {"check", "checkOld", "aborted"} : pc' = [pc EXCEPT ![i] = l]
    BY <1>9 DEF Restart, RestartOld, RestartFails
  <2>3. pc[i] \in {"restart", "restartOld"} /\ UNCHANGED <<Disk, Fixed, schema>>
    BY <1>9 DEF Restart, RestartOld, RestartFails
  <2>4. QED
    BY <2>1, <2>2, <2>3 DEF TypeOK, Begun
<1>10. CASE Respawn
  <2>1. proc' \in Processes \union {None}
    BY <1>10, AsProcessType DEF Respawn
  <2>2. QED
    BY <1>10, <2>1 DEF Respawn, TypeOK, Begun
<1>11. CASE UNCHANGED vars
  BY <1>11 DEF vars, TypeOK, Begun
<1>12. QED
  BY <1>1, <1>2, <1>3, <1>4, <1>5, <1>6, <1>7, <1>8, <1>9, <1>10, <1>11
     DEF Next, Step, Proceed, Abort

\* Type correctness: every variable keeps its type through every overlap of
\* invocations, failure and kill of pull_one.
THEOREM TypeCorrect == Spec => []TypeOK
<1>1. Init => Typed
  BY InitTyped
<1>2. Typed /\ [Next]_vars => Typed'
  BY StepTyped
<1>3. Typed => TypeOK
  BY DEF Typed
<1>4. QED
  BY <1>1, <1>2, <1>3, PTL DEF Spec

-----------------------------------------------------------------------------
(* What runs and what is on disk.                                          *)

\* The invariant is inductive as it stands: a command that changes the live
\* tree leaves its invocation inside the swap, and only a restart leaves it.
LEMMA StepRunning ==
  Typed /\ RunningIsLive /\ [Next]_vars => RunningIsLive'
<1> SUFFICES ASSUME Typed, RunningIsLive, [Next]_vars,
                    proc' # AsProcess(dir[Dst])'
             PROVE  \E i \in Invocations : pc'[i] \in Swapping \union Aborted
  BY DEF RunningIsLive
<1> USE DEF Goto, Disk, Fixed, Swapping, Aborted, Running
<1>t. pc \in [Invocations -> {"idle"} \union Running \union Ended]
  BY DEF Typed, TypeOK
<1>1. ASSUME NEW i \in Invocations,
             \/ Backup(i) \/ Install(i) \/ NpmCi(i) \/ NpmCiFails(i)
             \/ Cleanup(i) \/ Migrate(i) \/ SkipMigrate(i) \/ MigrateFails(i)
             \/ RestartFails(i) \/ MoveFailed(i) \/ MoveBack(i)
             \/ DownloadFails(i) \/ MvAborts(i) \/ CleanupFails(i) \/ Kill(i)
      PROVE  pc'[i] \in Swapping \union Aborted
  BY <1>1, <1>t DEF Backup, Install, NpmCi, NpmCiFails, Cleanup, Migrate,
       SkipMigrate, MigrateFails, RestartFails, MoveFailed, MoveBack,
       DownloadFails, MvAborts, CleanupFails, Kill
<1>2. ASSUME NEW i \in Invocations, Restart(i) \/ RestartOld(i) PROVE FALSE
  BY <1>2 DEF Restart, RestartOld, AsProcess, HasBuild
<1>3. CASE Respawn
  BY <1>3 DEF Respawn, AsProcess, HasBuild
<1>4. ASSUME NEW i \in Invocations,
             \/ Start(i) \/ Download(i) \/ TestDst(i) \/ CheckPasses(i)
             \/ CheckFails(i) \/ TestBackup(i)
             \/ CheckOldPasses(i) \/ CheckOldFails(i)
      PROVE  \E j \in Invocations : pc'[j] \in Swapping \union Aborted
  <2>1. proc # AsProcess(dir[Dst])
    BY <1>4 DEF Start, Download, TestDst, CheckPasses, CheckFails, TestBackup,
         CheckOldPasses, CheckOldFails, AsProcess, HasBuild
  <2>2. PICK j \in Invocations : pc[j] \in Swapping \union Aborted
    BY <2>1 DEF RunningIsLive
  <2>3. pc[i] \notin Swapping \union Aborted
    BY <1>4 DEF Start, Download, TestDst, CheckPasses, CheckFails, TestBackup,
         CheckOldPasses, CheckOldFails
  <2>4. \E l : pc' = [pc EXCEPT ![i] = l]
    BY <1>4 DEF Start, Download, TestDst, CheckPasses, CheckFails, TestBackup,
         CheckOldPasses, CheckOldFails
  <2>5. pc'[j] = pc[j]
    BY <2>2, <2>3, <2>4, <1>t
  <2>6. QED
    BY <2>2, <2>5
<1>5. CASE UNCHANGED vars
  BY <1>5 DEF vars, RunningIsLive, AsProcess, HasBuild
<1>6. QED
  BY <1>1, <1>2, <1>3, <1>4, <1>5 DEF Next, Step, Proceed, Abort

\* However many invocations overlap and wherever they fail, the process and
\* the live tree differ only inside a swap or after one that was aborted.
THEOREM RunningLive == Spec => []RunningIsLive
<1>1. Init => RunningIsLive
  BY DEF Init, RunningIsLive
<1>2. Init => Typed
  BY InitTyped
<1>3. Typed /\ [Next]_vars => Typed'
  BY StepTyped
<1>4. Typed /\ RunningIsLive /\ [Next]_vars => RunningIsLive'
  BY StepRunning
<1>5. QED
  BY <1>1, <1>2, <1>3, <1>4, PTL DEF Spec

-----------------------------------------------------------------------------
(* One invocation at a time: what the backup is, and what rollback restores.*)

Early   == {"download", "testDst", "backup"}
Keeping == {"install", "npmCi", "cleanup", "migrate", "restart", "check",
            "testBackup", "moveFailed", "moveBack"}

\* The backup of the last $TS is the newest of the backups, by mtime.
NewestOld ==
  \A t \in Stamps \ {now} :
    dir[Old(t)] # None /\ dir[Old(now)] # None =>
      dir[Old(t)].mtime < dir[Old(now)].mtime

\* What the disk looks like to the invocation that is running.  Its backup is
\* what was live or, unless builds are fresh, may be gone: `ls -1dt` lists an old
\* build that npm ci did not touch behind other backups.
OwnState(i) ==
  /\ ts[i] = now
  /\ pc[i] \in Early =>
       /\ dir[Dst] = before[i]
       /\ dir[Old(now)] = None
  /\ pc[i] = "backup" => dir[Dst] # None
  /\ pc[i] \in {"install", "moveBack"} => dir[Dst] = None
  /\ pc[i] \in Keeping \ {"install", "moveBack"} => dir[Dst] # None
  /\ pc[i] \in Keeping => dir[Old(now)] \in {before[i], None}
  /\ FreshBuilds /\ pc[i] \in Keeping => dir[Old(now)] = before[i] /\ NewestOld
  /\ pc[i] \in {"moveFailed", "moveBack"} =>
       dir[Old(now)] = before[i] /\ before[i] # None
  /\ pc[i] \in Early \union (Keeping \ {"moveBack"}) => dir[Failed(now)] = None
  /\ pc[i] \in {"restartOld", "checkOld"} => dir[Dst] = before[i]

Alone  == \A i, j \in Invocations : Active(i) /\ Active(j) => i = j
Own    == \A i \in Invocations : Active(i) => OwnState(i)
Unused == \A t \in Stamps : t > now => dir[Old(t)] = None /\ dir[Failed(t)] = None
Dated  == \A n \in Names : dir[n] # None => dir[n].mtime <= tick
DstNewest ==
  FreshBuilds => \A t \in Stamps :
    dir[Old(t)] # None /\ dir[Dst] # None => dir[Old(t)].mtime < dir[Dst].mtime
SerialInv == Typed /\ Alone /\ Own /\ Unused /\ Dated /\ DstNewest

\* The names of the script's directories never coincide.
LEMMA NamesDiffer ==
  \A s, t \in Stamps :
    /\ Old(s) # Dst /\ Failed(s) # Dst /\ Old(s) # Failed(t)
    /\ s # t => Old(s) # Old(t) /\ Failed(s) # Failed(t)
    /\ Dst[1] # "old" /\ Failed(s)[1] # "old"
    /\ Old(s)[1] = "old" /\ Old(s)[2] = s
BY DEF Dst, Old, Failed

\* An mv onto a free name is a rename.
LEMMA MovedFree ==
  ASSUME Typed, NEW a \in Names, NEW b \in Names, dir[b] = None, a # b
  PROVE  \A n \in Names :
           Moved(a, b)[n] = IF n = b THEN dir[a] ELSE IF n = a THEN None ELSE dir[n]
BY DEF Moved, Typed, TypeOK

\* With one active invocation, what it leaves true of itself is all of Own.
LEMMA OwnFrame ==
  ASSUME Typed, Alone, NEW i \in Invocations, Active(i), NEW l,
         pc' = [pc EXCEPT ![i] = l], l \in Running => OwnState(i)'
  PROVE  Alone' /\ Own'
<1>1. \A j \in Invocations : Active(j)' => j = i /\ l \in Running
  BY DEF Alone, Active, Typed, TypeOK
<1>2. QED
  BY <1>1 DEF Alone, Own

\* The commands that do not touch the disk keep the serial invariant.
LEMMA QuietStep ==
  ASSUME SerialInv, NEW i \in Invocations,
         \/ Download(i) \/ TestDst(i) \/ Migrate(i) \/ SkipMigrate(i)
         \/ Restart(i) \/ CheckPasses(i) \/ CheckFails(i) \/ TestBackup(i)
         \/ RestartOld(i) \/ CheckOldPasses(i) \/ CheckOldFails(i)
         \/ DownloadFails(i) \/ MvAborts(i) \/ CleanupFails(i) \/ MigrateFails(i)
         \/ RestartFails(i) \/ Kill(i)
  PROVE  Alone' /\ Own' /\ Unused' /\ Dated' /\ DstNewest'
<1> USE DEF Goto, Disk, Fixed, Running, Early, Keeping, Aborted, SerialInv
<1>1. Active(i)
  BY DEF Active, Download, TestDst, Migrate, SkipMigrate, Restart, CheckPasses,
     CheckFails, TestBackup, RestartOld, CheckOldPasses, CheckOldFails,
     DownloadFails, MvAborts, CleanupFails, MigrateFails, RestartFails, Kill
<1>2. UNCHANGED <<dir, tick, ts, now, before>>
  BY DEF Download, TestDst, Migrate, SkipMigrate, Restart, CheckPasses,
     CheckFails, TestBackup, RestartOld, CheckOldPasses, CheckOldFails,
     DownloadFails, MvAborts, CleanupFails, MigrateFails, RestartFails, Kill
<1>3. OwnState(i)
  BY <1>1 DEF Own
<1>4. PICK l : pc' = [pc EXCEPT ![i] = l]
  BY DEF Download, TestDst, Migrate, SkipMigrate, Restart, CheckPasses,
     CheckFails, TestBackup, RestartOld, CheckOldPasses, CheckOldFails,
     DownloadFails, MvAborts, CleanupFails, MigrateFails, RestartFails, Kill
<1>t. DOMAIN pc = Invocations
  BY DEF Typed, TypeOK
<1>5. pc'[i] = l
  BY <1>4, <1>t
<1>6. l \in Running =>
        \/ pc[i] = "download" /\ l = "testDst"
        \/ pc[i] = "testDst" /\ l = "backup" /\ dir[Dst] # None
        \/ pc[i] = "testDst" /\ l = "install" /\ dir[Dst] = None
        \/ pc[i] = "migrate" /\ l = "restart"
        \/ pc[i] = "restart" /\ l = "check"
        \/ pc[i] = "check" /\ l = "testBackup"
        \/ pc[i] = "testBackup" /\ l = "moveFailed" /\ dir[Old(now)] # None
        \/ pc[i] = "restartOld" /\ l = "checkOld"
  <2>1. ts[i] = now
    BY <1>3 DEF OwnState
  <2>2. QED
    BY <2>1, <1>5, <1>t DEF Download, TestDst, Migrate, SkipMigrate, Restart,
       CheckPasses, CheckFails, TestBackup, RestartOld, CheckOldPasses,
       CheckOldFails, DownloadFails, MvAborts, CleanupFails, MigrateFails, RestartFails, Kill
<1>7. l \in Running => OwnState(i)'
  <2>1. dir' = dir /\ now' = now /\ before' = before /\ ts' = ts
    BY <1>2
  <2>2. NewestOld' = NewestOld
    BY <2>1 DEF NewestOld
  <2>3. dir[Old(now)] = None => NewestOld
    BY DEF NewestOld
  <2>4. SUFFICES ASSUME l \in Running
                 PROVE  /\ l = "backup" => dir[Dst] # None
                        /\ l \in {"install", "moveBack"} => dir[Dst] = None
                        /\ l \in Keeping \ {"install", "moveBack"} => dir[Dst] # None
                        /\ l \in Keeping => dir[Old(now)] \in {before[i], None}
                        /\ FreshBuilds /\ l \in Keeping =>
                             dir[Old(now)] = before[i] /\ NewestOld
                        /\ l \in {"moveFailed", "moveBack"} =>
                             dir[Old(now)] = before[i] /\ before[i] # None
                        /\ l \in Early => dir[Dst] = before[i] /\ dir[Old(now)] = None
                        /\ l \in Early \union (Keeping \ {"moveBack"}) =>
                             dir[Failed(now)] = None
                        /\ l \in {"restartOld", "checkOld"} => dir[Dst] = before[i]
    BY <1>3, <1>5, <2>1, <2>2 DEF OwnState
  <2>5. QED
    BY <1>3, <1>6, <2>3, <2>4 DEF OwnState
<1>8. Alone' /\ Own'
  BY <1>1, <1>4, <1>7, OwnFrame
<1>9. QED
  BY <1>2, <1>8 DEF Unused, Dated, DstNewest

\* mv dst dst.old.TS: the live tree becomes the newest backup.
LEMMA BackupStep ==
  ASSUME SerialInv, NEW i \in Invocations, Backup(i)
  PROVE  Alone' /\ Own' /\ Unused' /\ Dated' /\ DstNewest'
<1> USE DEF Goto, Fixed, Running, Early, Keeping, SerialInv
<1>1. Active(i)
  BY DEF Active, Backup
<1>2. OwnState(i) /\ ts[i] = now /\ pc[i] = "backup"
  BY <1>1 DEF Own, OwnState, Backup
<1>3. now \in Stamps
  BY <1>2 DEF Typed, Begun
<1>4. /\ dir[Old(now)] = None /\ dir[Failed(now)] = None
      /\ dir[Dst] # None /\ dir[Dst] = before[i]
  BY <1>2 DEF OwnState
<1>5. \A n \in Names : dir'[n] = IF n = Old(now) THEN dir[Dst]
                                 ELSE IF n = Dst THEN None ELSE dir[n]
  BY <1>2, <1>3, <1>4, MovedFree, NameTypes, NamesDiffer DEF Backup
<1>6. /\ dir'[Dst] = None /\ dir'[Old(now)] = dir[Dst]
      /\ \A t \in Stamps : dir'[Failed(t)] = dir[Failed(t)]
      /\ \A t \in Stamps : t # now => dir'[Old(t)] = dir[Old(t)]
  BY <1>3, <1>5, NameTypes, NamesDiffer
<1>7. tick' = tick + 1 /\ tick \in Nat /\ UNCHANGED <<now, ts, before>>
  BY DEF Backup, Typed, TypeOK
<1>8. FreshBuilds => NewestOld'
  BY <1>3, <1>4, <1>6, <1>7 DEF NewestOld, DstNewest
<1>9. pc' = [pc EXCEPT ![i] = "install"] /\ pc'[i] = "install"
  BY DEF Backup, Typed, TypeOK
<1>10. OwnState(i)'
  BY <1>2, <1>3, <1>4, <1>6, <1>7, <1>8, <1>9 DEF OwnState
<1>11. Alone' /\ Own'
  BY <1>1, <1>9, <1>10, OwnFrame
<1>12. Unused'
  BY <1>3, <1>6, <1>7 DEF Unused
<1>13. Dated'
  BY <1>3, <1>5, <1>7, NameTypes DEF Dated, Typed, TypeOK, Trees
<1>14. DstNewest'
  BY <1>6 DEF DstNewest
<1>15. QED
  BY <1>11, <1>12, <1>13, <1>14

\* mv dst dst.failed.TS: the backups stay as they are.
LEMMA MoveFailedStep ==
  ASSUME SerialInv, NEW i \in Invocations, MoveFailed(i)
  PROVE  Alone' /\ Own' /\ Unused' /\ Dated' /\ DstNewest'
<1> USE DEF Goto, Fixed, Running, Early, Keeping, SerialInv
<1>1. Active(i)
  BY DEF Active, MoveFailed
<1>2. OwnState(i) /\ ts[i] = now /\ pc[i] = "moveFailed"
  BY <1>1 DEF Own, OwnState, MoveFailed
<1>3. now \in Stamps
  BY <1>2 DEF Typed, Begun
<1>4. /\ dir[Failed(now)] = None /\ dir[Dst] # None
      /\ FreshBuilds => NewestOld
      /\ dir[Old(now)] = before[i] /\ before[i] # None
  BY <1>2 DEF OwnState
<1>5. \A n \in Names : dir'[n] = IF n = Failed(now) THEN dir[Dst]
                                 ELSE IF n = Dst THEN None ELSE dir[n]
  BY <1>2, <1>3, <1>4, MovedFree, NameTypes, NamesDiffer DEF MoveFailed
<1>6. /\ dir'[Dst] = None
      /\ \A t \in Stamps : t # now => dir'[Failed(t)] = dir[Failed(t)]
      /\ \A t \in Stamps : dir'[Old(t)] = dir[Old(t)]
  BY <1>3, <1>5, NameTypes, NamesDiffer
<1>7. tick' = tick + 1 /\ tick \in Nat /\ UNCHANGED <<now, ts, before>>
  BY DEF MoveFailed, Typed, TypeOK
<1>8. FreshBuilds => NewestOld'
  BY <1>3, <1>4, <1>6, <1>7 DEF NewestOld
<1>9. pc' = [pc EXCEPT ![i] = "moveBack"] /\ pc'[i] = "moveBack"
  BY DEF MoveFailed, Typed, TypeOK
<1>10. OwnState(i)'
  BY <1>2, <1>3, <1>4, <1>6, <1>7, <1>8, <1>9 DEF OwnState
<1>11. Alone' /\ Own'
  BY <1>1, <1>9, <1>10, OwnFrame
<1>12. Unused'
  BY <1>3, <1>6, <1>7 DEF Unused
<1>13. Dated'
  BY <1>3, <1>5, <1>7, NameTypes DEF Dated, Typed, TypeOK, Trees
<1>14. DstNewest'
  BY <1>6 DEF DstNewest
<1>15. QED
  BY <1>11, <1>12, <1>13, <1>14

\* mv dst.old.TS dst: the newest backup is live again, newer than the rest.
LEMMA MoveBackStep ==
  ASSUME SerialInv, NEW i \in Invocations, MoveBack(i)
  PROVE  Alone' /\ Own' /\ Unused' /\ Dated' /\ DstNewest'
<1> USE DEF Goto, Fixed, Running, Early, Keeping, SerialInv
<1>1. Active(i)
  BY DEF Active, MoveBack
<1>2. OwnState(i) /\ ts[i] = now /\ pc[i] = "moveBack"
  BY <1>1 DEF Own, OwnState, MoveBack
<1>3. now \in Stamps
  BY <1>2 DEF Typed, Begun
<1>4. /\ dir[Dst] = None
      /\ FreshBuilds => NewestOld
      /\ dir[Old(now)] = before[i] /\ before[i] # None
  BY <1>2 DEF OwnState
<1>5. \A n \in Names : dir'[n] = IF n = Dst THEN dir[Old(now)]
                                 ELSE IF n = Old(now) THEN None ELSE dir[n]
  BY <1>2, <1>3, <1>4, MovedFree, NameTypes, NamesDiffer DEF MoveBack
<1>6. /\ dir'[Dst] = before[i] /\ dir'[Old(now)] = None
      /\ \A t \in Stamps : dir'[Failed(t)] = dir[Failed(t)]
      /\ \A t \in Stamps : t # now => dir'[Old(t)] = dir[Old(t)]
  BY <1>3, <1>4, <1>5, NameTypes, NamesDiffer
<1>7. tick' = tick + 1 /\ tick \in Nat /\ UNCHANGED <<now, ts, before>>
  BY DEF MoveBack, Typed, TypeOK
<1>8. pc' = [pc EXCEPT ![i] = "restartOld"] /\ pc'[i] = "restartOld"
  BY DEF MoveBack, Typed, TypeOK
<1>9. OwnState(i)'
  BY <1>2, <1>6, <1>7, <1>8 DEF OwnState
<1>10. Alone' /\ Own'
  BY <1>1, <1>8, <1>9, OwnFrame
<1>11. Unused'
  BY <1>3, <1>6, <1>7 DEF Unused
<1>12. Dated'
  BY <1>3, <1>5, <1>7, NameTypes DEF Dated, Typed, TypeOK, Trees
<1>13. DstNewest'
  BY <1>3, <1>4, <1>6 DEF DstNewest, NewestOld
<1>14. QED
  BY <1>10, <1>11, <1>12, <1>13

\* mv stage dst, of a build that may be newer than all that is on the host.
LEMMA InstallStep ==
  ASSUME SerialInv, NEW i \in Invocations, Install(i)
  PROVE  Alone' /\ Own' /\ Unused' /\ Dated' /\ DstNewest'
<1> USE DEF Goto, Fixed, Running, Early, Keeping, SerialInv
<1>1. Active(i)
  BY DEF Active, Install
<1>2. OwnState(i) /\ pc[i] = "install" /\ dir[Dst] = None
  BY <1>1 DEF Own, OwnState, Install
<1>3. now \in Stamps
  BY <1>1, <1>2 DEF Typed, Begun, OwnState
<1>4. PICK m \in BuildTimes : dir' = [dir EXCEPT ![Dst] = StageTree(tar[i], m)]
  BY <1>2 DEF Install
<1>5. tar[i] \in Versions
  BY <1>2 DEF Typed, Begun
<1>6. /\ tick' = tick + 1 /\ tick \in Nat /\ UNCHANGED <<now, ts, before>>
      /\ m \in Nat /\ m <= tick + 1 /\ (FreshBuilds => m = tick + 1)
  BY DEF Install, BuildTimes, Typed, TypeOK
<1>7. StageTree(tar[i], m) # None /\ StageTree(tar[i], m).mtime = m
  <2>1. StageTree(tar[i], m) \in Trees
    BY <1>5, <1>6 DEF StageTree, Trees
  <2>2. QED
    BY <2>1, NoneAssumption DEF StageTree
<1>8. /\ dir'[Dst] # None /\ dir'[Dst].mtime = m
      /\ \A n \in Names \ {Dst} : dir'[n] = dir[n]
  BY <1>4, <1>7, NameTypes DEF Typed, TypeOK
<1>9. \A t \in Stamps : dir'[Old(t)] = dir[Old(t)] /\ dir'[Failed(t)] = dir[Failed(t)]
  BY <1>8, NameTypes, NamesDiffer
<1>10. FreshBuilds => NewestOld'
  BY <1>2, <1>3, <1>6, <1>9 DEF NewestOld, OwnState
<1>11. pc' = [pc EXCEPT ![i] = "npmCi"] /\ pc'[i] = "npmCi"
  BY DEF Install, Typed, TypeOK
<1>12. OwnState(i)'
  BY <1>2, <1>3, <1>6, <1>8, <1>9, <1>10, <1>11 DEF OwnState
<1>13. Alone' /\ Own'
  BY <1>1, <1>11, <1>12, OwnFrame
<1>14. Unused'
  BY <1>6, <1>9 DEF Unused
<1>15. Dated'
  BY <1>6, <1>8 DEF Dated, Typed, TypeOK, Trees
<1>16. DstNewest'
  <2>1. \A t \in Stamps : dir[Old(t)] # None =>
          dir[Old(t)].mtime \in Nat /\ dir[Old(t)].mtime <= tick
    BY NameTypes DEF Dated, Typed, TypeOK, Trees
  <2>2. QED
    BY <2>1, <1>6, <1>8, <1>9 DEF DstNewest
<1>17. QED
  BY <1>13, <1>14, <1>15, <1>16

\* npm ci, finished or not, can only make the live tree newer.
LEMMA NpmCiStep ==
  ASSUME SerialInv, NEW i \in Invocations, NpmCi(i) \/ NpmCiFails(i)
  PROVE  Alone' /\ Own' /\ Unused' /\ Dated' /\ DstNewest'
<1> USE DEF Goto, Fixed, Running, Early, Keeping, SerialInv
<1>1. Active(i)
  BY DEF Active, NpmCi, NpmCiFails
<1>2. OwnState(i) /\ pc[i] = "npmCi" /\ dir[Dst] # None
  BY <1>1 DEF Own, OwnState, NpmCi, NpmCiFails
<1>3. now \in Stamps
  BY <1>1, <1>2 DEF Typed, Begun, OwnState
<1>4. tick' = tick + 1 /\ tick \in Nat /\ UNCHANGED <<now, ts, before>>
  BY DEF NpmCi, NpmCiFails, Typed, TypeOK
<1>5. dir[Dst] \in Trees
  BY <1>2, NameTypes DEF Typed, TypeOK
<1>6. /\ dir'[Dst] # None
      /\ dir'[Dst].mtime \in {dir[Dst].mtime, tick + 1}
      /\ \A n \in Names \ {Dst} : dir'[n] = dir[n]
  <2>1. CASE dir' = dir
    BY <2>1, <1>2
  <2>2. ASSUME NEW b \in BOOLEAN,
               dir' = [dir EXCEPT ![Dst] = Touched(b)]
        PROVE  /\ dir'[Dst] # None
               /\ dir'[Dst].mtime \in {dir[Dst].mtime, tick + 1}
               /\ \A n \in Names \ {Dst} : dir'[n] = dir[n]
    <3>1. dir'[Dst] = Touched(b)
      BY <2>2, NameTypes DEF Typed, TypeOK
    <3>2. Touched(b) \in Trees /\ Touched(b).mtime = tick + 1
      BY <1>4, <1>5, TouchType
    <3>3. \A n \in Names \ {Dst} : dir'[n] = dir[n]
      BY <2>2, NameTypes DEF Typed, TypeOK
    <3>4. QED
      BY <3>1, <3>2, <3>3, NoneAssumption
  <2>3. QED
    BY <2>1, <2>2, <1>2 DEF NpmCi, NpmCiFails
<1>7. \A t \in Stamps : dir'[Old(t)] = dir[Old(t)] /\ dir'[Failed(t)] = dir[Failed(t)]
  BY <1>6, NameTypes, NamesDiffer
<1>8. FreshBuilds => NewestOld'
  BY <1>2, <1>3, <1>4, <1>7 DEF NewestOld, OwnState
<1>9. PICK l \in {"cleanup", "aborted"} : pc' = [pc EXCEPT ![i] = l]
  BY DEF NpmCi, NpmCiFails
<1>10. OwnState(i)'
  <2>1. pc'[i] = l
    BY <1>9 DEF Typed, TypeOK
  <2>2. QED
    BY <1>2, <1>3, <1>4, <1>6, <1>7, <1>8, <1>9, <2>1 DEF OwnState
<1>11. Alone' /\ Own'
  BY <1>1, <1>9, <1>10, OwnFrame
<1>12. Unused'
  BY <1>4, <1>7 DEF Unused
<1>13. dir[Dst].mtime \in Nat /\ dir[Dst].mtime <= tick
  BY <1>2, <1>5, NameTypes DEF Dated, Trees
<1>14. Dated'
  BY <1>4, <1>6, <1>13 DEF Dated, Typed, TypeOK, Trees
<1>15. DstNewest'
  <2>1. FreshBuilds => \A t \in Stamps : dir[Old(t)] # None =>
          /\ dir[Old(t)].mtime \in Nat
          /\ dir[Old(t)].mtime < dir[Dst].mtime
    BY <1>2, NameTypes DEF DstNewest, Typed, TypeOK, Trees
  <2>2. QED
    BY <2>1, <1>4, <1>6, <1>7, <1>13 DEF DstNewest
<1>16. QED
  BY <1>11, <1>12, <1>14, <1>15

\* ls -1dt | tail: the newest backup is never among the expired ones; one whose
\* build was older than another backup may be.
LEMMA CleanupStep ==
  ASSUME SerialInv, NEW i \in Invocations, Cleanup(i)
  PROVE  Alone' /\ Own' /\ Unused' /\ Dated' /\ DstNewest'
<1> USE DEF Goto, Fixed, Running, Early, Keeping, SerialInv
<1>1. Active(i)
  BY DEF Active, Cleanup
<1>2. OwnState(i) /\ pc[i] = "cleanup"
  BY <1>1 DEF Own, OwnState, Cleanup
<1>3. now \in Stamps
  BY <1>1, <1>2 DEF Typed, Begun, OwnState
<1>4. FreshBuilds => ~Expired(now)
  <2>1. SUFFICES ASSUME FreshBuilds, dir[Old(now)] # None PROVE ~Expired(now)
    BY DEF Expired, OldTimes
  <2>2. \A s \in OldTimes : s # now => ~ListedBefore(s, now)
    <3>1. SUFFICES ASSUME NEW s \in OldTimes, s # now PROVE ~ListedBefore(s, now)
      OBVIOUS
    <3>2. s \in Stamps /\ dir[Old(s)] # None
      BY <1>3, ClockAssumption DEF OldTimes
    <3>3. dir[Old(s)].mtime < dir[Old(now)].mtime
      BY <1>2, <1>3, <2>1, <3>1, <3>2 DEF OwnState, NewestOld
    <3>4. dir[Old(s)].mtime \in Nat /\ dir[Old(now)].mtime \in Nat
      BY <1>3, <2>1, <3>2, NameTypes DEF Typed, TypeOK, Trees
    <3>5. QED
      BY <3>3, <3>4 DEF ListedBefore
  <2>3. ~ListedBefore(now, now)
    <3>1. dir[Old(now)].mtime \in Nat
      BY <1>3, <2>1, NameTypes DEF Typed, TypeOK, Trees
    <3>2. QED
      BY <1>3, <3>1, ClockAssumption DEF ListedBefore
  <2>4. {s \in OldTimes : ListedBefore(s, now)} = {}
    BY <2>2, <2>3
  <2>5. QED
    BY <2>4, FS_EmptySet, KeepAssumption DEF Expired
<1>5. \A n \in Names :
        dir'[n] = IF n[1] = "old" /\ Expired(n[2]) THEN None ELSE dir[n]
  BY DEF Cleanup
<1>6. /\ dir'[Dst] = dir[Dst]
      /\ FreshBuilds => dir'[Old(now)] = dir[Old(now)]
      /\ \A t \in Stamps : /\ dir'[Old(t)] = dir[Old(t)] \/ dir'[Old(t)] = None
                          /\ dir'[Failed(t)] = dir[Failed(t)]
  <2>1. dir'[Dst] = dir[Dst]
    BY <1>5, NameTypes DEF Dst
  <2>2. \A t \in Stamps : dir'[Old(t)] = IF Expired(t) THEN None ELSE dir[Old(t)]
    BY <1>5, NameTypes DEF Old
  <2>3. \A t \in Stamps : dir'[Failed(t)] = dir[Failed(t)]
    BY <1>5, NameTypes DEF Failed
  <2>4. QED
    BY <1>3, <1>4, <2>1, <2>2, <2>3
<1>7. UNCHANGED <<now, ts, before, tick>>
  BY DEF Cleanup
<1>8. FreshBuilds => NewestOld'
  BY <1>2, <1>3, <1>6, <1>7 DEF NewestOld, OwnState
<1>9. pc' = [pc EXCEPT ![i] = "migrate"] /\ pc'[i] = "migrate"
  BY DEF Cleanup, Typed, TypeOK
<1>10. OwnState(i)'
  BY <1>2, <1>3, <1>6, <1>7, <1>8, <1>9 DEF OwnState
<1>11. Alone' /\ Own'
  BY <1>1, <1>9, <1>10, OwnFrame
<1>12. Unused'
  BY <1>6, <1>7 DEF Unused
<1>13. Dated'
  BY <1>5, <1>7 DEF Dated
<1>14. DstNewest'
  BY <1>6 DEF DstNewest
<1>15. QED
  BY <1>11, <1>12, <1>13, <1>14

\* A new invocation finds its names free and the others finished.
LEMMA StartStep ==
  ASSUME SerialInv, Serial, UniqueTs, NEW i \in Invocations, Start(i)
  PROVE  Alone' /\ Own' /\ Unused' /\ Dated' /\ DstNewest'
<1> USE DEF Goto, Running, Early, Keeping, SerialInv
<1>1. \A j \in Invocations : ~Active(j)
  BY DEF Start
<1>2. pc' = [pc EXCEPT ![i] = "download"] /\ pc'[i] = "download"
  BY DEF Start, Typed, TypeOK
<1>3. /\ now' = now + 1 /\ now + 1 \in Stamps
      /\ ts' = [ts EXCEPT ![i] = now + 1]
      /\ before' = [before EXCEPT ![i] = dir[Dst]]
      /\ UNCHANGED <<dir, tick>>
  BY DEF Start
<1>4. now \in Nat /\ ts'[i] = now + 1 /\ before'[i] = dir[Dst]
  BY <1>3, ClockAssumption DEF Typed, TypeOK
<1>5. dir[Old(now + 1)] = None /\ dir[Failed(now + 1)] = None
  BY <1>3, <1>4 DEF Unused
<1>6. OwnState(i)'
  BY <1>2, <1>3, <1>4, <1>5 DEF OwnState
<1>7. \A j \in Invocations : Active(j)' => j = i
  BY <1>1, <1>2 DEF Active, Typed, TypeOK
<1>8. Alone' /\ Own'
  BY <1>6, <1>7 DEF Alone, Own
<1>9. Unused'
  BY <1>3, <1>4, ClockAssumption DEF Unused
<1>10. QED
  BY <1>3, <1>8, <1>9 DEF Dated, DstNewest

LEMMA InitSerial == Init => SerialInv
<1> SUFFICES ASSUME Init PROVE SerialInv
  OBVIOUS
<1>1. Typed
  BY InitTyped
<1>2. \A i \in Invocations : ~Active(i)
  BY DEF Init, Active, Running
<1>3. now = 0 /\ tick = 1
  BY DEF Init
<1>4. /\ \A n \in Names \ {Dst} : dir[n] = None
      /\ dir[Dst] # None => dir[Dst].mtime = 1
  BY NameTypes DEF Init
<1>5. \A t \in Stamps : dir[Old(t)] = None /\ dir[Failed(t)] = None
  BY <1>4, NameTypes, NamesDiffer
<1>6. Dated
  BY <1>3, <1>4 DEF Dated
<1>7. QED
  BY <1>1, <1>2, <1>5, <1>6 DEF SerialInv, Alone, Own, Unused, DstNewest

LEMMA StepSerial ==
  ASSUME Serial, UniqueTs, SerialInv, [Next]_vars
  PROVE  SerialInv'
<1>1. Typed'
  BY StepTyped DEF SerialInv
<1>2. ASSUME NEW i \in Invocations, Step(i)
      PROVE  Alone' /\ Own' /\ Unused' /\ Dated' /\ DstNewest'
  BY <1>2, StartStep, QuietStep, BackupStep, InstallStep, NpmCiStep, CleanupStep,
     MoveFailedStep, MoveBackStep DEF Step, Proceed, Abort
<1>3. ASSUME Respawn \/ UNCHANGED vars
      PROVE  Alone' /\ Own' /\ Unused' /\ Dated' /\ DstNewest'
  <2>1. UNCHANGED <<pc, tar, ts, dir, now, tick, before>>
    BY <1>3 DEF Respawn, vars, Disk, Fixed
  <2>2. NewestOld' = NewestOld
    BY <2>1 DEF NewestOld
  <2>3. Own'
    BY <2>1, <2>2 DEF SerialInv, Own, OwnState, Active
  <2>4. QED
    BY <2>1, <2>3 DEF SerialInv, Alone, Active, Unused, Dated, DstNewest
<1>4. QED
  BY <1>1, <1>2, <1>3 DEF Next, SerialInv

\* One at a time, with distinct $TS and fresh builds, no cleanup, failure or
\* kill takes from a deploy the backup that its rollback needs.
THEOREM BackupSurvives ==
  ASSUME Serial, UniqueTs, FreshBuilds
  PROVE  Spec => []BackupKept
<1>1. Init => SerialInv
  BY InitSerial
<1>2. SerialInv /\ [Next]_vars => SerialInv'
  BY StepSerial
<1>3. SerialInv => BackupKept
  BY DEF SerialInv, Own, OwnState, Active, Running, Keeping, BackupKept
<1>4. QED
  BY <1>1, <1>2, <1>3, PTL DEF Spec

\* Only the second health check ends a rollback.
LEMMA RollbackEnds ==
  ASSUME Typed, [Next]_vars, NEW i \in Invocations,
         Ends(i, "rolledBack") \/ Ends(i, "rollbackFailed")
  PROVE  CheckOldPasses(i) \/ CheckOldFails(i)
<1> USE DEF Ends, Goto, Typed, TypeOK
<1>1. ~Respawn /\ ~UNCHANGED vars
  BY DEF Respawn, vars
<1>2. PICK j \in Invocations : Step(j)
  BY <1>1 DEF Next
<1>3. \/ CheckOldPasses(j) \/ CheckOldFails(j)
      \/ \E l : /\ pc' = [pc EXCEPT ![j] = l]
               /\ l \notin {"rolledBack", "rollbackFailed"}
  BY <1>2 DEF Step, Proceed, Abort, Start, Download, TestDst, Backup, Install,
     NpmCi, Cleanup, Migrate, SkipMigrate, Restart, CheckPasses, CheckFails,
     TestBackup, MoveFailed, MoveBack, RestartOld, DownloadFails, MvAborts, CleanupFails,
     NpmCiFails, MigrateFails, RestartFails, Kill
<1>4. pc'[i] \in {"rolledBack", "rollbackFailed"} /\ pc'[i] # pc[i]
  OBVIOUS
<1>5. CASE CheckOldPasses(j) \/ CheckOldFails(j)
  BY <1>4, <1>5 DEF CheckOldPasses, CheckOldFails
<1>6. QED
  BY <1>3, <1>4, <1>5

\* One at a time, a rollback that runs to its end puts back the tree that was
\* live before the deploy, the very directory and not only its version.  It need
\* not be of fresh builds: where cleanup took the backup there is no rollback.
THEOREM RollbackIsExact ==
  ASSUME Serial, UniqueTs
  PROVE  Spec => RollbackRestores
<1>1. Init => SerialInv
  BY InitSerial
<1>2. SerialInv /\ [Next]_vars => SerialInv'
  BY StepSerial
<1>3. SerialInv /\ [Next]_vars =>
        [\A i \in Invocations :
           Ends(i, "rolledBack") \/ Ends(i, "rollbackFailed") =>
             dir'[Dst] = before[i]]_vars
  <2>1. SUFFICES ASSUME SerialInv, [Next]_vars, NEW i \in Invocations,
                        Ends(i, "rolledBack") \/ Ends(i, "rollbackFailed")
                 PROVE  dir'[Dst] = before[i]
    OBVIOUS
  <2>2. CheckOldPasses(i) \/ CheckOldFails(i)
    BY <2>1, RollbackEnds DEF SerialInv
  <2>3. pc[i] = "checkOld" /\ dir' = dir
    BY <2>2 DEF CheckOldPasses, CheckOldFails, Disk
  <2>4. QED
    BY <2>1, <2>3 DEF SerialInv, Own, OwnState, Active, Running
<1>4. QED
  BY <1>1, <1>2, <1>3, PTL DEF Spec, RollbackRestores
-----------------------------------------------------------------------------
(* One invocation at a time: what a deploy that ends has left behind.      *)

\* From the swap to the rollback the live tree is the build that was fetched,
\* alone in it, after npm ci with its dependencies, and what the health checks
\* were made of is a process started from that tree.
Building  == {"npmCi", "cleanup", "migrate", "restart", "check", "testBackup", "moveFailed"}
Completed == Building \ {"npmCi", "moveFailed"}
Checked   == {"check", "testBackup", "checkOld"}
Built ==
  \A i \in Invocations :
    /\ pc[i] \in Building => dir[Dst].ver = tar[i] /\ dir[Dst].inside = {}
    /\ pc[i] \in Completed => dir[Dst].deps
    /\ pc[i] \in Checked => proc = AsProcess(dir[Dst])

\* With no other active invocation, what i leaves true of itself is all of Built.
LEMMA BuiltFrame ==
  ASSUME Typed, NEW i \in Invocations, NEW l, pc' = [pc EXCEPT ![i] = l],
         \A j \in Invocations \ {i} : ~Active(j),
         l \in Building => dir'[Dst].ver = tar'[i] /\ dir'[Dst].inside = {},
         l \in Completed => dir'[Dst].deps,
         l \in Checked => proc' = AsProcess(dir'[Dst])
  PROVE  Built'
<1>1. \A j \in Invocations : pc'[j] \in Building \union Checked => j = i /\ l = pc'[j]
  BY DEF Active, Building, Checked, Running, Typed, TypeOK
<1>2. \A j \in Invocations : pc'[j] \in Completed => pc'[j] \in Building
  BY DEF Completed
<1>3. QED
  BY <1>1, <1>2 DEF Built

\* The swap puts the build on the name that the backup has freed, npm ci and
\* cleanup leave it there, and each restart is of what is live.
LEMMA StepBuilt ==
  ASSUME SerialInv, Serial, Built, [Next]_vars
  PROVE  Built'
<1> USE DEF Goto, Disk, Fixed, SerialInv, Building, Completed, Checked
<1>t. DOMAIN pc = Invocations /\ dir \in [Names -> Trees \union {None}] /\ Dst \in Names
  BY NameTypes DEF Typed, TypeOK
<1>a. \A i \in Invocations : Active(i) => \A j \in Invocations \ {i} : ~Active(j)
  BY DEF Alone
<1>1. ASSUME NEW i \in Invocations, Start(i) PROVE Built'
  BY <1>1, BuiltFrame DEF Start
<1>2. ASSUME NEW i \in Invocations,
             \/ Download(i) \/ TestDst(i) \/ Backup(i) \/ CheckPasses(i)
             \/ MoveFailed(i) \/ MoveBack(i)
             \/ CheckOldPasses(i) \/ CheckOldFails(i)
             \/ DownloadFails(i) \/ MvAborts(i) \/ NpmCiFails(i)
             \/ CleanupFails(i) \/ MigrateFails(i) \/ RestartFails(i) \/ Kill(i)
      PROVE Built'
  <2>1. Active(i)
    BY <1>2 DEF Download, TestDst, Backup, CheckPasses,
       MoveFailed, MoveBack, CheckOldPasses, CheckOldFails,
       DownloadFails, MvAborts, CleanupFails, NpmCiFails, MigrateFails, RestartFails, Kill,
       Active, Running
  <2>2. /\ pc' = [pc EXCEPT ![i] = pc'[i]]
        /\ pc'[i] \in {"testDst", "backup", "install", "done", "moveBack",
                       "restartOld", "rolledBack", "rollbackFailed"} \union Aborted
    BY <1>2, <1>t DEF Download, TestDst, Backup, CheckPasses,
       MoveFailed, MoveBack, CheckOldPasses, CheckOldFails,
       DownloadFails, MvAborts, CleanupFails, NpmCiFails, MigrateFails, RestartFails, Kill, Aborted
  <2>3. pc'[i] \notin Building \union Checked
    BY <2>2 DEF Aborted
  <2>4. QED
    BY <1>a, <2>1, <2>2, <2>3, BuiltFrame
<1>3. ASSUME NEW i \in Invocations, Install(i) PROVE Built'
  <2>1. Active(i) /\ dir[Dst] = None
    BY <1>3 DEF Install, Active, Running, Own, OwnState
  <2>2. PICK m \in BuildTimes : dir' = [dir EXCEPT ![Dst] = StageTree(tar[i], m)]
    BY <1>3, <2>1 DEF Install
  <2>3. dir'[Dst].ver = tar'[i] /\ dir'[Dst].inside = {}
    BY <1>3, <1>t, <2>2 DEF Install, StageTree
  <2>4. pc' = [pc EXCEPT ![i] = "npmCi"]
    BY <1>3 DEF Install
  <2>5. QED
    BY <1>a, <2>1, <2>3, <2>4, BuiltFrame
<1>4. ASSUME NEW i \in Invocations,
             \/ NpmCi(i) \/ Cleanup(i) \/ Migrate(i) \/ SkipMigrate(i)
             \/ Restart(i) \/ CheckFails(i) \/ TestBackup(i)
      PROVE Built'
  <2>1. pc[i] \in Building \ {"moveFailed"} /\ tar' = tar /\ Active(i)
    BY <1>4 DEF NpmCi, Cleanup, Migrate, SkipMigrate, Restart, CheckFails, TestBackup,
       Active, Running
  <2>2. /\ dir'[Dst].ver = dir[Dst].ver /\ dir'[Dst].inside = dir[Dst].inside
        /\ dir'[Dst].deps
    <3>1. dir[Dst] \in Trees
      BY <1>t, <2>1 DEF Own, OwnState, Keeping
    <3>2. CASE NpmCi(i)
      <4>0. HasBuild(dir[Dst])
        BY <2>1, <3>1, <3>2, NoneAssumption, EmptyAssumption
           DEF NpmCi, HasBuild, Built, Typed, Begun, Running
      <4>1. dir'[Dst] = Touched(TRUE) /\ tick \in Nat
        BY <1>t, <3>2, <4>0 DEF NpmCi, Typed, TypeOK
      <4>2. Touched(TRUE).deps
        BY <3>1 DEF Touched, Trees
      <4>3. QED
        BY <3>1, <4>1, <4>2, TouchType
    <3>3. CASE ~NpmCi(i)
      <4>1. dir'[Dst] = dir[Dst]
        BY <1>4, <1>t, <3>3 DEF Cleanup, Dst, Migrate, SkipMigrate, Restart, CheckFails, TestBackup
      <4>2. pc[i] \in Completed
        BY <1>4, <3>3 DEF Cleanup, Migrate, SkipMigrate, Restart, CheckFails, TestBackup
      <4>3. QED
        BY <4>1, <4>2 DEF Built
    <3>4. QED
      BY <3>2, <3>3
  <2>3. dir'[Dst].ver = tar'[i] /\ dir'[Dst].inside = {} /\ dir'[Dst].deps
    BY <2>1, <2>2 DEF Built
  <2>4. /\ pc' = [pc EXCEPT ![i] = pc'[i]]
        /\ pc'[i] \in Checked => Restart(i) \/ CheckFails(i)
    BY <1>4, <1>t DEF NpmCi, Cleanup, Migrate, SkipMigrate, Restart, CheckFails, TestBackup
  <2>5. pc'[i] \in Checked => proc' = AsProcess(dir'[Dst])
    BY <2>4 DEF Restart, CheckFails, Built, AsProcess, HasBuild
  <2>6. QED
    BY <1>a, <2>1, <2>3, <2>4, <2>5, BuiltFrame
<1>5. ASSUME NEW i \in Invocations, RestartOld(i) PROVE Built'
  <2>1. Active(i) /\ pc' = [pc EXCEPT ![i] = "checkOld"] /\ proc' = AsProcess(dir'[Dst])
    BY <1>5 DEF RestartOld, Active, Running
  <2>2. QED
    BY <1>a, <2>1, BuiltFrame
<1>6. CASE Respawn
  BY <1>6 DEF Respawn, Built, AsProcess, HasBuild
<1>7. CASE UNCHANGED vars
  BY <1>7 DEF vars, Built, AsProcess, HasBuild
<1>8. QED
  BY <1>1, <1>2, <1>3, <1>4, <1>5, <1>6, <1>7 DEF Next, Step, Proceed, Abort

\* A missing live tree is a swap under way or one that was killed: an mv whose target is taken has not freed the live name.
LEMMA StepLive ==
  ASSUME SerialInv, SerialInv', LiveTreePresent, [Next]_vars
  PROVE  LiveTreePresent'
<1> SUFFICES ASSUME dir'[Dst] = None
             PROVE  \E i \in Invocations : pc'[i] \in {"install", "moveBack", "killed"}
  BY DEF LiveTreePresent
<1> USE DEF Goto, Disk, Fixed
<1>t. DOMAIN pc = Invocations
  BY DEF SerialInv, Typed, TypeOK
<1>1. ASSUME NEW i \in Invocations, Backup(i) \/ MoveFailed(i) \/ Kill(i)
      PROVE  pc'[i] \in {"install", "moveBack", "killed"}
  BY <1>1, <1>t DEF Backup, MoveFailed, Kill
<1>2. ASSUME NEW i \in Invocations,
             \/ Install(i) \/ MoveBack(i) \/ NpmCi(i) \/ Cleanup(i)
      PROVE FALSE
  <2>1. CASE Install(i) \/ NpmCi(i) \/ Cleanup(i)
    <3>1. pc'[i] \in {"npmCi", "cleanup", "migrate"}
      BY <1>t, <2>1 DEF Install, NpmCi, Cleanup
    <3>2. QED
      BY <3>1 DEF SerialInv, Own, OwnState, Active, Running, Keeping
  <2>2. CASE MoveBack(i)
    <3>1. pc[i] = "moveBack" /\ pc'[i] = "restartOld" /\ before' = before
      BY <1>t, <2>2 DEF MoveBack, Fixed
    <3>2. dir'[Dst] = before[i] /\ before[i] # None
      BY <3>1 DEF SerialInv, Own, OwnState, Active, Running, Keeping
    <3>3. QED
      BY <3>2
  <2>3. QED
    BY <1>2, <2>1, <2>2
<1>3. ASSUME NEW i \in Invocations, NpmCiFails(i) PROVE FALSE
  <2>1. /\ dir \in [Names -> Trees \union {None}] /\ Dst \in Names
        /\ dir[Dst] \in Trees /\ tick \in Nat
    BY <1>3, NameTypes DEF NpmCiFails, HasBuild, SerialInv, Typed, TypeOK
  <2>2. CASE dir' = dir
    BY <2>1, <2>2, NoneAssumption
  <2>3. CASE dir' = [dir EXCEPT ![Dst] = Touched(FALSE)]
    <3>1. dir'[Dst] = Touched(FALSE)
      BY <2>1, <2>3
    <3>2. Touched(FALSE) \in Trees
      BY <2>1, TouchType
    <3>3. QED
      BY <3>1, <3>2, NoneAssumption
  <2>4. QED
    BY <1>3, <2>2, <2>3 DEF NpmCiFails
<1>4. ASSUME NEW i \in Invocations, MvAborts(i), dir[Dst] = None
      PROVE  pc[i] \notin {"install", "moveBack"}
  <2>1. pc[i] \in Running
    BY <1>4 DEF MvAborts, Running
  <2>2. OwnState(i)
    BY <2>1 DEF SerialInv, Own, Active
  <2>3. pc[i] = "moveBack" => dir[Old(ts[i])] # None
    BY <2>2 DEF OwnState, Keeping
  <2>4. QED
    BY <1>4, <2>3 DEF MvAborts, StageRefused, MvFails
<1>5. ASSUME NEW i \in Invocations,
             \/ Start(i) \/ Download(i) \/ TestDst(i) \/ Migrate(i) \/ SkipMigrate(i)
             \/ Restart(i) \/ CheckPasses(i) \/ CheckFails(i) \/ TestBackup(i)
             \/ RestartOld(i) \/ CheckOldPasses(i) \/ CheckOldFails(i)
             \/ DownloadFails(i) \/ MvAborts(i) \/ CleanupFails(i) \/ MigrateFails(i)
             \/ RestartFails(i)
      PROVE  \E j \in Invocations : pc'[j] \in {"install", "moveBack", "killed"}
  <2>1. dir' = dir /\ \E l : pc' = [pc EXCEPT ![i] = l]
    BY <1>5 DEF Start, Download, TestDst, Migrate, SkipMigrate, Restart,
       CheckPasses, CheckFails, TestBackup, RestartOld, CheckOldPasses,
       CheckOldFails, DownloadFails, MvAborts, CleanupFails, MigrateFails, RestartFails
  <2>2. pc[i] \notin {"install", "moveBack", "killed"}
    BY <1>4, <1>5, <2>1 DEF Start, Download, TestDst, Migrate, SkipMigrate, Restart,
       CheckPasses, CheckFails, TestBackup, RestartOld, CheckOldPasses,
       CheckOldFails, DownloadFails, MvAborts, CleanupFails, MigrateFails, RestartFails
  <2>3. \A j \in Invocations \ {i} : pc'[j] = pc[j]
    BY <2>1, <1>t
  <2>4. QED
    BY <2>1, <2>2, <2>3 DEF LiveTreePresent
<1>6. CASE Respawn \/ UNCHANGED vars
  BY <1>6 DEF Respawn, vars, LiveTreePresent
<1>7. QED
  BY <1>1, <1>2, <1>3, <1>5, <1>6 DEF Next, Step, Proceed, Abort

DeployInv == SerialInv /\ Built /\ LiveTreePresent

\* The host starts with a tree or an empty directory, and no invocation.
LEMMA InitDeploy == Init => DeployInv
<1> SUFFICES ASSUME Init PROVE DeployInv
  OBVIOUS
<1>1. Built
  BY DEF Init, Built, Building, Completed, Checked
<1>2a. dir[Dst] # None
  <2>1. PICK first \in Versions \union {Empty} :
          dir[Dst] = [ver |-> first, deps |-> first # Empty, mtime |-> 1, inside |-> {}]
    BY NameTypes DEF Init
  <2>2. dir[Dst] \in Trees
    BY <2>1 DEF Trees
  <2>3. QED
    BY <2>2, NoneAssumption
<1>2. LiveTreePresent
  BY <1>2a DEF LiveTreePresent
<1>3. QED
  BY <1>1, <1>2, InitSerial DEF DeployInv

LEMMA StepDeploy ==
  ASSUME Serial, UniqueTs, DeployInv, [Next]_vars
  PROVE  DeployInv'
BY StepSerial, StepBuilt, StepLive DEF DeployInv

\* Only the health check calls a deploy done, and only the test for a backup
\* finds none.
LEMMA DeployEnds ==
  ASSUME Typed, [Next]_vars, NEW i \in Invocations
  PROVE  /\ Ends(i, "done") => CheckPasses(i)
         /\ Ends(i, "noBackup") => TestBackup(i) /\ dir[Old(ts[i])] = None
<1> USE DEF Ends, Goto, Typed, TypeOK
<1> SUFFICES ASSUME Ends(i, "done") \/ Ends(i, "noBackup")
             PROVE  \/ Ends(i, "done") /\ CheckPasses(i)
                    \/ Ends(i, "noBackup") /\ TestBackup(i) /\ dir[Old(ts[i])] = None
  OBVIOUS
<1>1. ~Respawn /\ ~UNCHANGED vars
  BY DEF Respawn, vars
<1>2. PICK j \in Invocations : Step(j)
  BY <1>1 DEF Next
<1>3. \/ CheckPasses(j)
      \/ TestBackup(j)
      \/ \E l : /\ pc' = [pc EXCEPT ![j] = l]
                /\ l \notin {"done", "noBackup"}
  BY <1>2 DEF Step, Proceed, Abort, Start, Download, TestDst, Backup, Install,
     NpmCi, Cleanup, Migrate, SkipMigrate, Restart, CheckFails,
     MoveFailed, MoveBack, RestartOld, CheckOldPasses, CheckOldFails,
     DownloadFails, MvAborts, CleanupFails, NpmCiFails, MigrateFails, RestartFails, Kill
<1>4. pc'[i] \in {"done", "noBackup"} /\ pc'[i] # pc[i]
  OBVIOUS
<1>5. CASE CheckPasses(j)
  BY <1>4, <1>5 DEF CheckPasses
<1>6. CASE TestBackup(j)
  BY <1>4, <1>6 DEF TestBackup
<1>7. QED
  BY <1>3, <1>4, <1>5, <1>6

\* One at a time, no failing command leaves the service without a live tree:
\* it is missing during a swap and after a kill in one (ec2-pull-and-restart.sh:146-195).
THEOREM LiveTreeStays ==
  ASSUME Serial, UniqueTs
  PROVE  Spec => []LiveTreePresent
<1>1. Init => DeployInv
  BY InitDeploy
<1>2. DeployInv /\ [Next]_vars => DeployInv'
  BY StepDeploy
<1>3. DeployInv => LiveTreePresent
  BY DEF DeployInv
<1>4. QED
  BY <1>1, <1>2, <1>3, PTL DEF Spec

\* One at a time, a deploy that is called healthy is the build it fetched, and
\* the process that passed the check is that build
\* (ec2-pull-and-restart.sh:188).
THEOREM DoneIsTheBuild ==
  ASSUME Serial, UniqueTs
  PROVE  Spec => SuccessIsTheBuild
<1>1. Init => DeployInv
  BY InitDeploy
<1>2. DeployInv /\ [Next]_vars => DeployInv'
  BY StepDeploy
<1>3. DeployInv /\ [Next]_vars =>
        [\A i \in Invocations : Ends(i, "done") =>
           /\ dir'[Dst].ver = tar[i]
           /\ dir'[Dst].inside = {}
           /\ proc' = AsProcess(dir'[Dst])]_vars
  <2>1. SUFFICES ASSUME DeployInv, [Next]_vars, NEW i \in Invocations, Ends(i, "done")
                 PROVE  /\ dir'[Dst].ver = tar[i]
                        /\ dir'[Dst].inside = {}
                        /\ proc' = AsProcess(dir'[Dst])
    OBVIOUS
  <2>2. CheckPasses(i)
    BY <2>1, DeployEnds DEF DeployInv, SerialInv
  <2>3. pc[i] = "check" /\ dir' = dir /\ proc' = proc
    BY <2>2 DEF CheckPasses, Disk
  <2>4. QED
    BY <2>1, <2>3 DEF DeployInv, Built, Building, Checked
<1>4. QED
  BY <1>1, <1>2, <1>3, PTL DEF Spec, SuccessIsTheBuild

\* One at a time, an unhealthy deploy finds no backup to go back to only where
\* there was no live tree when it began (ec2-pull-and-restart.sh:190-208).
THEOREM UnhealthyIsRolledBack ==
  ASSUME Serial, UniqueTs, FreshBuilds
  PROVE  Spec => UnhealthyRollsBack
<1>1. Init => SerialInv
  BY InitSerial
<1>2. SerialInv /\ [Next]_vars => SerialInv'
  BY StepSerial
<1>3. SerialInv /\ [Next]_vars =>
        [\A i \in Invocations : Ends(i, "noBackup") => before[i] = None]_vars
  <2>1. SUFFICES ASSUME SerialInv, [Next]_vars, NEW i \in Invocations,
                        Ends(i, "noBackup")
                 PROVE  before[i] = None
    OBVIOUS
  <2>2. TestBackup(i) /\ dir[Old(ts[i])] = None
    BY <2>1, DeployEnds DEF SerialInv
  <2>3. pc[i] = "testBackup"
    BY <2>2 DEF TestBackup
  <2>4. QED
    BY <2>1, <2>2, <2>3 DEF SerialInv, Own, OwnState, Active, Running, Keeping
<1>4. QED
  BY <1>1, <1>2, <1>3, PTL DEF Spec, UnhealthyRollsBack

-----------------------------------------------------------------------------
(* One invocation at a time: deploys are atomic, as AtomicDeploy says.     *)

\* The download is what fetches a build, and a rollback that has moved a tree
\* back had one to move.
Fetched ==
  \A i \in Invocations :
    /\ pc[i] \in {"idle", "download"} => tar[i] = None
    /\ pc[i] \in {"restartOld", "checkOld"} => before[i] # None
AtomInv == DeployInv /\ Fetched

LEMMA StepFetched ==
  ASSUME SerialInv, Fetched, [Next]_vars
  PROVE  Fetched'
<1> USE DEF Goto, Disk, Fixed, Fetched
<1>t. /\ DOMAIN pc = Invocations /\ DOMAIN tar = Invocations
      /\ DOMAIN before = Invocations
  BY DEF SerialInv, Typed, TypeOK
<1>1. ASSUME NEW i \in Invocations, Start(i) PROVE Fetched'
  BY <1>1, <1>t DEF Start
<1>2. ASSUME NEW i \in Invocations, Download(i) PROVE Fetched'
  BY <1>2, <1>t DEF Download
<1>3. ASSUME NEW i \in Invocations, MoveBack(i) PROVE Fetched'
  <2>1. before[i] # None
    BY <1>3 DEF MoveBack, SerialInv, Own, OwnState, Active, Running
  <2>2. QED
    BY <1>3, <1>t, <2>1 DEF MoveBack
<1>4. ASSUME NEW i \in Invocations, Step(i), ~Start(i), ~Download(i), ~MoveBack(i)
      PROVE  Fetched'
  <2>1. UNCHANGED <<tar, before>>
    BY <1>4 DEF Step, Proceed, Abort, TestDst, Backup, Install, NpmCi, Cleanup,
       Migrate, SkipMigrate, Restart, CheckPasses, CheckFails, TestBackup,
       MoveFailed, RestartOld, CheckOldPasses, CheckOldFails, DownloadFails,
       MvAborts, CleanupFails, NpmCiFails, MigrateFails, RestartFails, Kill
  <2>2. pc' = [pc EXCEPT ![i] = pc'[i]]
    BY <1>4, <1>t DEF Step, Proceed, Abort, TestDst, Backup, Install, NpmCi, Cleanup,
       Migrate, SkipMigrate, Restart, CheckPasses, CheckFails, TestBackup,
       MoveFailed, RestartOld, CheckOldPasses, CheckOldFails, DownloadFails,
       MvAborts, CleanupFails, NpmCiFails, MigrateFails, RestartFails, Kill
  <2>3. /\ pc'[i] \notin {"idle", "download", "restartOld"}
        /\ pc'[i] = "checkOld" => pc[i] = "restartOld"
    BY <1>4, <1>t DEF Step, Proceed, Abort, TestDst, Backup, Install, NpmCi, Cleanup,
       Migrate, SkipMigrate, Restart, CheckPasses, CheckFails, TestBackup,
       MoveFailed, RestartOld, CheckOldPasses, CheckOldFails, DownloadFails,
       MvAborts, CleanupFails, NpmCiFails, MigrateFails, RestartFails, Kill
  <2>4. QED
    BY <1>t, <2>1, <2>2, <2>3
<1>5. CASE Respawn \/ UNCHANGED vars
  BY <1>5 DEF Respawn, vars
<1>6. QED
  BY <1>1, <1>2, <1>3, <1>4, <1>5 DEF Next

LEMMA InitAtom == Init => AtomInv
<1>1. Init => Fetched
  BY DEF Init, Fetched
<1>2. QED
  BY <1>1, InitDeploy DEF AtomInv

LEMMA StepAtom ==
  ASSUME Serial, UniqueTs, AtomInv, [Next]_vars
  PROVE  AtomInv'
BY StepDeploy, StepFetched DEF AtomInv, DeployInv

State     == [i \in Invocations |-> IF Active(i) THEN "busy" ELSE pc[i]]
DeployAbs == <<AsProcess(LiveTree), proc, State, tar>>

\* What is live, by who is under way.
LEMMA LiveOf ==
  /\ Alone => \A i \in Invocations : Active(i) => LiveTree = before[i]
  /\ (\A i \in Invocations : ~Active(i)) => LiveTree = dir[Dst]
BY DEF Alone, LiveTree

\* A command after which its deploy goes on has changed nothing that is seen.
LEMMA GoesOn ==
  ASSUME SerialInv, NEW i \in Invocations, NEW l \in Running, Active(i), Goto(i, l),
         before' = before
  PROVE  LiveTree' = LiveTree /\ State' = State
<1>1. \A j \in Invocations : Active(j)' <=> Active(j)
  BY DEF Goto, Active, SerialInv, Typed, TypeOK
<1>2. State' = State
  BY <1>1 DEF Goto, State, SerialInv, Typed, TypeOK
<1>3. \A j \in Invocations : Active(j) <=> j = i
  BY DEF SerialInv, Alone
<1>4. LiveTree = before[i] /\ LiveTree' = before'[i]
  BY <1>1, <1>3 DEF LiveTree
<1>5. QED
  BY <1>2, <1>4

\* One that ends its deploy shows what is there.
LEMMA IsOver ==
  ASSUME SerialInv, NEW i \in Invocations, NEW l \in Ended, Active(i), Goto(i, l)
  PROVE  /\ LiveTree = before[i] /\ LiveTree' = dir'[Dst]
         /\ State[i] = "busy" /\ State' = [State EXCEPT ![i] = l]
<1>1. \A j \in Invocations : Active(j) <=> j = i
  BY DEF SerialInv, Alone
<1>2. l \notin Running
  BY DEF Ended, Aborted, Running
<1>3. \A j \in Invocations : ~Active(j)'
  BY <1>1, <1>2 DEF Goto, Active, SerialInv, Typed, TypeOK
<1>4. LiveTree' = dir'[Dst]
  BY <1>3 DEF LiveTree
<1>5. LiveTree = before[i]
  BY <1>1 DEF LiveTree
<1>6. State[i] = "busy" /\ State' = [State EXCEPT ![i] = l]
  BY <1>1, <1>3 DEF Goto, State, SerialInv, Typed, TypeOK
<1>7. QED
  BY <1>4, <1>5, <1>6

\* While a deploy is under way the service's directory is what it found, its
\* build or, in the swap, nothing.
LEMMA DstOf ==
  ASSUME AtomInv, NEW i \in Invocations, Active(i)
  PROVE  /\ \/ dir[Dst] = before[i]
            \/ AsProcess(dir[Dst]) \in Abs!Torn(i)
            \/ pc[i] \in {"install", "moveBack"} /\ dir[Dst] = None
         /\ tar[i] = None => dir[Dst] = before[i]
<1> USE DEF AtomInv, DeployInv, SerialInv
<1>1. OwnState(i)
  BY DEF Own
<1>2. CASE pc[i] \in Early \union {"restartOld", "checkOld"}
  BY <1>1, <1>2 DEF OwnState
<1>3. CASE pc[i] \in {"install", "moveBack"}
  <2>1. dir[Dst] = None /\ tar[i] \in Versions
    BY <1>1, <1>3 DEF OwnState, Typed, Begun, Running
  <2>2. QED
    BY <1>3, <2>1, NoneAssumption
<1>4. CASE pc[i] \in Building
  <2>1. dir[Dst].ver = tar[i] /\ tar[i] \in Versions
    BY <1>4 DEF Built, Building, Typed, Begun, Running
  <2>2. dir[Dst] \in Trees
    BY <1>1, <1>4, NameTypes DEF OwnState, Building, Keeping, Typed, TypeOK
  <2>3. AsProcess(dir[Dst]) = [ver |-> tar[i], deps |-> dir[Dst].deps]
    BY <2>1, <2>2, NoneAssumption, EmptyAssumption DEF AsProcess, HasBuild
  <2>4. dir[Dst].deps \in BOOLEAN
    BY <2>2 DEF Trees
  <2>5. AsProcess(dir[Dst]) \in Abs!Torn(i)
    BY <2>3, <2>4 DEF Abs!Torn
  <2>6. QED
    BY <2>1, <2>5, NoneAssumption
<1>5. QED
  BY <1>2, <1>3, <1>4 DEF Active, Running, Early, Building

\* A deploy that passed npm ci and was checked runs its whole build.
LEMMA WholeOf ==
  ASSUME AtomInv, NEW i \in Invocations, pc[i] \in {"check", "testBackup"}
  PROVE  /\ AsProcess(dir[Dst]) = Abs!Whole(tar[i]) /\ proc = AsProcess(dir[Dst])
         /\ tar[i] # None
<1> USE DEF AtomInv, DeployInv, SerialInv
<1>1. Active(i) /\ OwnState(i)
  BY DEF Own, Active, Running
<1>2. dir[Dst] # None
  BY <1>1 DEF OwnState, Keeping
<1>3. dir[Dst] \in Trees
  BY <1>2, NameTypes DEF Typed, TypeOK
<1>4. /\ dir[Dst].ver = tar[i] /\ dir[Dst].deps /\ proc = AsProcess(dir[Dst])
      /\ tar[i] \in Versions
  BY DEF Built, Building, Completed, Checked, Typed, Begun, Running
<1>5. dir[Dst].deps = TRUE
  BY <1>3, <1>4 DEF Trees
<1>6. AsProcess(dir[Dst]) = [ver |-> tar[i], deps |-> TRUE]
  BY <1>2, <1>4, <1>5, EmptyAssumption DEF AsProcess, HasBuild
<1>7. QED
  BY <1>4, <1>6, NoneAssumption DEF Abs!Whole

\* Serial invocations never meet a taken name or a missing source.
LEMMA NoMvAborts ==
  ASSUME SerialInv, NEW i \in Invocations
  PROVE  ~MvAborts(i)
<1> SUFFICES ASSUME MvAborts(i) PROVE FALSE
  OBVIOUS
<1>1. OwnState(i)
  BY DEF SerialInv, Own, Active, Running, MvAborts
<1>2. QED
  BY <1>1 DEF OwnState, MvAborts, MvFails, StageRefused, Early, Keeping

\* The start of a deploy takes note of what is live.
LEMMA StartMaps ==
  ASSUME AtomInv, Serial, NEW i \in Invocations, Start(i)
  PROVE  Abs!Begin(i)
<1> USE DEF AtomInv, DeployInv, SerialInv, Typed, TypeOK
<1>1. \A j \in Invocations : ~Active(j)
  BY DEF Start
<1>2. pc[i] = "idle" /\ pc' = [pc EXCEPT ![i] = "download"] /\ UNCHANGED <<tar, dir, proc>>
  BY DEF Start, Goto
<1>3. \A j \in Invocations : Active(j)' <=> j = i
  BY <1>1, <1>2 DEF Active, Running
<1>4. LiveTree = dir[Dst] /\ LiveTree' = before'[i]
  BY <1>1, <1>3 DEF LiveTree
<1>5. before'[i] = dir[Dst]
  BY DEF Start
<1>6. State[i] = "idle" /\ State' = [State EXCEPT ![i] = "busy"]
  BY <1>1, <1>2, <1>3 DEF State
<1>7. \A j \in Invocations : State[j] # "busy"
  BY <1>1, <1>2 DEF State, Active, Running, Ended, Aborted
<1>8. QED
  BY <1>2, <1>4, <1>5, <1>6, <1>7 DEF Abs!Begin, Abs!Busy, State, AsProcess, HasBuild

LEMMA DownloadMaps ==
  ASSUME AtomInv, NEW i \in Invocations, Download(i)
  PROVE  Abs!Fetch(i)
<1>1. Active(i) /\ tar[i] = None
  BY DEF Download, Active, Running, AtomInv, Fetched
<1>2. LiveTree' = LiveTree /\ State' = State
  BY <1>1, GoesOn DEF Download, Running, AtomInv, DeployInv
<1>3. State[i] = "busy"
  BY <1>1 DEF State
<1>4. QED
  BY <1>1, <1>2, <1>3 DEF Abs!Fetch, Abs!Busy, State, Download, AsProcess, HasBuild

\* The commands of the swap, the cleanup and the rollback are not seen.
LEMMA QuietMaps ==
  ASSUME AtomInv, NEW i \in Invocations,
         \/ TestDst(i) \/ Backup(i) \/ Install(i) \/ NpmCi(i) \/ Cleanup(i)
         \/ Migrate(i) \/ SkipMigrate(i) \/ CheckFails(i)
         \/ TestBackup(i) /\ dir[Old(ts[i])] # None
         \/ MoveFailed(i) \/ MoveBack(i)
  PROVE  UNCHANGED DeployAbs
<1>1. Active(i) /\ UNCHANGED <<tar, proc, before>>
  BY DEF TestDst, Backup, Install, NpmCi, Cleanup, Migrate, SkipMigrate, CheckFails,
     TestBackup, MoveFailed, MoveBack, Active, Running, Disk, Fixed
<1>2. \E l \in Running : Goto(i, l)
  BY DEF TestDst, Backup, Install, NpmCi, Cleanup, Migrate, SkipMigrate, CheckFails,
     TestBackup, MoveFailed, MoveBack, Running
<1>3. LiveTree' = LiveTree /\ State' = State
  BY <1>1, <1>2, GoesOn DEF AtomInv, DeployInv
<1>4. QED
  BY <1>1, <1>3 DEF DeployAbs, AsProcess, HasBuild

\* A restart is of what is live, or of what the deploy under way has there.
LEMMA RestartMaps ==
  ASSUME AtomInv, proc' = AsProcess(dir[Dst]), UNCHANGED <<tar, before>>,
         \/ UNCHANGED <<pc, dir>>
         \/ \E i \in Invocations, l \in Running : Active(i) /\ Goto(i, l)
  PROVE  Abs!Restart
<1>1. LiveTree' = LiveTree /\ State' = State
  <2>1. CASE UNCHANGED <<pc, dir>>
    BY <2>1 DEF LiveTree, State, Active
  <2>2. ASSUME NEW i \in Invocations, NEW l \in Running, Active(i), Goto(i, l)
        PROVE  LiveTree' = LiveTree /\ State' = State
    BY <2>2, GoesOn DEF AtomInv, DeployInv
  <2>3. QED
    BY <2>1, <2>2
<1>2. \/ proc' = AsProcess(LiveTree)
      \/ \E i \in Invocations :
           State[i] = "busy" /\ proc' \in {None} \union Abs!Torn(i)
  <2>1. CASE \A i \in Invocations : ~Active(i)
    BY <2>1, LiveOf
  <2>2. ASSUME NEW i \in Invocations, Active(i)
        PROVE  proc' = AsProcess(LiveTree) \/ proc' \in {None} \union Abs!Torn(i)
    <3>1. LiveTree = before[i]
      BY <2>2, LiveOf DEF AtomInv, DeployInv, SerialInv
    <3>2. dir[Dst] = None => AsProcess(dir[Dst]) = None
      BY DEF AsProcess, HasBuild
    <3>3. QED
      BY <2>2, <3>1, <3>2, DstOf
  <2>3. QED
    BY <2>1, <2>2 DEF State
<1>3. QED
  BY <1>1, <1>2 DEF Abs!Restart, Abs!Busy, State, AsProcess, HasBuild

\* A deploy that stops half way has left what it found or its build, and only
\* a kill nothing.
LEMMA AbortMaps ==
  ASSUME AtomInv, NEW i \in Invocations, Abort(i) \/ Kill(i)
  PROVE  \E how \in {"aborted", "killed"} : Abs!End(i, how)
<1> USE DEF AtomInv, DeployInv
<1>1. ~MvAborts(i)
  BY NoMvAborts
<1>2. PICK how \in {"aborted", "killed"} :
        /\ Goto(i, how)
        /\ how = "aborted" => /\ pc[i] \notin {"install", "moveBack"}
                              /\ proc' \in {proc, None}
        /\ how = "killed" => proc' = proc
  BY <1>1 DEF Abort, DownloadFails, NpmCiFails, CleanupFails, MigrateFails,
     RestartFails, Kill, Disk
<1>3. Active(i) /\ UNCHANGED <<tar, before>>
  BY <1>1 DEF Abort, DownloadFails, NpmCiFails, CleanupFails, MigrateFails,
     RestartFails, Kill, Active, Running, Fixed
<1>4. /\ LiveTree = before[i] /\ LiveTree' = dir'[Dst]
      /\ State[i] = "busy" /\ State' = [State EXCEPT ![i] = how]
  BY <1>2, <1>3, IsOver DEF Ended, Aborted
<1>5. /\ \/ dir'[Dst] = before[i]
         \/ AsProcess(dir'[Dst]) \in Abs!Torn(i)
         \/ how = "killed" /\ dir'[Dst] = None
      /\ tar[i] = None => dir'[Dst] = before[i]
  <2>1. CASE dir' = dir
    <3>1. pc[i] \in {"install", "moveBack"} => how = "killed"
      BY <1>2
    <3>2. QED
      BY <1>3, <2>1, <3>1, DstOf
  <2>2. CASE NpmCiFails(i) /\ dir' # dir
    <3>1. /\ dir[Dst] \in Trees /\ tick \in Nat
          /\ dir[Dst].ver = tar[i] /\ tar[i] \in Versions
      BY <2>2, NameTypes DEF NpmCiFails, HasBuild, SerialInv, Typed, TypeOK, Begun,
         Running, Built, Building
    <3>2. dir'[Dst] = Touched(FALSE)
      BY <2>2, NameTypes DEF NpmCiFails, SerialInv, Typed, TypeOK
    <3>3. Touched(FALSE) \in Trees /\ Touched(FALSE).ver = tar[i]
      BY <3>1, TouchType
    <3>4. AsProcess(dir'[Dst]) = [ver |-> tar[i], deps |-> Touched(FALSE).deps]
      BY <3>1, <3>2, <3>3, NoneAssumption, EmptyAssumption DEF AsProcess, HasBuild
    <3>5. Touched(FALSE).deps \in BOOLEAN
      BY <3>3 DEF Trees
    <3>6. QED
      BY <3>1, <3>4, <3>5, NoneAssumption DEF Abs!Torn
  <2>3. dir' = dir \/ NpmCiFails(i)
    BY <1>1 DEF Abort, DownloadFails, CleanupFails, MigrateFails, RestartFails, Kill,
       Disk
  <2>4. QED
    BY <2>1, <2>2, <2>3
<1>6. /\ AsProcess(dir'[Dst]) \in
           {AsProcess(before[i])} \union Abs!Torn(i)
             \union (IF how = "killed" THEN {None} ELSE {})
      /\ tar[i] = None => AsProcess(dir'[Dst]) = AsProcess(before[i])
  BY <1>5 DEF AsProcess, HasBuild
<1>7. CASE how = "aborted"
  BY <1>2, <1>3, <1>4, <1>6, <1>7 DEF Abs!End, Abs!Busy, State, AsProcess, HasBuild
<1>8. CASE how = "killed"
  BY <1>2, <1>3, <1>4, <1>6, <1>8 DEF Abs!End, Abs!Busy, State, AsProcess, HasBuild
<1>9. QED
  BY <1>7, <1>8

\* A verdict on a deploy is about what is live and serves when it is given.
LEMMA VerdictMaps ==
  ASSUME AtomInv, NEW i \in Invocations,
         \/ CheckPasses(i) \/ CheckOldPasses(i) \/ CheckOldFails(i)
         \/ TestBackup(i) /\ dir[Old(ts[i])] = None
  PROVE  \E how \in Abs!Outcomes : Abs!End(i, how)
<1> USE DEF AtomInv, DeployInv
<1>1. PICK how \in {"done", "noBackup", "rolledBack", "rollbackFailed"} :
        /\ Goto(i, how)
        /\ how = "done" => pc[i] = "check"
        /\ how = "noBackup" => pc[i] = "testBackup" /\ dir[Old(ts[i])] = None
        /\ how \in {"rolledBack", "rollbackFailed"} => pc[i] = "checkOld"
        /\ how = "rolledBack" => proc # None
  BY DEF CheckPasses, CheckOldPasses, CheckOldFails, TestBackup, CanServe
<1>2. Active(i) /\ UNCHANGED <<tar, proc, before, dir>>
  BY DEF CheckPasses, CheckOldPasses, CheckOldFails, TestBackup, Active, Running,
     Disk, Fixed
<1>3. /\ LiveTree = before[i] /\ LiveTree' = dir[Dst]
      /\ State[i] = "busy" /\ State' = [State EXCEPT ![i] = how]
  BY <1>1, <1>2, IsOver DEF Ended
<1>4. OwnState(i)
  BY <1>2 DEF SerialInv, Own
<1>5. CASE how = "done"
  <2>1. /\ AsProcess(dir[Dst]) = Abs!Whole(tar[i]) /\ proc = AsProcess(dir[Dst])
        /\ tar[i] # None
    BY <1>1, <1>5, WholeOf
  <2>2. Abs!End(i, "done")
    BY <1>2, <1>3, <1>5, <2>1 DEF Abs!End, Abs!Busy, State, AsProcess, HasBuild
  <2>3. QED
    BY <2>2 DEF Abs!Outcomes
<1>6. CASE how = "noBackup"
  <2>1. /\ AsProcess(dir[Dst]) = Abs!Whole(tar[i]) /\ proc = AsProcess(dir[Dst])
        /\ tar[i] # None
    BY <1>1, <1>6, WholeOf
  <2>2. FreshBuilds => AsProcess(before[i]) = None
    BY <1>1, <1>4, <1>6 DEF OwnState, Keeping, AsProcess, HasBuild
  <2>3. Abs!End(i, "noBackup")
    BY <1>2, <1>3, <1>6, <2>1, <2>2 DEF Abs!End, Abs!Busy, State, AsProcess, HasBuild
  <2>4. QED
    BY <2>3 DEF Abs!Outcomes
<1>7. CASE how \in {"rolledBack", "rollbackFailed"}
  <2>1. dir[Dst] = before[i] /\ proc = AsProcess(dir[Dst])
    BY <1>1, <1>4, <1>7 DEF OwnState, Built, Checked
  <2>2. how = "rolledBack" => AsProcess(before[i]) # None
    BY <1>1, <2>1
  <2>3. AsProcess(LiveTree)' = AsProcess(LiveTree)
    BY <1>3, <2>1 DEF AsProcess, HasBuild
  <2>4. Abs!End(i, how)
    BY <1>2, <1>3, <1>7, <2>1, <2>2, <2>3 DEF Abs!End, Abs!Busy, State
  <2>5. QED
    BY <1>7, <2>4 DEF Abs!Outcomes
<1>8. QED
  BY <1>1, <1>5, <1>6, <1>7

LEMMA StepMaps ==
  ASSUME AtomInv, Serial, [Next]_vars
  PROVE  Abs!DeployNext \/ UNCHANGED DeployAbs
<1>1. ASSUME NEW i \in Invocations, Step(i)
      PROVE  Abs!DeployNext \/ UNCHANGED DeployAbs
  <2>1. CASE Start(i)
    BY <2>1, StartMaps DEF Abs!DeployNext
  <2>2. CASE Download(i)
    BY <2>2, DownloadMaps DEF Abs!DeployNext
  <2>3. CASE Restart(i) \/ RestartOld(i)
    <3>1. Active(i) /\ \E l \in Running : Goto(i, l)
      BY <2>3 DEF Restart, RestartOld, Active, Running
    <3>2. proc' = AsProcess(dir[Dst]) /\ UNCHANGED <<tar, before>>
      BY <2>3 DEF Restart, RestartOld, Fixed
    <3>3. QED
      BY <3>1, <3>2, RestartMaps DEF Abs!DeployNext
  <2>4. CASE Abort(i) \/ Kill(i)
    BY <2>4, AbortMaps DEF Abs!DeployNext, Abs!Outcomes
  <2>5. CASE \/ CheckPasses(i) \/ CheckOldPasses(i) \/ CheckOldFails(i)
             \/ TestBackup(i) /\ dir[Old(ts[i])] = None
    BY <2>5, VerdictMaps DEF Abs!DeployNext
  <2>6. CASE \/ TestDst(i) \/ Backup(i) \/ Install(i) \/ NpmCi(i) \/ Cleanup(i)
             \/ Migrate(i) \/ SkipMigrate(i) \/ CheckFails(i)
             \/ TestBackup(i) /\ dir[Old(ts[i])] # None
             \/ MoveFailed(i) \/ MoveBack(i)
    BY <2>6, QuietMaps
  <2>7. QED
    BY <1>1, <2>1, <2>2, <2>3, <2>4, <2>5, <2>6 DEF Step, Proceed
<1>2. CASE Respawn
  BY <1>2, RestartMaps DEF Respawn, Disk, Fixed, Abs!DeployNext
<1>3. CASE UNCHANGED vars
  BY <1>3 DEF vars, DeployAbs, LiveTree, State, Active, AsProcess, HasBuild
<1>4. QED
  BY <1>1, <1>2, <1>3 DEF Next

LEMMA InitMaps == Init => Abs!DeployInit
<1> SUFFICES ASSUME Init PROVE Abs!DeployInit
  OBVIOUS
<1>1. \A i \in Invocations : ~Active(i) /\ pc[i] = "idle"
  BY DEF Init, Active, Running
<1>2. LiveTree = dir[Dst] /\ State = [i \in Invocations |-> "idle"]
  BY <1>1, LiveOf DEF State
<1>3. AsProcess(dir[Dst]) \in {Abs!Whole(v) : v \in Versions} \union {None}
  <2>1. PICK first \in Versions \union {Empty} :
          dir[Dst] = [ver |-> first, deps |-> first # Empty, mtime |-> 1, inside |-> {}]
    BY NameTypes DEF Init
  <2>2. CASE first = Empty
    BY <2>1, <2>2 DEF AsProcess, HasBuild
  <2>3. CASE first # Empty
    <3>1. dir[Dst] # None
      <4>1. [ver |-> first, deps |-> first # Empty, mtime |-> 1, inside |-> {}] \in Trees
        BY DEF Trees
      <4>2. QED
        BY <2>1, <4>1, NoneAssumption
    <3>2. dir[Dst].ver = first /\ dir[Dst].deps = TRUE
      <4>1. (first # Empty) = TRUE
        BY <2>3
      <4>2. dir[Dst] = [ver |-> first, deps |-> TRUE, mtime |-> 1, inside |-> {}]
        BY <2>1, <4>1, Zenon
      <4>3. QED
        BY <4>2
    <3>3. AsProcess(dir[Dst]) = [ver |-> first, deps |-> TRUE]
      BY <2>3, <3>1, <3>2 DEF AsProcess, HasBuild
    <3>4. QED
      BY <2>3, <3>3 DEF Abs!Whole
  <2>4. QED
    BY <2>2, <2>3
<1>4. proc = AsProcess(dir[Dst]) /\ tar = [i \in Invocations |-> None]
  BY DEF Init
<1>5. QED
  BY <1>2, <1>3, <1>4 DEF Abs!DeployInit, State, AsProcess, HasBuild

\* One at a time, every deploy is atomic whatever fails, is killed or is
\* restarted in between (ec2-pull-and-restart.sh:113-208): it leaves its build
\* live and serving, or what it found, or either when it stops half way; only
\* one that was killed leaves nothing.  Builds need not be fresh.
THEOREM DeploysAreAtomicAlways ==
  ASSUME Serial, UniqueTs
  PROVE  Spec => DeploysAreAtomic
<1>1. Init => Abs!DeployInit
  BY InitMaps
<1>2. AtomInv /\ [Next]_vars => [Abs!DeployNext]_(Abs!deployVars)
  <2> SUFFICES ASSUME AtomInv, [Next]_vars
               PROVE  Abs!DeployNext \/ UNCHANGED DeployAbs
    BY DEF Abs!deployVars, DeployAbs, State
  <2>1. QED
    BY StepMaps
<1>3. Init => AtomInv
  BY InitAtom
<1>4. AtomInv /\ [Next]_vars => AtomInv'
  BY StepAtom
<1>5. QED
  BY <1>1, <1>2, <1>3, <1>4, PTL DEF Spec, DeploysAreAtomic, Abs!DeploySpec
=============================================================================
