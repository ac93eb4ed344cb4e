---------------------------- MODULE AtomicDeploy ----------------------------
(***************************************************************************)
(* What deploys of one service on one host promise to whoever starts them, *)
(* whatever commands they are made of: as long as they come one at a time  *)
(* each happens at once, when it ends, and leaves its build or what it     *)
(* found.  Abstracts pull_one of scripts/ec2-pull-and-restart.sh;          *)
(* HostDeploy implements it.                                               *)
(***************************************************************************)
CONSTANTS
  Invocations, Versions, None,
  Fresh    \* TRUE: a build is newer than all that is installed

VARIABLES
  live,    \* what a start of the service runs, as the last deploy left it
           \* (None: nothing, as on a new host)
  serves,  \* what the service runs
  state,   \* state[i]: "idle", "busy", or how deploy i ended
  build    \* build[i]: the version that deploy i fetched

deployVars == <<live, serves, state, build>>

Whole(v) == [ver |-> v, deps |-> TRUE]
\* The build of i, with or without its dependencies.
Torn(i) == {[ver |-> build[i], deps |-> d] : d \in BOOLEAN}
Busy(i) == state[i] = "busy"

DeployInit ==
  /\ live \in {Whole(v) : v \in Versions} \union {None} /\ serves = live
  /\ state = [i \in Invocations |-> "idle"]
  /\ build = [i \in Invocations |-> None]

Begin(i) ==
  /\ state[i] = "idle" /\ \A j \in Invocations : ~Busy(j)
  /\ state' = [state EXCEPT ![i] = "busy"]
  /\ UNCHANGED <<live, serves, build>>

Fetch(i) ==
  /\ Busy(i) /\ build[i] = None
  /\ \E v \in Versions : build' = [build EXCEPT ![i] = v]
  /\ UNCHANGED <<live, serves, state>>

\* The service is restarted, by the deploy under way or by systemd: only while
\* a deploy is under way with anything but what is live.
Restart ==
  /\ serves' = live \/ \E i \in Invocations :
                         Busy(i) /\ serves' \in {None} \union Torn(i)
  /\ UNCHANGED <<live, state, build>>

\* A deploy is over: with its build live and serving, or with what it found live
\* and serving, or without a backup to go back to.  One that stopped half way has
\* left either, and one that was killed perhaps nothing.
End(i, how) ==
  /\ Busy(i)
  /\ CASE how = "done"     -> live' = Whole(build[i]) /\ serves = live'
       [] how = "noBackup" -> live' = Whole(build[i]) /\ serves = live'
                              /\ (Fresh => live = None)
       [] how \in {"rolledBack", "rollbackFailed"} ->
                              live' = live /\ serves = live
                              /\ (how = "rolledBack" => live # None)
       [] how = "aborted"  -> live' \in {live} \union Torn(i)
       [] how = "killed"   -> live' \in {live, None} \union Torn(i)
  /\ build[i] = None => live' = live
  /\ serves' \in {serves} \union (IF how = "aborted" THEN {None} ELSE {})
  /\ state' = [state EXCEPT ![i] = how]
  /\ UNCHANGED build

Outcomes == {"done", "noBackup", "rolledBack", "rollbackFailed", "aborted", "killed"}
DeployNext ==
  \/ \E i \in Invocations : \/ Begin(i) \/ Fetch(i)
                            \/ \E how \in Outcomes : End(i, how)
  \/ Restart
DeploySpec == DeployInit /\ [][DeployNext]_deployVars
=============================================================================
