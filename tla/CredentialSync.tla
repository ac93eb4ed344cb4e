--------------------------- MODULE CredentialSync ---------------------------
(***************************************************************************)
(* The database password on its way to the server process: the rotation    *)
(* of PasswordRotation composed with inject_database_url, prisma migrate   *)
(* and the restart of scripts/ec2-pull-and-restart.sh on one host.         *)
(***************************************************************************)
EXTENDS PasswordRotation

VARIABLES
  env,      \* the password in DATABASE_URL of /etc/iconia.server.env
  conn,     \* the password the server process was started with
  host,     \* what the deploy script is doing on the host
  fetched,  \* the password that inject_database_url holds
  asOf,     \* rotation that was settled when it was fetched (history)
  synced    \* rotation as of which the last `all` deploy went through (history)

hostVars == <<env, conn, host, fetched, asOf, synced>>
allVars  == <<vars, hostVars>>

\* The last rotation is over and the instance has its password.
Settled == cur = rot /\ pend = rot /\ rds.phase = "applied"

SyncInit ==
  /\ Init
  /\ env = value[0] /\ conn = value[0]
  /\ host = "idle"
  /\ fetched = None
  /\ asOf = None
  /\ synced = 0

\* iconia-pull-and-restart.sh all | server
DeployAll ==
  /\ host = "idle"
  /\ host' = "fetch"
  /\ UNCHANGED <<env, conn, fetched, asOf, synced>>
DeployServer ==
  /\ host = "idle"
  /\ host' = "migrate"
  /\ asOf' = None
  /\ UNCHANGED <<env, conn, fetched, synced>>

\* Fault: a fetch that came back empty goes on.
FaultInjectFetch ==
  /\ host = "fetch"
  /\ host' = "write"
  /\ UNCHANGED <<env, conn, fetched, asOf, synced>>

\* get-secret-value without a stage reads AWSCURRENT.
InjectFetch ==
  /\ host = "fetch"
  /\ fetched' = value[cur]
  /\ asOf' = IF Settled THEN rot ELSE None
  /\ host' = "write"
  /\ UNCHANGED <<env, conn, synced>>

\* sed -i deletes the DATABASE_URL line ...
InjectDelete ==
  /\ host = "write"
  /\ env' = None
  /\ host' = "append"
  /\ UNCHANGED <<conn, fetched, asOf, synced>>

\* Fault: what is appended is the password the process already runs with.
FaultInjectAppend ==
  /\ host = "append"
  /\ env' = conn
  /\ host' = "migrate"
  /\ UNCHANGED <<conn, fetched, asOf, synced>>

\* ... and printf appends the new one.
InjectAppend ==
  /\ host = "append"
  /\ env' = fetched
  /\ host' = "migrate"
  /\ UNCHANGED <<conn, fetched, asOf, synced>>

\* prisma migrate deploy opens the database with DATABASE_URL or fails.
MigrateConnects ==
  /\ host = "migrate"
  /\ env = rds.password
  /\ host' = "restart"
  /\ UNCHANGED <<env, conn, fetched, asOf, synced>>

RestartServer ==
  /\ host = "restart"
  /\ conn' = env
  /\ synced' = IF asOf = None THEN synced ELSE asOf
  /\ host' = "idle"
  /\ UNCHANGED <<env, fetched, asOf>>

\* An env file left without DATABASE_URL says nothing of any rotation.
Forget == synced' = IF host = "append" THEN None ELSE synced

\* `set -e`: a failed fetch, migration or any command in between.
DeployFails ==
  /\ host # "idle"
  /\ host' = "idle"
  /\ Forget
  /\ UNCHANGED <<env, conn, fetched, asOf>>

\* A reboot, which also ends a deploy: systemd reads the env file, no secret.
Reboot ==
  /\ conn' = env
  /\ host' = "idle"
  /\ Forget
  /\ UNCHANGED <<env, fetched, asOf>>

\* Restart=always does the same without ending a deploy.
Respawn ==
  /\ conn' = env
  /\ UNCHANGED <<env, host, fetched, asOf, synced>>

HostNext ==
  \/ DeployAll \/ DeployServer \/ InjectFetch \/ InjectDelete
  \/ InjectAppend \/ MigrateConnects \/ RestartServer \/ DeployFails
  \/ Reboot \/ Respawn
SyncNext ==
  \/ Next /\ UNCHANGED hostVars
  \/ HostNext /\ UNCHANGED vars
SyncSpec == SyncInit /\ [][SyncNext]_allVars

-----------------------------------------------------------------------------
(* Properties.                                                             *)

\* Type invariant of the host's part.
SyncTypeOK ==
  /\ {env, conn, fetched} \subseteq Passwords \union {None}
  /\ host \in {"idle", "fetch", "write", "append", "migrate", "restart"}
  /\ {asOf, synced} \subseteq Tokens \union {None}
  /\ host \in {"write", "append"} => fetched # None

\* Lines 23-24 of the rotator: one deploy of `all` once a rotation is over
\* keeps the env file and the server in step with the database, through more
\* deploys and their failures, reboots and repeated rotation steps, until the
\* next rotation starts or a deploy dies between the deletion and the append.
\* A server that restarts in that gap has no DATABASE_URL, never a stale one.
\* No rotation may have met a change or a call of an earlier one: such a call
\* can still give the database an old password after the deploy.
OneDeployIsEnough ==
  ~overlap /\ synced = rot => /\ env = rds.password \/ host = "append"
                  /\ conn \in {rds.password, None}

\* Lines 21-23 of the rotator: a reboot after a rotation makes the server use
\* the new password.
RebootRefreshes ==
  [][Settled /\ env # None /\ Reboot => conn' = value[cur]]_allVars
=============================================================================
