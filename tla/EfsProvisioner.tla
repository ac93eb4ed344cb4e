--------------------------- MODULE EfsProvisioner ---------------------------
(***************************************************************************)
(* terraform/lambda/efs_userspace_provisioner.py: one EFS access point per *)
(* user, with a POSIX uid found by probing from a hash of the user's id.   *)
(* SNS and EventBridge may repeat, reorder, drop and overlap what they     *)
(* deliver, so any invocation may come at any time.                        *)
(***************************************************************************)
EXTENDS Naturals, FiniteSets

CONSTANTS
  Lambdas,   \* concurrent invocations
  Users,
  Hash,      \* Hash[u]: sha256 of the id, modulo Space
  Base,      \* USER_ID_BASE
  Space,     \* USER_ID_SPACE
  MaxRetry,  \* MAX_COLLISION_RETRY
  MaxList,   \* bound on the user_ids of one user.reconcile
  None

ASSUME SpaceAssumption == /\ Base \in Nat
                          /\ Space \in Nat \ {0}
                          /\ MaxRetry \in Nat \ {0}
                          /\ MaxList \in Nat \ {0}
                          /\ Hash \in [Users -> 0..(Space - 1)]

Uids == Base..(Base + Space - 1)
AccessPoints == [user: Users, uid: Uids]
ASSUME NobodyAssumption == None \notin Users \union Uids

VARIABLES
  aps,    \* the access points
  owner,  \* owner[u]: the uid that owns the directory /iconia/<u>
  raced,  \* users with an access point made while two invocations ran (history)
  lam     \* lam[l]: what invocation l is doing; `solo` till an ensure overlaps it

vars == <<aps, owner, raced, lam>>

Idle == [at |-> "idle", kind |-> "ensure", todo |-> {}, user |-> None,
         attempt |-> 0, solo |-> TRUE]

\* Fault: the attempt is added after the modulo.
FaultUidFor(u, attempt) == Base + (Hash[u] % Space) + attempt

\* _uid_for
UidFor(u, attempt) == Base + ((Hash[u] + attempt) % Space)

ApsOf(u) == {ap \in aps : ap.user = u}
UidInUse(uid) == \E ap \in aps : ap.uid = uid

Init ==
  /\ aps = {}
  /\ owner = [u \in Users |-> None]
  /\ raced = {}
  /\ lam = [l \in Lambdas |-> Idle]

At(l, position) == lam[l].at = position

\* Fault: the attempt carries over to the next user of the list.
FaultDone(l) ==
  IF lam[l].todo = {} THEN Idle
  ELSE [lam[l] EXCEPT !.at = "find", !.user = None]

\* On to the rest of the list or, without one, the end of the invocation.
Done(l) ==
  IF lam[l].todo = {} THEN Idle
  ELSE [lam[l] EXCEPT !.at = "find", !.user = None, !.attempt = 0]

-----------------------------------------------------------------------------
(* lambda_handler: user.created and user.deleted carry one user,           *)
(* user.reconcile carries a list.                                          *)

Lists == {list \in SUBSET Users : Cardinality(list) \in 1..MaxList}
Jobs  == ({"ensure"} \X Lists) \union {<<"delete", {u}>> : u \in Users}

Ensuring(m) == ~At(m, "idle") /\ lam[m].kind = "ensure"

Invoke(l) ==
  /\ At(l, "idle")
  /\ \E job \in Jobs :
       LET overlap == job[1] = "ensure" /\ \E m \in Lambdas : Ensuring(m)
       IN lam' = [m \in Lambdas |->
            IF m = l THEN [Idle EXCEPT !.at = "find", !.kind = job[1],
                                       !.todo = job[2], !.solo = ~overlap]
            ELSE IF job[1] = "ensure" /\ Ensuring(m) THEN [lam[m] EXCEPT !.solo = FALSE]
            ELSE lam[m]]
  /\ UNCHANGED <<aps, owner, raced>>

\* Throttling, a refused delete, the 60 s timeout: the rest of the list is lost.
Raise(l) ==
  /\ ~At(l, "idle")
  /\ lam' = [lam EXCEPT ![l] = Idle]
  /\ UNCHANGED <<aps, owner, raced>>

\* _existing_access_point for the next user: nothing to make, or to delete.
FindNothingToDo(l) ==
  /\ At(l, "find")
  /\ \E u \in lam[l].todo :
       /\ (ApsOf(u) = {}) = (lam[l].kind = "delete")
       /\ lam' = [lam EXCEPT ![l] = IF lam[l].todo = {u} THEN Idle
                                    ELSE [lam[l] EXCEPT !.todo = @ \ {u}]]
  /\ UNCHANGED <<aps, owner, raced>>

Find(l) ==
  /\ At(l, "find")
  /\ \E u \in lam[l].todo :
       /\ (ApsOf(u) = {}) = (lam[l].kind = "ensure")
       /\ LET next == IF ApsOf(u) = {} THEN "probe" ELSE "delete"
          IN  lam' = [lam EXCEPT ![l] = [lam[l] EXCEPT !.at = next, !.user = u,
                                                       !.todo = lam[l].todo \ {u}]]
  /\ UNCHANGED <<aps, owner, raced>>

(* _ensure_access_point                                                    *)

\* Fault: the first candidate is taken without a look at who has it.
FaultProbe(l) ==
  /\ At(l, "probe")
  /\ lam' = [lam EXCEPT ![l].at = "create"]
  /\ UNCHANGED <<aps, owner, raced>>

\* The candidate is taken if no access point has it; MaxRetry misses raise.
Probe(l) ==
  /\ At(l, "probe")
  /\ LET this == lam[l] IN
     lam' = [lam EXCEPT ![l] =
       IF ~UidInUse(UidFor(this.user, this.attempt)) THEN [this EXCEPT !.at = "create"]
       ELSE IF this.attempt + 1 < MaxRetry THEN [this EXCEPT !.attempt = @ + 1]
       ELSE Idle]
  /\ UNCHANGED <<aps, owner, raced>>

NewAp(l) == [user |-> lam[l].user, uid |-> UidFor(lam[l].user, lam[l].attempt)]

\* Fault: the client token differs from call to call.
FaultCreate(l) ==
  /\ At(l, "create")
  /\ aps' = aps \union {NewAp(l)}
  /\ raced' = IF lam[l].solo THEN raced ELSE raced \union {lam[l].user}
  /\ lam' = [lam EXCEPT ![l] = Done(l)]
  /\ UNCHANGED owner

\* create_access_point: the user's client token is taken or the point made.
Create(l) ==
  /\ At(l, "create")
  /\ IF ApsOf(lam[l].user) # {}
     THEN /\ lam' = [lam EXCEPT ![l] = Idle]
          /\ UNCHANGED <<aps, raced>>
     ELSE /\ aps' = aps \union {NewAp(l)}
          /\ raced' = IF lam[l].solo THEN raced ELSE raced \union {lam[l].user}
          /\ lam' = [lam EXCEPT ![l] = Done(l)]
  /\ UNCHANGED owner

(* _delete_access_point                                                    *)

\* The id found before is deleted, and is gone for whoever else found it.
Delete(l) ==
  /\ At(l, "delete")
  /\ aps' = aps \ ApsOf(lam[l].user)
  /\ lam' = [m \in Lambdas |->
               IF m = l THEN Done(l)
               ELSE IF At(m, "delete") /\ lam[m].user = lam[l].user
                    THEN [lam[m] EXCEPT !.at = "gone"]
               ELSE lam[m]]
  /\ UNCHANGED <<owner, raced>>

\* AccessPointNotFound is logged and raised.
DeleteGone(l) ==
  /\ At(l, "gone")
  /\ lam' = [lam EXCEPT ![l] = Idle]
  /\ UNCHANGED <<aps, owner, raced>>

\* The first mount makes the directory, owned as CreationInfo says, and the
\* directory stays when the access point goes.
Mount ==
  /\ \E ap \in aps :
       /\ owner[ap.user] = None
       /\ owner' = [owner EXCEPT ![ap.user] = ap.uid]
  /\ UNCHANGED <<aps, raced, lam>>

Run(l) ==
  \/ Invoke(l) \/ FindNothingToDo(l) \/ Find(l) \/ Probe(l) \/ Create(l)
  \/ Delete(l) \/ DeleteGone(l) \/ Raise(l)
Next == (\E l \in Lambdas : Run(l)) \/ Mount
Spec == Init /\ [][Next]_vars

-----------------------------------------------------------------------------
(* Properties.                                                             *)

Positions == {"idle", "find", "probe", "create", "delete", "gone"}

\* Type invariant; the attempt stays below MAX_COLLISION_RETRY.
TypeOK ==
  /\ aps \subseteq AccessPoints
  /\ owner \in [Users -> Uids \union {None}]
  /\ raced \subseteq Users
  /\ lam \in [Lambdas -> [at: Positions, kind: {"ensure", "delete"},
                          todo: SUBSET Users, user: Users \union {None},
                          attempt: 0..(MaxRetry - 1), solo: BOOLEAN]]

\* However invocations for a user overlap (find at line 99, create at line
\* 119), the user never has two access points.
OnePerUser == \A a, b \in aps : a.user = b.user => a = b

\* Two users share a uid (line 107 checks it is free, line 119 takes it) only
\* if each of the two has had an access point made, then or earlier, while
\* another invocation ran.
SharedUidsCameFromARace ==
  \A a, b \in aps : a # b /\ a.uid = b.uid => {a.user, b.user} \subseteq raced

Probes(u) == {UidFor(u, attempt) : attempt \in 0..(MaxRetry - 1)}

\* The directory belongs to the uid that the access point enters it with.
OwnsDirectory(ap) == owner[ap.user] \in {None, ap.uid}

\* Lines 13-15: a user whose hash no other user's probes reach has the same
\* uid whenever its access point is made again, and so still owns its files.
\* Not so when invocations overlap: the user's own access point, made after
\* another invocation did not find it, then counts as a collision.
FarHashKeepsUid ==
  \A ap \in aps :
    /\ \A v \in Users \ {ap.user} : UidFor(ap.user, 0) \notin Probes(v)
    /\ ap.user \notin raced
    => OwnsDirectory(ap)
=============================================================================
