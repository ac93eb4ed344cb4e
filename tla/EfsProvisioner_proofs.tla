------------------------ MODULE EfsProvisioner_proofs ------------------------
(***************************************************************************)
(* What the provisioner guarantees for any users, hashes, uid space,       *)
(* probes and number of invocations, in whatever order they are delivered: *)
(* one access point per user, a shared uid only from a race, and a uid     *)
(* that stays the same for a user whose hash nobody else's probes reach.   *)
(***************************************************************************)
EXTENDS EfsProvisioner, TLAPS

Doing == [at: Positions, kind: {"ensure", "delete"}, todo: SUBSET Users,
          user: Users \union {None}, attempt: 0..(MaxRetry - 1), solo: BOOLEAN]

\* Where invocation l is, and what it is there for.
Placed(l) ==
  /\ At(l, "probe") \/ At(l, "create") => lam[l].kind = "ensure"
  /\ lam[l].at \in {"probe", "create", "delete", "gone"} => lam[l].user \in Users
  /\ At(l, "find") => lam[l].attempt = 0

\* An ensure that is still solo is the only one.
Alone == \A l, m \in Lambdas : Ensuring(l) /\ lam[l].solo /\ Ensuring(m) => m = l

Far(u) == \A v \in Users \ {u} : UidFor(u, 0) \notin Probes(v)

\* A uid that was free and is taken by now was taken in a race, with l in it.
Careful(l) ==
  At(l, "create") =>
    \A ap \in aps : ap.uid = NewAp(l).uid => ap.user \in raced /\ ~lam[l].solo

\* A solo ensure still finds no access point of its user, whose first candidate
\* is free if no other user's probes reach it.
Unmade(l) ==
  (At(l, "probe") \/ At(l, "create")) /\ lam[l].solo =>
    /\ ApsOf(lam[l].user) = {}
    /\ Far(lam[l].user) => lam[l].attempt = 0

Probed == \A ap \in aps : ap.uid \in Probes(ap.user)
Stays  ==
  \A u \in Users \ raced : Far(u) =>
    /\ owner[u] \in {None, UidFor(u, 0)}
    /\ \A ap \in ApsOf(u) : ap.uid = UidFor(u, 0)

Inv ==
  /\ TypeOK /\ Alone
  /\ \A l \in Lambdas : Placed(l) /\ Careful(l) /\ Unmade(l)
  /\ OnePerUser /\ SharedUidsCameFromARace /\ Probed /\ Stays

-----------------------------------------------------------------------------
(* Uids and types.                                                         *)

\* Every candidate is in the range, however far a probe wraps around.
LEMMA UidTypes ==
  ASSUME NEW u \in Users, NEW attempt \in 0..(MaxRetry - 1)
  PROVE  UidFor(u, attempt) \in Uids /\ UidFor(u, attempt) \in Probes(u)
<1>1. Hash[u] + attempt \in Nat
  BY SpaceAssumption
<1>2. \A n \in Nat, k \in Nat \ {0} : n % k \in 0..(k - 1)
  OBVIOUS
<1>3. (Hash[u] + attempt) % Space \in 0..(Space - 1)
  BY <1>1, <1>2, SpaceAssumption
<1>4. UidFor(u, attempt) \in Uids
  BY <1>3, SpaceAssumption DEF UidFor, Uids
<1>5. QED
  BY <1>4 DEF Probes

\* None is nobody, and no attempt comes before the first.
LEMMA FirstAttempt == 0 \in 0..(MaxRetry - 1) /\ None \notin Users /\ None \notin Uids
BY SpaceAssumption, NobodyAssumption

LEMMA IdleTypes == Idle \in Doing
BY FirstAttempt DEF Idle, Doing, Positions

\* An invocation is for one user or for the list it was given.
LEMMA JobTypes ==
  ASSUME NEW job \in Jobs
  PROVE  job[1] \in {"ensure", "delete"} /\ job[2] \in SUBSET Users
BY DEF Jobs, Lists

\* What follows the user in hand: the rest of the list, or nothing.
LEMMA DoneTypes ==
  ASSUME TypeOK, NEW l \in Lambdas
  PROVE  /\ Done(l) \in Doing
         /\ Done(l).at \in {"idle", "find"} /\ Done(l).attempt = 0
         /\ Done(l).at = "find" => Done(l).kind = lam[l].kind /\ Done(l).solo = lam[l].solo
<1>1. CASE lam[l].todo = {}
  BY <1>1, IdleTypes DEF Done, Idle
<1>2. CASE lam[l].todo # {}
  BY <1>2, FirstAttempt DEF Done, TypeOK, Doing, Positions
<1>3. QED
  BY <1>1, <1>2

\* Where one step of invocation l can take it, if it makes or deletes nothing.
Moves(l, r) ==
  /\ r \in Doing /\ lam' = [lam EXCEPT ![l] = r]
  /\ r.at # "idle" => r.kind = lam[l].kind /\ r.solo = lam[l].solo
  /\ \/ r = Idle
     \/ At(l, "find") /\ r.at = "find" /\ r.attempt = 0
     \/ /\ At(l, "find") /\ r.user \in Users /\ r.attempt = 0
        /\ \/ r.at = "probe" /\ r.kind = "ensure" /\ ApsOf(r.user) = {}
           \/ r.at = "delete"
     \/ /\ At(l, "probe") /\ r.user = lam[l].user
        /\ LET uid == UidFor(lam[l].user, lam[l].attempt) IN
           \/ r.at = "create" /\ r.attempt = lam[l].attempt /\ ~UidInUse(uid)
           \/ r.at = "probe" /\ UidInUse(uid)

\* All steps of an invocation but Invoke, Create and Delete are of that kind.
LEMMA QuietSteps ==
  ASSUME TypeOK, NEW l \in Lambdas, Placed(l),
         FindNothingToDo(l) \/ Find(l) \/ Probe(l) \/ DeleteGone(l) \/ Raise(l)
  PROVE  UNCHANGED <<aps, owner, raced>> /\ \E r \in Doing : Moves(l, r)
<1>0. /\ lam[l] \in Doing /\ lam \in [Lambdas -> Doing] /\ Idle \in Doing
      /\ Idle.at = "idle"
  BY IdleTypes DEF TypeOK, Doing, Idle
<1>1. CASE FindNothingToDo(l)
  <2>1. PICK u \in lam[l].todo :
          lam' = [lam EXCEPT ![l] = IF lam[l].todo = {u} THEN Idle
                                    ELSE [lam[l] EXCEPT !.todo = @ \ {u}]]
    BY <1>1 DEF FindNothingToDo
  <2>2. CASE lam[l].todo = {u}
    BY <1>0, <1>1, <2>1, <2>2 DEF FindNothingToDo, Moves
  <2>3. CASE lam[l].todo # {u}
    <3> DEFINE r == [lam[l] EXCEPT !.todo = @ \ {u}]
    <3>1. r \in Doing /\ r.at = lam[l].at /\ r.kind = lam[l].kind
          /\ r.solo = lam[l].solo /\ r.attempt = lam[l].attempt
      BY <1>0 DEF Doing
    <3>2. lam' = [lam EXCEPT ![l] = r]
      BY <2>1, <2>3
    <3>3. Moves(l, r)
      BY <1>1, <3>1, <3>2 DEF FindNothingToDo, Moves, At, Placed
    <3>4. QED
      BY <1>1, <3>1, <3>3 DEF FindNothingToDo
  <2>4. QED
    BY <2>2, <2>3
<1>2. CASE Find(l)
  <2>1. PICK u \in lam[l].todo :
          /\ (ApsOf(u) = {}) = (lam[l].kind = "ensure")
          /\ LET next == IF ApsOf(u) = {} THEN "probe" ELSE "delete"
             IN  lam' = [lam EXCEPT ![l] = [lam[l] EXCEPT !.at = next, !.user = u,
                                                          !.todo = lam[l].todo \ {u}]]
    BY <1>2 DEF Find
  <2> DEFINE at == IF ApsOf(u) = {} THEN "probe" ELSE "delete"
             r == [lam[l] EXCEPT !.at = at, !.user = u, !.todo = lam[l].todo \ {u}]
  <2>2. u \in Users /\ at \in {"probe", "delete"}
    BY <1>0 DEF Doing
  <2>3. lam' = [lam EXCEPT ![l] = r]
    BY <2>1
  <2>4. /\ at = "probe" => lam[l].kind = "ensure" /\ ApsOf(u) = {}
    BY <2>1
  <2> HIDE DEF at
  <2>5. r \in Doing /\ r.at = at /\ r.user = u /\ r.kind = lam[l].kind
        /\ r.solo = lam[l].solo /\ r.attempt = lam[l].attempt
    BY <1>0, <2>2 DEF Doing, Positions
  <2>6. Moves(l, r)
    BY <1>2, <2>2, <2>3, <2>4, <2>5 DEF Find, Moves, At, Placed
  <2>7. QED
    BY <1>2, <2>5, <2>6 DEF Find
<1>3. CASE Probe(l)
  <2> DEFINE uid == UidFor(lam[l].user, lam[l].attempt)
  <2>1. At(l, "probe") /\ UNCHANGED <<aps, owner, raced>>
    BY <1>3 DEF Probe
  <2>2. CASE ~UidInUse(uid)
    <3> DEFINE r == [lam[l] EXCEPT !.at = "create"]
    <3>1. lam' = [lam EXCEPT ![l] = r]
      BY <1>3, <2>2 DEF Probe
    <3>2. r \in Doing /\ r.at = "create" /\ r.user = lam[l].user /\ r.kind = lam[l].kind
          /\ r.solo = lam[l].solo /\ r.attempt = lam[l].attempt
      BY <1>0 DEF Doing, Positions
    <3>3. Moves(l, r)
      BY <2>1, <2>2, <3>1, <3>2 DEF Moves
    <3>4. QED
      BY <2>1, <3>2, <3>3
  <2>3. CASE UidInUse(uid) /\ lam[l].attempt + 1 < MaxRetry
    <3> DEFINE r == [lam[l] EXCEPT !.attempt = lam[l].attempt + 1]
    <3>1. lam' = [lam EXCEPT ![l] = r]
      BY <1>3, <2>3 DEF Probe
    <3>2. lam[l].attempt + 1 \in 0..(MaxRetry - 1)
      BY <1>0, <2>3, SpaceAssumption DEF Doing
    <3>3. r \in Doing /\ r.at = "probe" /\ r.user = lam[l].user /\ r.kind = lam[l].kind
          /\ r.solo = lam[l].solo
      BY <1>0, <2>1, <3>2 DEF Doing, At
    <3>4. Moves(l, r)
      BY <2>1, <2>3, <3>1, <3>3 DEF Moves
    <3>5. QED
      BY <2>1, <3>3, <3>4
  <2>4. CASE UidInUse(uid) /\ ~(lam[l].attempt + 1 < MaxRetry)
    <3>1. lam' = [lam EXCEPT ![l] = Idle]
      BY <1>3, <2>4 DEF Probe
    <3>2. QED
      BY <1>0, <2>1, <3>1 DEF Moves
  <2>5. QED
    BY <2>2, <2>3, <2>4
<1>4. CASE DeleteGone(l) \/ Raise(l)
  BY <1>0, <1>4 DEF DeleteGone, Raise, Moves
<1>5. QED
  BY <1>1, <1>2, <1>3, <1>4

-----------------------------------------------------------------------------
(* The inductive invariant.                                                *)

LEMMA InitInv == Init => Inv
<1> SUFFICES ASSUME Init PROVE Inv
  OBVIOUS
<1>1. TypeOK
  BY IdleTypes DEF Init, TypeOK, Doing
<1>2. \A l \in Lambdas : lam[l] = Idle /\ ~Ensuring(l)
  BY DEF Init, Idle, Ensuring, At
<1>3. Alone /\ \A l \in Lambdas : Placed(l) /\ Careful(l) /\ Unmade(l)
  BY <1>2 DEF Alone, Placed, Careful, Unmade, At, Idle
<1>4. OnePerUser /\ SharedUidsCameFromARace /\ Probed /\ Stays
  BY DEF Init, OnePerUser, SharedUidsCameFromARace, Probed, Stays, ApsOf
<1>5. QED
  BY <1>1, <1>3, <1>4 DEF Inv

\* A step of one invocation is no step of the others.
LEMMA QuietKeeps ==
  ASSUME Inv, NEW l \in Lambdas, NEW r \in Doing, Moves(l, r),
         UNCHANGED <<aps, owner, raced>>
  PROVE  Inv'
<1>1. /\ lam \in [Lambdas -> Doing] /\ lam' \in [Lambdas -> Doing]
      /\ lam'[l] = r /\ \A m \in Lambdas \ {l} : lam'[m] = lam[m]
  BY DEF Inv, TypeOK, Moves, Doing
<1>2. TypeOK'
  BY <1>1 DEF Inv, TypeOK, Doing
<1>3. Alone'
  <2>1. \A m \in Lambdas :
          Ensuring(m)' => Ensuring(m) /\ (lam'[m].solo => lam[m].solo)
    BY <1>1 DEF Ensuring, At, Moves, Idle
  <2>2. QED
    BY <2>1 DEF Inv, Alone
<1>4. Placed(l)' /\ Careful(l)' /\ Unmade(l)'
  <2>1. CASE r = Idle \/ At(l, "find")
    BY <1>1, <2>1 DEF Moves, Placed, Careful, Unmade, At, Idle, ApsOf
  <2>2. CASE At(l, "probe") /\ r # Idle
    <3> DEFINE uid == UidFor(lam[l].user, lam[l].attempt)
    <3>1. /\ r.user = lam[l].user /\ r.kind = lam[l].kind /\ r.solo = lam[l].solo
          /\ lam[l].kind = "ensure" /\ lam[l].user \in Users
          /\ \/ r.at = "create" /\ r.attempt = lam[l].attempt /\ ~UidInUse(uid)
             \/ r.at = "probe" /\ UidInUse(uid)
      BY <2>2 DEF Moves, Inv, Placed, At
    <3>2. Placed(l)'
      BY <1>1, <3>1 DEF Placed, At
    <3>3. Careful(l)'
      <4>1. r.at = "create" => NewAp(l)'.uid = uid /\ ~UidInUse(uid)
        BY <1>1, <3>1 DEF NewAp
      <4>2. QED
        BY <1>1, <4>1 DEF Careful, At, UidInUse
    <3>4. Unmade(l)'
      <4>1. r.solo => ApsOf(r.user) = {} /\ (Far(r.user) => lam[l].attempt = 0)
        BY <2>2, <3>1 DEF Inv, Unmade
      <4>2. r.solo /\ Far(r.user) => ~UidInUse(uid)
        <5> SUFFICES ASSUME r.solo, Far(r.user), NEW ap \in aps, ap.uid = uid
                     PROVE  FALSE
          BY DEF UidInUse
        <5>1. ap.user \in Users \ {r.user} /\ ap.uid \in Probes(ap.user)
          BY <4>1 DEF Inv, TypeOK, AccessPoints, Probed, ApsOf
        <5>2. QED
          BY <3>1, <4>1, <5>1 DEF Far
      <4>3. r.solo /\ Far(r.user) => r.attempt = 0
        BY <3>1, <4>1, <4>2
      <4>4. QED
        BY <1>1, <4>1, <4>3 DEF Unmade, ApsOf
    <3>5. QED
      BY <3>2, <3>3, <3>4
  <2>3. QED
    BY <2>1, <2>2 DEF Moves
<1>5. ASSUME NEW m \in Lambdas \ {l} PROVE Placed(m)' /\ Careful(m)' /\ Unmade(m)'
  BY <1>1 DEF Inv, Placed, Careful, Unmade, At, NewAp, ApsOf
<1>6. OnePerUser' /\ SharedUidsCameFromARace' /\ Probed' /\ Stays'
  BY DEF Inv, OnePerUser, SharedUidsCameFromARace, Probed, Stays, ApsOf
<1>7. QED
  BY <1>2, <1>3, <1>4, <1>5, <1>6 DEF Inv

\* An ensure that begins takes every other one its solo, and has none itself if
\* there is another.
LEMMA InvokeKeeps == ASSUME Inv, NEW l \in Lambdas, Invoke(l) PROVE Inv'
<1>1. PICK job \in Jobs :
        LET overlap == job[1] = "ensure" /\ \E m \in Lambdas : Ensuring(m)
        IN lam' = [m \in Lambdas |->
             IF m = l THEN [Idle EXCEPT !.at = "find", !.kind = job[1],
                                        !.todo = job[2], !.solo = ~overlap]
             ELSE IF job[1] = "ensure" /\ Ensuring(m) THEN [lam[m] EXCEPT !.solo = FALSE]
             ELSE lam[m]]
  BY DEF Invoke
<1>2. At(l, "idle") /\ UNCHANGED <<aps, owner, raced>>
  BY DEF Invoke
<1>3. lam \in [Lambdas -> Doing] /\ Idle \in Doing /\ Idle.attempt = 0
      /\ job[1] \in {"ensure", "delete"} /\ job[2] \in SUBSET Users
  BY IdleTypes, JobTypes DEF Inv, TypeOK, Doing, Idle
<1>4. /\ lam'[l] \in Doing /\ lam'[l].at = "find" /\ lam'[l].attempt = 0
      /\ lam'[l].kind = job[1]
      /\ job[1] = "ensure" /\ lam'[l].solo => \A m \in Lambdas : ~Ensuring(m)
  <2> DEFINE overlap == job[1] = "ensure" /\ \E m \in Lambdas : Ensuring(m)
  <2>1. lam'[l] = [Idle EXCEPT !.at = "find", !.kind = job[1],
                               !.todo = job[2], !.solo = ~overlap]
    BY <1>1
  <2>2. PICK solo \in BOOLEAN : solo = ~overlap
    OBVIOUS
  <2>3. lam'[l] = [Idle EXCEPT !.at = "find", !.kind = job[1],
                               !.todo = job[2], !.solo = solo]
    BY <2>1, <2>2
  <2> HIDE DEF overlap
  <2>4. /\ lam'[l] \in Doing /\ lam'[l].at = "find" /\ lam'[l].attempt = 0
        /\ lam'[l].kind = job[1] /\ lam'[l].solo = solo
    BY <1>3, <2>3 DEF Doing, Positions
  <2>5. QED
    BY <2>2, <2>4 DEF overlap
<1>5. ASSUME NEW m \in Lambdas \ {l}
      PROVE  /\ lam'[m] \in Doing /\ lam'[m].at = lam[m].at /\ lam'[m].kind = lam[m].kind
             /\ lam'[m].user = lam[m].user /\ lam'[m].attempt = lam[m].attempt
             /\ lam'[m].solo => lam[m].solo
             /\ job[1] = "ensure" /\ Ensuring(m) => ~lam'[m].solo
  <2>1. lam'[m] = IF job[1] = "ensure" /\ Ensuring(m)
                  THEN [lam[m] EXCEPT !.solo = FALSE] ELSE lam[m]
    BY <1>1
  <2>2. QED
    BY <1>3, <2>1 DEF Doing
<1>6. TypeOK'
  <2>1. lam' = [m \in Lambdas |-> lam'[m]]
    BY <1>1
  <2>2. lam' \in [Lambdas -> Doing]
    BY <1>4, <1>5, <2>1
  <2>3. QED
    BY <1>2, <2>2 DEF Inv, TypeOK, Doing
<1>7. Alone'
  <2> SUFFICES ASSUME NEW a \in Lambdas, NEW b \in Lambdas,
                      Ensuring(a)', lam'[a].solo, Ensuring(b)'
               PROVE  b = a
    BY DEF Alone
  <2>1. CASE a # l /\ b # l
    <3>1. Ensuring(a) /\ lam[a].solo /\ Ensuring(b)
      BY <1>5, <2>1 DEF Ensuring, At
    <3>2. QED
      BY <3>1 DEF Inv, Alone
  <2>2. CASE a = l /\ b # l
    <3>1. job[1] = "ensure" /\ Ensuring(b)
      BY <1>4, <1>5, <2>2 DEF Ensuring, At
    <3>2. QED
      BY <1>4, <2>2, <3>1
  <2>3. CASE a # l /\ b = l
    <3>1. job[1] = "ensure" /\ Ensuring(a)
      BY <1>4, <1>5, <2>3 DEF Ensuring, At
    <3>2. QED
      BY <1>5, <2>3, <3>1
  <2>4. QED
    BY <2>1, <2>2, <2>3
<1>8. Placed(l)' /\ Careful(l)' /\ Unmade(l)'
  BY <1>4 DEF Placed, Careful, Unmade, At
<1>9. ASSUME NEW m \in Lambdas \ {l} PROVE Placed(m)' /\ Careful(m)' /\ Unmade(m)'
  BY <1>2, <1>5 DEF Inv, Placed, Careful, Unmade, At, NewAp, ApsOf
<1>10. OnePerUser' /\ SharedUidsCameFromARace' /\ Probed' /\ Stays'
  BY <1>2 DEF Inv, OnePerUser, SharedUidsCameFromARace, Probed, Stays, ApsOf
<1>11. QED
  BY <1>6, <1>7, <1>8, <1>9, <1>10 DEF Inv

\* The client token refuses a second access point; a first one that shares its uid
\* was not alone, and neither was the one it shares it with.
LEMMA CreateKeeps == ASSUME Inv, NEW l \in Lambdas, Create(l) PROVE Inv'
<1> DEFINE u   == lam[l].user
           new == NewAp(l)
<1>1. /\ At(l, "create") /\ lam[l].kind = "ensure" /\ u \in Users
      /\ lam[l] \in Doing /\ lam \in [Lambdas -> Doing] /\ Ensuring(l)
  BY DEF Create, Inv, TypeOK, Doing, Placed, At, Ensuring
<1>2. CASE ApsOf(u) # {}
  <2>1. lam' = [lam EXCEPT ![l] = Idle] /\ UNCHANGED <<aps, owner, raced>>
    BY <1>2 DEF Create
  <2>2. Idle \in Doing /\ Idle.at = "idle"
    BY IdleTypes DEF Idle
  <2>3. Moves(l, Idle)
    BY <2>1, <2>2 DEF Moves
  <2>4. QED
    BY <2>1, <2>2, <2>3, QuietKeeps
<1>3. CASE ApsOf(u) = {}
  <2>1. /\ aps' = aps \union {new} /\ owner' = owner
        /\ raced' = IF lam[l].solo THEN raced ELSE raced \union {u}
        /\ lam' = [lam EXCEPT ![l] = Done(l)]
    BY <1>3 DEF Create
  <2>2. /\ new.user = u /\ new.uid = UidFor(u, lam[l].attempt)
        /\ new \in AccessPoints /\ new.uid \in Probes(u)
    BY <1>1, UidTypes DEF NewAp, AccessPoints, Doing
  <2>3. /\ \A ap \in aps : ap.user # u
        /\ \A ap \in aps : ap.uid = new.uid => ap.user \in raced /\ ~lam[l].solo
        /\ lam[l].solo /\ Far(u) => new.uid = UidFor(u, 0)
    BY <1>1, <1>3, <2>2 DEF ApsOf, Inv, Careful, Unmade
  <2> HIDE DEF u, new
  <2>4. raced \subseteq raced' /\ raced' \subseteq raced \union {u}
        /\ (~lam[l].solo => u \in raced')
    BY <2>1
  <2>5. /\ Done(l) \in Doing /\ Done(l).at \in {"idle", "find"} /\ Done(l).attempt = 0
        /\ Done(l).at = "find" => Done(l).kind = lam[l].kind /\ Done(l).solo = lam[l].solo
    BY DoneTypes DEF Inv
  <2>6. /\ lam' \in [Lambdas -> Doing] /\ lam'[l] = Done(l)
        /\ \A m \in Lambdas \ {l} : lam'[m] = lam[m]
    BY <1>1, <2>1, <2>5
  <2>7. TypeOK'
    BY <1>1, <2>1, <2>2, <2>4, <2>6 DEF Inv, TypeOK, Doing, u
  <2>8. Alone'
    <3>1. \A m \in Lambdas : Ensuring(m)' => Ensuring(m) /\ (lam'[m].solo => lam[m].solo)
      BY <1>1, <2>5, <2>6 DEF Ensuring, At
    <3>2. QED
      BY <3>1 DEF Inv, Alone
  <2>9. Placed(l)' /\ Careful(l)' /\ Unmade(l)'
    BY <2>5, <2>6 DEF Placed, Careful, Unmade, At
  <2>10. ASSUME NEW m \in Lambdas \ {l} PROVE Placed(m)' /\ Careful(m)' /\ Unmade(m)'
    <3>1. Ensuring(m) => ~lam[m].solo /\ ~lam[l].solo
      BY <1>1 DEF Inv, Alone
    <3>2. At(m, "probe") \/ At(m, "create") => Ensuring(m)
      BY DEF Inv, Placed, Ensuring, At
    <3>3. Placed(m)'
      BY <2>6 DEF Inv, Placed, At
    <3>4. Careful(m)'
      <4> SUFFICES ASSUME At(m, "create"), NEW ap \in aps', ap.uid = NewAp(m).uid
                   PROVE  ap.user \in raced' /\ ~lam[m].solo
        BY <2>6 DEF Careful, At, NewAp
      <4>1. CASE ap \in aps
        BY <2>4, <4>1 DEF Inv, Careful
      <4>2. CASE ap = new
        BY <2>2, <2>4, <3>1, <3>2, <4>2
      <4>3. QED
        BY <2>1, <4>1, <4>2
    <3>5. Unmade(m)'
      BY <2>6, <3>1, <3>2 DEF Unmade, At
    <3>6. QED
      BY <3>3, <3>4, <3>5
  <2>11. OnePerUser' /\ Probed'
    BY <2>1, <2>2, <2>3 DEF Inv, OnePerUser, Probed
  <2>12. SharedUidsCameFromARace'
    BY <2>1, <2>2, <2>3, <2>4 DEF Inv, SharedUidsCameFromARace
  <2>13. Stays'
    <3> SUFFICES ASSUME NEW v \in Users \ raced', Far(v)
                 PROVE  /\ owner[v] \in {None, UidFor(v, 0)}
                        /\ \A ap \in aps' : ap.user = v => ap.uid = UidFor(v, 0)
      BY <2>1 DEF Stays, ApsOf
    <3>1. v \in Users \ raced
      BY <2>4
    <3>2. v = u => new.uid = UidFor(v, 0)
      BY <2>3, <2>4
    <3>3. QED
      BY <2>1, <2>2, <3>1, <3>2 DEF Inv, Stays, ApsOf
  <2>14. QED
    BY <2>7, <2>8, <2>9, <2>10, <2>11, <2>12, <2>13 DEF Inv
<1>4. QED
  BY <1>2, <1>3

\* A deletion takes access points away and lets whoever found one miss it.
LEMMA DeleteKeeps == ASSUME Inv, NEW l \in Lambdas, Delete(l) PROVE Inv'
<1>1. /\ aps' \subseteq aps /\ UNCHANGED <<owner, raced>>
      /\ lam' = [m \in Lambdas |->
                   IF m = l THEN Done(l)
                   ELSE IF At(m, "delete") /\ lam[m].user = lam[l].user
                        THEN [lam[m] EXCEPT !.at = "gone"]
                   ELSE lam[m]]
  BY DEF Delete
<1>2. /\ Done(l) \in Doing /\ Done(l).at \in {"idle", "find"} /\ Done(l).attempt = 0
      /\ Done(l).at = "find" => Done(l).kind = lam[l].kind /\ Done(l).solo = lam[l].solo
  BY DoneTypes DEF Inv
<1>3. lam \in [Lambdas -> Doing] /\ At(l, "delete")
  BY DEF Inv, TypeOK, Doing, Delete
<1>4. ASSUME NEW m \in Lambdas \ {l}
      PROVE  /\ lam'[m] \in Doing /\ lam'[m].kind = lam[m].kind /\ lam'[m].solo = lam[m].solo
             /\ lam'[m].user = lam[m].user /\ lam'[m].attempt = lam[m].attempt
             /\ lam'[m].at = lam[m].at \/ (At(m, "delete") /\ lam'[m].at = "gone")
  <2>1. lam'[m] = lam[m] \/ (At(m, "delete") /\ lam'[m] = [lam[m] EXCEPT !.at = "gone"])
    BY <1>1
  <2>2. QED
    BY <1>3, <2>1 DEF Doing, Positions
<1>5. lam'[l] = Done(l)
  BY <1>1
<1>6. TypeOK'
  <2>1. lam' = [m \in Lambdas |-> lam'[m]]
    BY <1>1
  <2>2. lam' \in [Lambdas -> Doing]
    BY <1>2, <1>4, <1>5, <2>1
  <2>3. QED
    BY <1>1, <2>2 DEF Inv, TypeOK, Doing
<1>7. Alone'
  <2>1. \A m \in Lambdas : Ensuring(m)' => Ensuring(m) /\ lam'[m].solo = lam[m].solo
    BY <1>2, <1>3, <1>4, <1>5 DEF Ensuring, At
  <2>2. QED
    BY <2>1 DEF Inv, Alone
<1>8. Placed(l)' /\ Careful(l)' /\ Unmade(l)'
  BY <1>2, <1>5 DEF Placed, Careful, Unmade, At
<1>9. ASSUME NEW m \in Lambdas \ {l} PROVE Placed(m)' /\ Careful(m)' /\ Unmade(m)'
  BY <1>1, <1>4 DEF Inv, Placed, Careful, Unmade, At, NewAp, ApsOf
<1>10. OnePerUser' /\ SharedUidsCameFromARace' /\ Probed' /\ Stays'
  BY <1>1 DEF Inv, OnePerUser, SharedUidsCameFromARace, Probed, Stays, ApsOf
<1>11. QED
  BY <1>6, <1>7, <1>8, <1>9, <1>10 DEF Inv

\* A directory that is made belongs to the uid of the access point that is there.
LEMMA MountKeeps == ASSUME Inv, Mount PROVE Inv'
<1>1. PICK ap \in aps : /\ owner[ap.user] = None
                        /\ owner' = [owner EXCEPT ![ap.user] = ap.uid]
  BY DEF Mount
<1>2. UNCHANGED <<aps, raced, lam>> /\ ap \in AccessPoints
  BY DEF Mount, Inv, TypeOK
<1>3. TypeOK'
  BY <1>1, <1>2 DEF Inv, TypeOK, AccessPoints
<1>4. Stays'
  <2>1. \A u \in Users : owner'[u] = IF u = ap.user THEN ap.uid ELSE owner[u]
    BY <1>1 DEF Inv, TypeOK
  <2>2. QED
    BY <1>2, <2>1 DEF Inv, Stays, ApsOf
<1>5. /\ Alone' /\ OnePerUser' /\ SharedUidsCameFromARace' /\ Probed'
      /\ \A l \in Lambdas : Placed(l)' /\ Careful(l)' /\ Unmade(l)'
  BY <1>2 DEF Inv, Alone, Ensuring, OnePerUser, SharedUidsCameFromARace, Probed,
     Placed, Careful, Unmade, At, NewAp, ApsOf
<1>6. QED
  BY <1>3, <1>4, <1>5 DEF Inv

LEMMA StepInv == Inv /\ [Next]_vars => Inv'
<1> SUFFICES ASSUME Inv, [Next]_vars PROVE Inv'
  OBVIOUS
<1>1. ASSUME NEW l \in Lambdas, Run(l) PROVE Inv'
  <2>1. CASE FindNothingToDo(l) \/ Find(l) \/ Probe(l) \/ DeleteGone(l) \/ Raise(l)
    BY <2>1, QuietSteps, QuietKeeps DEF Inv
  <2>2. QED
    BY <1>1, <2>1, InvokeKeeps, CreateKeeps, DeleteKeeps DEF Run
<1>2. CASE UNCHANGED vars
  BY <1>2 DEF vars, Inv, TypeOK, Alone, Ensuring, OnePerUser, SharedUidsCameFromARace,
     Probed, Stays, Placed, Careful, Unmade, At, NewAp, ApsOf
<1>3. QED
  BY <1>1, <1>2, MountKeeps DEF Next

LEMMA Inductive == Spec => []Inv
BY InitInv, StepInv, PTL DEF Spec

-----------------------------------------------------------------------------
(* The theorems.                                                           *)

\* Every uid is in its range and every probe below MAX_COLLISION_RETRY
\* (efs_userspace_provisioner.py:97-116).
THEOREM TypeCorrect == Spec => []TypeOK
<1>1. Inv => TypeOK
  BY DEF Inv
<1>2. QED
  BY <1>1, Inductive, PTL

\* However events are repeated, reordered and overlap, no user has two access
\* points (efs_userspace_provisioner.py:98-102, 119-135).
THEOREM OnePointEach == Spec => []OnePerUser
<1>1. Inv => OnePerUser
  BY DEF Inv
<1>2. QED
  BY <1>1, Inductive, PTL

\* Two users share a uid only if each of them has had an access point made while
\* another invocation ran: with one at a time the probe is enough
\* (efs_userspace_provisioner.py:104-119).
THEOREM SharingNeedsARace == Spec => []SharedUidsCameFromARace
<1>1. Inv => SharedUidsCameFromARace
  BY DEF Inv
<1>2. QED
  BY <1>1, Inductive, PTL

\* A user whose hash no other user's probes reach enters the directory as its
\* owner however often the access point is made again, unless it was once made in
\* a race (efs_userspace_provisioner.py:13-15, 104-135).
THEOREM FarHashIsStable == Spec => []FarHashKeepsUid
<1>1. Inv => FarHashKeepsUid
  <2> SUFFICES ASSUME Inv, NEW ap \in aps, Far(ap.user), ap.user \notin raced
               PROVE  OwnsDirectory(ap)
    BY DEF FarHashKeepsUid, Far
  <2>1. ap.user \in Users \ raced /\ ap \in ApsOf(ap.user)
    BY DEF Inv, TypeOK, AccessPoints, ApsOf
  <2>2. QED
    BY <2>1 DEF Inv, Stays, OwnsDirectory
<1>2. QED
  BY <1>1, Inductive, PTL
==============================================================================
