------------------------- MODULE CredentialSync_proofs -------------------------
(***************************************************************************)
(* What the rotator guarantees, and then what one `all` deploy after a     *)
(* rotation is worth, for any number of rotations, invocations, failures,  *)
(* deploys and reboots.  The rotator's part speaks of PasswordRotation     *)
(* alone: the types, that the password in force is never lost, and that    *)
(* AWSCURRENT names a password the instance was given.                     *)
(***************************************************************************)
EXTENDS CredentialSync, TLAPS

(***************************************************************************)
(* PART 1.  The rotator.                                                   *)
(***************************************************************************)

(* What holds whenever rotations start and whatever calls come late.       *)

\* Nothing is stored or done for a token that is still to be issued.
Fresh == \A t \in Tokens : t > rot => value[t] = None /\ passed[t] = {}

\* A version that is labelled has a value.
Labelled == value[cur] # None /\ value[prev] # None /\ value[pend] # None

\* Where invocation l is, and for which token.
Known(l) ==
  /\ lam[l].at \in {"check", "put"} => lam[l].step = "createSecret"
  /\ lam[l].at \in {"read", "modify"} => lam[l].step = "setSecret"
  /\ lam[l].at = "poll" => lam[l].step = "testSecret"
  /\ lam[l].at \in {"describe", "move"} => lam[l].step = "finishSecret"
  /\ lam[l].at = "return" => lam[l].step \in Steps
  /\ lam[l].at = "modify" => lam[l].got # None
  /\ lam[l].step = "finishSecret" => value[lam[l].token] # None
  /\ lam[l].token <= rot

Basic == TypeOK /\ Fresh /\ Labelled /\ \A l \in Lambdas : Known(l)

(* What holds as long as no rotation met a change or a call of another.    *)

\* AWSPENDING is on the rotation's version as soon as that has a value.
Stored == (value[rot] # None <=> pend = rot) /\ pend \in {cur, rot}

\* What invocation l holds from an earlier call.
Working(l) ==
  /\ lam[l] # Idle => lam[l].token = rot
  /\ lam[l].step \in {"setSecret", "finishSecret"} => pend = rot
  /\ lam[l].step = "finishSecret" => "setSecret" \in passed[rot]
  /\ lam[l].at = "modify" => lam[l].got = value[rot]
  /\ lam[l].at = "move" => lam[l].saw # rot
  /\ lam[l].at = "return" /\ lam[l].step = "setSecret" => rds.target = value[rot]

\* The instance has, and was asked for, passwords that still carry a label.
Asked ==
  /\ "setSecret" \in passed[rot] \/ cur = rot => rds.target = value[rot]
  /\ rds.target \in {value[cur], value[pend]}
  /\ rds.phase = "applied" => rds.password = rds.target
  /\ rds.password \in {value[cur], IF cur = rot THEN value[prev] ELSE value[pend]}

Apart == Stored /\ (\A l \in Lambdas : Working(l)) /\ Asked

Inv == Basic /\ (~overlap => Apart)

-----------------------------------------------------------------------------
(* Types.                                                                  *)

Doing == [step: Steps \union {"none"}, token: Tokens, at: Positions,
          got: Passwords \union {None}, saw: Tokens]

\* A version has one password per author, and none of them is None.
LEMMA PasswordTypes ==
  /\ 0 \in Tokens
  /\ \A t \in Tokens, l \in Lambdas \union {None} : <<t, l>> \in Passwords
  /\ None \notin Passwords
BY RotationAssumption, PasswordAssumption DEF Tokens, Passwords

\* Rotation 0 is the seeded one, over and done.
LEMMA InitTypes == Init => TypeOK
<1> SUFFICES ASSUME Init PROVE TypeOK
  OBVIOUS
<1>1. Idle \in Doing
  BY PasswordTypes DEF Idle, Doing, Positions
<1>2. lam \in [Lambdas -> Doing]
  BY <1>1 DEF Init
<1>3. passed \in [Tokens -> SUBSET Steps] /\ value \in [Tokens -> Passwords \union {None}]
  BY PasswordTypes DEF Init
<1>4. rds \in [password: Passwords, target: Passwords,
              phase: {"applied", "queued", "modifying"}]
  BY PasswordTypes DEF Init
<1>5. failures \in 0..MaxFailures /\ {cur, prev, pend, rot} \subseteq Tokens
  BY PasswordTypes, RotationAssumption DEF Init
<1>6. enabled \in BOOLEAN /\ overlap \in BOOLEAN
  BY DEF Init
<1>7. QED
  BY <1>2, <1>3, <1>4, <1>5, <1>6 DEF TypeOK, Doing

\* What an API call returns is a version's value or one of the labels.
LEMMA StepTypes == Basic /\ [Next]_vars => TypeOK'
<1> SUFFICES ASSUME TypeOK, Labelled, \A l \in Lambdas : Known(l), [Next]_vars
             PROVE  TypeOK'
  BY DEF Basic
<1> USE PasswordTypes, RotationAssumption DEF TypeOK, secret, At, Move, Stop, Idle, Positions, Doing
<1>1. CASE StartRotation
  BY <1>1 DEF StartRotation, Tokens
<1>2. CASE SwitchRotation
  BY <1>2 DEF SwitchRotation
<1>3. CASE RdsPickUp
  BY <1>3 DEF RdsPickUp
<1>4. CASE RdsApply
  BY <1>4 DEF RdsApply
<1>5. ASSUME NEW l \in Lambdas, Invoke(l) PROVE TypeOK'
  <2>1. PICK t \in 1..rot, step \in Steps :
          /\ lam' = [lam EXCEPT ![l] = [Idle EXCEPT !.step = step, !.token = t,
                                                   !.at = First(step)]]
          /\ overlap' = (overlap \/ t # rot)
    BY <1>5 DEF Invoke
  <2>2. t \in Tokens /\ First(step) \in Positions
    BY DEF Tokens, First, Steps
  <2>3. [Idle EXCEPT !.step = step, !.token = t, !.at = First(step)] \in Doing
    BY <2>2
  <2>4. overlap' \in BOOLEAN /\ lam' \in [Lambdas -> Doing]
    BY <2>1, <2>3
  <2>5. QED
    BY <1>5, <2>4 DEF Invoke
<1>6. ASSUME NEW l \in Lambdas, CreateCheck(l) PROVE TypeOK'
  BY <1>6 DEF CreateCheck
<1>7. ASSUME NEW l \in Lambdas, CreatePut(l) PROVE TypeOK'
  <2>1. PICK t \in Tokens : t = lam[l].token
    OBVIOUS
  <2>2. <<t, l>> \in Passwords
    OBVIOUS
  <2>3. /\ value' = [value EXCEPT ![t] = <<t, l>>] \/ value' = value
        /\ pend' = t \/ pend' = pend
        /\ lam' = [lam EXCEPT ![l] = Idle] \/ lam' = [lam EXCEPT ![l].at = "return"]
        /\ UNCHANGED <<cur, prev, enabled, rds, rot, passed, failures, overlap>>
    BY <1>7, <2>1 DEF CreatePut
  <2>4. value' \in [Tokens -> Passwords \union {None}] /\ lam' \in [Lambdas -> Doing]
    BY <2>2, <2>3
  <2>5. QED
    BY <2>3, <2>4
<1>8. ASSUME NEW l \in Lambdas, SetRead(l) PROVE TypeOK'
  <2>1. value[pend] \in Passwords \union {None}
    OBVIOUS
  <2>2. [lam[l] EXCEPT !.at = "modify", !.got = value[pend]] \in Doing
    BY <2>1
  <2>3. Idle \in Doing
    OBVIOUS
  <2>4. lam' \in [Lambdas -> Doing]
    BY <1>8, <2>2, <2>3 DEF SetRead
  <2>5. QED
    BY <1>8, <2>4 DEF SetRead
<1>9. ASSUME NEW l \in Lambdas, SetModify(l) PROVE TypeOK'
  <2>1. lam[l].got \in Passwords
    BY <1>9 DEF SetModify, Known
  <2>2. /\ \/ lam' = [lam EXCEPT ![l] = Idle]
           \/ lam' = [lam EXCEPT ![l].at = "return"]
        /\ \/ rds' = rds
           \/ rds' = [rds EXCEPT !.target = lam[l].got, !.phase = "queued"]
        /\ UNCHANGED <<value, cur, prev, pend, enabled, rot, passed, failures, overlap>>
    BY <1>9 DEF SetModify
  <2>3. lam' \in [Lambdas -> Doing]
    BY <2>2
  <2>4. rds' \in [password: Passwords, target: Passwords,
                  phase: {"applied", "queued", "modifying"}]
    BY <2>1, <2>2
  <2>5. QED
    BY <2>2, <2>3, <2>4
<1>10. ASSUME NEW l \in Lambdas, TestPoll(l) PROVE TypeOK'
  BY <1>10 DEF TestPoll
<1>11. ASSUME NEW l \in Lambdas, FinishDescribe(l) PROVE TypeOK'
  <2>1. PICK at \in {"return", "move"} :
               lam' = [lam EXCEPT ![l] = [lam[l] EXCEPT !.at = at, !.saw = cur]]
    BY <1>11 DEF FinishDescribe
  <2>2. [lam[l] EXCEPT !.at = at, !.saw = cur] \in Doing
    OBVIOUS
  <2>3. lam' \in [Lambdas -> Doing]
    BY <2>1, <2>2
  <2>4. UNCHANGED <<secret, rds, rot, passed, failures, overlap>>
    BY <1>11 DEF FinishDescribe
  <2>5. QED
    BY <2>3, <2>4
<1>12. ASSUME NEW l \in Lambdas, FinishMove(l) PROVE TypeOK'
  BY <1>12 DEF FinishMove
<1>13. ASSUME NEW l \in Lambdas, Return(l) PROVE TypeOK'
  BY <1>13 DEF Return, Known
<1>14. ASSUME NEW l \in Lambdas, Raise(l) PROVE TypeOK'
  BY <1>14 DEF Raise
<1>15. CASE UNCHANGED vars
  BY <1>15 DEF vars
<1>16. QED
  BY <1>1, <1>2, <1>3, <1>4, <1>5, <1>6, <1>7, <1>8, <1>9, <1>10, <1>11,
     <1>12, <1>13, <1>14, <1>15 DEF Next, Run
-----------------------------------------------------------------------------
(* The strengthening.                                                      *)

\* Rotation 0 is stored, asked for and in force; nothing runs.
LEMMA InitInv == Init => Inv
<1> SUFFICES ASSUME Init PROVE Inv
  OBVIOUS
<1>0. value[0] = <<0, None>> /\ value[0] # None
  BY PasswordTypes DEF Init
<1>1. Fresh /\ Labelled
  BY <1>0, RotationAssumption DEF Init, Fresh, Labelled, Tokens
<1>2. \A l \in Lambdas : lam[l] = Idle /\ rot = 0
  BY DEF Init
<1>3. ASSUME NEW l \in Lambdas PROVE Known(l) /\ Working(l)
  <2>1. lam[l].step = "none" /\ lam[l].at = "idle" /\ lam[l].token <= rot
    BY <1>2 DEF Idle
  <2>2. QED
    BY <1>2, <2>1 DEF Known, Working
<1>4. Stored /\ Asked
  BY <1>0 DEF Init, Stored, Asked
<1>5. QED
  BY InitTypes, <1>1, <1>3, <1>4 DEF Inv, Basic, Apart

\* What is stored stays stored under its token.
LEMMA ValuesStay ==
  ASSUME TypeOK, [Next]_vars, NEW t \in Tokens, value[t] # None
  PROVE  value'[t] = value[t]
<1>1. ASSUME NEW l \in Lambdas, CreatePut(l) PROVE value'[t] = value[t]
  BY <1>1 DEF CreatePut, TypeOK
<1>2. CASE UNCHANGED value
  BY <1>2
<1>3. QED
  BY <1>1, <1>2 DEF Next, Run, StartRotation, SwitchRotation, RdsPickUp, RdsApply, Invoke,
     Raise, CreateCheck, SetRead, SetModify, TestPoll, FinishDescribe, FinishMove, Return,
     secret, vars

\* The number of the rotation only grows.
LEMMA RotGrows == [Next]_vars => rot' = rot \/ rot' = rot + 1
BY DEF Next, StartRotation, SwitchRotation, RdsPickUp, RdsApply, Run, Invoke, CreateCheck,
       CreatePut, SetRead, SetModify, TestPoll, FinishDescribe, FinishMove, Return,
       Raise, vars

\* Values, labels and returns belong to tokens that have been issued.
LEMMA StepFresh == Basic /\ [Next]_vars => Fresh' /\ Labelled'
<1> SUFFICES ASSUME Basic, [Next]_vars PROVE Fresh' /\ Labelled'
  OBVIOUS
<1> USE DEF Basic
<1>1. CASE StartRotation
  BY <1>1 DEF StartRotation, secret, TypeOK, Fresh, Labelled, Tokens
<1>2. ASSUME NEW l \in Lambdas, CreatePut(l) PROVE Fresh' /\ Labelled'
  <2>1. PICK t \in Tokens : t = lam[l].token /\ t <= rot
    BY DEF TypeOK, Known
  <2>2. CASE value[t] = None
    <3>1. /\ value' = [value EXCEPT ![t] = <<t, l>>] /\ pend' = t
          /\ UNCHANGED <<cur, prev, rot, passed>>
      BY <1>2, <2>1, <2>2 DEF CreatePut
    <3>2. <<t, l>> # None
      BY PasswordTypes
    <3>3. QED
      BY <2>1, <3>1, <3>2 DEF TypeOK, Fresh, Labelled, Tokens
  <2>3. CASE value[t] # None
    BY <1>2, <2>1, <2>3 DEF CreatePut, Fresh, Labelled
  <2>4. QED
    BY <2>2, <2>3
<1>3. ASSUME NEW l \in Lambdas, FinishMove(l) PROVE Fresh' /\ Labelled'
  BY <1>3 DEF FinishMove, At, Known, Fresh, Labelled
<1>4. ASSUME NEW l \in Lambdas, Return(l) PROVE Fresh' /\ Labelled'
  <2>1. PICK t \in Tokens : t = lam[l].token /\ t <= rot
    BY DEF TypeOK, Known
  <2>2. QED
    BY <1>4, <2>1 DEF Return, secret, TypeOK, Fresh, Labelled, Tokens
<1>5. CASE UNCHANGED <<value, cur, prev, pend, rot, passed>>
  BY <1>5 DEF Fresh, Labelled
<1>6. ASSUME NEW l \in Lambdas, Invoke(l) \/ Run(l) \/ Raise(l),
             ~CreatePut(l), ~FinishMove(l), ~Return(l)
      PROVE  UNCHANGED <<value, cur, prev, pend, rot, passed>>
  BY <1>6 DEF Invoke, Run, CreateCheck, SetRead, SetModify, TestPoll,
              FinishDescribe, Raise, secret
<1>7. CASE SwitchRotation \/ RdsPickUp \/ RdsApply \/ UNCHANGED vars
  BY <1>5, <1>7 DEF SwitchRotation, RdsPickUp, RdsApply, secret, vars
<1>8. QED
  BY <1>1, <1>2, <1>3, <1>4, <1>5, <1>6, <1>7 DEF Next

\* An invocation goes from one call of its step to the next, or stops.
LEMMA StepKnown == Basic /\ [Next]_vars => \A k \in Lambdas : Known(k)'
<1> SUFFICES ASSUME Basic, [Next]_vars, NEW k \in Lambdas PROVE Known(k)'
  OBVIOUS
<1>0. /\ Known(k) /\ lam \in [Lambdas -> Doing]
      /\ rot \in Nat /\ rot' \in Nat /\ rot <= rot'
      /\ lam[k].token \in Tokens
  BY StepTypes, RotGrows DEF Basic, TypeOK, Doing, Tokens
<1>1. value[lam[k].token] # None => value'[lam[k].token] # None
  BY <1>0, ValuesStay DEF Basic
<1> USE <1>0 DEF At, Move, Stop, Doing
<1>2. CASE lam'[k] = lam[k]
  BY <1>1, <1>2 DEF Known, Tokens
<1>3. CASE lam'[k] = Idle
  BY <1>3 DEF Known, Idle
<1>4. ASSUME NEW at \in {"put", "return"}, lam'[k] = [lam[k] EXCEPT !.at = at],
             lam[k].at # "idle", at = "put" => lam[k].step = "createSecret"
      PROVE  Known(k)'
  <2>1. /\ lam'[k].at = at /\ lam'[k].step = lam[k].step
        /\ lam'[k].token = lam[k].token
    BY <1>4
  <2>2. lam[k].step \in Steps
    BY <1>4 DEF Known, Positions, Steps
  <2>3. QED
    BY <1>1, <1>4, <2>1, <2>2 DEF Known, Tokens
<1>5. ASSUME NEW l \in Lambdas, l # k, Invoke(l) \/ Run(l) \/ Raise(l)
      PROVE  lam'[k] = lam[k]
  BY <1>5 DEF Invoke, Run, Raise, CreateCheck, CreatePut, SetRead, SetModify, TestPoll,
              FinishDescribe, FinishMove, Return
<1>6. CASE Invoke(k)
  <2>1. PICK t \in 1..rot, step \in Steps :
          /\ step # "createSecret" => t \in {cur, prev, pend}
          /\ lam'[k] = [Idle EXCEPT !.step = step, !.token = t, !.at = First(step)]
    BY <1>6 DEF Invoke
  <2>2. lam'[k].step = step /\ lam'[k].token = t /\ lam'[k].at = First(step)
    BY <2>1 DEF Idle
  <2>3. step = "finishSecret" => value[t] # None
    BY <2>1 DEF Basic, Labelled
  <2>4. UNCHANGED value
    BY <1>6 DEF Invoke, secret
  <2>5. QED
    BY <2>2, <2>3, <2>4 DEF Known, First, Steps
<1>7. CASE CreateCheck(k) \/ CreatePut(k) \/ SetModify(k) \/ TestPoll(k) \/ FinishMove(k)
  <2>1. \/ lam'[k] = Idle
        \/ \E at \in {"put", "return"} :
             /\ lam'[k] = [lam[k] EXCEPT !.at = at] /\ lam[k].at # "idle"
             /\ at = "put" => lam[k].at = "check"
    BY <1>7 DEF CreateCheck, CreatePut, SetModify, TestPoll, FinishMove
  <2>2. QED
    BY <1>3, <1>4, <2>1 DEF Known
<1>8. CASE SetRead(k)
  <2>1. CASE pend = lam[k].token
    <3>1. /\ lam'[k] = [lam[k] EXCEPT !.at = "modify", !.got = value[pend]]
          /\ lam[k].at = "read"
      BY <1>8, <2>1 DEF SetRead
    <3>2. /\ lam'[k].at = "modify" /\ lam'[k].step = lam[k].step
          /\ lam'[k].token = lam[k].token /\ lam'[k].got = value[pend]
      BY <3>1
    <3>3. QED
      BY <1>1, <3>1, <3>2 DEF Known, Basic, Labelled, Tokens
  <2>2. CASE pend # lam[k].token
    BY <1>3, <1>8, <2>2 DEF SetRead
  <2>3. QED
    BY <2>1, <2>2
<1>9. CASE FinishDescribe(k)
  <2>1. PICK at \in {"return", "move"} :
          lam'[k] = [lam[k] EXCEPT !.at = at, !.saw = cur] /\ lam[k].at = "describe"
    BY <1>9 DEF FinishDescribe
  <2>2. /\ lam'[k].at = at /\ lam'[k].step = lam[k].step
        /\ lam'[k].token = lam[k].token
    BY <2>1
  <2>3. QED
    BY <1>1, <2>1, <2>2 DEF Known, Tokens, Steps
<1>10. CASE Return(k) \/ Raise(k)
  BY <1>3, <1>10 DEF Return, Raise
<1>11. CASE StartRotation \/ SwitchRotation \/ RdsPickUp \/ RdsApply \/ UNCHANGED vars
  BY <1>2, <1>11 DEF StartRotation, SwitchRotation, RdsPickUp, RdsApply, vars
<1>12. QED
  BY <1>2, <1>5, <1>6, <1>7, <1>8, <1>9, <1>10, <1>11 DEF Next, Run

LEMMA StepBasic == Basic /\ [Next]_vars => Basic'
BY StepTypes, StepFresh, StepKnown DEF Basic

-----------------------------------------------------------------------------
(* Rotations that are kept apart.                                          *)

\* The history never forgets.
LEMMA OverlapStays == TypeOK /\ [Next]_vars /\ overlap => overlap'
BY DEF TypeOK, Next, StartRotation, SwitchRotation, RdsPickUp, RdsApply, Run, Invoke,
       CreateCheck, CreatePut, SetRead, SetModify, TestPoll, FinishDescribe, FinishMove,
       Return, Raise, vars

\* A rotation that meets nothing of the last one starts from a settled instance.
LEMMA StartsSettled ==
  ASSUME StartRotation, ~overlap'
  PROVE  /\ ~overlap /\ rds.phase = "applied" /\ \A l \in Lambdas : lam[l] = Idle
         /\ pend = cur /\ rot' = rot + 1
         /\ UNCHANGED <<value, cur, prev, pend, rds, passed, lam>>
BY DEF StartRotation, secret

\* A call that is for no earlier token is for the last one.
LEMMA InvokesLast ==
  ASSUME NEW l \in Lambdas, Invoke(l), ~overlap'
  PROVE  \E step \in Steps :
           /\ Before(step) \subseteq passed[rot]
           /\ step # "createSecret" => rot \in {cur, prev, pend}
           /\ lam' = [lam EXCEPT ![l] = [Idle EXCEPT !.step = step, !.token = rot,
                                                    !.at = First(step)]]
BY DEF Invoke, Called

\* The labels move when a version is put and when a rotation is finished.
LEMMA StepStored == Inv /\ [Next]_vars /\ ~overlap /\ ~overlap' => Stored'
<1> SUFFICES ASSUME Inv, [Next]_vars, ~overlap, ~overlap' PROVE Stored'
  OBVIOUS
<1> USE DEF Inv, Apart, Basic
<1>1. CASE StartRotation
  <2>1. rot + 1 \in Tokens /\ rot + 1 > rot /\ cur <= rot
    BY <1>1, RotationAssumption DEF StartRotation, TypeOK, Fresh, Labelled, Tokens
  <2>2. QED
    BY <1>1, <2>1, StartsSettled DEF Fresh, Stored, TypeOK, Tokens
<1>2. ASSUME NEW l \in Lambdas, CreatePut(l) PROVE Stored'
  <2>0. lam[l].token = rot
    BY <1>2 DEF CreatePut, At, Working, Idle
  <2>1. CASE value[rot] = None
    <3>1. /\ value' = [value EXCEPT ![rot] = <<rot, l>>] /\ pend' = rot
          /\ UNCHANGED <<cur, prev, rot>>
      BY <1>2, <2>0, <2>1 DEF CreatePut
    <3>2. rot \in Tokens /\ <<rot, l>> # None
      BY PasswordTypes DEF TypeOK
    <3>3. QED
      BY <2>1, <3>1, <3>2 DEF TypeOK, Stored, Tokens
  <2>2. CASE value[rot] # None
    BY <1>2, <2>0, <2>2 DEF CreatePut, Stored
  <2>3. QED
    BY <2>1, <2>2
<1>3. ASSUME NEW l \in Lambdas, FinishMove(l) PROVE Stored'
  <2>1. lam[l].token = rot /\ pend = rot
    BY <1>3 DEF FinishMove, At, Working, Known, Idle
  <2>2. QED
    BY <1>3, <2>1 DEF FinishMove, Stored
<1>4. CASE UNCHANGED <<value, cur, prev, pend, rot>>
  BY <1>4 DEF Stored
<1>5. ASSUME NEW l \in Lambdas, Invoke(l) \/ Run(l) \/ Raise(l),
             ~CreatePut(l), ~FinishMove(l)
      PROVE  UNCHANGED <<value, cur, prev, pend, rot>>
  BY <1>5 DEF Invoke, Run, CreateCheck, SetRead, SetModify, TestPoll,
              FinishDescribe, Return, Raise, secret
<1>6. CASE SwitchRotation \/ RdsPickUp \/ RdsApply \/ UNCHANGED vars
  BY <1>4, <1>6 DEF SwitchRotation, RdsPickUp, RdsApply, secret, vars
<1>7. QED
  BY <1>1, <1>2, <1>3, <1>4, <1>5, <1>6 DEF Next

\* What the instance was asked for changes when SetModify asks, and what its
\* password is measured against when a label moves.
LEMMA StepAsked == Inv /\ [Next]_vars /\ ~overlap /\ ~overlap' => Asked'
<1> SUFFICES ASSUME Inv, [Next]_vars, ~overlap, ~overlap' PROVE Asked'
  OBVIOUS
<1> USE DEF Inv, Apart, Basic, Asked
<1>1. CASE StartRotation
  <2>1. /\ cur # rot + 1 /\ pend = cur /\ rds.phase = "applied"
        /\ rot' = rot + 1 /\ passed[rot + 1] = {}
        /\ UNCHANGED <<value, cur, prev, pend, rds, passed>>
    BY <1>1, RotationAssumption, StartsSettled
       DEF StartRotation, TypeOK, Fresh, Labelled, Tokens
  <2>2. QED
    BY <2>1
<1>2. ASSUME NEW l \in Lambdas, CreatePut(l) PROVE Asked'
  <2>0. lam[l].token = rot
    BY <1>2 DEF CreatePut, At, Working, Idle
  <2>1. CASE value[rot] = None
    <3>1. /\ value' = [value EXCEPT ![rot] = <<rot, l>>] /\ pend' = rot
          /\ UNCHANGED <<cur, prev, rot, rds, passed>>
      BY <1>2, <2>0, <2>1 DEF CreatePut
    <3>2. rot # cur /\ pend = cur /\ rot # prev
      BY <2>1 DEF Stored, Labelled
    <3>3. value'[cur] = value[cur] /\ value'[prev] = value[prev]
      BY <3>1, <3>2 DEF TypeOK
    <3>4. rds.target # value[rot]
      BY <2>1, PasswordTypes DEF TypeOK
    <3>5. QED
      BY <3>1, <3>2, <3>3, <3>4
  <2>2. CASE value[rot] # None
    BY <1>2, <2>0, <2>2 DEF CreatePut
  <2>3. QED
    BY <2>1, <2>2
<1>3. ASSUME NEW l \in Lambdas, SetModify(l) PROVE Asked'
  <2>1. pend = rot /\ lam[l].got = value[rot]
    BY <1>3 DEF SetModify, At, Working, Known
  <2>2. CASE rds' = [rds EXCEPT !.target = lam[l].got, !.phase = "queued"]
    <3>1. rds'.target = value[rot] /\ rds'.phase = "queued" /\ rds'.password = rds.password
      BY <2>1, <2>2 DEF TypeOK
    <3>2. QED
      BY <1>3, <2>1, <3>1 DEF SetModify, secret
  <2>3. CASE UNCHANGED rds
    BY <1>3, <2>3 DEF SetModify, secret
  <2>4. QED
    BY <1>3, <2>2, <2>3 DEF SetModify
<1>4. ASSUME NEW l \in Lambdas, FinishMove(l) PROVE Asked'
  <2>0. lam[l].token = rot /\ pend = rot /\ rds.target = value[rot] /\ lam[l].saw # rot
    BY <1>4 DEF FinishMove, At, Working, Known, Idle
  <2>1. CASE cur = lam[l].saw
    <3>1. cur' = rot /\ prev' = cur /\ UNCHANGED <<value, pend, rds, rot, passed>>
      BY <1>4, <2>0, <2>1 DEF FinishMove
    <3>2. QED
      BY <2>0, <2>1, <3>1
  <2>2. CASE cur # lam[l].saw
    BY <1>4, <2>2 DEF FinishMove
  <2>3. QED
    BY <2>1, <2>2
<1>5. ASSUME NEW l \in Lambdas, Return(l) PROVE Asked'
  <2>1. /\ lam[l].token = rot
        /\ lam[l].step = "setSecret" => rds.target = value[rot]
    BY <1>5 DEF Return, At, Working, Idle
  <2>2. "setSecret" \in passed'[rot] => "setSecret" \in passed[rot] \/ lam[l].step = "setSecret"
    BY <1>5, <2>1 DEF Return, TypeOK
  <2>3. UNCHANGED <<value, cur, prev, pend, rds, rot>>
    BY <1>5 DEF Return, secret
  <2>4. QED
    BY <2>1, <2>2, <2>3
<1>6. CASE RdsPickUp
  <2>1. rds'.target = rds.target /\ rds'.password = rds.password /\ rds'.phase = "modifying"
    BY <1>6 DEF RdsPickUp, TypeOK
  <2>2. QED
    BY <1>6, <2>1 DEF RdsPickUp, secret
<1>7. CASE RdsApply
  <2>1. rds'.target = rds.target /\ rds'.password = rds.target
    BY <1>7 DEF RdsApply, TypeOK
  <2>2. cur = rot => rds.target = value[cur]
    OBVIOUS
  <2>3. QED
    BY <1>7, <2>1, <2>2 DEF RdsApply, secret
<1>8. CASE UNCHANGED <<value, cur, prev, pend, rds, rot, passed>>
  BY <1>8
<1>9. ASSUME NEW l \in Lambdas,
             \/ Invoke(l) \/ CreateCheck(l) \/ SetRead(l) \/ TestPoll(l)
             \/ FinishDescribe(l) \/ Raise(l)
      PROVE  UNCHANGED <<value, cur, prev, pend, rds, rot, passed>>
  BY <1>9 DEF Invoke, CreateCheck, SetRead, TestPoll, FinishDescribe, Raise, secret
<1>10. CASE SwitchRotation \/ UNCHANGED vars
  BY <1>8, <1>10 DEF SwitchRotation, vars
<1>11. QED
  BY <1>1, <1>2, <1>3, <1>4, <1>5, <1>6, <1>7, <1>8, <1>9, <1>10 DEF Next, Run

\* An invocation that does not move holds on to what it knows, as long as the
\* stored version and the request made for it stand.
LEMMA Untouched ==
  ASSUME NEW k \in Lambdas, Known(k), Working(k), lam'[k] = lam[k],
         rot' = rot, passed[rot] \subseteq passed'[rot], pend' \in {pend, rot},
         pend = rot => value'[rot] = value[rot],
         pend = rot /\ rds.target = value[rot] => rds'.target = value[rot]
  PROVE  Working(k)'
<1>1. "setSecret" \in passed[rot] => "setSecret" \in passed'[rot']
  OBVIOUS
<1>2. pend = rot => pend' = rot' /\ value'[rot'] = value[rot]
  OBVIOUS
<1>3. Idle' = Idle
  BY DEF Idle
<1>4. lam[k].at = "modify" => pend = rot
  BY DEF Known, Working
<1>5. lam[k].at = "return" /\ lam[k].step = "setSecret" => pend = rot
  BY DEF Working
<1>6. QED
  BY <1>1, <1>2, <1>3, <1>4, <1>5 DEF Working

LEMMA StepWorking == Inv /\ [Next]_vars /\ ~overlap /\ ~overlap' => \A k \in Lambdas : Working(k)'
<1> SUFFICES ASSUME Inv, [Next]_vars, ~overlap, ~overlap', NEW k \in Lambdas
             PROVE  Working(k)'
  OBVIOUS
<1>0. /\ Working(k) /\ lam \in [Lambdas -> Doing]
      /\ \A l \in Lambdas : Working(l) /\ Known(l)
      /\ passed \in [Tokens -> SUBSET Steps] /\ rot \in Tokens
  BY DEF Inv, Basic, Apart, TypeOK, Doing
<1> USE <1>0 DEF secret, At, Move, Stop, Doing
<1>1. CASE StartRotation
  <2>1. lam'[k] = Idle
    BY <1>1, StartsSettled
  <2>2. lam'[k].step = "none" /\ lam'[k].at = "idle"
    BY <2>1 DEF Idle
  <2>3. QED
    BY <2>1, <2>2 DEF Working, Idle
<1>2. ASSUME UNCHANGED <<value, pend, rot, passed, rds>>, lam'[k] = lam[k]
      PROVE  Working(k)'
  BY <1>2, Untouched
<1>3. CASE RdsPickUp \/ RdsApply
  <2>1. rds'.target = rds.target
    BY <1>3 DEF RdsPickUp, RdsApply, Inv, Basic, TypeOK
  <2>2. QED
    BY <1>3, <2>1, Untouched DEF RdsPickUp, RdsApply
<1>4. ASSUME NEW l \in Lambdas, Invoke(l) PROVE Working(k)'
  <2>1. CASE k = l
    <3>1. PICK step \in Steps :
            /\ Before(step) \subseteq passed[rot]
            /\ step # "createSecret" => rot \in {cur, prev, pend}
            /\ lam' = [lam EXCEPT ![l] = [Idle EXCEPT !.step = step, !.token = rot,
                                                     !.at = First(step)]]
      BY <1>4, InvokesLast
    <3>2. lam'[l].step = step /\ lam'[l].token = rot /\ lam'[l].at = First(step)
      BY <3>1 DEF Idle
    <3>3. step = "finishSecret" => "setSecret" \in passed[rot]
      BY <3>1 DEF Before, Steps
    <3>4. step # "createSecret" => pend = rot
      BY <3>1 DEF Inv, Basic, Labelled, Apart, Stored
    <3>5. UNCHANGED <<pend, rot, passed>>
      BY <1>4 DEF Invoke
    <3>6. First(step) \notin {"modify", "move", "return"}
      BY DEF First
    <3>7. QED
      BY <2>1, <3>2, <3>3, <3>4, <3>5, <3>6 DEF Working
  <2>2. CASE k # l
    BY <1>2, <1>4, <2>2 DEF Invoke
  <2>3. QED
    BY <2>1, <2>2
<1>5. ASSUME NEW l \in Lambdas, lam' = [lam EXCEPT ![l].at = "return"],
             UNCHANGED <<value, pend, rot, passed, rds>>,
             lam[l].step \in Steps \ {"setSecret"}, lam[l].token = rot
      PROVE  Working(k)'
  <2>1. CASE k = l
    <3>1. /\ lam'[k].at = "return" /\ lam'[k].step = lam[k].step
          /\ lam'[k].token = rot
      BY <1>5, <2>1
    <3>2. QED
      BY <1>5, <2>1, <3>1 DEF Working
  <2>2. CASE k # l
    BY <1>2, <1>5, <2>2
  <2>3. QED
    BY <2>1, <2>2
<1>6. ASSUME NEW l \in Lambdas, lam' = [lam EXCEPT ![l] = Idle],
             UNCHANGED <<value, pend, rot, rds>>, passed[rot] \subseteq passed'[rot]
      PROVE  Working(k)'
  <2>1. CASE k = l
    <3>1. lam'[k] = Idle /\ lam'[k].step = "none" /\ lam'[k].at = "idle"
      BY <1>6, <2>1 DEF Idle
    <3>2. QED
      BY <3>1 DEF Working, Idle
  <2>2. CASE k # l
    BY <1>6, <2>2, Untouched
  <2>3. QED
    BY <2>1, <2>2
<1>7. ASSUME NEW l \in Lambdas, CreateCheck(l) PROVE Working(k)'
  <2>1. lam[l].at = "check" /\ lam[l].step = "createSecret" /\ lam[l].token = rot
    BY <1>7 DEF CreateCheck, Known, Working, Idle
  <2>2. CASE pend = rot
    BY <1>5, <1>7, <2>1, <2>2 DEF CreateCheck, Steps
  <2>3. CASE pend # rot
    <3>1. CASE k = l
      <4>1. lam'[k].at = "put" /\ lam'[k].step = "createSecret" /\ lam'[k].token = rot
        BY <1>7, <2>1, <2>3, <3>1 DEF CreateCheck
      <4>2. QED
        BY <1>7, <4>1 DEF CreateCheck, Working
    <3>2. CASE k # l
      BY <1>2, <1>7, <2>3, <3>2 DEF CreateCheck
    <3>3. QED
      BY <3>1, <3>2
  <2>4. QED
    BY <2>2, <2>3
<1>8. ASSUME NEW l \in Lambdas, CreatePut(l) PROVE Working(k)'
  <2>1. lam[l].at = "put" /\ lam[l].step = "createSecret" /\ lam[l].token = rot
    BY <1>8 DEF CreatePut, Known, Working, Idle
  <2>2. CASE value[rot] = None
    <3>1. /\ lam' = [lam EXCEPT ![l].at = "return"] /\ pend' = rot
          /\ UNCHANGED <<rot, passed, rds>>
      BY <1>8, <2>1, <2>2 DEF CreatePut
    <3>2. pend # rot
      BY <2>2 DEF Inv, Apart, Stored
    <3>3. CASE k = l
      <4>1. lam'[k].at = "return" /\ lam'[k].step = "createSecret" /\ lam'[k].token = rot
        BY <2>1, <3>1, <3>3
      <4>2. QED
        BY <3>1, <4>1 DEF Working
    <3>4. CASE k # l
      BY <3>1, <3>2, <3>4, Untouched
    <3>5. QED
      BY <3>3, <3>4
  <2>3. CASE value[rot] # None
    BY <1>6, <1>8, <2>1, <2>3 DEF CreatePut
  <2>4. QED
    BY <2>2, <2>3
<1>9. ASSUME NEW l \in Lambdas, SetRead(l) PROVE Working(k)'
  <2>1. /\ lam[l].at = "read" /\ lam[l].step = "setSecret"
        /\ lam[l].token = rot /\ pend = rot
    BY <1>9 DEF SetRead, Known, Working, Idle
  <2>2. CASE k = l
    <3>1. /\ lam'[l].at = "modify" /\ lam'[l].got = value[rot]
          /\ lam'[l].step = lam[l].step /\ lam'[l].token = rot
      BY <1>9, <2>1 DEF SetRead
    <3>2. QED
      BY <1>9, <2>1, <2>2, <3>1 DEF SetRead, Working
  <2>3. CASE k # l
    BY <1>2, <1>9, <2>3 DEF SetRead
  <2>4. QED
    BY <2>2, <2>3
<1>10. ASSUME NEW l \in Lambdas, SetModify(l) PROVE Working(k)'
  <2>1. /\ lam[l].at = "modify" /\ lam[l].step = "setSecret" /\ lam[l].token = rot
        /\ lam[l].got = value[rot] /\ pend = rot
    BY <1>10 DEF SetModify, Known, Working, Idle
  <2>2. CASE rds.phase = "modifying"
    BY <1>6, <1>10, <2>2 DEF SetModify
  <2>3. CASE rds.phase # "modifying"
    <3>1. /\ lam' = [lam EXCEPT ![l].at = "return"] /\ rds'.target = value[rot]
          /\ UNCHANGED <<value, pend, rot, passed>>
      BY <1>10, <2>1, <2>3 DEF SetModify, Inv, Basic, TypeOK
    <3>2. CASE k = l
      <4>1. lam'[k].at = "return" /\ lam'[k].step = "setSecret" /\ lam'[k].token = rot
        BY <2>1, <3>1, <3>2
      <4>2. QED
        BY <2>1, <3>1, <4>1 DEF Working
    <3>3. CASE k # l
      BY <3>1, <3>3, Untouched
    <3>4. QED
      BY <3>2, <3>3
  <2>4. QED
    BY <2>2, <2>3
<1>11. ASSUME NEW l \in Lambdas, TestPoll(l) PROVE Working(k)'
  BY <1>5, <1>11 DEF TestPoll, Known, Working, Steps, Idle
<1>12. ASSUME NEW l \in Lambdas, FinishDescribe(l) PROVE Working(k)'
  <2>1. lam[l].at = "describe" /\ lam[l].step = "finishSecret" /\ lam[l].token = rot
    BY <1>12 DEF FinishDescribe, Known, Working, Idle
  <2>2. PICK at \in {"return", "move"} :
          /\ lam' = [lam EXCEPT ![l] = [lam[l] EXCEPT !.at = at, !.saw = cur]]
          /\ at = "move" => cur # rot
    BY <1>12, <2>1 DEF FinishDescribe
  <2>3. CASE k = l
    <3>1. /\ lam'[l].at = at /\ lam'[l].saw = cur /\ lam'[l].step = lam[l].step
          /\ lam'[l].token = rot
      BY <2>1, <2>2
    <3>2. QED
      BY <1>12, <2>1, <2>2, <2>3, <3>1 DEF FinishDescribe, Working
  <2>4. CASE k # l
    BY <1>2, <1>12, <2>2, <2>4 DEF FinishDescribe
  <2>5. QED
    BY <2>3, <2>4
<1>13. ASSUME NEW l \in Lambdas, FinishMove(l) PROVE Working(k)'
  <2>1. lam[l].step \in Steps \ {"setSecret"} /\ lam[l].token = rot
    BY <1>13 DEF FinishMove, Known, Working, Steps, Idle
  <2>2. QED
    BY <1>5, <1>6, <1>13, <2>1 DEF FinishMove
<1>14. ASSUME NEW l \in Lambdas, Return(l) \/ Raise(l) PROVE Working(k)'
  <2>1. lam' = [lam EXCEPT ![l] = Idle] /\ UNCHANGED <<value, pend, rot, rds>>
    BY <1>14 DEF Return, Raise
  <2>2. passed[rot] \subseteq passed'[rot]
    BY <1>14 DEF Return, Raise
  <2>3. QED
    BY <1>6, <2>1, <2>2
<1>15. CASE SwitchRotation \/ UNCHANGED vars
  BY <1>2, <1>15 DEF SwitchRotation, vars
<1>16. QED
  BY <1>1, <1>3, <1>4, <1>7, <1>8, <1>9, <1>10, <1>11, <1>12, <1>13, <1>14,
     <1>15 DEF Next, Run

LEMMA StepInv == Inv /\ [Next]_vars => Inv'
<1> SUFFICES ASSUME Inv, [Next]_vars PROVE Inv'
  OBVIOUS
<1>1. Basic'
  BY StepBasic DEF Inv
<1>2. ASSUME ~overlap' PROVE Apart'
  <2>1. ~overlap
    BY <1>2, OverlapStays DEF Inv, Basic
  <2>2. QED
    BY <1>2, <2>1, StepStored, StepWorking, StepAsked DEF Apart
<1>3. QED
  BY <1>1, <1>2 DEF Inv

LEMMA Inductive == Spec => []Inv
BY InitInv, StepInv, PTL DEF Spec

-----------------------------------------------------------------------------
(* The theorems.                                                           *)

\* Every label, invocation and password keeps its type: no label leaves the
\* versions issued, and modify_db_instance is never handed the lack of a password
\* (rds_password_rotator.py:77-116 and 137-154).
THEOREM TypeCorrect == Spec => []TypeOK
<1>1. Inv => TypeOK
  BY DEF Inv, Basic
<1>2. QED
  BY <1>1, Inductive, PTL

\* Whatever is repeated, raises or dies between two calls, the password that
\* opens the database is under one of the three labels, for as long as every
\* rotation waits for the change and the calls of the one before it, which the
\* rotator does not see to (rds_password_rotator.py:77-116 and 137-154).
THEOREM NeverLockedOut == Spec => []DatabaseRecoverable
<1>1. Inv => DatabaseRecoverable
  BY DEF Inv, Apart, Asked, DatabaseRecoverable
<1>2. QED
  BY <1>1, Inductive, PTL

\* AWSCURRENT names a password the instance has or was asked for, or the next
\* rotation has asked for its own, under the same condition
\* (rds_password_rotator.py:137-154).
THEOREM CurrentIsReal == Spec => []CurrentWasRequested
<1>1. Inv => CurrentWasRequested
  BY DEF Inv, Apart, Asked, CurrentWasRequested
<1>2. QED
  BY <1>1, Inductive, PTL

-----------------------------------------------------------------------------
(* The refinement: what each step is to PasswordHandover.                  *)

\* A stored password is the one that its own rotation made.
Stamped == \A t \in Tokens : value[t] # None => value[t][1] = t

\* createSecret is the one that stores, under the rotation's own token.
LEMMA StepStamped == TypeOK /\ Stamped /\ [Next]_vars => Stamped'
<1> SUFFICES ASSUME TypeOK, Stamped, [Next]_vars PROVE Stamped'
  OBVIOUS
<1>1. ASSUME NEW l \in Lambdas, CreatePut(l) PROVE Stamped'
  <2>1. CASE value' = [value EXCEPT ![lam[l].token] = <<lam[l].token, l>>]
    BY <2>1 DEF TypeOK, Stamped
  <2>2. CASE UNCHANGED value
    BY <2>2 DEF Stamped
  <2>3. QED
    BY <1>1, <2>1, <2>2 DEF CreatePut
<1>2. CASE UNCHANGED value
  BY <1>2 DEF Stamped
<1>3. QED
  BY <1>1, <1>2 DEF Next, Run, StartRotation, SwitchRotation, RdsPickUp, RdsApply, Invoke,
     Raise, CreateCheck, SetRead, SetModify, TestPoll, FinishDescribe, FinishMove, Return,
     secret, vars

\* The passwords of different rotations can be told apart.
HandoverInv == Inv /\ Stamped

LEMMA HandoverInductive == Spec => []HandoverInv
<1>1. Init => HandoverInv
  <2>1. Init => Stamped
    BY PasswordTypes DEF Init, Stamped
  <2>2. QED
    BY <2>1, InitInv DEF HandoverInv
<1>2. HandoverInv /\ [Next]_vars => HandoverInv'
  BY StepInv, StepStamped DEF HandoverInv, Inv, Basic
<1>3. QED
  BY <1>1, <1>2, PTL DEF Spec

HandoverVars == <<rot, rds.target[1], rds.password[1], cur, ~overlap>>

\* A rotation that meets nothing of the last one starts when the instance has,
\* and AWSCURRENT names, what was asked.
LEMMA StartHandsOver ==
  ASSUME HandoverInv, StartRotation, ~overlap'
  PROVE  Abs!Issue
<1> USE DEF HandoverInv, Inv, Basic, Apart
<1>1. /\ ~overlap /\ pend = cur /\ rds.phase = "applied" /\ rot' = rot + 1
      /\ UNCHANGED <<cur, rds>>
  BY StartsSettled
<1>2. rds.password = value[cur] /\ rds.target = value[cur]
  BY <1>1 DEF Asked
<1>3. value[cur][1] = cur
  BY DEF Stamped, Labelled, TypeOK
<1>4. (~overlap)' = ~overlap
  BY <1>1
<1>5. QED
  BY <1>1, <1>2, <1>3, <1>4 DEF Abs!Issue

\* The instance is asked for the password of the rotation under way, however
\* late the call comes.
LEMMA ModifyHandsOver ==
  ASSUME HandoverInv, ~overlap, NEW l \in Lambdas, SetModify(l)
  PROVE  Abs!Ask \/ UNCHANGED HandoverVars
<1> USE DEF HandoverInv, Inv, Basic, Apart
<1>1. pend = rot /\ lam[l].got = value[rot]
  BY DEF SetModify, At, Working, Known
<1>2. value[rot][1] = rot
  BY <1>1 DEF Stamped, Labelled, TypeOK
<1>3. UNCHANGED <<cur, rot, overlap>>
  BY DEF SetModify, secret
<1>4. CASE rds' = [rds EXCEPT !.target = lam[l].got, !.phase = "queued"]
  <2>1. rds'.target = value[rot] /\ rds'.password = rds.password
    BY <1>1, <1>4 DEF TypeOK
  <2>2. QED
    BY <1>2, <1>3, <2>1 DEF Abs!Ask
<1>5. CASE UNCHANGED rds
  BY <1>3, <1>5 DEF HandoverVars
<1>6. QED
  BY <1>4, <1>5 DEF SetModify

\* AWSCURRENT moves to a password that the instance was asked for.
LEMMA MoveHandsOver ==
  ASSUME HandoverInv, ~overlap, NEW l \in Lambdas, FinishMove(l)
  PROVE  Abs!Name \/ UNCHANGED HandoverVars
<1> USE DEF HandoverInv, Inv, Basic, Apart
<1>1. /\ lam[l].token = rot /\ pend = rot /\ rds.target = value[rot]
      /\ UNCHANGED <<rot, rds, overlap>>
  BY DEF FinishMove, At, Working, Known, Asked, Idle
<1>2. CASE cur = lam[l].saw
  <2>1. value[rot][1] = rot
    BY <1>1 DEF Stamped, Labelled, TypeOK
  <2>2. cur' = rot
    BY <1>1, <1>2 DEF FinishMove
  <2>3. QED
    BY <1>1, <2>1, <2>2 DEF Abs!Name
<1>3. CASE cur # lam[l].saw
  BY <1>1, <1>3 DEF FinishMove, HandoverVars
<1>4. QED
  BY <1>2, <1>3

\* RDS applies what it was asked for.
LEMMA RdsHandsOver ==
  ASSUME HandoverInv, RdsPickUp \/ RdsApply
  PROVE  Abs!Apply \/ UNCHANGED HandoverVars
<1>1. UNCHANGED <<cur, rot, overlap>>
  BY DEF RdsPickUp, RdsApply, secret
<1>2. CASE RdsPickUp
  <2>1. rds'.target = rds.target /\ rds'.password = rds.password
    BY <1>2 DEF RdsPickUp, HandoverInv, Inv, Basic, TypeOK
  <2>2. QED
    BY <1>1, <2>1 DEF HandoverVars
<1>3. CASE RdsApply
  <2>1. rds'.target = rds.target /\ rds'.password = rds.target
    BY <1>3 DEF RdsApply, HandoverInv, Inv, Basic, TypeOK
  <2>2. QED
    BY <1>1, <2>1 DEF Abs!Apply
<1>4. QED
  BY <1>2, <1>3

\* The order is only ever lost where a rotation starts or a call is delivered.
LEMMA OverlapHandsOver ==
  ASSUME ~overlap, overlap', [Next]_vars
  PROVE  Abs!Overtake
<1>1. CASE StartRotation
  BY <1>1 DEF StartRotation, secret, Abs!Overtake
<1>2. ASSUME NEW l \in Lambdas, Invoke(l) PROVE Abs!Overtake
  BY <1>2 DEF Invoke, secret, Abs!Overtake
<1>3. ASSUME NEW l \in Lambdas, Run(l) \/ Raise(l) PROVE FALSE
  BY <1>3 DEF Run, CreateCheck, CreatePut, SetRead, SetModify, TestPoll, FinishDescribe,
     FinishMove, Return, Raise
<1>4. CASE SwitchRotation \/ RdsPickUp \/ RdsApply \/ UNCHANGED vars
  BY <1>4 DEF SwitchRotation, RdsPickUp, RdsApply, vars
<1>5. QED
  BY <1>1, <1>2, <1>3, <1>4 DEF Next

\* The rotator implements PasswordHandover: passwords are handed over one at a
\* time and in order, whatever is repeated, raises or dies within a rotation,
\* and the order is lost at no step but the start of a rotation that meets a
\* change or a call of the last one, or a call delivered after its rotation
\* (rds_password_rotator.py:77-116 and 137-154).
THEOREM PasswordsAreHandedOver == Spec => HandsOver
<1>1. Init => Abs!HandoverInit
  BY DEF Init, Abs!HandoverInit
<1>2. HandoverInv /\ [Next]_vars => [Abs!HandoverNext]_(Abs!handoverVars)
  <2> SUFFICES ASSUME HandoverInv, [Next]_vars
               PROVE  Abs!HandoverNext \/ UNCHANGED HandoverVars
    BY DEF Abs!handoverVars, HandoverVars
  <2>1. CASE overlap
    <3>1. overlap'
      BY <2>1, OverlapStays DEF HandoverInv, Inv, Basic
    <3>2. QED
      BY <2>1, <3>1 DEF Abs!HandoverNext
  <2>2. CASE ~overlap /\ overlap'
    BY <2>2, OverlapHandsOver DEF Abs!HandoverNext
  <2>3. CASE ~overlap /\ ~overlap'
    <3>1. CASE UNCHANGED <<cur, rot, rds>>
      BY <2>3, <3>1 DEF HandoverVars
    <3>2. ASSUME NEW l \in Lambdas,
                 \/ Invoke(l) \/ CreateCheck(l) \/ CreatePut(l) \/ SetRead(l)
                 \/ TestPoll(l) \/ FinishDescribe(l) \/ Return(l) \/ Raise(l)
          PROVE  UNCHANGED <<cur, rot, rds>>
      BY <3>2 DEF Invoke, CreateCheck, CreatePut, SetRead, TestPoll, FinishDescribe,
         Return, Raise, secret
    <3>3. CASE SwitchRotation \/ UNCHANGED vars
      BY <3>1, <3>3 DEF SwitchRotation, vars
    <3>4. QED
      BY <2>3, <3>1, <3>2, <3>3, StartHandsOver, ModifyHandsOver, MoveHandsOver, RdsHandsOver
         DEF Next, Run, Abs!HandoverNext
  <2>4. QED
    BY <2>1, <2>2, <2>3
<1>3. QED
  BY <1>1, <1>2, HandoverInductive, PTL DEF Spec, HandsOver, Abs!HandoverSpec

(***************************************************************************)
(* PART 2.  The server that is handed what was rotated.                    *)
(***************************************************************************)

\* The histories name rotations that have started.
Past ==
  /\ asOf # None => asOf <= rot
  /\ synced # None => synced <= rot

\* The last rotation is over, and the instance has its password.
Over == cur = rot /\ pend = rot /\ rds.password = value[rot]

\* What a deploy that fetched after the rotation carries to the env file, and
\* what the env file and the server have once one went through.
Carried ==
  /\ asOf = rot \/ synced = rot => Over
  /\ host \in {"write", "append"} /\ (asOf = rot \/ synced = rot) => fetched = value[rot]
  /\ host \in {"migrate", "restart"} /\ asOf = rot => env = value[rot]
  /\ host = "append" => env = None
  /\ synced = rot => /\ env = value[rot] \/ host = "append"
                     /\ conn \in {value[rot], None}

SyncInv == Inv /\ SyncTypeOK /\ Past /\ (~overlap => Carried)

\* The seeded password is in the env file and the server runs with it.
LEMMA InitSync == SyncInit => SyncInv
<1> SUFFICES ASSUME SyncInit PROVE SyncInv
  OBVIOUS
<1>1. Inv
  BY InitInv DEF SyncInit
<1>2. value[0] \in Passwords
  BY PasswordTypes DEF SyncInit, Init
<1>3. SyncTypeOK /\ Past
  BY <1>2, PasswordTypes, RotationAssumption DEF SyncInit, Init, SyncTypeOK, Past
<1>4. Carried
  BY <1>2, PasswordTypes, PasswordAssumption DEF SyncInit, Init, Carried, Over
<1>5. QED
  BY <1>1, <1>3, <1>4 DEF SyncInv

-----------------------------------------------------------------------------
(* Steps of the rotation.                                                  *)

\* Until the next rotation starts, no repeated step, late answer or failure
\* takes the password away again: what the instance was asked for is in force.
LEMMA OverStays ==
  ASSUME Inv, Over, [Next]_vars, rot' = rot, ~overlap
  PROVE  Over' /\ value'[rot] = value[rot]
<1> USE DEF Over, Basic, Apart
<1>0. value[rot] # None
  BY DEF Inv, Labelled
<1>1. rds.target = value[rot]
  BY DEF Inv, Asked
<1>2. CASE StartRotation
  BY <1>2 DEF StartRotation, Inv, TypeOK, Tokens
<1>3. ASSUME NEW l \in Lambdas, Invoke(l) \/ Run(l) \/ Raise(l)
      PROVE  UNCHANGED <<value, cur, pend, rds.password>>
  <2>1. CASE SetModify(l)
    BY <1>3, <2>1 DEF SetModify, secret, Inv, TypeOK
  <2>2. CASE CreatePut(l)
    <3>1. lam[l].token = rot
      BY <2>2 DEF CreatePut, At, Inv, Working, Idle
    <3>2. QED
      BY <1>0, <2>2, <3>1 DEF CreatePut
  <2>3. CASE FinishMove(l)
    <3>1. lam[l].token = rot
      BY <2>3 DEF FinishMove, At, Inv, Working, Idle
    <3>2. QED
      BY <2>3, <3>1 DEF FinishMove
  <2>4. QED
    BY <1>3, <2>1, <2>2, <2>3
       DEF Invoke, Run, CreateCheck, SetRead, TestPoll, FinishDescribe, Return,
           Raise, secret
<1>4. CASE RdsPickUp
  BY <1>4 DEF RdsPickUp, secret, Inv, TypeOK
<1>5. CASE RdsApply
  BY <1>1, <1>5 DEF RdsApply, secret, Inv, TypeOK
<1>6. CASE SwitchRotation \/ UNCHANGED vars
  BY <1>6 DEF SwitchRotation, vars
<1>7. QED
  BY <1>2, <1>3, <1>4, <1>5, <1>6 DEF Next

\* A new rotation makes every history an old one; otherwise what was over stays.
LEMMA RotationSteps ==
  ASSUME SyncInv, [Next]_vars, UNCHANGED hostVars
  PROVE  SyncInv'
<1>1. Inv'
  BY StepInv DEF SyncInv
<1>2. SyncTypeOK'
  BY DEF SyncInv, SyncTypeOK, hostVars
<1>3. rot \in Nat /\ (rot' = rot \/ rot' = rot + 1)
  BY RotGrows DEF SyncInv, Inv, Basic, TypeOK, Tokens
<1>4. None \notin Tokens /\ rot' \in Tokens
  BY <1>1, PasswordAssumption DEF Inv, Basic, TypeOK
<1>5. Past'
  BY <1>3, <1>4 DEF SyncInv, Past, SyncTypeOK, hostVars, Tokens
<1>6. CASE rot' = rot + 1
  <2>1. asOf # rot' /\ synced # rot'
    BY <1>3, <1>4, <1>6 DEF SyncInv, Past, SyncTypeOK, Tokens
  <2>2. overlap => overlap'
    BY OverlapStays DEF SyncInv, Inv, Basic
  <2>3. QED
    BY <1>1, <1>2, <1>5, <2>1, <2>2 DEF SyncInv, Carried, hostVars
<1>7. CASE rot' = rot /\ overlap'
  BY <1>1, <1>2, <1>5, <1>7 DEF SyncInv
<1>8. CASE rot' = rot /\ ~overlap'
  <2>0. ~overlap
    BY <1>8, OverlapStays DEF SyncInv, Inv, Basic
  <2>1. CASE asOf = rot \/ synced = rot
    <3>1. Over' /\ value'[rot'] = value[rot]
      BY <1>8, <2>0, <2>1, OverStays DEF SyncInv, Carried
    <3>2. QED
      BY <1>1, <1>2, <1>5, <1>8, <2>0, <3>1 DEF SyncInv, Carried, hostVars
  <2>2. CASE asOf # rot /\ synced # rot
    BY <1>1, <1>2, <1>5, <1>8, <2>0, <2>2 DEF SyncInv, Carried, hostVars
  <2>3. QED
    BY <2>1, <2>2
<1>9. QED
  BY <1>3, <1>6, <1>7, <1>8

-----------------------------------------------------------------------------
(* Steps of the host.                                                      *)

\* AWSCURRENT is what is fetched, and it always has a value.
LEMMA FetchTyped == Inv => value[cur] \in Passwords /\ rot \in Tokens
BY DEF Inv, Basic, TypeOK, Labelled

LEMMA HostTypes == SyncInv /\ HostNext /\ UNCHANGED vars => SyncTypeOK' /\ Past'
<1> SUFFICES ASSUME SyncInv, HostNext, UNCHANGED vars PROVE SyncTypeOK' /\ Past'
  OBVIOUS
<1>1. value[cur] \in Passwords /\ rot \in Tokens /\ rot \in Nat
  BY FetchTyped DEF SyncInv, Tokens
<1> USE <1>1, PasswordTypes DEF SyncInv, SyncTypeOK, Past, vars
<1>2. CASE DeployAll \/ DeployServer \/ MigrateConnects
  BY <1>2 DEF DeployAll, DeployServer, MigrateConnects
<1>3. CASE InjectFetch
  BY <1>3 DEF InjectFetch, Settled
<1>4. CASE InjectDelete \/ InjectAppend
  BY <1>4 DEF InjectDelete, InjectAppend
<1>5. CASE RestartServer
  BY <1>5 DEF RestartServer
<1>6. CASE DeployFails \/ Reboot \/ Respawn
  BY <1>6 DEF DeployFails, Reboot, Respawn, Forget
<1>7. QED
  BY <1>2, <1>3, <1>4, <1>5, <1>6 DEF HostNext

\* A deploy that fetches once the rotation is settled fetches its password.
LEMMA SettledIsOver == Inv /\ ~overlap /\ Settled => Over
BY DEF Inv, Apart, Asked, Settled, Over

LEMMA HostCarries == SyncInv /\ ~overlap /\ HostNext /\ UNCHANGED vars => Carried'
<1> SUFFICES ASSUME SyncInv, ~overlap, HostNext, UNCHANGED vars PROVE Carried'
  OBVIOUS
<1>1. rot # None
  BY FetchTyped, PasswordAssumption DEF SyncInv
<1> USE <1>1 DEF SyncInv, Carried, Over, vars
<1>2. CASE DeployAll \/ DeployServer \/ MigrateConnects
  BY <1>2 DEF DeployAll, DeployServer, MigrateConnects
<1>3. CASE InjectFetch
  <2>1. CASE Settled
    BY <1>3, <2>1, SettledIsOver DEF InjectFetch
  <2>2. CASE ~Settled
    BY <1>3, <2>2 DEF InjectFetch
  <2>3. QED
    BY <2>1, <2>2
<1>4. CASE InjectDelete
  BY <1>4 DEF InjectDelete
<1>5. CASE InjectAppend
  BY <1>5 DEF InjectAppend
<1>6. CASE RestartServer
  <2>1. CASE asOf = None
    BY <1>6, <2>1 DEF RestartServer
  <2>2. CASE asOf # None
    BY <1>6, <2>2 DEF RestartServer
  <2>3. QED
    BY <2>1, <2>2
<1>7. CASE DeployFails \/ Reboot \/ Respawn
  BY <1>7 DEF DeployFails, Reboot, Respawn, Forget
<1>8. QED
  BY <1>2, <1>3, <1>4, <1>5, <1>6, <1>7 DEF HostNext

LEMMA StepSync == SyncInv /\ [SyncNext]_allVars => SyncInv'
<1> SUFFICES ASSUME SyncInv, [SyncNext]_allVars PROVE SyncInv'
  OBVIOUS
<1>1. CASE Next /\ UNCHANGED hostVars
  BY <1>1, RotationSteps
<1>2. CASE HostNext /\ UNCHANGED vars
  <2>1. Inv'
    BY <1>2, StepInv DEF SyncInv
  <2>2. overlap' = overlap
    BY <1>2 DEF vars
  <2>3. QED
    BY <1>2, <2>1, <2>2, HostTypes, HostCarries DEF SyncInv
<1>3. CASE UNCHANGED allVars
  BY <1>3, RotationSteps DEF allVars
<1>4. QED
  BY <1>1, <1>2, <1>3 DEF SyncNext

LEMMA SyncInductive == SyncSpec => []SyncInv
BY InitSync, StepSync, PTL DEF SyncSpec

\* The env file, the server and the histories keep their types, and what is
\* appended to the env file was fetched (ec2-pull-and-restart.sh).
THEOREM SyncTypeCorrect == SyncSpec => []SyncTypeOK
<1>1. SyncInv => SyncTypeOK
  BY DEF SyncInv
<1>2. QED
  BY <1>1, SyncInductive, PTL

\* One deploy of `all` after a rotation keeps the env file and the server in step
\* with the database until the next rotation starts, whatever steps are repeated,
\* deploys fail or hosts reboot, save for a deploy that dies between sed and
\* printf, and as long as rotations are kept apart
\* (rds_password_rotator.py:23-24, inject_database_url).
THEOREM DeployedOnce == SyncSpec => []OneDeployIsEnough
<1>1. SyncInv => OneDeployIsEnough
  BY DEF SyncInv, Carried, Over, OneDeployIsEnough
<1>2. QED
  BY <1>1, SyncInductive, PTL
================================================================================
