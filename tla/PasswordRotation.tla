-------------------------- MODULE PasswordRotation --------------------------
(***************************************************************************)
(* terraform/lambda/rds_password_rotator.py: the four rotation steps of    *)
(* the master password, run by Lambda invocations that may be repeated,    *)
(* overlap, or die between two API calls, against a secret whose versions  *)
(* carry staging labels and an RDS instance that changes its password      *)
(* asynchronously.  Tokens are numbered in the order they are issued;      *)
(* token 0 is the version that the seeding script stored.                  *)
(***************************************************************************)
EXTENDS Naturals

CONSTANTS
  Lambdas,       \* concurrent invocations of the rotator
  MaxRotations,  \* bound on the rotations that are started
  MaxFailures,   \* bound on the invocations that raise or die on their own
  None

ASSUME RotationAssumption == MaxRotations \in Nat /\ MaxFailures \in Nat

Tokens    == 0..MaxRotations
Steps     == {"createSecret", "setSecret", "testSecret", "finishSecret"}
Passwords == Tokens \X (Lambdas \union {None})

ASSUME PasswordAssumption == None \notin Passwords \union Tokens \union Lambdas

VARIABLES
  value,     \* value[t]: the password stored under version t
  cur,       \* the version labelled AWSCURRENT
  prev,      \* the version labelled AWSPREVIOUS
  pend,      \* the version labelled AWSPENDING
  enabled,   \* RotationEnabled
  rds,       \* the instance: its password, the one requested, and its phase
  rot,       \* the token of the last rotation started
  passed,    \* passed[t]: the steps that returned without raising for token t
  lam,       \* lam[l]: what invocation l is doing, and for which token
  failures,
  overlap    \* a rotation met a change or a call of an earlier one (history)

secret == <<value, cur, prev, pend, enabled>>
vars   == <<value, cur, prev, pend, enabled, rds, rot, passed, lam, failures, overlap>>

Idle      == [step |-> "none", token |-> 0, at |-> "idle", got |-> None, saw |-> 0]
Positions == {"idle", "check", "put", "read", "modify", "poll",
              "describe", "move", "return"}

Init ==
  /\ value = [t \in Tokens |-> IF t = 0 THEN <<0, None>> ELSE None]
  /\ cur = 0 /\ prev = 0 /\ pend = 0
  /\ enabled = TRUE
  /\ rds = [password |-> <<0, None>>, target |-> <<0, None>>, phase |-> "applied"]
  /\ rot = 0
  /\ passed = [t \in Tokens |-> IF t = 0 THEN Steps ELSE {}]
  /\ lam = [l \in Lambdas |-> Idle]
  /\ failures = 0
  /\ overlap = FALSE

-----------------------------------------------------------------------------
(* Secrets Manager.  A rotation starts on schedule or when someone calls   *)
(* rotate-secret, and is refused only while AWSPENDING stands on a version *)
(* that is not AWSCURRENT.  Nothing keeps it from starting while RDS still *)
(* has the last change queued or a call for the last token is running.     *)

StartRotation ==
  /\ rot < MaxRotations
  /\ enabled
  /\ pend = cur
  /\ rot' = rot + 1
  /\ overlap' = (overlap \/ rds.phase # "applied" \/ \E l \in Lambdas : lam[l] # Idle)
  /\ UNCHANGED <<secret, rds, passed, lam, failures>>

Before(step) ==
  CASE step = "createSecret" -> {}
    [] step = "setSecret"    -> {"createSecret"}
    [] step = "testSecret"   -> {"createSecret", "setSecret"}
    [] OTHER                 -> Steps \ {"finishSecret"}
First(step) ==
  CASE step = "createSecret" -> "check"
    [] step = "setSecret"    -> "read"
    [] step = "testSecret"   -> "poll"
    [] OTHER                 -> "describe"

At(l, position) == lam[l].at = position
Move(l, position) == lam' = [lam EXCEPT ![l].at = position]
Stop(l) == lam' = [lam EXCEPT ![l] = Idle]

\* Steps of the last rotation come in order, each perhaps more than once; what
\* an earlier one was through with may be delivered once more.
Called(t, step) ==
  IF t = rot THEN Before(step) \subseteq passed[t] ELSE step \in passed[t]

\* lambda_handler refuses when rotation is off or, after createSecret, when no
\* label is on the token; it does not ask which label.
Invoke(l) ==
  /\ lam[l] = Idle
  /\ enabled
  /\ \E t \in 1..rot, step \in Steps :
       /\ Called(t, step)
       /\ step # "createSecret" => t \in {cur, prev, pend}
       /\ lam' = [lam EXCEPT ![l] = [Idle EXCEPT !.step = step, !.token = t,
                                                !.at = First(step)]]
       /\ overlap' = (overlap \/ t # rot)
  /\ UNCHANGED <<secret, rds, rot, passed, failures>>

\* The step returns and Secrets Manager learns of it.
Return(l) ==
  /\ At(l, "return")
  /\ passed' = [passed EXCEPT ![lam[l].token] = @ \union {lam[l].step}]
  /\ Stop(l)
  /\ UNCHANGED <<secret, rds, rot, failures, overlap>>

\* An API error, the 240 s deadline of testSecret, or the Lambda's timeout.
Raise(l) ==
  /\ lam[l] # Idle
  /\ failures < MaxFailures
  /\ failures' = failures + 1
  /\ Stop(l)
  /\ UNCHANGED <<secret, rds, rot, passed, overlap>>

SwitchRotation ==
  /\ enabled' = ~enabled
  /\ UNCHANGED <<value, cur, prev, pend, rds, rot, passed, lam, failures, overlap>>

-----------------------------------------------------------------------------
(* create_secret                                                           *)

\* Fault: a retry does not look for the AWSPENDING that is already there.
FaultCreateCheck(l) ==
  /\ At(l, "check")
  /\ Move(l, "put")
  /\ UNCHANGED <<secret, rds, rot, passed, failures, overlap>>

CreateCheck(l) ==
  /\ At(l, "check")
  /\ Move(l, IF pend = lam[l].token THEN "return" ELSE "put")
  /\ UNCHANGED <<secret, rds, rot, passed, failures, overlap>>

\* A password of l's own; the same token with another value is an error.
CreatePut(l) ==
  /\ At(l, "put")
  /\ LET t == lam[l].token IN
     IF value[t] = None
     THEN /\ value' = [value EXCEPT ![t] = <<t, l>>]
          /\ pend' = t
          /\ Move(l, "return")
     ELSE /\ Stop(l)
          /\ UNCHANGED <<value, pend>>
  /\ UNCHANGED <<cur, prev, enabled, rds, rot, passed, failures, overlap>>

(* set_secret                                                              *)

\* Fault: the stage to read is AWSCURRENT.
FaultSetRead(l) ==
  /\ At(l, "read")
  /\ lam' = [lam EXCEPT ![l] = [lam[l] EXCEPT !.at = "modify", !.got = value[cur]]]
  /\ UNCHANGED <<secret, rds, rot, passed, failures, overlap>>

\* The version asked for must still be the one labelled AWSPENDING.
SetRead(l) ==
  /\ At(l, "read")
  /\ IF pend = lam[l].token
     THEN lam' = [lam EXCEPT ![l] = [lam[l] EXCEPT !.at = "modify", !.got = value[pend]]]
     ELSE Stop(l)
  /\ UNCHANGED <<secret, rds, rot, passed, failures, overlap>>

\* Fault: the password is generated anew instead of taken from the secret.
FaultSetModify(l) ==
  /\ At(l, "modify")
  /\ rds.phase # "modifying"
  /\ rds' = [rds EXCEPT !.target = <<lam[l].token, l>>, !.phase = "queued"]
  /\ Move(l, "return")
  /\ UNCHANGED <<secret, rot, passed, failures, overlap>>

\* modify_db_instance queues the change; one being applied is an error.
SetModify(l) ==
  /\ At(l, "modify")
  /\ IF rds.phase = "modifying"
     THEN Stop(l) /\ UNCHANGED rds
     ELSE /\ rds' = [rds EXCEPT !.target = lam[l].got, !.phase = "queued"]
          /\ Move(l, "return")
  /\ UNCHANGED <<secret, rot, passed, failures, overlap>>

(* test_secret: the instance is asked for its status and nothing else.     *)

Available == rds.phase # "modifying"

TestPoll(l) ==
  /\ At(l, "poll")
  /\ Available
  /\ Move(l, "return")
  /\ UNCHANGED <<secret, rds, rot, passed, failures, overlap>>

(* finish_secret                                                           *)

\* Fault: the loop over the versions leaves current_version at None.
FaultFinishDescribe(l) ==
  /\ At(l, "describe")
  /\ lam' = [lam EXCEPT ![l] = [lam[l] EXCEPT !.at = "move", !.saw = None]]
  /\ UNCHANGED <<secret, rds, rot, passed, failures, overlap>>

FinishDescribe(l) ==
  /\ At(l, "describe")
  /\ LET next == IF cur = lam[l].token THEN "return" ELSE "move"
     IN  lam' = [lam EXCEPT ![l] = [lam[l] EXCEPT !.at = next, !.saw = cur]]
  /\ UNCHANGED <<secret, rds, rot, passed, failures, overlap>>

\* The label is taken from the version described, or the call is an error.
FinishMove(l) ==
  /\ At(l, "move")
  /\ IF cur = lam[l].saw
     THEN /\ cur' = lam[l].token
          /\ prev' = cur
          /\ Move(l, "return")
     ELSE /\ Stop(l)
          /\ UNCHANGED <<cur, prev>>
  /\ UNCHANGED <<value, pend, enabled, rds, rot, passed, failures, overlap>>

-----------------------------------------------------------------------------
(* RDS: a queued change is picked up, and applied, some time later.  Until *)
(* it is picked up the instance still reports "available".                 *)

RdsPickUp ==
  /\ rds.phase = "queued"
  /\ rds' = [rds EXCEPT !.phase = "modifying"]
  /\ UNCHANGED <<secret, rot, passed, lam, failures, overlap>>

RdsApply ==
  /\ rds.phase = "modifying"
  /\ rds' = [rds EXCEPT !.password = rds.target, !.phase = "applied"]
  /\ UNCHANGED <<secret, rot, passed, lam, failures, overlap>>

Run(l) ==
  \/ CreateCheck(l) \/ CreatePut(l) \/ SetRead(l) \/ SetModify(l)
  \/ TestPoll(l) \/ FinishDescribe(l) \/ FinishMove(l) \/ Return(l)
Next ==
  \/ StartRotation \/ SwitchRotation \/ RdsPickUp \/ RdsApply
  \/ \E l \in Lambdas : Invoke(l) \/ Run(l) \/ Raise(l)
Spec == Init /\ [][Next]_vars

\* Secrets Manager invokes the first step that has not passed.
InvokeNext(l) ==
  /\ Invoke(l)
  /\ lam'[l].token = rot
  /\ lam'[l].step \notin passed[rot]

(***************************************************************************)
(* Fairness: Lambda runs what it was given, RDS gets to a queued change,   *)
(* and Secrets Manager retries the step that has not passed.  No rotation  *)
(* need ever start, nothing need fail, and the switch is the operator's.   *)
(***************************************************************************)
FairSpec ==
  /\ Spec
  /\ WF_vars(RdsPickUp) /\ WF_vars(RdsApply)
  /\ \A l \in Lambdas : WF_vars(Run(l)) /\ SF_vars(InvokeNext(l))

-----------------------------------------------------------------------------
(* Properties.                                                             *)

\* Type invariant of the rotator, the secret and the instance.
TypeOK ==
  /\ value \in [Tokens -> Passwords \union {None}]
  /\ {cur, prev, pend, rot} \subseteq Tokens
  /\ enabled \in BOOLEAN /\ overlap \in BOOLEAN
  /\ rds \in [password: Passwords, target: Passwords,
              phase: {"applied", "queued", "modifying"}]
  /\ passed \in [Tokens -> SUBSET Steps]
  /\ lam \in [Lambdas -> [step: Steps \union {"none"}, token: Tokens, at: Positions,
                          got: Passwords \union {None}, saw: Tokens]]
  /\ failures \in 0..MaxFailures

\* The password that opens the database now is stored under one of the secret's
\* three labels, whatever is repeated, raises or dies within a rotation.  It is
\* a promise to an operator who waits: after a rotate-secret given while RDS
\* still has the last change queued, or a step of an earlier token that runs
\* late, the password in force may carry no label any more.
DatabaseRecoverable ==
  ~overlap => rds.password \in {value[cur], value[prev], value[pend]}

\* AWSCURRENT (line 148) only ever names a password that the instance has
\* or was asked for, unless a later rotation already asked for its own.  No
\* rotation may have met a change or a call of an earlier one.
CurrentWasRequested ==
  ~overlap => \/ value[cur] \in {rds.password, rds.target}
              \/ pend # cur /\ rds.target = value[pend]

Abs == INSTANCE PasswordHandover WITH
  issued <- rot, asked <- rds.target[1], inForce <- rds.password[1], named <- cur,
  orderly <- ~overlap

\* The rotator implements PasswordHandover: whatever steps of one rotation are
\* repeated, overlap or die, passwords are handed over in order and none comes
\* back; the order is lost at the first rotation that starts before the change
\* and the calls of the last are through, or the first late call, not before.
HandsOver == Abs!HandoverSpec

\* Lines 114-115: the wait loop of testSecret covers the minutes RDS takes,
\* so a finished rotation means that the new password is in force.
FinishMeansApplied == [][cur' # cur => rds.password = value[cur']]_vars

\* A rotation that has stored its password is carried through, however often
\* its steps are retried or repeated (lines 78-82), as long as rotation is not
\* switched off for good: the password becomes AWSCURRENT and the database's,
\* unless a rotation met a change or a call of an earlier one.
RotationCompletes ==
  []<>enabled =>
    \A t \in Tokens :
      (pend = t) ~> ((cur = t /\ rds.password = value[t]) \/ overlap)
=============================================================================
