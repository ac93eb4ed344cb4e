------------------------------ MODULE QuotaLift ------------------------------
(***************************************************************************)
(* terraform/lambda/gcp_quotas_auto_lift.py: a weekly Lambda that reads    *)
(* the effective limit of a Gemini quota and asks Google for a multiple of *)
(* it, cut at a ceiling.  A request waits for days for a review, so the    *)
(* limit may change between the reading and the decision.  What the        *)
(* handler reports, its metrics and its reply, is left out: it is published*)
(* by best effort and nothing in the repository reads it.                  *)
(***************************************************************************)
EXTENDS Integers

CONSTANTS
  Lambdas,      \* invocations that may overlap: the cron's and its retries
  Multipliers,  \* QUOTA_MULTIPLIER as a fraction <<num, den>>
  Ceiling,      \* QUOTA_HARD_CEILING
  Limits,       \* what the operator may set the quota to
  MaxChanges,   \* bound on the operator's changes
  MaxTrouble    \* bound on the failures and the rejections

ASSUME QuotaAssumption ==
  /\ Ceiling \in Nat \ {0} /\ Limits \subseteq Nat \ {0}
  /\ \A m \in Multipliers : m[1] \in Nat /\ m[2] \in Nat \ {0}
  /\ MaxChanges \in Nat /\ MaxTrouble \in Nat

VARIABLES
  multiplier,
  parses,   \* float() and int() take the two settings: a fractional ceiling fails
  limit,    \* the effective limit at Google
  pending,  \* preferences under review: the value, and the baseline it came from
  lam,      \* lam[l]: what invocation l is doing
  changes,  \* the operator's changes
  trouble   \* failures and rejections

quotaVars == <<multiplier, parses, limit, pending, lam, changes, trouble>>

Idle == [at |-> "idle", baseline |-> 0, requested |-> 0]

QuotaInit ==
  /\ multiplier \in Multipliers /\ parses \in BOOLEAN
  /\ limit \in Limits
  /\ pending = {}
  /\ lam = [l \in Lambdas |-> Idle]
  /\ changes = 0 /\ trouble = 0

\* Fault: the ceiling is forgotten.
FaultRequested(baseline) == (baseline * multiplier[1]) \div multiplier[2]

\* Fault: a multiple above the ceiling is not asked for at all.
FaultCutRequested(baseline) ==
  LET times == (baseline * multiplier[1]) \div multiplier[2]
  IN  IF times <= Ceiling THEN times ELSE baseline

\* min(int(baseline * multiplier), hard_ceiling)
Requested(baseline) ==
  LET times == (baseline * multiplier[1]) \div multiplier[2]
  IN  IF times < Ceiling THEN times ELSE Ceiling

settings == <<multiplier, parses>>
Ends(l)  == lam' = [lam EXCEPT ![l] = Idle]

Cron(l) ==
  /\ lam[l] = Idle
  /\ lam' = [lam EXCEPT ![l].at = "read"]
  /\ UNCHANGED <<settings, limit, pending, changes, trouble>>

\* Reading the quota decides: nothing to ask for, or a request to send.
Read(l) ==
  /\ lam[l].at = "read" /\ parses
  /\ IF Requested(limit) <= limit
     THEN Ends(l)
     ELSE lam' = [lam EXCEPT ![l] = [at |-> "post", baseline |-> limit,
                                     requested |-> Requested(limit)]]
  /\ UNCHANGED <<settings, limit, pending, changes, trouble>>

Asked(l) == [value |-> lam[l].requested, baseline |-> lam[l].baseline]

Send(l)  == IF \E p \in pending : p.value = lam[l].requested
            THEN pending                        \* 409: already pending
            ELSE pending \union {Asked(l)}

Post(l) ==
  /\ lam[l].at = "post"
  /\ pending' = Send(l)
  /\ Ends(l)
  /\ UNCHANGED <<settings, limit, changes, trouble>>

\* The conversions raise outside the try: the handler leaves before it reads.
BadSettings(l) ==
  /\ lam[l].at = "read" /\ ~parses
  /\ Ends(l)
  /\ UNCHANGED <<settings, limit, pending, changes, trouble>>

\* Imports or settings missing, no positive number in the first dimension, an
\* exception of the secret or the GET, or out of time: nothing was asked for.
GiveUp(l) ==
  /\ lam[l].at = "read" /\ trouble < MaxTrouble
  /\ trouble' = trouble + 1
  /\ Ends(l)
  /\ UNCHANGED <<settings, limit, pending, changes>>

\* The POST raises or runs out of time, before Google has it or after.
LoseReply(l) ==
  /\ lam[l].at = "post" /\ trouble < MaxTrouble
  /\ trouble' = trouble + 1
  /\ pending' \in {pending, Send(l)}
  /\ Ends(l)
  /\ UNCHANGED <<settings, limit, changes>>

-----------------------------------------------------------------------------
(* Google and the operator.                                                *)

Approve ==
  /\ \E p \in pending : limit' = p.value /\ pending' = pending \ {p}
  /\ UNCHANGED <<settings, lam, changes, trouble>>
Reject ==
  /\ trouble < MaxTrouble
  /\ trouble' = trouble + 1
  /\ \E p \in pending : pending' = pending \ {p}
  /\ UNCHANGED <<settings, limit, lam, changes>>
Operator ==
  /\ changes < MaxChanges
  /\ changes' = changes + 1
  /\ limit' \in Limits
  /\ UNCHANGED <<settings, pending, lam, trouble>>

Lift(l) == Cron(l) \/ Read(l) \/ Post(l) \/ BadSettings(l)
QuotaNext ==
  \/ \E l \in Lambdas : Lift(l) \/ GiveUp(l) \/ LoseReply(l)
  \/ Approve \/ Reject \/ Operator
QuotaSpec ==
  /\ QuotaInit /\ [][QuotaNext]_quotaVars
  /\ WF_quotaVars(Approve)
  /\ \A l \in Lambdas : WF_quotaVars(Lift(l))

-----------------------------------------------------------------------------
\* Nothing the Lambda asks for is above the ceiling or a lowering of what it
\* read, however invocations overlap with reviews and the operator, so an
\* approval passes the ceiling never and lowers the limit only when the limit
\* was changed after the reading.
RequestsAreRaises ==
  /\ \A p \in pending : p.value <= Ceiling /\ p.value > p.baseline
  /\ limit > Ceiling => limit \in Limits

\* If Google grants what it is asked, the limit ends at the ceiling or above,
\* in spite of failures, rejections, changes by the operator and approvals of
\* requests that were made for an older limit.  The settings must convert, or
\* no invocation ever asks, and the multiplier must be at least 2: int(1 * 1.5)
\* is 1, and a limit of 1 would never be raised.
LimitIsLifted ==
  parses /\ multiplier[1] >= 2 * multiplier[2] => <>[](limit >= Ceiling)
=============================================================================
