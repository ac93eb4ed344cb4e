--------------------------- MODULE QuotaLift_proofs ---------------------------
(***************************************************************************)
(* What the quota Lambda guarantees for any number of invocations, any     *)
(* ceiling, multiplier, operator and review.                               *)
(***************************************************************************)
EXTENDS QuotaLift, TLAPS

Preferences == [value : Int, baseline : Nat]
Typed ==
  /\ multiplier \in Multipliers
  /\ limit \in Nat
  /\ pending \subseteq Preferences
  /\ lam \in [Lambdas -> [at : {"idle", "read", "post"},
                          baseline : Nat, requested : Int]]

\* What an invocation is about to send raises what it read, below the ceiling.
Bounded(asked) == asked.value <= Ceiling /\ asked.value > asked.baseline
Sending ==
  /\ \A l \in Lambdas : lam[l].at = "post" => Bounded(Asked(l))
  /\ \A p \in pending : Bounded(p)
Inv == Typed /\ Sending /\ (limit > Ceiling => limit \in Limits)

\* min(int(baseline * multiplier), ceiling) is a whole number within the ceiling.
LEMMA RequestedWithin ==
  ASSUME Typed, NEW baseline \in Nat
  PROVE  Requested(baseline) \in Int /\ Requested(baseline) <= Ceiling
<1> DEFINE times == (baseline * multiplier[1]) \div multiplier[2]
<1>1. multiplier[1] \in Nat /\ multiplier[2] \in Nat \ {0}
  BY QuotaAssumption DEF Typed
<1>2. times \in Int
  <2>1. baseline * multiplier[1] \in Nat
    BY <1>1
  <2>2. \A n \in Nat, m \in Nat \ {0} : n \div m \in Int
    OBVIOUS
  <2>3. QED
    BY <1>1, <2>1, <2>2
<1>3. QED
  BY <1>2, QuotaAssumption DEF Requested

\* An invocation that is sending leaves bounded preferences, whichever way it ends.
LEMMA SendBounded ==
  ASSUME Typed, Sending, NEW l \in Lambdas, lam[l].at = "post"
  PROVE  /\ Send(l) \subseteq Preferences
         /\ \A p \in Send(l) : Bounded(p)
<1>1. Asked(l) \in Preferences /\ Bounded(Asked(l))
  BY DEF Typed, Sending, Asked, Preferences
<1>2. QED
  BY <1>1 DEF Send, Typed, Sending

\* Nothing is pending at first.
LEMMA InitInv == QuotaInit => Inv
<1> SUFFICES ASSUME QuotaInit PROVE Inv
  OBVIOUS
<1>1. limit \in Limits /\ limit \in Nat
  BY QuotaAssumption DEF QuotaInit
<1>2. Typed
  BY <1>1 DEF QuotaInit, Typed, Idle, Preferences
<1>3. Sending
  BY DEF QuotaInit, Sending, Idle
<1>4. QED
  BY <1>1, <1>2, <1>3 DEF Inv

\* A reading that does not raise ends; a review grants what was bounded.
LEMMA StepInv == Inv /\ [QuotaNext]_quotaVars => Inv'
<1> SUFFICES ASSUME Inv, [QuotaNext]_quotaVars PROVE Inv'
  OBVIOUS
<1> USE DEF Inv, Typed, Sending, Bounded, Asked
<1>1. ASSUME NEW l \in Lambdas, Cron(l) PROVE Inv'
  BY <1>1 DEF Cron, Idle, settings
<1>2. ASSUME NEW l \in Lambdas, Read(l) PROVE Inv'
  <2>1. Requested(limit) \in Int /\ Requested(limit) <= Ceiling
    BY RequestedWithin
  <2>2. CASE Requested(limit) <= limit
    BY <1>2, <2>2 DEF Read, Ends, Idle, settings
  <2>3. CASE ~(Requested(limit) <= limit)
    BY <1>2, <2>1, <2>3 DEF Read, settings
  <2>4. QED
    BY <2>2, <2>3
<1>3. ASSUME NEW l \in Lambdas,
             Post(l) \/ BadSettings(l) \/ GiveUp(l) \/ LoseReply(l)
      PROVE Inv'
  <2>1. /\ lam' = [lam EXCEPT ![l] = Idle] /\ UNCHANGED <<multiplier, limit>>
        /\ pending' # pending => lam[l].at = "post" /\ pending' = Send(l)
    BY <1>3 DEF Post, BadSettings, GiveUp, LoseReply, Ends, settings
  <2>2. pending' \subseteq Preferences /\ \A p \in pending' : Bounded(p)
    BY <2>1, SendBounded
  <2>3. QED
    BY <2>1, <2>2 DEF Idle
<1>4. CASE Approve
  <2>1. PICK p \in pending : limit' = p.value /\ pending' = pending \ {p}
    BY <1>4 DEF Approve
  <2>2. p.value \in Nat /\ p.value <= Ceiling
    BY QuotaAssumption DEF Preferences
  <2>3. QED
    BY <1>4, <2>1, <2>2, QuotaAssumption DEF Approve, settings
<1>5. CASE Reject
  BY <1>5 DEF Reject, settings
<1>6. CASE Operator
  BY <1>6, QuotaAssumption DEF Operator, settings
<1>7. CASE UNCHANGED quotaVars
  BY <1>7 DEF quotaVars
<1>8. QED
  BY <1>1, <1>2, <1>3, <1>4, <1>5, <1>6, <1>7 DEF QuotaNext, Lift

\* No request passes the ceiling or lowers what was read, and no approval takes
\* the limit above the ceiling, however late it comes and whatever else was
\* decided in between (gcp_quotas_auto_lift.py:208-223).
THEOREM OnlyRaises == QuotaSpec => []RequestsAreRaises
<1>1. Inv => RequestsAreRaises
  BY DEF Inv, Sending, Bounded, RequestsAreRaises
<1>2. QED
  BY <1>1, InitInv, StepInv, PTL DEF QuotaSpec
=============================================================================
