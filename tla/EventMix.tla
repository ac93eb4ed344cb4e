------------------------------ MODULE EventMix ------------------------------
(***************************************************************************)
(* What the load generator is told to send: the presets of                 *)
(* stress-test/simulator/orchestrator.py, and the two weighted draws of    *)
(* virtual_events.py.  A ratio is a whole percentage, and a draw d stands  *)
(* for the interval [d, d + 1) of the hundred per cent: r < total holds of *)
(* all of it or of none, the totals being whole, so a count of draws is    *)
(* the measure of a share.                                                 *)
(***************************************************************************)
EXTENDS Integers, Sequences, FiniteSets, TLC

Draws == 0..99

\* The order in which _pick_pattern accumulates the ratios.
PatternOrder == <<"normal", "duplicate", "out_of_order", "malformed",
                  "timeout", "burst", "reconnect", "abnormal_state">>
PatternNames == {PatternOrder[i] : i \in DOMAIN PatternOrder}

\* SimulatorConfig
DefaultRatios == [normal |-> 70, duplicate |-> 5, malformed |-> 5,
                  out_of_order |-> 5, timeout |-> 5, burst |-> 5,
                  reconnect |-> 3, abnormal_state |-> 2]

AtLeast(n, least) == IF n < least THEN least ELSE n

\* cfg_for_pattern: the fields a preset replaces.
PresetNames == {"steady", "spike", "soak", "stress", "chaos", "burst",
                "retry-storm", "queue-saturation", "websocket-fanout",
                "ai-concurrency", "admin-concurrent", "data-consistency",
                "failure-recovery", "memory-leak", "long-run", "other"}
NoChange == [x \in {} |-> 0]
RateChange(preset, rps) ==
  CASE preset = "spike"            -> [rps |-> rps * 10, duration |-> 60]
    [] preset = "soak"             -> [rps |-> AtLeast(rps \div 2, 10),
                                       duration |-> 86400]
    [] preset = "stress"           -> [rps |-> rps * 5]
    [] preset = "queue-saturation" -> [rps |-> rps * 20, duration |-> 120]
    [] preset = "websocket-fanout" -> [duration |-> 180]
    [] preset = "ai-concurrency"   -> [rps |-> 50, duration |-> 180]
    [] preset = "admin-concurrent" -> [rps |-> 20, duration |-> 300]
    [] preset = "memory-leak"      -> [rps |-> AtLeast(rps, 50), duration |-> 3600]
    [] preset = "long-run"         -> [duration |-> 21600]
    [] OTHER                       -> NoChange
MixChange(preset) ==
  CASE preset = "chaos" -> [malformed |-> 15, timeout |-> 15,
                            abnormal_state |-> 10, normal |-> 40]
    [] preset = "burst" -> [burst |-> 30, normal |-> 55]
    [] preset = "retry-storm" -> [timeout |-> 20, normal |-> 60]
    [] preset = "data-consistency" -> [duplicate |-> 10, out_of_order |-> 10,
                                       normal |-> 70]
    [] preset = "failure-recovery" -> [timeout |-> 25, normal |-> 55]
    [] OTHER -> NoChange

\* make_simulator(pattern, rps, duration_s)
Replaced(fields, change) ==
  [f \in DOMAIN fields |-> IF f \in DOMAIN change THEN change[f] ELSE fields[f]]
MakeSimulator(preset, rps, duration) ==
  LET rate == Replaced([rps |-> rps, duration |-> duration], RateChange(preset, rps))
  IN  [rps |-> rate.rps, duration |-> rate.duration,
       ratios |-> Replaced(DefaultRatios, MixChange(preset))]

-----------------------------------------------------------------------------
\* The weights of the first i names of an order.
UpTo(order, weight) ==
  LET sum[i \in 0..Len(order)] ==
        IF i = 0 THEN 0 ELSE sum[i - 1] + weight[order[i]]
  IN  sum

\* The loop both draws share: the first name whose running total exceeds r.
Pick(order, weight, r, otherwise) ==
  LET sum == UpTo(order, weight)
      hit == {i \in DOMAIN order : r < sum[i]}
  IN  IF hit = {} THEN otherwise
      ELSE order[CHOOSE i \in hit : \A j \in hit : i <= j]

Rps      == 100  \* STRESS_RPS_TARGET
Duration == 300  \* STRESS_DURATION_S
Config == [preset \in PresetNames |-> MakeSimulator(preset, Rps, Duration)]

\* Fault: each ratio is compared by itself, without the running total.
FaultPickPattern == [preset \in PresetNames |-> [r \in Draws |->
  LET hit == {i \in DOMAIN PatternOrder : r < Config[preset].ratios[PatternOrder[i]]}
  IN  IF hit = {} THEN "normal"
      ELSE PatternOrder[CHOOSE i \in hit : \A j \in hit : i <= j]]]

\* _pick_pattern, as a table from the draw to the pattern.
PickPattern == [preset \in PresetNames |-> [r \in Draws |->
                  Pick(PatternOrder, Config[preset].ratios, r, "normal")]]
Shares == [preset \in PresetNames |-> [p \in PatternNames |->
             Cardinality({r \in Draws : PickPattern[preset][r] = p})]]
Drawn(preset) == {p \in PatternNames : Shares[preset][p] > 0}

\* _pick_event_type
TypeOrder == <<"feed.list", "ai.chat.request", "commerce.list", "user.login",
               "user.refresh_token", "feed.post.get", "device.heartbeat",
               "admin.users.search", "feed.comment.create",
               "ai.persona.query", "admin.audit.list">>
TypeWeights == [i \in {TypeOrder[k] : k \in DOMAIN TypeOrder} |->
  LET at == CHOOSE k \in DOMAIN TypeOrder : TypeOrder[k] = i
  IN  <<30, 20, 15, 8, 8, 7, 5, 3, 2, 1, 1>>[at]]
PickEventType(r) == Pick(TypeOrder, TypeWeights, r, "feed.list")
DrawnTypes == {PickEventType(r) : r \in Draws}

\* AWSLoadWorker._resolve_target: the service a type of event is sent to.
Service(type) ==
  CASE type \in {"admin.users.search", "admin.audit.list", "admin.feed.takedown"} -> "admin"
    [] type \in {"ai.chat.request", "ai.persona.query"} -> "ai"
    [] OTHER -> "server"
=============================================================================
