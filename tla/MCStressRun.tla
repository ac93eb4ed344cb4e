----------------------------- MODULE MCStressRun -----------------------------
(***************************************************************************)
(* Three kinds of run, so that their state spaces add up: many events and  *)
(* no Gemini call, two batches and no event, a little of both.  The last   *)
(* kind draws nothing; there is one for each preset.                       *)
(***************************************************************************)
EXTENDS StressRun

Events(n, kinds, types, statuses, errors) ==
  [preset |-> "steady", events |-> n, batches |-> 0, kinds |-> kinds,
   types |-> types, statuses |-> statuses, errors |-> errors,
   mock |-> TRUE, pages |-> FALSE]
Nothing == Events(0, {}, {}, {}, {})
MCWorkloads ==
  {Events(4, {"normal", "duplicate"}, {"feed.list"}, {200}, {}),
   Events(3, {"normal", "duplicate", "burst"}, {"feed.list"}, {200, 503}, {}),
   Events(2, {"out_of_order"}, {"ai.chat.request"},
          {200, 404, 503}, {"timeout", "ClientError"}),
   Events(1, {"normal"}, {"feed.list", "admin.users.search"}, {200}, {}),
   [Nothing EXCEPT !.batches = 2, !.mock = FALSE],
   [Nothing EXCEPT !.batches = 2],
   [Events(1, {"normal"}, {"feed.list"}, {200}, {"timeout"})
      EXCEPT !.preset = "spike", !.batches = 1, !.mock = FALSE, !.pages = TRUE]}
  \union {[Nothing EXCEPT !.preset = p] : p \in PresetNames}
=============================================================================
