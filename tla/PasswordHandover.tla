-------------------------- MODULE PasswordHandover --------------------------
(***************************************************************************)
(* What a rotation of the database password promises, whatever calls it is *)
(* made of: passwords are handed over one at a time and never backwards,   *)
(* for as long as rotations are kept apart.  Whoever starts one too early, *)
(* or a call that arrives too late, ends the promise and not the spec.     *)
(* Abstracts terraform/lambda/rds_password_rotator.py; PasswordRotation    *)
(* implements it.  A password is the rotation that made it.                *)
(***************************************************************************)
EXTENDS Naturals

VARIABLES
  issued,   \* the last rotation that was started
  asked,    \* the password the database was last asked to take
  inForce,  \* the password that opens the database
  named,    \* the password that clients are given
  orderly   \* no rotation met a change or a call of an earlier one

handoverVars == <<issued, asked, inForce, named, orderly>>

HandoverInit == issued = 0 /\ asked = 0 /\ inForce = 0 /\ named = 0 /\ orderly = TRUE

\* A rotation that is kept apart finds the one before it over, in the database
\* and for the clients, or come to nothing.
Issue ==
  /\ inForce = asked /\ named = asked
  /\ issued' = issued + 1
  /\ UNCHANGED <<asked, inForce, named, orderly>>

Ask == asked' = issued /\ UNCHANGED <<issued, inForce, named, orderly>>
Apply == inForce' = asked /\ UNCHANGED <<issued, asked, named, orderly>>

\* Clients are given no password that the database was not asked to take.
Name ==
  /\ asked = issued
  /\ named' = issued
  /\ UNCHANGED <<issued, asked, inForce, orderly>>

\* The one step that may end the order: a rotation starts, or a call comes late.
Overtake ==
  /\ orderly' = FALSE
  /\ issued' \in {issued, issued + 1}
  /\ UNCHANGED <<asked, inForce, named>>

HandoverNext ==
  \/ orderly /\ (Issue \/ Ask \/ Apply \/ Name \/ Overtake)
  \/ ~orderly /\ orderly' = FALSE
HandoverSpec == HandoverInit /\ [][HandoverNext]_handoverVars
=============================================================================
