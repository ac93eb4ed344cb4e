---------------------------- MODULE AtomicRelease ----------------------------
(***************************************************************************)
(* What a release promises to the person who asks for it, whatever jobs,   *)
(* objects and commands it is made of.  Abstracts .github/workflows/       *)
(* deploy.yml with the scripts it calls; DeployPipeline implements it.     *)
(***************************************************************************)
CONSTANTS
  Versions, First,
  Nothing  \* what a host without a version serves

VARIABLES
  offered,  \* the versions that exist in the bucket
  serving,  \* the version that serves, or Nothing
  verdict,  \* verdict[v]: "open", or how the release of v ended
  booting,  \* the host's first boot is not over
  alone     \* no hand but the pipeline's has touched the bucket or the host

releaseVars == <<offered, serving, verdict, booting, alone>>

ReleaseInit ==
  /\ offered = {First}
  /\ \/ serving = First /\ booting = FALSE
     \/ serving = Nothing /\ booting = TRUE
  /\ verdict = [v \in Versions |-> "open"]
  /\ alone = TRUE

Offer(v) ==
  /\ verdict[v] = "open"
  /\ offered' = offered \union {v}
  /\ UNCHANGED <<serving, verdict, booting, alone>>

\* While the pipeline is alone a version goes live only during its own release.
Serve(v) ==
  /\ v \in offered
  /\ alone => v \in Versions /\ verdict[v] = "open"
  /\ serving' = v
  /\ UNCHANGED <<offered, verdict, booting, alone>>

\* A release that is killed half way may leave nothing to serve; nothing else may.
Outage ==
  /\ alone => \E v \in Versions : verdict[v] = "open"
  /\ serving' = Nothing
  /\ UNCHANGED <<offered, verdict, booting, alone>>

\* A release ends once.  Green says that its own version serves, a dry run that
\* it exists, a cancellation that nothing of it does.
End(v, how) ==
  /\ verdict[v] = "open"
  /\ CASE how = "green"     -> alone => serving = v
       [] how = "built"     -> v \in offered
       [] how = "cancelled" -> v \notin offered
       [] how = "red"       -> TRUE
  /\ verdict' = [verdict EXCEPT ![v] = how]
  /\ alone' \in {alone, FALSE}
  /\ UNCHANGED <<offered, serving, booting>>

\* The first boot brings up a version that is there, or none; a host that serves
\* already, because a release came in between, may keep what it has.
BootUp ==
  /\ booting
  /\ booting' = FALSE
  /\ serving' \in offered \union {Nothing, serving}
  /\ alone => serving = Nothing
  /\ UNCHANGED <<offered, verdict, alone>>

Interfere == alone' = FALSE /\ UNCHANGED <<offered, serving, verdict, booting>>

ReleaseNext ==
  \/ \E v \in Versions : \/ Offer(v)
                         \/ \E how \in {"green", "built", "cancelled", "red"} : End(v, how)
  \/ \E v \in Versions \union {First} : Serve(v)
  \/ BootUp \/ Outage \/ Interfere

ReleaseSpec == ReleaseInit /\ [][ReleaseNext]_releaseVars
=============================================================================
