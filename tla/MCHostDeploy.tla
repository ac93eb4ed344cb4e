---------------------------- MODULE MCHostDeploy ----------------------------
(* HostDeploy for TLC: three builds.  v2 brings a migration that v1 cannot *)
(* live with, v3 never becomes healthy.                                    *)
EXTENDS HostDeploy, TLC

CONSTANTS v1, v2, v3

MCVersions == {v1, v2, v3}
MCLevel == (v1 :> 1) @@ (v2 :> 2) @@ (v3 :> 1)
MCWorks == {<<v1, 1>>, <<v2, 2>>}
AnyInvocation == Permutations(Invocations)
=============================================================================
