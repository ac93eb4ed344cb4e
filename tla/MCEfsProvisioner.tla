-------------------------- MODULE MCEfsProvisioner --------------------------
EXTENDS EfsProvisioner, TLC
CONSTANTS ann, bob, cho

\* ann and bob collide, and their second probe wraps around.
SmallHash == ann :> 3 @@ bob :> 3 @@ cho :> 1
AnyLambda == Permutations(Lambdas)
=============================================================================
