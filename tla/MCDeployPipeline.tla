-------------------------- MODULE MCDeployPipeline --------------------------
EXTENDS DeployPipeline
=============================================================================
