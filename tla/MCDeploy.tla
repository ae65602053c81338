------------------------------ MODULE MCDeploy ------------------------------
(* Deploy sessions alone.                                                   *)
EXTENDS Deployer, DeployModel
===========================================================================
