--------------------------- MODULE MCDeploySystem ---------------------------
(* Deploy sessions and rollbacks.                                           *)
EXTENDS DeploySystem, DeployModel
===========================================================================
