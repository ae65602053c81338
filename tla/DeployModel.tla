----------------------------- MODULE DeployModel -----------------------------
(***************************************************************************)
(* The instance on which TLC checks Deployer and DeploySystem: two          *)
(* services, the second requiring the first; two versions of the topology,  *)
(* of which the second manages only the first service by quadlet, so that a *)
(* stale quadlet file of the other can stay behind in docs/generated.       *)
(***************************************************************************)
EXTENDS TargetNode, TLC

CONSTANTS v1, v2

ModelServices == {1, 2}
ModelNeeds == 1 :> (v1 :> {} @@ v2 :> {} @@ Torn :> {})
              @@ 2 :> (v1 :> {1} @@ v2 :> {} @@ Torn :> {1})
ModelVersions == {v1, v2}
ModelQuadlets == v1 :> {1, 2} @@ v2 :> {1}
ModelAllQuadlets == v1 :> {1, 2} @@ v2 :> {1, 2}

(* One service of one topology, for the three sessions it takes for a long  *)
(* history to be there when a short one is written over it.                 *)
OneNeeds == 1 :> (v1 :> {} @@ Torn :> {})
OneQuadlets == v1 :> {1}

===========================================================================
