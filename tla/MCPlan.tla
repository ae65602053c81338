------------------------------- MODULE MCPlan -------------------------------
(* Two services on two nodes, the second requiring the first in its first    *)
(* version only.  The two versions of the first differ in their image, those *)
(* of the second only in what plan.py does not compare: its depends_on.      *)
EXTENDS PlanExecution, TLC

CONSTANTS v1, v2, here, there, image1, image2

ModelServices == {1, 2}
ModelNeeds == 1 :> (v1 :> {} @@ v2 :> {} @@ Torn :> {})
              @@ 2 :> (v1 :> {1} @@ v2 :> {} @@ Torn :> {1})
ModelVersions == {v1, v2}
ModelCompared == 1 :> (v1 :> image1 @@ v2 :> image2)
                 @@ 2 :> (v1 :> image1 @@ v2 :> image1)

===========================================================================
