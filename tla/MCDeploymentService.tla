------------------------ MODULE MCDeploymentService ------------------------
(* Two or three requests against one agent, the first of them a deploy. *)
EXTENDS DeploymentService, TLC

CONSTANTS o1, o2, o3, d1, d2, r1, r2

DeployAndAny == {m \in [Op -> Kinds] : m[o1] = "deploy"}
DeployAndStopOrRollback == {m \in DeployAndAny : m[o2] \in {"stop", "rollback"}}

\* Single scenarios.
DeployStopDeploy == {[o \in Op |-> IF o = o2 THEN "stop" ELSE "deploy"]}

Symmetry == Permutations(Replica) \cup Permutations(Dep)
=============================================================================
