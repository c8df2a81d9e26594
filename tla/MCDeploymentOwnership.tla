----------------------- MODULE MCDeploymentOwnership -----------------------
(* Two operations that compete for one ownership key. *)
EXTENDS DeploymentOwnership, TLC

CONSTANTS o1, o2, k1

OneKey == [o \in Op |-> k1]
Keys == {k1}
OpSymmetry == Permutations(Op)
=============================================================================
