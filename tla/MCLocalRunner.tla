--------------------------- MODULE MCLocalRunner ---------------------------
(* LocalRunner on three deployments.  Deployments are interchangeable; the  *)
(* properties of its runs are safety properties, so the symmetry is sound.  *)
EXTENDS LocalRunner, TLC

DeploymentSymmetry == Permutations(Deployments)
=============================================================================
