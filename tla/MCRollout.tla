----------------------------- MODULE MCRollout -----------------------------
(* Rollout on small sets; requests are interchangeable, and so are ids.     *)
EXTENDS Rollout, TLC

Symmetry == Permutations(Requests) \cup Permutations(Ids)
=============================================================================
