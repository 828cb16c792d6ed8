--------------------------- MODULE MCNodeRegistry ---------------------------
(* NodeRegistry on the small sets of the registry_*.cfg files, which declare *)
(* nodes, tokens, keys and requests as model values.  Both runs check        *)
(* liveness, so no symmetry is used.                                         *)
EXTENDS NodeRegistry
=============================================================================
