------------------------- MODULE MCCommandDelivery -------------------------
(* CommandDelivery on small sets.                                          *)
EXTENDS CommandDelivery
=============================================================================
