------------------------ MODULE MCSubscriptionAccess ------------------------
(* SubscriptionAccess on small sets; requests are interchangeable (a token is *)
(* named by its request), and so are credentials.  A configuration file has   *)
(* no negative numbers, so the sets that have some are named here.            *)
EXTENDS SubscriptionAccess, TLC

SignedSamples == {-1, 1}
SignedQuotas == {-1, 0}

Symmetry == Permutations(Requests) \cup Permutations(Credentials)
=============================================================================
