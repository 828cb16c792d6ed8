-------------------------- MODULE MCPostgresQueue --------------------------
(* PostgresQueue on small sets.                                            *)
EXTENDS PostgresQueue
=============================================================================
