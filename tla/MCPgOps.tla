------------------------------ MODULE MCPgOps -------------------------------
(* Instances of PgOps: a slot as Up leaves it, and one with two snapshots that *)
(* a restore of the first discards.                                            *)
EXTENDS PgOps

Fresh == {<<"s1">>}
FreshOrFull == {<<"s1">>, <<"s1", "s2", "s3">>}
Full == {<<"s1", "s2", "s3">>}
=============================================================================
