---------------------------- MODULE MCDtnServer ----------------------------
(* The whole server on small instances, for TLC.                            *)
EXTENDS DtnServer

TwoSeeds == <<"server", "server">>
=============================================================================
