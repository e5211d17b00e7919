----------------------------- MODULE MCSession -----------------------------
(* The sessions on small instances, for TLC.                                *)
EXTENDS Session

TwoSeeds == <<"server", "server">>
NoSeeds  == <<>>
=============================================================================
