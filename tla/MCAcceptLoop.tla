--------------------------- MODULE MCAcceptLoop ---------------------------
(* The accept loop on small sets of connections, for TLC.                   *)
EXTENDS AcceptLoop
=============================================================================
