----------------------------- MODULE MCRegistry -----------------------------
(* One of each program that writes the list, for TLC.                       *)
EXTENDS Registry

\* The server and add.c are run once; add.c, which adds the server's first
\* record, stands for the server that is started again after a crash.
FewRuns == [p \in Servers \cup Tools |-> 1]
=============================================================================
