--------------------------- MODULE MCListTransfer ---------------------------
(* The transfer of a list for small directories, for TLC.                   *)
EXTENDS ListTransfer

\* One or two directories of at most two files.
SmallCatalogs == UNION {[1..n -> 0..2] : n \in 1..2}
=============================================================================
