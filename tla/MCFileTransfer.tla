--------------------------- MODULE MCFileTransfer ---------------------------
(* The transfer of small files, for TLC.                                    *)
EXTENDS FileTransfer

TwoDirectories == <<1, 0>>
Typed == -1..3

Octets == {"1", "2", "3", "4", "a", "b", "c", "Success"}

\* Files of up to four units, with the word in any place or in none.
FileOf(n, w) == [i \in 1..n |-> IF i = w THEN "Success" ELSE <<"1", "2", "3", "4">>[i]]
SmallFiles == {FileOf(n, w) : n \in 0..4, w \in 0..4}

\* Nothing, and a file longer than most of them.
OldFiles == {<<>>, <<"a", "b", "c">>}
=============================================================================
