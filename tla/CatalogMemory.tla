--------------------------- MODULE CatalogMemory ----------------------------
(***************************************************************************)
(* The memory of a list of data: get_list_info() builds it from ./Data and *)
(* process_recv_list() from what a device receives, and free_list()        *)
(* releases it.                                                            *)
(*                                                                         *)
(* The heap is the set of the blocks that are allocated.  A pointer is a   *)
(* block, null, or wild: whatever stands in memory that malloc returned    *)
(* and nobody has written.  What the names say is left to ListTransfer.    *)
(***************************************************************************)
EXTENDS Integers, FiniteSets, Sequences, Functions

CONSTANTS MaxDirs,  \* bound: entries of ./Data, directories of a list received
          MaxFiles  \* bound: files of a directory

ASSUME MemoryAssumption == MaxDirs \in Nat \ {0} /\ MaxFiles \in Nat

VARIABLES
  builder,   \* "scan" for get_list_info, "recv" for process_recv_list
  pc,        \* where it is; "listed": it has returned a list
  n,         \* parent_dir_num
  j,         \* the directory whose files are next
  heap,      \* the blocks allocated
  parents,   \* the pointers of the array parent
  children,  \* the pointers of the array child
  names,     \* for each directory the pointers of its array of names
  counts,    \* the array child_dir_num, Unset where nobody has written
  last,      \* get_list_info: its variable child_dir_num
  found,     \* history: the files each directory was found to have
  bad,       \* history: a pointer was freed that was not to a block
  shortage,  \* history: a malloc failed
  early      \* history: recv failed before the first name of a directory

arrayVars == <<parents, children, names, counts>>
historyVars == <<found, bad, shortage, early>>
memoryVars == <<builder, pc, n, j, heap, arrayVars, last, historyVars>>

Null == <<>>
Wild == <<"wild">>
Unset == -1

Parent(i) == <<"parent", i>>
Child(i) == <<"child", i>>
FileName(i, k) == <<"name", i, k>>
Entries(i) == <<"entries", i>>   \* what the scandir of a directory allocated

\* An array that a loop of mallocs fills, k of which succeed: after the one
\* that fails nothing is written.
Filled(blocks, k) ==
  [i \in 1..Len(blocks) |-> IF i <= k THEN blocks[i] ELSE IF i = k + 1 THEN Null ELSE Wild]

MemoryInit ==
  /\ builder \in {"scan", "recv"}
  /\ pc = "start"
  /\ n = 0
  /\ j = 1
  /\ heap = {}
  /\ parents = <<>> /\ children = <<>> /\ names = <<>> /\ counts = <<>>
  /\ last = 0
  /\ found = <<>>
  /\ bad = FALSE /\ shortage = FALSE /\ early = FALSE
-----------------------------------------------------------------------------
(* get_list_info.                                                           *)

\* ./Data is opened and read; what has been allocated stays so when it is not
\* there or empty.
ScanData ==
  /\ pc = "start" /\ builder = "scan"
  /\ \/ /\ pc' = "failed"
        /\ shortage' = TRUE
        /\ UNCHANGED <<n, heap>>
     \/ /\ pc' = "failed"
        /\ heap' \in {{<<"info">>}, {<<"info">>, <<"dirp">>}}
        /\ UNCHANGED <<n, shortage>>
     \/ /\ n' \in 0..MaxDirs
        /\ heap' = {<<"info">>, <<"dirp">>, Entries(0)}
        /\ pc' = IF n' = 0 THEN "failed" ELSE "parents"
        /\ UNCHANGED shortage
  /\ UNCHANGED <<builder, j, arrayVars, last, found, bad, early>>

AllocParents ==
  /\ pc = "parents"
  /\ \/ /\ pc' = "failed"
        /\ shortage' = TRUE
        /\ UNCHANGED <<heap, parents>>
     \/ \E k \in 0..n :
          /\ parents' = Filled([i \in 1..n |-> Parent(i)], k)
          /\ heap' = heap \cup {<<"parents">>} \cup {Parent(i) : i \in 1..k}
          /\ shortage' = (k < n)
          /\ pc' = IF k = n THEN "children" ELSE "cleanup"
  /\ UNCHANGED <<builder, n, j, children, names, counts, last, found, bad, early>>

\* The result of the malloc of child_dir_num is not tested; chdir may fail.
AllocChildren ==
  /\ pc = "children"
  /\ \/ /\ pc' = "cleanup"
        /\ shortage' = TRUE
        /\ UNCHANGED <<heap, children, names, counts>>
     \/ \E allocated \in SUBSET {<<"counts">>} :
          /\ heap' = heap \cup {<<"children">>} \cup allocated
          /\ children' = [i \in 1..n |-> Null]
          /\ names' = [i \in 1..n |-> <<>>]
          /\ counts' = [i \in 1..n |-> Unset]
          /\ shortage' = (allocated = {})
          /\ pc' \in {"scan", "cleanup"}
  /\ UNCHANGED <<builder, n, j, parents, last, found, bad, early>>

\* Where get_list_info goes after a directory.
AfterScan == IF Len(found') = n THEN "listed" ELSE "scan"

\* What stands in Data under the name of an entry is no directory (any more).
ScanFile ==
  /\ pc = "scan"
  /\ last' = -1
  /\ pc' = "cleanup"
  /\ UNCHANGED <<builder, n, j, heap, arrayVars, historyVars>>

\* Mutant: the place of an empty directory is used for the next one.
ScanEmptyDirStays ==
  /\ pc = "scan" /\ <<"counts">> \in heap
  /\ last' = 0
  /\ heap' = heap \cup {Entries(Len(found) + 1)}
  /\ found' = Append(found, 0)
  /\ counts' = [counts EXCEPT ![j] = 0]
  /\ pc' = AfterScan
  /\ UNCHANGED <<builder, n, j, parents, children, names, bad, shortage, early>>

ScanEmptyDir ==
  /\ pc = "scan" /\ <<"counts">> \in heap
  /\ last' = 0
  /\ heap' = heap \cup {Entries(Len(found) + 1)}
  /\ found' = Append(found, 0)
  /\ counts' = [counts EXCEPT ![j] = 0]
  /\ j' = j + 1
  /\ pc' = AfterScan
  /\ UNCHANGED <<builder, n, parents, children, names, bad, shortage, early>>

\* The array of the names and the names; any malloc may fail.
ScanDir ==
  /\ pc = "scan" /\ <<"counts">> \in heap
  /\ \E c \in 1..MaxFiles :
       /\ last' = c
       /\ found' = Append(found, c)
       /\ counts' = [counts EXCEPT ![j] = c]
       /\ \/ /\ heap' = heap \cup {Entries(Len(found'))}
             /\ shortage' = TRUE
             /\ pc' = "cleanup"
             /\ UNCHANGED <<j, children, names>>
          \/ \E k \in 0..c :
               /\ children' = [children EXCEPT ![j] = Child(j)]
               /\ names' = [names EXCEPT ![j] = Filled([i \in 1..c |-> FileName(j, i)], k)]
               /\ heap' = heap \cup {Entries(Len(found')), Child(j)}
                               \cup {FileName(j, i) : i \in 1..k}
               /\ shortage' = (k < c)
               /\ j' = IF k = c THEN j + 1 ELSE j
               /\ pc' = IF k = c THEN AfterScan ELSE "cleanup"
  /\ UNCHANGED <<builder, n, parents, bad, early>>

\* The first number of files goes through a null pointer.
ScanCrashes ==
  /\ pc = "scan" /\ <<"counts">> \notin heap
  /\ pc' = "crashed"
  /\ UNCHANGED <<builder, n, j, heap, arrayVars, last, historyVars>>
-----------------------------------------------------------------------------
(* Release.                                                                 *)

\* A free is a pair of a place and the pointer that stands in it; a place is
\* named by the block that a pointer in it is meant for.  free(NULL) does nothing.
At(place, pointer) == IF pointer = Null THEN {} ELSE {<<place, pointer>>}

\* Variables that point to their own blocks.
Own(blocks) == {<<block, block>> : block \in blocks}

\* In whatever order they are freed, a pointer must be to a block and stand in
\* no second place.
Free(freed) ==
  /\ heap' = heap \ {f[2] : f \in freed}
  /\ bad' = (bad \/ \E f \in freed :
                      f[2] \notin heap \/ \E g \in freed : g # f /\ g[2] = f[2])

ParentsFreed == UNION {At(Parent(i), parents[i]) : i \in 1..n}

\* The names of directory i and their array, or what stands beyond the arrays.
DirFreed(i, beyond) ==
  IF i > n THEN At(Child(i), beyond)
  ELSE IF children[i] = Null THEN {}
  ELSE At(Child(i), children[i])
         \cup UNION {At(FileName(i, k), names[i][k]) : k \in DOMAIN names[i]}

\* The loop over the directories runs to child_dir_num, the number of files of
\* the last one scanned.
DirsFreed(beyond) ==
  IF <<"children">> \notin heap THEN {}
  ELSE (UNION {DirFreed(i, beyond) : i \in 1..last}) \cup Own({<<"children">>})

\* Mutant: the clean-up returns where the directory is still open.
CleanupLeavesDir ==
  /\ pc = "cleanup"
  /\ \E beyond \in {Null, Wild} :
       Free(ParentsFreed \cup Own({<<"parents">>}) \cup DirsFreed(beyond))
  /\ pc' = "failed"
  /\ UNCHANGED <<builder, n, j, arrayVars, last, found, shortage, early>>

\* The label myfree.
Cleanup ==
  /\ pc = "cleanup"
  /\ \E beyond \in {Null, Wild} :
       Free(ParentsFreed \cup Own({<<"parents">>, <<"dirp">>}) \cup DirsFreed(beyond))
  /\ pc' = "failed"
  /\ UNCHANGED <<builder, n, j, arrayVars, last, found, shortage, early>>

\* Mutant: child[i] is not set to null once it is freed.
NamesFreedAgain(i) ==
  IF counts[i] <= 0 \/ children[i] = Null THEN {}
  ELSE UNION {At(FileName(i, k), names[i][k]) \cup At(<<"again", k>>, children[i]) :
                k \in 1..counts[i]}

\* The array of the names is freed within the loop over the names and set to
\* null: the loop frees the first name and no other.
NamesFreed(i) ==
  IF counts[i] <= 0 \/ children[i] = Null THEN {}
  ELSE At(FileName(i, 1), names[i][1]) \cup At(Child(i), children[i])

\* free_list, of a list that is complete or, in process_recv_list, is given up.
FreeList ==
  /\ pc \in {"listed", "release"}
  /\ Free(ParentsFreed \cup (UNION {NamesFreed(i) : i \in 1..n})
            \cup Own({<<"parents">>, <<"children">>, <<"counts">>, <<"info">>})
            \cup (IF pc = "listed" THEN {} ELSE Own({<<"data">>, <<"child_data">>})))
  /\ pc' = "freed"
  /\ UNCHANGED <<builder, n, j, arrayVars, last, found, shortage, early>>
-----------------------------------------------------------------------------
(* process_recv_list.                                                       *)

\* The frame with the number of directories, and the arrays for them.  When one
\* of the three is missing free_list reads through a null pointer.
RecvData ==
  /\ pc = "start" /\ builder = "recv"
  /\ \/ /\ pc' = "failed"
        /\ \/ shortage' = FALSE /\ heap' \in {{}, {<<"data">>}}
           \/ shortage' = TRUE /\ heap' \in {{}, {<<"data">>}}
        /\ UNCHANGED n
     \/ \E arrays \in SUBSET {<<"parents">>, <<"children">>, <<"counts">>} :
          /\ n' \in 1..MaxDirs
          /\ heap' = {<<"data">>, <<"info">>} \cup arrays
          /\ shortage' = (Cardinality(arrays) < 3)
          /\ pc' = IF Cardinality(arrays) = 3 THEN "names" ELSE "crashed"
  /\ UNCHANGED <<builder, j, arrayVars, last, found, bad, early>>

\* A name for each directory: when a malloc fails the list is freed and the
\* loop goes on.  Then the buffer for the frames: when there is none the list
\* is left as it is.
RecvParents ==
  /\ pc = "names"
  /\ \E k \in 0..n, buffer \in SUBSET {<<"child_data">>} :
       /\ parents' = Filled([i \in 1..n |-> Parent(i)], k)
       /\ heap' = heap \cup {Parent(i) : i \in 1..k} \cup buffer
       /\ shortage' = (k < n \/ buffer = {})
       /\ pc' = IF k < n THEN "crashed" ELSE IF buffer = {} THEN "failed" ELSE "dir"
  /\ children' = [i \in 1..n |-> Wild]
  /\ names' = [i \in 1..n |-> <<>>]
  /\ counts' = [i \in 1..n |-> 0]
  /\ UNCHANGED <<builder, n, j, last, found, bad, early>>

\* Where process_recv_list goes when directory i has files to come or none.
AfterRecv(i, files) ==
  IF files THEN "file" ELSE IF i < n THEN "dir" ELSE "returns"

\* A directory and the number of its files, or an error of recv.
RecvDir ==
  /\ pc = "dir"
  /\ \/ /\ pc' = "release"
        /\ UNCHANGED <<j, heap, children, names, counts, found, shortage>>
     \/ /\ found' = Append(found, 0)
        /\ children' = [children EXCEPT ![j] = Null]
        /\ j' = j + 1
        /\ pc' = AfterRecv(j, FALSE)
        /\ UNCHANGED <<heap, names, counts, shortage>>
     \/ \E c \in 1..MaxFiles :
          /\ found' = Append(found, c)
          /\ counts' = [counts EXCEPT ![j] = c]
          /\ \/ /\ children' = [children EXCEPT ![j] = Null]
                /\ shortage' = TRUE
                /\ pc' = "release"
                /\ UNCHANGED <<heap, names>>
             \/ /\ children' = [children EXCEPT ![j] = Child(j)]
                /\ names' = [names EXCEPT ![j] = [i \in 1..c |-> Wild]]
                /\ heap' = heap \cup {Child(j)}
                /\ pc' = AfterRecv(j, TRUE)
                /\ UNCHANGED shortage
          /\ UNCHANGED j
  /\ UNCHANGED <<builder, n, parents, last, bad, early>>

\* The names of directory j that have been set.
NamesSet == Cardinality({i \in 1..counts[j] : names[j][i] # Wild})

\* A name of a file, or an error of recv, or none of malloc.
RecvFile ==
  /\ pc = "file"
  /\ LET k == NamesSet + 1
     IN  \/ /\ pc' = "release"
            /\ early' = (k = 1)
            /\ UNCHANGED <<j, heap, names, shortage>>
         \/ /\ names' = [names EXCEPT ![j][k] = Null]
            /\ shortage' = TRUE
            /\ pc' = "release"
            /\ UNCHANGED <<j, heap, early>>
         \/ /\ names' = [names EXCEPT ![j][k] = FileName(j, k)]
            /\ heap' = heap \cup {FileName(j, k)}
            /\ pc' = AfterRecv(j, k < counts[j])
            /\ j' = IF k < counts[j] THEN j ELSE j + 1
            /\ UNCHANGED <<shortage, early>>
  /\ UNCHANGED <<builder, n, parents, children, counts, last, found, bad>>

\* The list is complete: the two buffers of frames are freed.
RecvReturns ==
  /\ pc = "returns"
  /\ Free(Own({<<"data">>, <<"child_data">>}))
  /\ pc' = "listed"
  /\ UNCHANGED <<builder, n, j, arrayVars, last, found, shortage, early>>
-----------------------------------------------------------------------------
MemoryNext ==
  \/ ScanData \/ AllocParents \/ AllocChildren
  \/ ScanFile \/ ScanEmptyDir \/ ScanDir \/ ScanCrashes
  \/ Cleanup \/ FreeList
  \/ RecvData \/ RecvParents \/ RecvDir \/ RecvFile \/ RecvReturns

MemorySpec == MemoryInit /\ [][MemoryNext]_memoryVars
-----------------------------------------------------------------------------
\* A list that is returned mirrors what was found: for each directory its name,
\* its number of files and as many names, every pointer to a block that is
\* allocated and to no other's, with nothing wild in it; empty directories have
\* no array (get_list_info counts the names with one index and the files with
\* another, fileinfo.c:105-175).
ListMirrorsData ==
  pc = "listed" =>
    /\ Len(found) = n /\ counts = found
    /\ parents = [i \in 1..n |-> Parent(i)]
    /\ children = [i \in 1..n |-> IF found[i] = 0 THEN Null ELSE Child(i)]
    /\ names = [i \in 1..n |-> [k \in 1..found[i] |-> FileName(i, k)]]
    /\ {<<"parents">>, <<"children">>, <<"counts">>, <<"info">>} \subseteq heap
    /\ \A i \in 1..n :
         /\ Parent(i) \in heap
         /\ found[i] > 0 => Child(i) \in heap
         /\ \A k \in 1..found[i] : FileName(i, k) \in heap

\* Nothing is freed that is not allocated, on any way out of the two builders,
\* as long as memory lasts: except when the connection fails between a
\* directory and its first name, where free_list (fileinfo.c:265-270) frees a
\* pointer nobody has set.
FreesAreSound == bad => shortage \/ early

\* The names of directory i but the first, as far as they were received.
LaterNames(i) == Range(names[i]) \ {FileName(i, 1), Wild}

\* What is left once a list has been given back, while memory lasts: the names
\* after the first of a directory, and what scandir and opendir allocated.
\* After a scan that met a file in ./Data: the block of the list, its numbers
\* and every directory scanned so far, of which the clean-up frees none
\* (fileinfo.c:196).
OnlyTheseStay ==
  /\ pc = "freed" /\ ~shortage /\ ~early =>
       heap = (UNION {LaterNames(i) : i \in 1..n})
              \cup (IF builder = "recv" THEN {}
                    ELSE {<<"dirp">>} \cup {Entries(i) : i \in 0..n})
  /\ pc = "failed" /\ last = -1 /\ ~shortage =>
       heap = {<<"info">>, <<"counts">>} \cup {Entries(i) : i \in 0..Len(found)}
              \cup {Child(i) : i \in {d \in 1..Len(found) : found[d] > 0}}
              \cup UNION {Range(names[i]) : i \in 1..n}
=============================================================================
