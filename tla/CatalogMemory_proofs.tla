------------------------ MODULE CatalogMemory_proofs ------------------------
(***************************************************************************)
(* Proofs about CatalogMemory, for lists of any number of directories and  *)
(* files.                                                                  *)
(*                                                                         *)
(* As long as memory lasts the heap holds what the arrays point to, the    *)
(* arrays themselves and what the builder keeps for its own use, and       *)
(* nothing else.  Both sides are a function of the numbers of files found  *)
(* and of how many names of the last directory have been set.              *)
(***************************************************************************)
EXTENDS CatalogMemory, FiniteSetTheorems, SequenceTheorems, TLAPS

\* The arrays of num directories when fs are the numbers of files of those that
\* have been reached and s the names set of the last; none is what stands for
\* the others.
ParentsOf(num) == [i \in 1..num |-> Parent(i)]

ChildrenOf(num, fs, none) ==
  [i \in 1..num |-> IF i > Len(fs) THEN none ELSE IF fs[i] = 0 THEN Null ELSE Child(i)]

CountsOf(num, fs, none) == [i \in 1..num |-> IF i > Len(fs) THEN none ELSE fs[i]]

NamesOfDir(fs, s, i) ==
  [k \in 1..fs[i] |-> IF i = Len(fs) /\ k > s THEN Wild ELSE FileName(i, k)]

NamesOf(num, fs, s) ==
  [i \in 1..num |-> IF i > Len(fs) THEN <<>> ELSE NamesOfDir(fs, s, i)]

\* The names of directory m when s of c files have got theirs, and their blocks.
NewNames(m, c, s) == [k \in 1..c |-> IF k > s THEN Wild ELSE FileName(m, k)]
NewBlocks(m, c, s) == {FileName(m, k) : k \in {x \in 1..c : ~(x > s)}}

\* The blocks these arrays point to.
ParentBlocks(num) == {Parent(i) : i \in 1..num}
ChildBlocks(fs) == {Child(i) : i \in {d \in 1..Len(fs) : fs[d] > 0}}
NameBlocks(fs, s) ==
  UNION {{FileName(i, k) : k \in {x \in 1..fs[i] : ~(i = Len(fs) /\ x > s)}} : i \in 1..Len(fs)}

Arrays == {<<"info">>, <<"parents">>, <<"children">>, <<"counts">>}
Scandirs(m) == {<<"dirp">>} \cup {Entries(i) : i \in 0..m}
Buffers == {<<"data">>, <<"child_data">>}

\* What a builder keeps for its own use.
Around(b, m) == IF b = "scan" THEN Scandirs(m) ELSE Buffers

\* The arrays are filled up to name s of the last directory found.
FilledTo(s) ==
  /\ n \in 1..MaxDirs /\ found \in Seq(0..MaxFiles) /\ Len(found) <= n
  /\ parents = ParentsOf(n)
  /\ children = ChildrenOf(n, found, IF builder = "scan" THEN Null ELSE Wild)
  /\ counts = CountsOf(n, found, IF builder = "scan" THEN Unset ELSE 0)
  /\ names = NamesOf(n, found, s)

Pointed(s) == ParentBlocks(n) \cup ChildBlocks(found) \cup NameBlocks(found, s)

Built(s) ==
  /\ FilledTo(s)
  /\ heap = Arrays \cup Around(builder, Len(found)) \cup Pointed(s)

\* Which builder is where, and where a malloc may have failed before.
Control ==
  /\ builder \in {"scan", "recv"}
  /\ pc \in {"start", "parents", "children", "scan", "cleanup", "names", "dir", "file",
             "returns", "listed", "release", "freed", "failed", "crashed"}
  /\ pc \in {"parents", "children", "scan", "cleanup"} => builder = "scan"
  /\ pc \in {"names", "dir", "file", "returns", "release"} => builder = "recv"
  /\ shortage => pc \in {"scan", "cleanup", "failed", "crashed", "release", "freed"}
  /\ shortage /\ pc = "scan" => <<"counts">> \notin heap
  /\ last = -1 => pc \in {"cleanup", "failed"}
  /\ early => pc \in {"release", "freed"}

\* The arrays and the heap at each place of the two builders.
BeginShape ==
  /\ pc \in {"start", "parents", "children", "names"} => found = <<>> /\ j = 1 /\ last = 0
  /\ pc = "start" => heap = {} /\ n = 0
  /\ pc \in {"parents", "children", "names"} => n \in 1..MaxDirs
  /\ pc = "parents" => heap = {<<"info">>} \cup Scandirs(0)
  /\ pc = "children" => /\ parents = ParentsOf(n)
                        /\ heap = {<<"info">>, <<"parents">>} \cup Scandirs(0) \cup ParentBlocks(n)
  /\ pc = "names" => heap = Arrays \cup {<<"data">>}

BuildShape ==
  /\ pc \in {"scan", "dir"} => Built(MaxFiles) /\ Len(found) < n /\ j = Len(found) + 1
  /\ pc = "file" => j = Len(found) /\ j > 0 /\ \E s \in 0..(found[j] - 1) : Built(s)

EndShape ==
  /\ pc = "cleanup" => Built(MaxFiles) /\ last \in {0, -1}
  /\ pc = "returns" => Built(MaxFiles) /\ Len(found) = n
  /\ pc = "listed" => /\ FilledTo(MaxFiles) /\ Len(found) = n
                      /\ heap = Arrays \cup (IF builder = "scan" THEN Scandirs(n) ELSE {})
                                       \cup Pointed(MaxFiles)
  /\ pc = "release" /\ ~early => \E s \in 1..(MaxFiles + 1) : Built(s)

Shape == BeginShape /\ BuildShape /\ EndShape

MemoryInv ==
  /\ Control
  /\ FreesAreSound
  /\ OnlyTheseStay
  /\ ~shortage => Shape
-----------------------------------------------------------------------------
(* The blocks are distinct.                                                 *)

LEMMA BlocksDiffer ==
  ASSUME NEW i, NEW k, NEW x, NEW y
  PROVE  /\ Parent(i) = Parent(x) => i = x
         /\ Child(i) = Child(x) => i = x
         /\ FileName(i, k) = FileName(x, y) => i = x /\ k = y
         /\ Parent(i) # Child(x) /\ Parent(i) # FileName(x, y) /\ Child(i) # FileName(x, y)
         /\ Entries(i) # Parent(x) /\ Entries(i) # Child(x) /\ Entries(i) # FileName(x, y)
BY DEF Parent, Child, FileName, Entries

LEMMA BlocksAreBlocks ==
  ASSUME NEW i, NEW k
  PROVE  /\ Null # Parent(i) /\ Null # Child(i) /\ Null # FileName(i, k) /\ Null # Wild
         /\ Wild # Parent(i) /\ Wild # Child(i) /\ Wild # FileName(i, k)
BY DEF Parent, Child, FileName, Null, Wild

\* The variables' own blocks are none of the list's.
LEMMA OwnBlocksDiffer ==
  ASSUME NEW i, NEW k,
         NEW b \in Arrays \cup Buffers \cup {<<"dirp">>}
  PROVE  b # Parent(i) /\ b # Child(i) /\ b # FileName(i, k) /\ b # Entries(i) /\ b # Null
BY DEF Parent, Child, FileName, Entries, Null, Arrays, Buffers
-----------------------------------------------------------------------------
(* One more directory, one more name.                                       *)

LEMMA FileNumbers ==
  ASSUME NEW fs \in Seq(0..MaxFiles)
  PROVE  /\ Len(fs) \in Nat /\ MaxFiles \in Nat
         /\ \A i \in 1..Len(fs) : fs[i] \in 0..MaxFiles
<1>1. ASSUME NEW i \in 1..Len(fs) PROVE fs[i] \in 0..MaxFiles
  BY ElementOfSeq
<1> QED BY <1>1, MemoryAssumption

\* The arrays when a directory of c files is reached, no name of which (s = 0)
\* or all (s = MaxFiles) have been set.
LEMMA NextDir ==
  ASSUME NEW num \in Nat, NEW fs \in Seq(0..MaxFiles), Len(fs) < num,
         NEW c \in 0..MaxFiles, NEW none
  PROVE  LET m == Len(fs) + 1
             gs == Append(fs, c)
         IN  /\ gs \in Seq(0..MaxFiles) /\ Len(gs) = m
             /\ ChildrenOf(num, gs, none)
                  = [ChildrenOf(num, fs, none) EXCEPT ![m] = IF c = 0 THEN Null ELSE Child(m)]
             /\ CountsOf(num, gs, none) = [CountsOf(num, fs, none) EXCEPT ![m] = c]
             /\ ChildBlocks(gs) = ChildBlocks(fs) \cup (IF c = 0 THEN {} ELSE {Child(m)})
<1> DEFINE l == Len(fs)
           m == l + 1
           gs == Append(fs, c)
<1>1. gs \in Seq(0..MaxFiles) /\ Len(gs) = m /\ l \in Nat /\ m \in 1..num
  BY AppendProperties
<1>2. gs[m] = c /\ \A i \in 1..l : gs[i] = fs[i] /\ fs[i] \in 0..MaxFiles
  BY AppendProperties, FileNumbers
<1>3. MaxFiles \in Nat
  BY MemoryAssumption
<1>4. m = l + 1 /\ Len(fs) = l
  OBVIOUS
<1> HIDE DEF l, m, gs
<1>5. ChildrenOf(num, gs, none)
        = [ChildrenOf(num, fs, none) EXCEPT ![m] = IF c = 0 THEN Null ELSE Child(m)]
  <2>1. ASSUME NEW i \in 1..num
        PROVE  ChildrenOf(num, gs, none)[i]
                 = [ChildrenOf(num, fs, none) EXCEPT
                      ![m] = IF c = 0 THEN Null ELSE Child(m)][i]
    BY <1>1, <1>2, <1>4 DEF ChildrenOf
  <2> QED BY <2>1 DEF ChildrenOf
<1>6. CountsOf(num, gs, none) = [CountsOf(num, fs, none) EXCEPT ![m] = c]
  <2>1. ASSUME NEW i \in 1..num
        PROVE  CountsOf(num, gs, none)[i] = [CountsOf(num, fs, none) EXCEPT ![m] = c][i]
    BY <1>1, <1>2, <1>4 DEF CountsOf
  <2> QED BY <2>1 DEF CountsOf
<1>7. ChildBlocks(gs) = ChildBlocks(fs) \cup (IF c = 0 THEN {} ELSE {Child(m)})
  BY <1>1, <1>2, <1>3, <1>4 DEF ChildBlocks
<1> QED BY <1>1, <1>5, <1>6, <1>7 DEF l, m, gs

LEMMA NextDirNames ==
  ASSUME NEW num \in Nat, NEW fs \in Seq(0..MaxFiles), Len(fs) < num,
         NEW c \in 0..MaxFiles, NEW s \in Nat
  PROVE  LET m == Len(fs) + 1
             gs == Append(fs, c)
         IN  /\ NamesOf(num, gs, s)
                  = [NamesOf(num, fs, MaxFiles) EXCEPT
                       ![m] = NewNames(m, c, s)]
             /\ NameBlocks(gs, s)
                  = NameBlocks(fs, MaxFiles) \cup NewBlocks(m, c, s)
<1> DEFINE m == Len(fs) + 1
           gs == Append(fs, c)
<1>1. gs \in Seq(0..MaxFiles) /\ Len(gs) = m /\ Len(fs) \in Nat /\ m \in 1..num
  BY AppendProperties
<1>2. gs[m] = c /\ \A i \in 1..Len(fs) : gs[i] = fs[i] /\ fs[i] \in 0..MaxFiles
  BY AppendProperties, FileNumbers
<1>3. MaxFiles \in Nat
  BY MemoryAssumption
<1> HIDE DEF m, gs
<1>4. NamesOf(num, gs, s)
        = [NamesOf(num, fs, MaxFiles) EXCEPT
             ![m] = NewNames(m, c, s)]
  <2>1. NamesOfDir(gs, s, m) = NewNames(m, c, s)
    BY <1>1, <1>2 DEF NamesOfDir, NewNames
  <2>2. ASSUME NEW i \in 1..Len(fs)
        PROVE  NamesOfDir(gs, s, i) = NamesOfDir(fs, MaxFiles, i)
    BY <1>1, <1>2, <1>3, SMTT(60) DEF NamesOfDir, m
  <2>3. ASSUME NEW i \in 1..num
        PROVE  NamesOf(num, gs, s)[i]
                 = [NamesOf(num, fs, MaxFiles) EXCEPT
                      ![m] = NewNames(m, c, s)][i]
    <3>1. CASE i = m
      BY <1>1, <2>1, <3>1 DEF NamesOf
    <3>2. CASE i \in 1..Len(fs)
      BY <1>1, <2>2, <3>2 DEF NamesOf, m
    <3>3. CASE i > m
      BY <1>1, <3>3 DEF NamesOf, m
    <3> QED BY <1>1, <3>1, <3>2, <3>3 DEF m
  <2> QED BY <2>3 DEF NamesOf
<1>5. NameBlocks(gs, s)
        = NameBlocks(fs, MaxFiles) \cup NewBlocks(m, c, s)
  <2> DEFINE Of(l, z, i) == {FileName(i, k) : k \in {x \in 1..l[i] : ~(i = Len(l) /\ x > z)}}
  <2>1. Of(gs, s, m) = NewBlocks(m, c, s)
    BY <1>1, <1>2 DEF NewBlocks
  <2>2. ASSUME NEW i \in 1..Len(fs)
        PROVE  Of(gs, s, i) = Of(fs, MaxFiles, i)
    <3>1. {x \in 1..gs[i] : ~(i = Len(gs) /\ x > s)} = 1..fs[i]
      BY <1>1, <1>2 DEF m
    <3>2. {x \in 1..fs[i] : ~(i = Len(fs) /\ x > MaxFiles)} = 1..fs[i]
      BY <1>2, <1>3
    <3> QED BY <3>1, <3>2
  <2>3. 1..Len(gs) = 1..Len(fs) \cup {m}
    BY <1>1 DEF m
  <2>4. /\ NameBlocks(gs, s) = UNION {Of(gs, s, i) : i \in 1..Len(gs)}
        /\ NameBlocks(fs, MaxFiles) = UNION {Of(fs, MaxFiles, i) : i \in 1..Len(fs)}
    BY DEF NameBlocks
  <2> HIDE DEF Of
  <2> QED BY <2>1, <2>2, <2>3, <2>4
<1> QED BY <1>4, <1>5 DEF m, gs

\* The arrays when one more name of the last directory is set.
LEMMA NextName ==
  ASSUME NEW num \in Nat, NEW fs \in Seq(0..MaxFiles), Len(fs) \in 1..num,
         NEW s \in Nat, s < fs[Len(fs)]
  PROVE  LET m == Len(fs)
         IN  /\ NamesOf(num, fs, s + 1)
                  = [NamesOf(num, fs, s) EXCEPT ![m][s + 1] = FileName(m, s + 1)]
             /\ NameBlocks(fs, s + 1) = NameBlocks(fs, s) \cup {FileName(m, s + 1)}
<1> DEFINE m == Len(fs)
<1>1. m \in 1..num /\ m \in 1..m /\ \A i \in 1..m : fs[i] \in 0..MaxFiles
  BY FileNumbers
<1>2. s + 1 \in 1..fs[m]
  BY <1>1
<1>3. NamesOf(num, fs, s + 1)
        = [NamesOf(num, fs, s) EXCEPT ![m][s + 1] = FileName(m, s + 1)]
  <2>1. NamesOfDir(fs, s + 1, m)
          = [NamesOfDir(fs, s, m) EXCEPT ![s + 1] = FileName(m, s + 1)]
    <3>1. ASSUME NEW k \in 1..fs[m]
          PROVE  NamesOfDir(fs, s + 1, m)[k]
                   = [NamesOfDir(fs, s, m) EXCEPT ![s + 1] = FileName(m, s + 1)][k]
      BY <1>1, <1>2 DEF NamesOfDir
    <3> QED BY <3>1 DEF NamesOfDir
  <2>2. ASSUME NEW i \in 1..num, i # m
        PROVE  NamesOfDir(fs, s + 1, i) = NamesOfDir(fs, s, i)
    BY <2>2 DEF NamesOfDir
  <2>3. ~(m > Len(fs))
    BY <1>1
  <2> QED BY <1>1, <2>1, <2>2, <2>3 DEF NamesOf
<1>4. NameBlocks(fs, s + 1) = NameBlocks(fs, s) \cup {FileName(m, s + 1)}
  <2> DEFINE Of(z, i) == {FileName(i, k) : k \in {x \in 1..fs[i] : ~(i = Len(fs) /\ x > z)}}
  <2>1. Of(s + 1, m) = Of(s, m) \cup {FileName(m, s + 1)}
    <3>1. {x \in 1..fs[m] : ~(m = Len(fs) /\ x > s + 1)}
            = {x \in 1..fs[m] : ~(m = Len(fs) /\ x > s)} \cup {s + 1}
      BY <1>1, <1>2
    <3> QED BY <3>1
  <2>2. ASSUME NEW i \in 1..m, i # m
        PROVE  Of(s + 1, i) = Of(s, i)
    BY <2>2
  <2>3. /\ NameBlocks(fs, s + 1) = UNION {Of(s + 1, i) : i \in 1..m}
        /\ NameBlocks(fs, s) = UNION {Of(s, i) : i \in 1..m}
    BY DEF NameBlocks
  <2> HIDE DEF Of, m
  <2> QED BY <1>1, <2>1, <2>2, <2>3, SMTT(60)
<1> QED BY <1>3, <1>4

\* Once every name of the last directory is set, so is every name.
LEMMA AllNames ==
  ASSUME NEW num \in Nat, NEW fs \in Seq(0..MaxFiles), NEW s \in Nat, NEW z \in Nat,
         Len(fs) > 0 => fs[Len(fs)] <= s /\ fs[Len(fs)] <= z
  PROVE  NamesOf(num, fs, s) = NamesOf(num, fs, z) /\ NameBlocks(fs, s) = NameBlocks(fs, z)
<1>1. \A i \in 1..Len(fs) : fs[i] \in 0..MaxFiles
  BY FileNumbers
<1>2. MaxFiles \in Nat /\ Len(fs) \in Nat
  BY MemoryAssumption
<1>3. ASSUME NEW i \in 1..Len(fs)
      PROVE  {x \in 1..fs[i] : ~(i = Len(fs) /\ x > s)} = {x \in 1..fs[i] : ~(i = Len(fs) /\ x > z)}
  BY <1>1, <1>2
<1>4. ASSUME NEW i \in 1..Len(fs)
      PROVE  NamesOfDir(fs, s, i) = NamesOfDir(fs, z, i)
  BY <1>1, <1>2 DEF NamesOfDir
<1>5. NameBlocks(fs, s) = NameBlocks(fs, z)
  BY <1>3 DEF NameBlocks
<1>6. NamesOf(num, fs, s) = NamesOf(num, fs, z)
  BY <1>2, <1>4 DEF NamesOf
<1> QED BY <1>5, <1>6
-----------------------------------------------------------------------------
(* Frees.                                                                   *)

\* Freeing the pointers that stand in the places they are meant for, when they
\* are to blocks that are allocated.
LEMMA OwnIsSound ==
  ASSUME NEW P, NEW H, P \subseteq H
  PROVE  /\ {f[2] : f \in Own(P)} = P
         /\ ~ \E f \in Own(P) : f[2] \notin H \/ \E g \in Own(P) : g # f /\ g[2] = f[2]
<1>1. \A f \in Own(P) : f[2] \in P /\ f = <<f[2], f[2]>>
  BY DEF Own
<1>2. \A b \in P : <<b, b>> \in Own(P) /\ <<b, b>>[2] = b
  BY DEF Own
<1>3. {f[2] : f \in Own(P)} = P
  BY <1>1, <1>2
<1> QED BY <1>1, <1>3

LEMMA OwnUnion ==
  ASSUME NEW P, NEW Q
  PROVE  Own(P) \cup Own(Q) = Own(P \cup Q)
BY DEF Own

\* The first names, the only ones that free_list frees.
FirstBlocks(fs) == {FileName(i, 1) : i \in {d \in 1..Len(fs) : fs[d] > 0}}

LEMMA ParentsFreedAre ==
  ASSUME parents = ParentsOf(n)
  PROVE  ParentsFreed = Own(ParentBlocks(n))
<1>1. ASSUME NEW i \in 1..n
      PROVE  At(Parent(i), parents[i]) = {<<Parent(i), Parent(i)>>}
  BY BlocksAreBlocks DEF At, ParentsOf
<1>2. ParentsFreed = {<<Parent(i), Parent(i)>> : i \in 1..n}
  BY <1>1 DEF ParentsFreed
<1> QED BY <1>2 DEF Own, ParentBlocks

LEMMA NamesFreedAre ==
  ASSUME NEW s \in Nat \ {0}, FilledTo(s)
  PROVE  UNION {NamesFreed(i) : i \in 1..n} = Own(ChildBlocks(found) \cup FirstBlocks(found))
<1> DEFINE m == Len(found)
<1>1. /\ n \in Nat /\ m \in Nat /\ m <= n /\ MaxFiles \in Nat
      /\ \A i \in 1..m : found[i] \in 0..MaxFiles
  BY FileNumbers DEF FilledTo
<1>2. ASSUME NEW i \in 1..n, i > m
      PROVE  NamesFreed(i) = {}
  <2>1. counts[i] <= 0
    BY <1>1, <1>2 DEF FilledTo, CountsOf, Unset
  <2> QED BY <2>1 DEF NamesFreed
<1>3. ASSUME NEW i \in 1..m, found[i] = 0
      PROVE  NamesFreed(i) = {}
  <2>1. counts[i] <= 0
    BY <1>1, <1>3 DEF FilledTo, CountsOf
  <2> QED BY <2>1 DEF NamesFreed
<1>4. ASSUME NEW i \in 1..m, found[i] > 0
      PROVE  NamesFreed(i) = {<<FileName(i, 1), FileName(i, 1)>>, <<Child(i), Child(i)>>}
  <2>1. i \in 1..n /\ ~(i > m) /\ found[i] \in Nat /\ found[i] # 0
    BY <1>1, <1>4
  <2>2. ~(counts[i] <= 0)
    BY <1>4, <2>1 DEF FilledTo, CountsOf
  <2>3. children[i] = Child(i)
    BY <2>1 DEF FilledTo, ChildrenOf
  <2>4. 1 \in 1..found[i] /\ ~(1 > s)
    BY <1>4, <2>1
  <2>5. names[i] = NamesOfDir(found, s, i)
    BY <2>1 DEF FilledTo, NamesOf
  <2>6. names[i][1] = FileName(i, 1)
    BY <2>4, <2>5 DEF NamesOfDir
  <2>7. Null # Child(i) /\ Null # FileName(i, 1)
    BY BlocksAreBlocks
  <2> QED BY <2>2, <2>3, <2>6, <2>7 DEF NamesFreed, At
<1>5. ASSUME NEW p
      PROVE  p \in UNION {NamesFreed(i) : i \in 1..n}
               <=> \E i \in 1..m : found[i] > 0 /\ p \in {<<FileName(i, 1), FileName(i, 1)>>,
                                                           <<Child(i), Child(i)>>}
  <2>1. \A i \in 1..n : i > m \/ i \in 1..m
    BY <1>1
  <2>2. \A i \in 1..m : i \in 1..n /\ (found[i] > 0 \/ found[i] = 0)
    BY <1>1
  <2> QED BY <1>2, <1>3, <1>4, <2>1, <2>2
<1>6. ASSUME NEW p
      PROVE  p \in Own(ChildBlocks(found) \cup FirstBlocks(found))
               <=> \E i \in 1..m : found[i] > 0 /\ p \in {<<FileName(i, 1), FileName(i, 1)>>,
                                                           <<Child(i), Child(i)>>}
  BY DEF Own, ChildBlocks, FirstBlocks
<1> QED BY <1>5, <1>6
-----------------------------------------------------------------------------
(* The names that are left.                                                 *)

\* The blocks that the names of directory i point to.
LEMMA NamesInArrays ==
  ASSUME NEW num \in Nat, NEW fs \in Seq(0..MaxFiles), Len(fs) <= num, NEW s \in Nat
  PROVE  /\ \A i \in 1..num : i > Len(fs) => Range(NamesOf(num, fs, s)[i]) = {}
         /\ \A i \in 1..Len(fs) :
              Range(NamesOf(num, fs, s)[i]) \ {Wild}
                = {FileName(i, k) : k \in {x \in 1..fs[i] : ~(i = Len(fs) /\ x > s)}}
         /\ s >= MaxFiles => \A i \in 1..Len(fs) : Wild \notin Range(NamesOf(num, fs, s)[i])
<1>1. /\ Len(fs) \in Nat /\ MaxFiles \in Nat
      /\ \A i \in 1..Len(fs) : fs[i] \in 0..MaxFiles
  BY FileNumbers
<1>2. ASSUME NEW i \in 1..num, i > Len(fs)
      PROVE  Range(NamesOf(num, fs, s)[i]) = {}
  <2>1. NamesOf(num, fs, s)[i] = <<>>
    BY <1>2 DEF NamesOf
  <2> QED BY <2>1 DEF Range
<1>3. ASSUME NEW i \in 1..Len(fs)
      PROVE  /\ Range(NamesOf(num, fs, s)[i]) \ {Wild}
                  = {FileName(i, k) : k \in {x \in 1..fs[i] : ~(i = Len(fs) /\ x > s)}}
             /\ s >= MaxFiles => Wild \notin Range(NamesOf(num, fs, s)[i])
  <2> DEFINE f == NamesOfDir(fs, s, i)
  <2>1. i \in 1..num /\ ~(i > Len(fs))
    BY <1>1
  <2>2. NamesOf(num, fs, s)[i] = f
    BY <2>1 DEF NamesOf
  <2>3. /\ DOMAIN f = 1..fs[i]
        /\ \A k \in 1..fs[i] : f[k] = IF i = Len(fs) /\ k > s THEN Wild ELSE FileName(i, k)
    BY DEF NamesOfDir
  <2>4. \A k : FileName(i, k) # Wild
    BY BlocksAreBlocks
  <2> HIDE DEF f
  <2>5. Range(f) = {f[k] : k \in 1..fs[i]}
    BY <2>3 DEF Range
  <2>6. Range(f) \ {Wild} = {FileName(i, k) : k \in {x \in 1..fs[i] : ~(i = Len(fs) /\ x > s)}}
    BY <2>3, <2>4, <2>5
  <2>7. s >= MaxFiles => Wild \notin Range(f)
    <3>1. s >= MaxFiles => \A k \in 1..fs[i] : ~(k > s)
      BY <1>1
    <3> QED BY <3>1, <2>3, <2>4, <2>5
  <2> QED BY <2>2, <2>6, <2>7
<1> QED BY <1>2, <1>3

LEMMA NamesLeft ==
  ASSUME NEW num \in Nat, NEW fs \in Seq(0..MaxFiles), Len(fs) <= num, NEW s \in Nat
  PROVE  LET ns == NamesOf(num, fs, s)
         IN  /\ UNION {Range(ns[i]) \ {FileName(i, 1), Wild} : i \in 1..num}
                  = NameBlocks(fs, s) \ FirstBlocks(fs)
             /\ s >= MaxFiles => UNION {Range(ns[i]) : i \in 1..num} = NameBlocks(fs, s)
<1> DEFINE ns == NamesOf(num, fs, s)
           m == Len(fs)
           Of(i) == {FileName(i, k) : k \in {x \in 1..fs[i] : ~(i = m /\ x > s)}}
<1>1. m \in Nat /\ \A i \in 1..m : i \in 1..num
  OBVIOUS
<1>2. /\ \A i \in 1..num : i \in 1..m \/ Range(ns[i]) = {}
      /\ \A i \in 1..m : Range(ns[i]) \ {Wild} = Of(i)
      /\ s >= MaxFiles => \A i \in 1..m : Wild \notin Range(ns[i])
  <2>1. \A i \in 1..num : i > Len(fs) => Range(NamesOf(num, fs, s)[i]) = {}
    BY NamesInArrays
  <2>2. \A i \in 1..num : i \in 1..m \/ i > m
    BY <1>1
  <2>3. \A i \in 1..Len(fs) : Range(NamesOf(num, fs, s)[i]) \ {Wild} = Of(i)
    BY NamesInArrays
  <2>4. s >= MaxFiles => \A i \in 1..Len(fs) : Wild \notin Range(NamesOf(num, fs, s)[i])
    BY NamesInArrays
  <2> QED BY <2>1, <2>2, <2>3, <2>4
<1>3. NameBlocks(fs, s) = UNION {Of(i) : i \in 1..m}
  BY DEF NameBlocks
<1>4. ASSUME NEW i \in 1..m, NEW b \in Of(i)
      PROVE  b # FileName(i, 1) <=> b \notin FirstBlocks(fs)
  <2>1. PICK k \in 1..fs[i] : b = FileName(i, k)
    OBVIOUS
  <2>2. fs[i] \in Nat /\ (k \in 1..fs[i] => fs[i] > 0)
    BY FileNumbers
  <2>3. \A d : FileName(i, k) = FileName(d, 1) <=> i = d /\ k = 1
    BY BlocksDiffer
  <2> QED BY <2>1, <2>2, <2>3 DEF FirstBlocks
<1> HIDE DEF ns, Of, m
<1>5. UNION {Range(ns[i]) \ {FileName(i, 1), Wild} : i \in 1..num}
        = NameBlocks(fs, s) \ FirstBlocks(fs)
  <2>1. ASSUME NEW b
        PROVE  b \in UNION {Range(ns[i]) \ {FileName(i, 1), Wild} : i \in 1..num}
                 <=> \E i \in 1..m : b \in Of(i) /\ b # FileName(i, 1)
    <3>1. ASSUME NEW i \in 1..m
          PROVE  b \in Range(ns[i]) \ {FileName(i, 1), Wild} <=> b \in Of(i) /\ b # FileName(i, 1)
      BY <1>2
    <3>2. ASSUME NEW i \in 1..num, b \in Range(ns[i]) \ {FileName(i, 1), Wild}
          PROVE  i \in 1..m
      BY <1>2, <3>2
    <3> QED BY <1>1, <3>1, <3>2
  <2>2. ASSUME NEW b
        PROVE  b \in NameBlocks(fs, s) \ FirstBlocks(fs)
                 <=> \E i \in 1..m : b \in Of(i) /\ b # FileName(i, 1)
    BY <1>3, <1>4
  <2> QED BY <2>1, <2>2
<1>6. s >= MaxFiles => UNION {Range(ns[i]) : i \in 1..num} = NameBlocks(fs, s)
  <2>1. SUFFICES ASSUME s >= MaxFiles
                 PROVE  UNION {Range(ns[i]) : i \in 1..num} = NameBlocks(fs, s)
    OBVIOUS
  <2>2. \A i \in 1..m : Range(ns[i]) = Of(i)
    BY <1>2, <2>1
  <2>3. ASSUME NEW b
        PROVE  b \in UNION {Range(ns[i]) : i \in 1..num} <=> \E i \in 1..m : b \in Of(i)
    <3>1. ASSUME NEW i \in 1..num, b \in Range(ns[i])
          PROVE  i \in 1..m
      BY <1>2, <3>1
    <3> QED BY <1>1, <2>2, <3>1
  <2> QED BY <1>3, <2>3
<1> QED BY <1>5, <1>6 DEF ns
-----------------------------------------------------------------------------
(* The control.                                                             *)

\* Once a malloc has failed the builder is on its way out; and the first free
\* comes when it is over.
LEMMA ControlKept ==
  ASSUME MemoryInv, MemoryNext
  PROVE  /\ Control'
         /\ ~shortage' => ~shortage
<1> USE DEF MemoryInv, Control
<1>1. CASE ScanData
  BY <1>1 DEF ScanData
<1>2. CASE AllocParents
  <2>1. ~shortage /\ builder = "scan" /\ last = 0
    BY <1>2 DEF AllocParents, BeginShape, Shape
  <2>2. CASE pc' = "failed" /\ shortage'
    BY <1>2, <2>1, <2>2 DEF AllocParents
  <2>3. ASSUME NEW k \in 0..n, shortage' = (k < n), pc' = IF k = n THEN "children" ELSE "cleanup"
        PROVE  Control'
    <3>1. n \in Nat
      BY <1>2, <2>1 DEF AllocParents, BeginShape, Shape
    <3>2. CASE k = n
      <4>1. ~(k < n)
        BY <3>1, <3>2
      <4> QED BY <1>2, <2>1, <2>3, <3>2, <4>1 DEF AllocParents
    <3>3. CASE k # n
      BY <1>2, <2>1, <2>3, <3>3 DEF AllocParents
    <3> QED BY <3>2, <3>3
  <2> QED BY <1>2, <2>1, <2>2, <2>3 DEF AllocParents
<1>3. CASE AllocChildren
  <2>1. ~shortage /\ builder = "scan" /\ last = 0 /\ ~early
    BY <1>3 DEF AllocChildren, BeginShape, Shape
  <2>2. <<"counts">> \notin heap
    BY <1>3, <2>1 DEF AllocChildren, Shape, BeginShape, Scandirs, ParentBlocks, Entries, Parent
  <2>3. CASE pc' = "cleanup"
    BY <1>3, <2>1, <2>3 DEF AllocChildren
  <2>4. CASE pc' = "scan"
    <3>1. PICK allocated \in SUBSET {<<"counts">>} :
            /\ heap' = heap \cup {<<"children">>} \cup allocated
            /\ shortage' = (allocated = {})
      BY <1>3, <2>4 DEF AllocChildren
    <3>2. shortage' => <<"counts">> \notin heap'
      BY <2>2, <3>1
    <3> QED BY <1>3, <2>1, <2>4, <3>2 DEF AllocChildren
  <2> QED BY <1>3, <2>1, <2>3, <2>4 DEF AllocChildren
<1>4. CASE ScanFile
  BY <1>4 DEF ScanFile, historyVars
<1>5. CASE ScanEmptyDir
  BY <1>5 DEF ScanEmptyDir, AfterScan
<1>6. CASE ScanDir
  <2>1. MaxFiles \in Nat
    BY MemoryAssumption
  <2>2. ~shortage /\ builder = "scan" /\ ~early
    BY <1>6 DEF ScanDir
  <2>3. PICK c \in 1..MaxFiles :
          /\ last' = c
          /\ \/ shortage' /\ pc' = "cleanup"
             \/ \E k \in 0..c :
                  /\ shortage' = (k < c)
                  /\ pc' = IF k = c THEN AfterScan ELSE "cleanup"
    BY <1>6, Zenon DEF ScanDir
  <2>4. last' # -1 /\ UNCHANGED <<builder, early>>
    BY <1>6, <2>1, <2>3 DEF ScanDir
  <2>5. AfterScan \in {"listed", "scan"}
    BY DEF AfterScan
  <2>6. CASE shortage' /\ pc' = "cleanup"
    BY <2>2, <2>4, <2>6
  <2>7. ASSUME NEW k \in 0..c, shortage' = (k < c),
               pc' = IF k = c THEN AfterScan ELSE "cleanup"
        PROVE  Control'
    <3>1. CASE k = c
      <4>1. ~(k < c)
        BY <2>1, <3>1
      <4> QED BY <2>2, <2>4, <2>5, <2>7, <3>1, <4>1
    <3>2. CASE k # c
      BY <2>2, <2>4, <2>7, <3>2
    <3> QED BY <3>1, <3>2
  <2> QED BY <2>2, <2>3, <2>6, <2>7
<1>7. CASE ScanCrashes
  BY <1>7 DEF ScanCrashes, historyVars
<1>8. CASE Cleanup
  BY <1>8 DEF Cleanup
<1>9. CASE FreeList
  BY <1>9 DEF FreeList
<1>10. CASE RecvData
  <2>1. ~shortage /\ ~early /\ builder = "recv" /\ last # -1
    BY <1>10 DEF RecvData
  <2>2. UNCHANGED <<builder, last, early>>
    BY <1>10 DEF RecvData
  <2>3. CASE pc' = "failed"
    BY <2>1, <2>2, <2>3
  <2>4. ASSUME NEW z, shortage' = (z < 3), pc' = IF z = 3 THEN "names" ELSE "crashed"
        PROVE  Control'
    <3>1. CASE z = 3
      <4>1. ~(z < 3)
        BY <3>1
      <4> QED BY <2>1, <2>2, <2>4, <3>1, <4>1
    <3>2. CASE z # 3
      BY <2>1, <2>2, <2>4, <3>2
    <3> QED BY <3>1, <3>2
  <2> QED BY <1>10, <2>1, <2>3, <2>4 DEF RecvData
<1>11. CASE RecvParents
  BY <1>11 DEF RecvParents
<1>12. CASE RecvDir
  BY <1>12 DEF RecvDir, AfterRecv
<1>13. CASE RecvFile
  BY <1>13 DEF RecvFile, AfterRecv
<1>14. CASE RecvReturns
  BY <1>14 DEF RecvReturns
<1> QED BY <1>1, <1>2, <1>3, <1>4, <1>5, <1>6, <1>7, <1>8, <1>9, <1>10, <1>11, <1>12, <1>13,
           <1>14 DEF MemoryNext
-----------------------------------------------------------------------------
(* The shape of the list while get_list_info builds it.                     *)

LEMMA FilledAll ==
  ASSUME NEW S, NEW blocks \in Seq(S)
  PROVE  Filled(blocks, Len(blocks)) = blocks
<1>1. Len(blocks) \in Nat /\ blocks = [i \in 1..Len(blocks) |-> blocks[i]]
  BY LenProperties
<1>2. \A i \in 1..Len(blocks) : i <= Len(blocks)
  BY <1>1
<1> QED BY <1>1, <1>2 DEF Filled

LEMMA FilledParents ==
  ASSUME NEW c \in Nat
  PROVE  Filled([i \in 1..c |-> Parent(i)], c) = ParentsOf(c)
<1> DEFINE blocks == [i \in 1..c |-> Parent(i)]
<1>1. blocks \in Seq({Parent(i) : i \in 1..c}) /\ Len(blocks) = c
  OBVIOUS
<1> HIDE DEF blocks
<1>2. Filled(blocks, c) = blocks
  BY <1>1, FilledAll
<1> QED BY <1>2 DEF blocks, ParentsOf

LEMMA FilledNames ==
  ASSUME NEW c \in Nat, NEW j0
  PROVE  Filled([i \in 1..c |-> FileName(j0, i)], c) = [i \in 1..c |-> FileName(j0, i)]
<1> DEFINE blocks == [i \in 1..c |-> FileName(j0, i)]
<1>1. blocks \in Seq({FileName(j0, i) : i \in 1..c}) /\ Len(blocks) = c
  OBVIOUS
<1> HIDE DEF blocks
<1>2. Filled(blocks, c) = blocks
  BY <1>1, FilledAll
<1> QED BY <1>2 DEF blocks

\* The arrays before the first directory.
LEMMA NoDirs ==
  ASSUME NEW num, NEW none, NEW s
  PROVE  /\ ChildrenOf(num, <<>>, none) = [i \in 1..num |-> none]
         /\ CountsOf(num, <<>>, none) = [i \in 1..num |-> none]
         /\ NamesOf(num, <<>>, s) = [i \in 1..num |-> <<>>]
         /\ ChildBlocks(<<>>) = {} /\ NameBlocks(<<>>, s) = {}
<1>1. Len(<<>>) = 0 /\ 1..0 = {} /\ \A i \in 1..num : i > 0
  OBVIOUS
<1>2. ChildrenOf(num, <<>>, none) = [i \in 1..num |-> none]
  BY <1>1 DEF ChildrenOf
<1>3. CountsOf(num, <<>>, none) = [i \in 1..num |-> none]
  BY <1>1 DEF CountsOf
<1>4. NamesOf(num, <<>>, s) = [i \in 1..num |-> <<>>]
  BY <1>1 DEF NamesOf
<1>5. ChildBlocks(<<>>) = {} /\ NameBlocks(<<>>, s) = {}
  BY <1>1 DEF ChildBlocks, NameBlocks
<1> QED BY <1>2, <1>3, <1>4, <1>5

\* A directory is found, and s of its c files get their names.
LEMMA DirFound ==
  ASSUME FilledTo(MaxFiles), Len(found) < n,
         NEW c \in 0..MaxFiles, NEW s \in Nat, NEW m, m = Len(found) + 1,
         UNCHANGED <<n, builder, parents>>,
         found' = Append(found, c),
         children' = [children EXCEPT ![m] = IF c = 0 THEN Null ELSE Child(m)],
         counts' = [counts EXCEPT ![m] = c],
         names' = [names EXCEPT ![m] = NewNames(m, c, s)]
  PROVE  /\ FilledTo(s)' /\ Len(found') = m
         /\ Pointed(s)' = Pointed(MaxFiles) \cup (IF c = 0 THEN {} ELSE {Child(m)})
                            \cup NewBlocks(m, c, s)
<1>1. n \in Nat /\ found \in Seq(0..MaxFiles) /\ Len(found) \in Nat
  BY FileNumbers DEF FilledTo
<1> DEFINE gs == Append(found, c)
           child == IF builder = "scan" THEN Null ELSE Wild
           count == IF builder = "scan" THEN Unset ELSE 0
<1> HIDE DEF child, count
<1>2. /\ gs \in Seq(0..MaxFiles) /\ Len(gs) = m
      /\ ChildrenOf(n, gs, child)
           = [ChildrenOf(n, found, child) EXCEPT ![m] = IF c = 0 THEN Null ELSE Child(m)]
      /\ CountsOf(n, gs, count) = [CountsOf(n, found, count) EXCEPT ![m] = c]
      /\ ChildBlocks(gs) = ChildBlocks(found) \cup (IF c = 0 THEN {} ELSE {Child(m)})
  <2>1. ASSUME NEW none
        PROVE  LET l == Len(found) + 1
               IN  /\ gs \in Seq(0..MaxFiles) /\ Len(gs) = l
                   /\ ChildrenOf(n, gs, none)
                        = [ChildrenOf(n, found, none) EXCEPT ![l] = IF c = 0 THEN Null ELSE Child(l)]
                   /\ CountsOf(n, gs, none) = [CountsOf(n, found, none) EXCEPT ![l] = c]
                   /\ ChildBlocks(gs) = ChildBlocks(found) \cup (IF c = 0 THEN {} ELSE {Child(l)})
    BY <1>1, NextDir
  <2> QED BY <2>1
<1>3. /\ NamesOf(n, gs, s)
           = [NamesOf(n, found, MaxFiles) EXCEPT
                ![m] = NewNames(m, c, s)]
      /\ NameBlocks(gs, s)
           = NameBlocks(found, MaxFiles) \cup NewBlocks(m, c, s)
  <2>1. LET l == Len(found) + 1
        IN  /\ NamesOf(n, gs, s)
                 = [NamesOf(n, found, MaxFiles) EXCEPT
                      ![l] = NewNames(l, c, s)]
            /\ NameBlocks(gs, s)
                 = NameBlocks(found, MaxFiles) \cup NewBlocks(l, c, s)
    BY <1>1, NextDirNames
  <2> QED BY <2>1
<1>4. found' = gs /\ Len(gs) <= n
  BY <1>1, <1>2
<1> HIDE DEF gs
<1>5. FilledTo(s)'
  <2>1. children = ChildrenOf(n, found, child) /\ counts = CountsOf(n, found, count)
    BY DEF FilledTo, child, count
  <2>2. children' = ChildrenOf(n, gs, child) /\ counts' = CountsOf(n, gs, count)
    BY <1>2, <2>1
  <2>3. names' = NamesOf(n, gs, s)
    BY <1>3 DEF FilledTo
  <2>4. n \in 1..MaxDirs /\ parents = ParentsOf(n)
    BY DEF FilledTo
  <2> QED BY <1>2, <1>4, <2>2, <2>3, <2>4 DEF FilledTo, child, count
<1>6. Pointed(s)' = Pointed(MaxFiles) \cup (IF c = 0 THEN {} ELSE {Child(m)})
                      \cup NewBlocks(m, c, s)
  BY <1>2, <1>3, <1>4 DEF Pointed
<1> QED BY <1>2, <1>4, <1>5, <1>6

LEMMA ScanDataShape ==
  ASSUME MemoryInv, ScanData, ~shortage'
  PROVE  Shape'
<1>1. ~shortage /\ found = <<>> /\ j = 1 /\ last = 0
  BY DEF MemoryInv, Control, Shape, BeginShape, ScanData
<1>2. CASE pc' = "failed"
  BY <1>2 DEF Shape, BeginShape, BuildShape, EndShape
<1>3. CASE pc' = "parents"
  <2>1. n' \in 0..MaxDirs /\ n' # 0 /\ heap' = {<<"info">>, <<"dirp">>, Entries(0)}
    BY <1>3 DEF ScanData
  <2>2. n' \in 1..MaxDirs
    BY <2>1, MemoryAssumption
  <2>3. heap' = {<<"info">>} \cup Scandirs(0)
    <3>1. 0..0 = {0}
      OBVIOUS
    <3> QED BY <2>1, <3>1 DEF Scandirs
  <2>4. BeginShape'
    BY <1>1, <1>3, <2>2, <2>3 DEF BeginShape, ScanData
  <2> QED BY <1>3, <2>4 DEF Shape, BuildShape, EndShape
<1> QED BY <1>2, <1>3 DEF ScanData

LEMMA AllocParentsShape ==
  ASSUME MemoryInv, AllocParents, ~shortage'
  PROVE  Shape'
<1>1. /\ ~shortage /\ found = <<>> /\ j = 1 /\ last = 0 /\ n \in 1..MaxDirs
      /\ heap = {<<"info">>} \cup Scandirs(0)
  BY DEF MemoryInv, Control, Shape, BeginShape, AllocParents
<1>2. PICK k \in 0..n :
        /\ parents' = Filled([i \in 1..n |-> Parent(i)], k)
        /\ heap' = heap \cup {<<"parents">>} \cup {Parent(i) : i \in 1..k}
        /\ shortage' = (k < n)
        /\ pc' = IF k = n THEN "children" ELSE "cleanup"
  BY DEF AllocParents
<1>3. n \in Nat
  BY <1>1
<1>4. k = n
  <2>1. ~(k < n)
    BY <1>2, Zenon
  <2> QED BY <1>3, <2>1
<1>5. parents' = ParentsOf(n)
  BY <1>2, <1>3, <1>4, FilledParents
<1>6. heap' = {<<"info">>, <<"parents">>} \cup Scandirs(0) \cup ParentBlocks(n)
  BY <1>1, <1>2, <1>4 DEF ParentBlocks
<1>7. pc' = "children" /\ UNCHANGED <<n, found, j, last>>
  BY <1>2, <1>4 DEF AllocParents
<1>8. BeginShape'
  BY <1>1, <1>5, <1>6, <1>7 DEF BeginShape
<1> QED BY <1>7, <1>8 DEF Shape, BuildShape, EndShape

LEMMA AllocChildrenShape ==
  ASSUME MemoryInv, AllocChildren, ~shortage'
  PROVE  Shape'
<1>1. /\ ~shortage /\ found = <<>> /\ j = 1 /\ last = 0 /\ n \in 1..MaxDirs
      /\ parents = ParentsOf(n) /\ builder = "scan"
      /\ heap = {<<"info">>, <<"parents">>} \cup Scandirs(0) \cup ParentBlocks(n)
  BY DEF MemoryInv, Control, Shape, BeginShape, AllocChildren
<1>2. /\ heap' = heap \cup {<<"children">>} \cup {<<"counts">>}
      /\ children' = [i \in 1..n |-> Null]
      /\ names' = [i \in 1..n |-> <<>>]
      /\ counts' = [i \in 1..n |-> Unset]
      /\ pc' \in {"scan", "cleanup"}
  BY DEF AllocChildren
<1>3. UNCHANGED <<builder, n, j, parents, last, found>>
  BY DEF AllocChildren
<1>4. <<>> \in Seq(0..MaxFiles) /\ Len(<<>>) = 0 /\ 0 < n /\ 0 <= n /\ j = 0 + 1
  BY <1>1
<1>5. FilledTo(MaxFiles)'
  <2>1. /\ ChildrenOf(n, <<>>, Null) = [i \in 1..n |-> Null]
        /\ CountsOf(n, <<>>, Unset) = [i \in 1..n |-> Unset]
        /\ NamesOf(n, <<>>, MaxFiles) = [i \in 1..n |-> <<>>]
    BY NoDirs, ZenonT(60)
  <2> QED BY <1>1, <1>2, <1>3, <1>4, <2>1 DEF FilledTo
<1>6. heap' = Arrays \cup Around(builder', Len(found')) \cup Pointed(MaxFiles)'
  BY <1>1, <1>2, <1>3, <1>4, NoDirs DEF Arrays, Around, Pointed
<1> QED BY <1>1, <1>2, <1>3, <1>4, <1>5, <1>6 DEF Shape, BeginShape, BuildShape, EndShape, Built

\* After a directory get_list_info goes on or is done.
LEMMA ScanNext ==
  ASSUME Built(MaxFiles)', builder' = "scan", n' = n,
         j' = Len(found') + 1, pc' = AfterScan
  PROVE  Shape'
<1>1. Len(found') \in Nat /\ n' \in Nat /\ Len(found') <= n'
  BY DEF Built, FilledTo
<1>2. CASE Len(found') = n
  <2>1. pc' = "listed"
    BY <1>2 DEF AfterScan
  <2>2. heap' = Arrays \cup Scandirs(n') \cup Pointed(MaxFiles)'
    BY <1>2 DEF Built, Around
  <2> QED BY <1>2, <2>1, <2>2 DEF Shape, BeginShape, BuildShape, EndShape, Built
<1>3. CASE Len(found') # n
  <2>1. pc' = "scan"
    BY <1>3 DEF AfterScan
  <2> QED BY <1>1, <1>3, <2>1 DEF Shape, BeginShape, BuildShape, EndShape
<1> QED BY <1>2, <1>3

LEMMA ScanFileShape ==
  ASSUME MemoryInv, ScanFile, ~shortage'
  PROVE  Shape'
<1>1. Built(MaxFiles) /\ ~shortage
  BY DEF MemoryInv, Control, Shape, BuildShape, ScanFile, historyVars
<1>2. UNCHANGED <<builder, n, heap, parents, children, names, counts, found>>
  BY DEF ScanFile, arrayVars, historyVars
<1>3. Built(MaxFiles)'
  BY <1>1, <1>2 DEF Built, FilledTo, Pointed
<1>4. pc' = "cleanup" /\ last' = -1
  BY DEF ScanFile
<1> QED BY <1>3, <1>4 DEF Shape, BeginShape, BuildShape, EndShape

\* What scandir allocates for one more directory.
LEMMA NextScandir ==
  ASSUME NEW m \in Nat
  PROVE  Scandirs(m + 1) = Scandirs(m) \cup {Entries(m + 1)}
<1>1. 0..(m + 1) = (0..m) \cup {m + 1}
  OBVIOUS
<1> QED BY <1>1 DEF Scandirs

\* An entry of an array that is not reached yet.
LEMMA NotReached ==
  ASSUME FilledTo(MaxFiles), NEW m \in 1..n, m > Len(found)
  PROVE  /\ children[m] = IF builder = "scan" THEN Null ELSE Wild
         /\ counts[m] = IF builder = "scan" THEN Unset ELSE 0
         /\ names[m] = <<>>
         /\ names = [names EXCEPT ![m] = <<>>]
         /\ children = [children EXCEPT ![m] = children[m]]
         /\ counts = [counts EXCEPT ![m] = counts[m]]
BY DEF FilledTo, ChildrenOf, CountsOf, NamesOf

LEMMA ScanEmptyDirShape ==
  ASSUME MemoryInv, ScanEmptyDir, ~shortage'
  PROVE  Shape'
<1>1. Built(MaxFiles) /\ ~shortage /\ Len(found) < n /\ j = Len(found) + 1 /\ builder = "scan"
  BY DEF MemoryInv, Control, Shape, BuildShape, ScanEmptyDir
<1>2. /\ Len(found) \in Nat /\ n \in Nat /\ j \in 1..n /\ j > Len(found)
      /\ MaxFiles \in Nat /\ 0 \in 0..MaxFiles
  BY <1>1, FileNumbers DEF Built, FilledTo
<1>3. children = [children EXCEPT ![j] = Null] /\ names = [names EXCEPT ![j] = <<>>]
  BY <1>1, <1>2, NotReached DEF Built
<1>4. NewNames(j, 0, MaxFiles) = <<>> /\ NewBlocks(j, 0, MaxFiles) = {}
  <2>1. 1..0 = {}
    OBVIOUS
  <2> QED BY <2>1 DEF NewNames, NewBlocks
<1>5. /\ FilledTo(MaxFiles)' /\ Len(found') = j
      /\ Pointed(MaxFiles)' = Pointed(MaxFiles)
  <2>1. /\ found' = Append(found, 0)
        /\ counts' = [counts EXCEPT ![j] = 0]
        /\ UNCHANGED <<n, builder, parents, children, names>>
    BY DEF ScanEmptyDir
  <2>2. /\ FilledTo(MaxFiles)' /\ Len(found') = j
        /\ Pointed(MaxFiles)' = Pointed(MaxFiles) \cup (IF 0 = 0 THEN {} ELSE {Child(j)})
                                  \cup NewBlocks(j, 0, MaxFiles)
    BY <1>1, <1>2, <1>3, <1>4, <2>1, DirFound DEF Built
  <2> QED BY <1>4, <2>2
<1>6. heap' = heap \cup {Entries(Len(found) + 1)} /\ UNCHANGED builder
  BY DEF ScanEmptyDir
<1>7. heap' = Arrays \cup Scandirs(j) \cup Pointed(MaxFiles)
  BY <1>1, <1>2, <1>6, NextScandir DEF Built, Around
<1>8. Built(MaxFiles)'
  BY <1>1, <1>5, <1>6, <1>7 DEF Built, Around
<1>9. j' = Len(found') + 1 /\ pc' = AfterScan /\ n' = n
  BY <1>5 DEF ScanEmptyDir
<1> QED BY <1>1, <1>6, <1>8, <1>9, ScanNext

LEMMA ScanDirShape ==
  ASSUME MemoryInv, ScanDir, ~shortage'
  PROVE  Shape'
<1>1. Built(MaxFiles) /\ ~shortage /\ Len(found) < n /\ j = Len(found) + 1 /\ builder = "scan"
  BY DEF MemoryInv, Control, Shape, BuildShape, ScanDir
<1>2. /\ Len(found) \in Nat /\ n \in Nat /\ j \in 1..n /\ j > Len(found)
      /\ MaxFiles \in Nat
  BY <1>1, FileNumbers DEF Built, FilledTo
<1>3. PICK c \in 1..MaxFiles :
         /\ found' = Append(found, c)
         /\ counts' = [counts EXCEPT ![j] = c]
         /\ \E k \in 0..c :
              /\ children' = [children EXCEPT ![j] = Child(j)]
              /\ names' = [names EXCEPT ![j] = Filled([i \in 1..c |-> FileName(j, i)], k)]
              /\ heap' = heap \cup {Entries(Len(found')), Child(j)} \cup {FileName(j, i) : i \in 1..k}
              /\ shortage' = (k < c)
              /\ j' = IF k = c THEN j + 1 ELSE j
              /\ pc' = IF k = c THEN AfterScan ELSE "cleanup"
  BY DEF ScanDir
<1>4. PICK k \in 0..c :
        /\ children' = [children EXCEPT ![j] = Child(j)]
        /\ names' = [names EXCEPT ![j] = Filled([i \in 1..c |-> FileName(j, i)], k)]
        /\ heap' = heap \cup {Entries(Len(found')), Child(j)} \cup {FileName(j, i) : i \in 1..k}
        /\ shortage' = (k < c)
        /\ j' = IF k = c THEN j + 1 ELSE j
        /\ pc' = IF k = c THEN AfterScan ELSE "cleanup"
  BY <1>3
<1>5. k = c /\ c \in 0..MaxFiles /\ c \in Nat /\ c # 0
  <2>1. ~(k < c)
    BY <1>4, Zenon
  <2> QED BY <1>2, <2>1
<1>6. UNCHANGED <<builder, n, parents>>
  BY DEF ScanDir
<1>7. /\ Filled([i \in 1..c |-> FileName(j, i)], k) = NewNames(j, c, MaxFiles)
      /\ {FileName(j, i) : i \in 1..k} = NewBlocks(j, c, MaxFiles)
  <2>1. Filled([i \in 1..c |-> FileName(j, i)], c) = [i \in 1..c |-> FileName(j, i)]
    BY <1>5, FilledNames
  <2>2. \A x \in 1..c : ~(x > MaxFiles)
    BY <1>2, <1>5
  <2> QED BY <1>5, <2>1, <2>2 DEF NewNames, NewBlocks
<1>8. /\ FilledTo(MaxFiles)' /\ Len(found') = j
      /\ Pointed(MaxFiles)' = Pointed(MaxFiles) \cup {Child(j)} \cup NewBlocks(j, c, MaxFiles)
  <2>1. /\ children' = [children EXCEPT ![j] = IF c = 0 THEN Null ELSE Child(j)]
        /\ names' = [names EXCEPT ![j] = NewNames(j, c, MaxFiles)]
    BY <1>4, <1>5, <1>7
  <2>2. /\ FilledTo(MaxFiles)' /\ Len(found') = j
        /\ Pointed(MaxFiles)' = Pointed(MaxFiles) \cup (IF c = 0 THEN {} ELSE {Child(j)})
                                  \cup NewBlocks(j, c, MaxFiles)
    BY <1>1, <1>2, <1>3, <1>5, <1>6, <2>1, DirFound DEF Built
  <2> QED BY <1>5, <2>2
<1>9. heap' = Arrays \cup Scandirs(j) \cup Pointed(MaxFiles)'
  <2>1. heap = Arrays \cup Scandirs(Len(found)) \cup Pointed(MaxFiles)
    BY <1>1 DEF Built, Around
  <2>2. heap' = heap \cup {Entries(j), Child(j)} \cup NewBlocks(j, c, MaxFiles)
    BY <1>4, <1>7, <1>8
  <2>3. Scandirs(j) = Scandirs(Len(found)) \cup {Entries(j)}
    BY <1>1, <1>2, NextScandir
  <2> QED BY <1>8, <2>1, <2>2, <2>3
<1>10. Built(MaxFiles)'
  BY <1>1, <1>6, <1>8, <1>9 DEF Built, Around
<1>11. j' = Len(found') + 1 /\ pc' = AfterScan /\ builder' = "scan" /\ n' = n
  BY <1>1, <1>4, <1>5, <1>6, <1>8
<1> QED BY <1>10, <1>11, ScanNext
-----------------------------------------------------------------------------
(* The shape of the list while process_recv_list builds it.                 *)

LEMMA RecvDataShape ==
  ASSUME MemoryInv, RecvData, ~shortage'
  PROVE  Shape'
<1>1. ~shortage /\ found = <<>> /\ j = 1 /\ last = 0
  BY DEF MemoryInv, Control, Shape, BeginShape, RecvData
<1>2. CASE pc' = "failed"
  BY <1>2 DEF Shape, BeginShape, BuildShape, EndShape
<1>3. ASSUME NEW arrays \in SUBSET {<<"parents">>, <<"children">>, <<"counts">>},
             n' \in 1..MaxDirs,
             heap' = {<<"data">>, <<"info">>} \cup arrays,
             shortage' = (Cardinality(arrays) < 3),
             pc' = IF Cardinality(arrays) = 3 THEN "names" ELSE "crashed",
             UNCHANGED <<j, last, found>>
      PROVE  Shape'
  <2>1. CASE Cardinality(arrays) = 3
    <3>1. arrays = {<<"parents">>, <<"children">>, <<"counts">>}
      <4> DEFINE two == {<<"parents">>, <<"children">>}
                 all == two \cup {<<"counts">>}
      <4>1. IsFiniteSet(two) /\ Cardinality(two) \in Nat /\ Cardinality(two) <= 2
        <5>1. IsFiniteSet({<<"parents">>}) /\ Cardinality({<<"parents">>}) = 1
          BY FS_Singleton
        <5>2. two = {<<"parents">>} \cup {<<"children">>}
          OBVIOUS
        <5> QED BY <5>1, <5>2, FS_AddElement
      <4>2. IsFiniteSet(all) /\ Cardinality(all) \in Nat /\ Cardinality(all) <= 3
        <5> HIDE DEF two
        <5>1. /\ IsFiniteSet(all)
              /\ Cardinality(all) = IF <<"counts">> \in two THEN Cardinality(two)
                                    ELSE Cardinality(two) + 1
          BY <4>1, FS_AddElement
        <5> HIDE DEF all
        <5> QED BY <4>1, <5>1
      <4>3. arrays \in SUBSET all
        OBVIOUS
      <4> HIDE DEF all
      <4>4. Cardinality(arrays) <= Cardinality(all)
            /\ (Cardinality(arrays) = Cardinality(all) => arrays = all)
        BY <4>2, <4>3, FS_Subset
      <4>5. arrays = all
        BY <2>1, <4>2, <4>4
      <4> QED BY <4>5 DEF all
    <3>2. heap' = Arrays \cup {<<"data">>}
      BY <1>3, <3>1 DEF Arrays
    <3>3. pc' = "names"
      BY <1>3, <2>1
    <3>4. BeginShape'
      BY <1>1, <1>3, <3>2, <3>3 DEF BeginShape
    <3> QED BY <3>3, <3>4 DEF Shape, BuildShape, EndShape
  <2>2. CASE Cardinality(arrays) # 3
    BY <1>3, <2>2 DEF Shape, BeginShape, BuildShape, EndShape
  <2> QED BY <2>1, <2>2
<1> QED BY <1>2, <1>3 DEF RecvData

LEMMA RecvParentsShape ==
  ASSUME MemoryInv, RecvParents, ~shortage'
  PROVE  Shape'
<1>1. /\ ~shortage /\ found = <<>> /\ j = 1 /\ n \in 1..MaxDirs /\ builder = "recv"
      /\ heap = Arrays \cup {<<"data">>}
  BY DEF MemoryInv, Control, Shape, BeginShape, RecvParents
<1>2. PICK k \in 0..n, buffer \in SUBSET {<<"child_data">>} :
        /\ parents' = Filled([i \in 1..n |-> Parent(i)], k)
        /\ heap' = heap \cup {Parent(i) : i \in 1..k} \cup buffer
        /\ shortage' = (k < n \/ buffer = {})
        /\ pc' = IF k < n THEN "crashed" ELSE IF buffer = {} THEN "failed" ELSE "dir"
  BY DEF RecvParents
<1>3. n \in Nat
  BY <1>1
<1>4. k = n /\ buffer = {<<"child_data">>} /\ ~(k < n) /\ buffer # {}
  <2>1. ~(k < n) /\ buffer # {}
    BY <1>2, Zenon
  <2> QED BY <1>3, <2>1
<1>5. /\ children' = [i \in 1..n |-> Wild]
      /\ names' = [i \in 1..n |-> <<>>]
      /\ counts' = [i \in 1..n |-> 0]
      /\ UNCHANGED <<builder, n, j, found>>
  BY DEF RecvParents
<1>6. <<>> \in Seq(0..MaxFiles) /\ Len(<<>>) = 0 /\ 0 < n /\ 0 <= n /\ j = 0 + 1
  BY <1>1
<1>7. FilledTo(MaxFiles)'
  <2>1. /\ ChildrenOf(n, <<>>, Wild) = [i \in 1..n |-> Wild]
        /\ CountsOf(n, <<>>, 0) = [i \in 1..n |-> 0]
        /\ NamesOf(n, <<>>, MaxFiles) = [i \in 1..n |-> <<>>]
    BY NoDirs, ZenonT(60)
  <2>2. parents' = ParentsOf(n)
    BY <1>2, <1>3, <1>4, FilledParents
  <2> QED BY <1>1, <1>5, <1>6, <2>1, <2>2 DEF FilledTo
<1>8. heap' = Arrays \cup Around(builder', Len(found')) \cup Pointed(MaxFiles)'
  BY <1>1, <1>2, <1>4, <1>5, NoDirs DEF Around, Buffers, Pointed, ParentBlocks
<1>9. pc' = "dir"
  BY <1>2, <1>4
<1> QED BY <1>1, <1>5, <1>6, <1>7, <1>8, <1>9 DEF Shape, BeginShape, BuildShape, EndShape, Built

\* When every name of the last directory has come, the next one is due or the
\* list is complete.
LEMMA RecvNext ==
  ASSUME Built(MaxFiles)', n' = n, NEW i, Len(found') = i, j' = i + 1,
         pc' = AfterRecv(i, FALSE)
  PROVE  Shape'
<1>1. i \in Nat /\ n \in Nat /\ i <= n
  BY DEF Built, FilledTo
<1>2. CASE i < n
  BY <1>2 DEF AfterRecv, Shape, BeginShape, BuildShape, EndShape
<1>3. CASE ~(i < n)
  <2>1. i = n /\ pc' = "returns"
    BY <1>1, <1>3 DEF AfterRecv
  <2> QED BY <2>1 DEF Shape, BeginShape, BuildShape, EndShape
<1> QED BY <1>2, <1>3

\* Built does not tell numbers apart that are past the last name.
LEMMA BuiltAll ==
  ASSUME NEW s \in Nat, NEW z \in Nat, Built(s),
         Len(found) > 0 => found[Len(found)] <= s /\ found[Len(found)] <= z
  PROVE  Built(z)
<1>1. n \in Nat /\ found \in Seq(0..MaxFiles)
  BY DEF Built, FilledTo
<1>2. NamesOf(n, found, s) = NamesOf(n, found, z) /\ NameBlocks(found, s) = NameBlocks(found, z)
  BY <1>1, AllNames
<1> QED BY <1>2 DEF Built, FilledTo, Pointed

LEMMA BuiltKept ==
  ASSUME NEW s, Built(s), UNCHANGED <<builder, n, heap, parents, children, names, counts, found>>
  PROVE  Built(s)'
BY DEF Built, FilledTo, Pointed

LEMMA RecvDirShape ==
  ASSUME MemoryInv, RecvDir, ~shortage'
  PROVE  Shape'
<1>1. Built(MaxFiles) /\ ~shortage /\ Len(found) < n /\ j = Len(found) + 1 /\ builder = "recv"
  BY DEF MemoryInv, Control, Shape, BuildShape, RecvDir
<1>2. /\ Len(found) \in Nat /\ n \in Nat /\ j \in 1..n /\ j > Len(found)
      /\ MaxFiles \in Nat /\ 0 \in 0..MaxFiles
      /\ Len(found) > 0 => found[Len(found)] <= MaxFiles
  BY <1>1, FileNumbers DEF Built, FilledTo
<1>3. counts = [counts EXCEPT ![j] = 0] /\ names = [names EXCEPT ![j] = <<>>]
  BY <1>1, <1>2, NotReached DEF Built
<1>4. UNCHANGED <<builder, n, parents>>
  BY DEF RecvDir
<1>5. CASE pc' = "release" /\ UNCHANGED <<heap, children, names, counts, found>>
  <2>1. Built(MaxFiles + 1)
    <3>1. Len(found) > 0 => found[Len(found)] \in 0..MaxFiles
      BY <1>1, <1>2, FileNumbers DEF Built, FilledTo
    <3>2. /\ MaxFiles + 1 \in Nat
          /\ Len(found) > 0 => found[Len(found)] <= MaxFiles /\ found[Len(found)] <= MaxFiles + 1
      BY <1>2, <3>1
    <3> QED BY <1>1, <1>2, <3>2, BuiltAll
  <2>2. Built(MaxFiles + 1)'
    BY <1>4, <1>5, <2>1, BuiltKept
  <2>3. MaxFiles + 1 \in 1..(MaxFiles + 1)
    BY <1>2
  <2> QED BY <1>5, <2>2, <2>3 DEF Shape, BeginShape, BuildShape, EndShape
<1>6. ASSUME found' = Append(found, 0),
             children' = [children EXCEPT ![j] = Null],
             j' = j + 1,
             pc' = AfterRecv(j, FALSE),
             UNCHANGED <<heap, names, counts>>
      PROVE  Shape'
  <2>1. NewNames(j, 0, MaxFiles) = <<>> /\ NewBlocks(j, 0, MaxFiles) = {}
    <3>1. 1..0 = {}
      OBVIOUS
    <3> QED BY <3>1 DEF NewNames, NewBlocks
  <2>2. /\ FilledTo(MaxFiles)' /\ Len(found') = j
        /\ Pointed(MaxFiles)' = Pointed(MaxFiles) \cup (IF 0 = 0 THEN {} ELSE {Child(j)})
                                  \cup NewBlocks(j, 0, MaxFiles)
    BY <1>1, <1>2, <1>3, <1>4, <1>6, <2>1, DirFound DEF Built
  <2>3. Pointed(MaxFiles)' = Pointed(MaxFiles)
    BY <2>1, <2>2
  <2>4. Built(MaxFiles)'
    BY <1>1, <1>4, <1>6, <2>2, <2>3 DEF Built, Around
  <2> QED BY <1>4, <1>6, <2>2, <2>4, RecvNext
<1>7. ASSUME NEW c \in 1..MaxFiles,
             found' = Append(found, c),
             counts' = [counts EXCEPT ![j] = c],
             children' = [children EXCEPT ![j] = Child(j)],
             names' = [names EXCEPT ![j] = [i \in 1..c |-> Wild]],
             heap' = heap \cup {Child(j)},
             pc' = AfterRecv(j, TRUE),
             UNCHANGED j
      PROVE  Shape'
  <2>1. c \in 0..MaxFiles /\ c \in Nat /\ c # 0 /\ 0 \in Nat
    BY <1>2
  <2>2. NewNames(j, c, 0) = [i \in 1..c |-> Wild] /\ NewBlocks(j, c, 0) = {}
    BY <2>1 DEF NewNames, NewBlocks
  <2>3. children' = [children EXCEPT ![j] = IF c = 0 THEN Null ELSE Child(j)]
    BY <1>7, <2>1
  <2>4. /\ FilledTo(0)' /\ Len(found') = j
        /\ Pointed(0)' = Pointed(MaxFiles) \cup (IF c = 0 THEN {} ELSE {Child(j)})
                           \cup NewBlocks(j, c, 0)
    BY <1>1, <1>2, <1>4, <1>7, <2>1, <2>2, <2>3, DirFound DEF Built
  <2>5. Pointed(0)' = Pointed(MaxFiles) \cup {Child(j)}
    BY <2>1, <2>2, <2>4
  <2>6. Built(0)'
    BY <1>1, <1>4, <1>7, <2>4, <2>5 DEF Built, Around
  <2>7. found'[j'] = c
    BY <1>1, <1>7, <2>1, AppendProperties DEF Built, FilledTo
  <2>8. 0 \in 0..(found'[j'] - 1) /\ j' = Len(found') /\ j' > 0
    BY <1>2, <1>7, <2>1, <2>4, <2>7
  <2>9. pc' = "file"
    BY <1>7 DEF AfterRecv
  <2>10. BuildShape'
    BY <2>6, <2>8, <2>9 DEF BuildShape
  <2> QED BY <2>9, <2>10 DEF Shape, BeginShape, EndShape
<1> QED BY <1>1, <1>5, <1>6, <1>7 DEF RecvDir

\* The next name is found by counting those that are set.
LEMMA NamesSetAre ==
  ASSUME NEW s \in Nat, FilledTo(s), j = Len(found), j > 0, s < found[j]
  PROVE  NamesSet = s
<1>1. j \in Nat /\ j \in 1..n /\ j \in 1..j /\ ~(j > Len(found)) /\ found[j] \in 0..MaxFiles
  BY FileNumbers DEF FilledTo
<1>2. counts[j] = found[j]
  BY <1>1 DEF FilledTo, CountsOf
<1>3. names[j] = NamesOfDir(found, s, j)
  BY <1>1 DEF FilledTo, NamesOf
<1>4. \A i \in 1..found[j] : names[j][i] # Wild <=> i <= s
  <2>1. \A i : FileName(j, i) # Wild
    BY BlocksAreBlocks
  <2> QED BY <1>1, <1>3, <2>1 DEF NamesOfDir
<1>5. {i \in 1..counts[j] : names[j][i] # Wild} = 1..s
  BY <1>1, <1>2, <1>4
<1>6. Cardinality(1..s) = s
  <2>1. 1 \in Int /\ s \in Int
    OBVIOUS
  <2>2. Cardinality(1..s) = IF 1 > s THEN 0 ELSE s - 1 + 1
    BY <2>1, FS_Interval
  <2> QED BY <2>2
<1> QED BY <1>5, <1>6 DEF NamesSet

LEMMA RecvFileShape ==
  ASSUME MemoryInv, RecvFile, ~shortage'
  PROVE  Shape'
<1>1. ~shortage /\ j = Len(found) /\ j > 0 /\ builder = "recv"
  BY DEF MemoryInv, Control, Shape, BuildShape, RecvFile
<1>2. PICK s \in 0..(found[j] - 1) : Built(s)
  BY <1>1 DEF MemoryInv, Shape, BuildShape, RecvFile
<1>3. /\ n \in Nat /\ j \in Nat /\ j \in 1..n /\ j \in 1..j /\ ~(j > Len(found))
      /\ found \in Seq(0..MaxFiles) /\ found[j] \in 0..MaxFiles /\ MaxFiles \in Nat
  BY <1>1, <1>2, FileNumbers DEF Built, FilledTo
<1>4. s \in Nat /\ s + 1 \in Nat /\ s < found[j] /\ s + 1 <= MaxFiles
  BY <1>2, <1>3
<1>5. NamesSet = s
  BY <1>1, <1>2, <1>4, NamesSetAre DEF Built
<1>6. counts[j] = found[j]
  BY <1>2, <1>3 DEF Built, FilledTo, CountsOf
<1>7. UNCHANGED <<builder, n, parents, children, counts, found>>
  BY DEF RecvFile
<1>8. CASE pc' = "release" /\ early' = (s + 1 = 1) /\ UNCHANGED <<j, heap, names>>
  <2>1. Built(s)'
    BY <1>2, <1>7, <1>8, BuiltKept
  <2>2. ~early' => s \in 1..(MaxFiles + 1)
    <3>1. ~early' => s + 1 # 1
      BY <1>8, Zenon
    <3>2. s + 1 # 1 => s \in 1..(MaxFiles + 1)
      BY <1>3, <1>4
    <3> QED BY <3>1, <3>2
  <2> QED BY <1>8, <2>1, <2>2 DEF Shape, BeginShape, BuildShape, EndShape
<1>9. ASSUME names' = [names EXCEPT ![j][s + 1] = FileName(j, s + 1)],
             heap' = heap \cup {FileName(j, s + 1)},
             pc' = AfterRecv(j, s + 1 < counts[j]),
             j' = IF s + 1 < counts[j] THEN j ELSE j + 1
      PROVE  Shape'
  <2>1. /\ NamesOf(n, found, s + 1) = [NamesOf(n, found, s) EXCEPT ![j][s + 1] = FileName(j, s + 1)]
        /\ NameBlocks(found, s + 1) = NameBlocks(found, s) \cup {FileName(j, s + 1)}
    <3>1. LET m == Len(found)
          IN  /\ NamesOf(n, found, s + 1)
                   = [NamesOf(n, found, s) EXCEPT ![m][s + 1] = FileName(m, s + 1)]
              /\ NameBlocks(found, s + 1) = NameBlocks(found, s) \cup {FileName(m, s + 1)}
      BY <1>1, <1>3, <1>4, NextName
    <3> QED BY <1>1, <3>1
  <2>2. names' = NamesOf(n, found, s + 1)
    BY <1>2, <1>9, <2>1 DEF Built, FilledTo
  <2>3. heap' = Arrays \cup Buffers \cup ParentBlocks(n) \cup ChildBlocks(found)
                  \cup NameBlocks(found, s + 1)
    BY <1>1, <1>2, <1>9, <2>1 DEF Built, Around, Pointed
  <2>4. CASE s + 1 < found[j]
    <3>1. Built(s + 1)'
      BY <1>1, <1>2, <1>7, <2>2, <2>3 DEF Built, FilledTo, Around, Pointed
    <3>2. pc' = "file" /\ j' = j
      BY <1>6, <1>9, <2>4 DEF AfterRecv
    <3>3. s + 1 \in 0..(found'[j'] - 1)
      BY <1>3, <1>4, <1>7, <2>4, <3>2
    <3>4. BuildShape'
      BY <1>1, <1>7, <3>1, <3>2, <3>3 DEF BuildShape
    <3> QED BY <3>2, <3>4 DEF Shape, BeginShape, EndShape
  <2>5. CASE ~(s + 1 < found[j])
    <3>1. found[j] <= s + 1 /\ found[j] <= MaxFiles
      BY <1>3, <1>4, <2>5
    <3>2. /\ NamesOf(n, found, s + 1) = NamesOf(n, found, MaxFiles)
          /\ NameBlocks(found, s + 1) = NameBlocks(found, MaxFiles)
      BY <1>1, <1>3, <1>4, <3>1, AllNames
    <3>3. Built(MaxFiles)'
      BY <1>1, <1>2, <1>7, <2>2, <2>3, <3>2 DEF Built, FilledTo, Around, Pointed
    <3>4. j' = j + 1 /\ pc' = AfterRecv(j, FALSE)
      BY <1>6, <1>9, <2>5 DEF AfterRecv
    <3> QED BY <1>1, <1>7, <3>3, <3>4, RecvNext
  <2> QED BY <2>4, <2>5
<1> QED BY <1>1, <1>5, <1>8, <1>9 DEF RecvFile
-----------------------------------------------------------------------------
(* The release of the list.                                                 *)

\* Variables that point to their own blocks, all of which are allocated.
LEMMA FreeOwn ==
  ASSUME NEW P, P \subseteq heap, Free(Own(P))
  PROVE  heap' = heap \ P /\ (bad' => bad)
<1>1. /\ {f[2] : f \in Own(P)} = P
      /\ ~ \E f \in Own(P) : f[2] \notin heap \/ \E g \in Own(P) : g # f /\ g[2] = f[2]
  BY OwnIsSound
<1> QED BY <1>1 DEF Free

LEMMA CleanupKeeps ==
  ASSUME MemoryInv, Cleanup
  PROVE  FreesAreSound' /\ OnlyTheseStay' /\ Shape'
<1>1. pc = "cleanup" /\ pc' = "failed" /\ ~early /\ builder = "scan"
  BY DEF Cleanup, MemoryInv, Control
<1>2. UNCHANGED <<builder, n, parents, children, names, counts, last, found, shortage, early>>
  BY DEF Cleanup, arrayVars
<1>3. Shape'
  BY <1>1 DEF Shape, BeginShape, BuildShape, EndShape
<1>4. ASSUME ~shortage
      PROVE  /\ bad' => bad
             /\ heap' = {<<"info">>, <<"counts">>} \cup {Entries(i) : i \in 0..Len(found)}
                          \cup ChildBlocks(found) \cup NameBlocks(found, MaxFiles)
  <2> DEFINE P == ParentBlocks(n) \cup {<<"parents">>, <<"dirp">>} \cup {<<"children">>}
  <2>1. Built(MaxFiles) /\ last \in {0, -1}
    BY <1>1, <1>4 DEF MemoryInv, Shape, EndShape
  <2>2. heap = Arrays \cup Scandirs(Len(found)) \cup ParentBlocks(n) \cup ChildBlocks(found)
                 \cup NameBlocks(found, MaxFiles)
    BY <1>1, <2>1 DEF Built, Around, Pointed
  <2>3. ASSUME NEW beyond
        PROVE  DirsFreed(beyond) = Own({<<"children">>})
    <3>1. 1..last = {}
      BY <2>1
    <3>2. <<"children">> \in heap
      BY <2>2 DEF Arrays
    <3>3. {DirFreed(i, beyond) : i \in 1..last} = {}
      BY <3>1
    <3>4. UNION {DirFreed(i, beyond) : i \in 1..last} = {}
      BY <3>3
    <3>5. DirsFreed(beyond)
            = (UNION {DirFreed(i, beyond) : i \in 1..last}) \cup Own({<<"children">>})
      BY <3>2, Zenon DEF DirsFreed
    <3> HIDE DEF P
    <3> QED BY <3>4, <3>5
  <2>4. ParentsFreed = Own(ParentBlocks(n))
    BY <2>1, ParentsFreedAre DEF Built, FilledTo
  <2>5. Free(Own(P))
    <3>1. PICK beyond \in {Null, Wild} :
            Free(ParentsFreed \cup Own({<<"parents">>, <<"dirp">>}) \cup DirsFreed(beyond))
      BY DEF Cleanup
    <3>2. ParentsFreed \cup Own({<<"parents">>, <<"dirp">>}) \cup DirsFreed(beyond) = Own(P)
      <4>1. Own(ParentBlocks(n)) \cup Own({<<"parents">>, <<"dirp">>})
              = Own(ParentBlocks(n) \cup {<<"parents">>, <<"dirp">>})
        BY OwnUnion
      <4>2. Own(ParentBlocks(n) \cup {<<"parents">>, <<"dirp">>}) \cup Own({<<"children">>}) = Own(P)
        BY OwnUnion
      <4>3. DirsFreed(beyond) = Own({<<"children">>})
        BY <2>3
      <4> HIDE DEF P
      <4> QED BY <2>4, <4>1, <4>2, <4>3, Zenon
    <3> QED BY <3>1, <3>2
  <2>6. P \subseteq heap
    BY <2>2 DEF Arrays, Scandirs
  <2>7. heap' = heap \ P /\ (bad' => bad)
    <3> HIDE DEF P
    <3> QED BY <2>5, <2>6, FreeOwn
  <2>8. /\ \A b \in {<<"info">>, <<"counts">>} : b \notin P
        /\ \A i : Entries(i) \notin P
        /\ \A i : Child(i) \notin P
        /\ \A i, k : FileName(i, k) \notin P
    BY DEF ParentBlocks, Parent, Child, FileName, Entries
  <2>9. /\ \A b \in ChildBlocks(found) \cup NameBlocks(found, MaxFiles) : b \notin P
    <3> HIDE DEF P
    <3> QED BY <2>8 DEF ChildBlocks, NameBlocks
  <2>10. {<<"parents">>, <<"children">>, <<"dirp">>} \cup ParentBlocks(n) = P
    OBVIOUS
  <2> HIDE DEF P
  <2> QED BY <2>2, <2>7, <2>8, <2>9, <2>10 DEF Arrays, Scandirs
<1>5. FreesAreSound'
  BY <1>1, <1>2, <1>4 DEF MemoryInv, FreesAreSound
<1>6. OnlyTheseStay'
  <2>1. SUFFICES ASSUME ~shortage
                 PROVE  heap' = {<<"info">>, <<"counts">>} \cup {Entries(i) : i \in 0..Len(found)}
                                  \cup {Child(i) : i \in {d \in 1..Len(found) : found[d] > 0}}
                                  \cup UNION {Range(names[i]) : i \in 1..n}
    BY <1>1, <1>2 DEF OnlyTheseStay
  <2>2. FilledTo(MaxFiles)
    BY <1>1, <2>1 DEF MemoryInv, Shape, EndShape, Built
  <2>3. UNION {Range(names[i]) : i \in 1..n} = NameBlocks(found, MaxFiles)
    <3>1. MaxFiles \in Nat /\ MaxFiles >= MaxFiles /\ n \in Nat /\ found \in Seq(0..MaxFiles)
          /\ Len(found) <= n /\ names = NamesOf(n, found, MaxFiles)
      BY <2>2, MemoryAssumption DEF FilledTo
    <3> QED BY <3>1, NamesLeft
  <2> QED BY <1>4, <2>1, <2>3 DEF ChildBlocks
<1> QED BY <1>3, <1>5, <1>6

\* What free_list finds: the list is complete, or process_recv_list gives it up
\* with a directory's first name set.
LEMMA FreeListFinds ==
  ASSUME MemoryInv, FreeList, ~shortage, ~early
  PROVE  \E s \in Nat \ {0} :
           /\ FilledTo(s)
           /\ heap = Arrays \cup Pointed(s)
                       \cup (IF pc = "listed" THEN IF builder = "scan" THEN Scandirs(n) ELSE {}
                             ELSE Buffers)
           /\ pc = "listed" \/ (pc = "release" /\ builder = "recv")
<1>1. CASE pc = "release"
  <2>1. PICK s \in 1..(MaxFiles + 1) : Built(s)
    BY <1>1 DEF MemoryInv, Shape, EndShape
  <2>2. s \in Nat \ {0} /\ builder = "recv" /\ pc # "listed"
    BY <1>1, MemoryAssumption DEF MemoryInv, Control
  <2> QED BY <1>1, <2>1, <2>2 DEF Built, Around
<1>2. CASE pc = "listed"
  <2>1. /\ FilledTo(MaxFiles)
        /\ heap = Arrays \cup (IF builder = "scan" THEN Scandirs(n) ELSE {}) \cup Pointed(MaxFiles)
    BY <1>2 DEF MemoryInv, Shape, EndShape
  <2>2. n \in Nat /\ found \in Seq(0..MaxFiles) /\ MaxFiles \in Nat /\ MaxFiles + 1 \in Nat \ {0}
    BY <2>1, MemoryAssumption DEF FilledTo
  <2>3. Len(found) > 0 => found[Len(found)] <= MaxFiles /\ found[Len(found)] <= MaxFiles + 1
    BY <2>2, FileNumbers
  <2>4. /\ NamesOf(n, found, MaxFiles) = NamesOf(n, found, MaxFiles + 1)
        /\ NameBlocks(found, MaxFiles) = NameBlocks(found, MaxFiles + 1)
    BY <2>2, <2>3, AllNames
  <2>5. FilledTo(MaxFiles + 1) /\ Pointed(MaxFiles) = Pointed(MaxFiles + 1)
    BY <2>1, <2>4 DEF FilledTo, Pointed
  <2> QED BY <1>2, <2>1, <2>2, <2>5
<1> QED BY <1>1, <1>2 DEF FreeList

LEMMA FreeListKeeps ==
  ASSUME MemoryInv, FreeList
  PROVE  FreesAreSound' /\ OnlyTheseStay' /\ Shape'
<1>1. pc \in {"listed", "release"} /\ pc' = "freed"
  BY DEF FreeList
<1>2. UNCHANGED <<builder, n, parents, children, names, counts, last, found, shortage, early>>
  BY DEF FreeList, arrayVars
<1>3. Shape'
  BY <1>1 DEF Shape, BeginShape, BuildShape, EndShape
<1>4. ASSUME ~shortage, ~early
      PROVE  /\ bad' => bad
             /\ heap' = (UNION {LaterNames(i) : i \in 1..n})
                        \cup (IF builder = "recv" THEN {}
                              ELSE {<<"dirp">>} \cup {Entries(i) : i \in 0..n})
  <2> DEFINE Extra == IF pc = "listed" THEN {} ELSE Buffers
             Rest == IF builder = "recv" THEN {} ELSE Scandirs(n)
             P == ParentBlocks(n) \cup (ChildBlocks(found) \cup FirstBlocks(found))
                    \cup Arrays \cup Extra
  <2>1. PICK s \in Nat \ {0} :
          /\ FilledTo(s)
          /\ heap = Arrays \cup Pointed(s)
                      \cup (IF pc = "listed" THEN IF builder = "scan" THEN Scandirs(n) ELSE {}
                            ELSE Buffers)
          /\ pc = "listed" \/ (pc = "release" /\ builder = "recv")
    BY <1>4, FreeListFinds
  <2>2. heap = Arrays \cup ParentBlocks(n) \cup ChildBlocks(found) \cup NameBlocks(found, s)
                 \cup Extra \cup Rest
    <3>1. builder \in {"scan", "recv"}
      BY DEF MemoryInv, Control
    <3>2. CASE pc = "listed"
      BY <2>1, <3>1, <3>2 DEF Pointed
    <3>3. CASE pc # "listed"
      BY <2>1, <3>1, <3>3 DEF Pointed
    <3> QED BY <3>2, <3>3
  <2>3. Free(Own(P))
    <3>1. Free(ParentsFreed \cup (UNION {NamesFreed(i) : i \in 1..n})
                 \cup Own({<<"parents">>, <<"children">>, <<"counts">>, <<"info">>})
                 \cup (IF pc = "listed" THEN {} ELSE Own({<<"data">>, <<"child_data">>})))
      BY DEF FreeList
    <3>2. ParentsFreed = Own(ParentBlocks(n))
      BY <2>1, ParentsFreedAre DEF FilledTo
    <3>3. UNION {NamesFreed(i) : i \in 1..n} = Own(ChildBlocks(found) \cup FirstBlocks(found))
      BY <2>1, NamesFreedAre
    <3>4. {<<"parents">>, <<"children">>, <<"counts">>, <<"info">>} = Arrays
      BY DEF Arrays
    <3>5. (IF pc = "listed" THEN {} ELSE Own({<<"data">>, <<"child_data">>})) = Own(Extra)
      <4>1. Own({}) = {}
        BY DEF Own
      <4> QED BY <4>1 DEF Buffers
    <3>6. /\ Own(ParentBlocks(n)) \cup Own(ChildBlocks(found) \cup FirstBlocks(found))
               = Own(ParentBlocks(n) \cup (ChildBlocks(found) \cup FirstBlocks(found)))
          /\ Own(ParentBlocks(n) \cup (ChildBlocks(found) \cup FirstBlocks(found))) \cup Own(Arrays)
               = Own(ParentBlocks(n) \cup (ChildBlocks(found) \cup FirstBlocks(found)) \cup Arrays)
          /\ Own(ParentBlocks(n) \cup (ChildBlocks(found) \cup FirstBlocks(found)) \cup Arrays)
               \cup Own(Extra) = Own(P)
      BY OwnUnion
    <3> HIDE DEF P, Extra
    <3> QED BY <3>1, <3>2, <3>3, <3>4, <3>5, <3>6, Zenon
  <2>4. FirstBlocks(found) \subseteq NameBlocks(found, s)
    <3>1. ASSUME NEW i \in 1..Len(found), found[i] > 0
          PROVE  FileName(i, 1) \in NameBlocks(found, s)
      <4>1. found[i] \in Nat
        BY <2>1, FileNumbers DEF FilledTo
      <4>2. 1 \in {x \in 1..found[i] : ~(i = Len(found) /\ x > s)}
        BY <2>1, <3>1, <4>1
      <4> QED BY <4>2 DEF NameBlocks
    <3> QED BY <3>1 DEF FirstBlocks
  <2>5. heap' = heap \ P /\ (bad' => bad)
    <3>1. P \subseteq heap
      BY <2>2, <2>4
    <3> HIDE DEF P
    <3> QED BY <2>3, <3>1, FreeOwn
  <2>6. \A b \in Rest : b \notin P
    <3>1. /\ <<"dirp">> \notin P
          /\ \A i : Entries(i) \notin P
      BY DEF ParentBlocks, ChildBlocks, FirstBlocks, Arrays, Buffers, Parent, Child, FileName, Entries
    <3> HIDE DEF P
    <3> QED BY <3>1 DEF Scandirs
  <2>7. ASSUME NEW b \in NameBlocks(found, s)
        PROVE  b \in P <=> b \in FirstBlocks(found)
    <3>1. PICK i \in 1..Len(found), k \in Nat : b = FileName(i, k)
      BY DEF NameBlocks
    <3>2. FileName(i, k) \notin ParentBlocks(n) \cup ChildBlocks(found) \cup Arrays \cup Extra
      BY DEF ParentBlocks, ChildBlocks, Arrays, Buffers, Parent, Child, FileName
    <3> QED BY <3>1, <3>2
  <2>8. heap' = (NameBlocks(found, s) \ FirstBlocks(found)) \cup Rest
    <3>1. Arrays \cup ParentBlocks(n) \cup ChildBlocks(found) \cup Extra \subseteq P
      OBVIOUS
    <3> HIDE DEF P, Extra, Rest
    <3> QED BY <2>2, <2>5, <2>6, <2>7, <3>1
  <2>9. UNION {LaterNames(i) : i \in 1..n} = NameBlocks(found, s) \ FirstBlocks(found)
    <3>1. n \in Nat /\ found \in Seq(0..MaxFiles) /\ Len(found) <= n /\ names = NamesOf(n, found, s)
      BY <2>1 DEF FilledTo
    <3>2. UNION {Range(names[i]) \ {FileName(i, 1), Wild} : i \in 1..n}
            = NameBlocks(found, s) \ FirstBlocks(found)
      BY <3>1, NamesLeft, SMTT(60)
    <3> QED BY <3>2 DEF LaterNames
  <2> QED BY <2>5, <2>8, <2>9 DEF Scandirs
<1>5. FreesAreSound'
  BY <1>2, <1>4 DEF MemoryInv, FreesAreSound
<1>6. OnlyTheseStay'
  BY <1>1, <1>2, <1>4 DEF OnlyTheseStay, LaterNames
<1> QED BY <1>3, <1>5, <1>6

LEMMA RecvReturnsKeeps ==
  ASSUME MemoryInv, RecvReturns
  PROVE  FreesAreSound' /\ OnlyTheseStay' /\ Shape'
<1>1. pc = "returns" /\ pc' = "listed" /\ builder = "recv" /\ ~shortage /\ ~early
  BY DEF RecvReturns, MemoryInv, Control
<1>2. UNCHANGED <<builder, n, parents, children, names, counts, last, found, shortage, early>>
  BY DEF RecvReturns, arrayVars
<1>3. Built(MaxFiles) /\ Len(found) = n
  BY <1>1 DEF MemoryInv, Shape, EndShape
<1>4. heap = Arrays \cup Buffers \cup Pointed(MaxFiles)
  BY <1>1, <1>3 DEF Built, Around
<1>5. heap' = heap \ Buffers /\ (bad' => bad)
  <2>1. Buffers \subseteq heap
    BY <1>4
  <2>2. Free(Own(Buffers))
    BY DEF RecvReturns, Buffers
  <2> QED BY <2>1, <2>2, FreeOwn
<1>6. heap' = Arrays \cup Pointed(MaxFiles)
  <2>1. ASSUME NEW b \in Buffers PROVE b \notin Arrays \cup Pointed(MaxFiles)
    BY DEF Buffers, Arrays, Pointed, ParentBlocks, ChildBlocks, NameBlocks, Parent, Child, FileName
  <2> QED BY <1>4, <1>5, <2>1
<1>7. Shape'
  <2>1. FilledTo(MaxFiles)' /\ Pointed(MaxFiles)' = Pointed(MaxFiles)
    BY <1>2, <1>3 DEF Built, FilledTo, Pointed
  <2>2. EndShape'
    BY <1>1, <1>2, <1>3, <1>6, <2>1 DEF EndShape
  <2> QED BY <1>1, <2>2 DEF Shape, BeginShape, BuildShape
<1> QED BY <1>1, <1>2, <1>5, <1>7 DEF MemoryInv, FreesAreSound, OnlyTheseStay
-----------------------------------------------------------------------------
(* The theorems.                                                            *)

LEMMA MemoryInvInit ==
  ASSUME MemoryInit
  PROVE  MemoryInv
<1>1. Control /\ FreesAreSound /\ OnlyTheseStay
  BY DEF MemoryInit, Control, FreesAreSound, OnlyTheseStay
<1>2. Shape
  BY DEF MemoryInit, Shape, BeginShape, BuildShape, EndShape
<1> QED BY <1>1, <1>2 DEF MemoryInv

LEMMA MemoryInvNext ==
  ASSUME MemoryInv, [MemoryNext]_memoryVars
  PROVE  MemoryInv'
<1>1. CASE UNCHANGED memoryVars
  <2>1. UNCHANGED <<builder, pc, n, j, heap, parents, children, names, counts, last, found, bad,
                    shortage, early>>
    BY <1>1 DEF memoryVars, arrayVars, historyVars
  <2>2. FreesAreSound' /\ OnlyTheseStay' /\ Control'
    BY <2>1 DEF MemoryInv, FreesAreSound, OnlyTheseStay, LaterNames, Control
  <2>3. ~shortage' => Shape'
    BY <2>1 DEF MemoryInv, Shape, BeginShape, BuildShape, EndShape, Built, FilledTo, Pointed
  <2> QED BY <2>2, <2>3 DEF MemoryInv
<1>2. CASE MemoryNext
  <2>1. Control' /\ (~shortage' => ~shortage)
    BY <1>2, ControlKept
  \* A step that frees nothing and does not end with what OnlyTheseStay tells of.
  <2>2. ASSUME bad' = bad, early => early', pc' # "freed", last' # -1 \/ pc' # "failed"
        PROVE  FreesAreSound' /\ OnlyTheseStay'
    BY <2>1, <2>2 DEF MemoryInv, FreesAreSound, OnlyTheseStay
  <2>3. pc \notin {"release", "freed"} => ~early
    BY DEF MemoryInv, Control
  <2>4. pc \notin {"cleanup", "failed"} => last # -1
    BY DEF MemoryInv, Control
  <2>5. FreesAreSound' /\ OnlyTheseStay' /\ (~shortage' => Shape')
    <3>1. CASE ScanData
      BY <2>2, <2>4, <3>1, ScanDataShape DEF ScanData
    <3>2. CASE AllocParents
      BY <2>2, <2>4, <3>2, AllocParentsShape DEF AllocParents
    <3>3. CASE AllocChildren
      BY <2>2, <3>3, AllocChildrenShape DEF AllocChildren
    <3>4. CASE ScanFile
      BY <2>2, <3>4, ScanFileShape DEF ScanFile, historyVars
    <3>5. CASE ScanEmptyDir
      <4>1. pc' \in {"listed", "scan"}
        BY <3>5 DEF ScanEmptyDir, AfterScan
      <4> QED BY <2>2, <3>5, <4>1, ScanEmptyDirShape DEF ScanEmptyDir
    <3>6. CASE ScanDir
      <4>1. pc' \in {"listed", "scan", "cleanup"}
        BY <3>6 DEF ScanDir, AfterScan
      <4>2. UNCHANGED <<bad, early>>
        BY <3>6 DEF ScanDir
      <4> QED BY <2>2, <3>6, <4>1, <4>2, ScanDirShape
    <3>7. CASE ScanCrashes
      <4>1. pc' = "crashed" /\ UNCHANGED <<bad, early, shortage>>
        BY <3>7 DEF ScanCrashes, historyVars
      <4> QED BY <2>2, <4>1 DEF Shape, BeginShape, BuildShape, EndShape
    <3>8. CASE Cleanup
      BY <3>8, CleanupKeeps
    <3>9. CASE FreeList
      BY <3>9, FreeListKeeps
    <3>10. CASE RecvData
      <4>1. pc' \in {"failed", "names", "crashed"} /\ last' # -1 /\ UNCHANGED <<bad, early>>
        BY <2>4, <3>10 DEF RecvData
      <4> QED BY <2>2, <3>10, <4>1, RecvDataShape
    <3>11. CASE RecvParents
      <4>1. pc' \in {"failed", "dir", "crashed"} /\ last' # -1 /\ UNCHANGED <<bad, early>>
        BY <2>4, <3>11 DEF RecvParents
      <4> QED BY <2>2, <3>11, <4>1, RecvParentsShape
    <3>12. CASE RecvDir
      <4>1. pc' \in {"release", "file", "dir", "returns"} /\ UNCHANGED <<bad, early>>
        BY <3>12 DEF RecvDir, AfterRecv
      <4> QED BY <2>2, <3>12, <4>1, RecvDirShape
    <3>13. CASE RecvFile
      <4>1. pc' \in {"release", "file", "dir", "returns"} /\ UNCHANGED bad /\ ~early
        BY <2>3, <3>13 DEF RecvFile, AfterRecv
      <4> QED BY <2>2, <3>13, <4>1, RecvFileShape
    <3>14. CASE RecvReturns
      BY <3>14, RecvReturnsKeeps
    <3> QED BY <1>2, <3>1, <3>2, <3>3, <3>4, <3>5, <3>6, <3>7, <3>8, <3>9,
               <3>10, <3>11, <3>12, <3>13, <3>14 DEF MemoryNext
  <2> QED BY <2>1, <2>5 DEF MemoryInv
<1> QED BY <1>1, <1>2

\* The invariant of the two builders and of the release: until a malloc fails
\* the heap is what the arrays point to, and their own blocks.
THEOREM MemoryInvariant == MemorySpec => []MemoryInv
<1>1. MemoryInit => MemoryInv
  BY MemoryInvInit
<1>2. MemoryInv /\ [MemoryNext]_memoryVars => MemoryInv'
  BY MemoryInvNext
<1> QED BY <1>1, <1>2, PTL DEF MemorySpec

\* On no way out of get_list_info, process_recv_list and free_list is a pointer
\* freed that is not to a block, or twice, unless a malloc failed or recv did
\* before the first name of a directory.
THEOREM ReleaseIsSound == MemorySpec => []FreesAreSound
<1>1. MemoryInv => FreesAreSound
  BY DEF MemoryInv
<1> QED BY <1>1, MemoryInvariant, PTL

\* Exactly the names after the first of each directory, and what scandir and
\* opendir allocated, are lost with each list; and more after a scan that met a
\* file in ./Data.
THEOREM LeakIsExact == MemorySpec => []OnlyTheseStay
<1>1. MemoryInv => OnlyTheseStay
  BY DEF MemoryInv
<1> QED BY <1>1, MemoryInvariant, PTL

\* The list that get_list_info or process_recv_list returns has, for each
\* directory found, its name, its number of files and as many names, all of
\* them in blocks that are still allocated.
THEOREM ListIsWhole == MemorySpec => []ListMirrorsData
<1>1. MemoryInv => ListMirrorsData
  <2>1. SUFFICES ASSUME MemoryInv, pc = "listed"
                 PROVE  /\ Len(found) = n /\ counts = found
                        /\ parents = [i \in 1..n |-> Parent(i)]
                        /\ children = [i \in 1..n |-> IF found[i] = 0 THEN Null ELSE Child(i)]
                        /\ names = [i \in 1..n |-> [k \in 1..found[i] |-> FileName(i, k)]]
                        /\ Arrays \subseteq heap
                        /\ \A i \in 1..n :
                             /\ Parent(i) \in heap
                             /\ found[i] > 0 => Child(i) \in heap
                             /\ \A k \in 1..found[i] : FileName(i, k) \in heap
    BY DEF ListMirrorsData, Arrays
  <2>2. FilledTo(MaxFiles) /\ Len(found) = n /\ Arrays \cup Pointed(MaxFiles) \subseteq heap
    BY <2>1 DEF MemoryInv, Control, Shape, EndShape
  <2>3. /\ n \in Nat /\ MaxFiles \in Nat /\ found \in Seq(0..MaxFiles)
        /\ \A i \in 1..n : found[i] \in 0..MaxFiles /\ ~(i > Len(found))
    BY <2>2, FileNumbers DEF FilledTo
  <2>4. counts = found
    <3>1. found = [i \in 1..n |-> found[i]]
      BY <2>2, <2>3
    <3>2. counts = [i \in 1..n |-> found[i]]
      BY <2>2, <2>3 DEF FilledTo, CountsOf
    <3> QED BY <3>1, <3>2
  <2>5. parents = [i \in 1..n |-> Parent(i)]
    BY <2>2 DEF FilledTo, ParentsOf
  <2>6. children = [i \in 1..n |-> IF found[i] = 0 THEN Null ELSE Child(i)]
    BY <2>2, <2>3 DEF FilledTo, ChildrenOf
  <2>7. names = [i \in 1..n |-> [k \in 1..found[i] |-> FileName(i, k)]]
    <3>1. ASSUME NEW i \in 1..n
          PROVE  NamesOfDir(found, MaxFiles, i) = [k \in 1..found[i] |-> FileName(i, k)]
      <4>1. \A k \in 1..found[i] : ~(k > MaxFiles)
        BY <2>3
      <4> QED BY <4>1 DEF NamesOfDir
    <3>2. names = [i \in 1..n |-> NamesOfDir(found, MaxFiles, i)]
      BY <2>2, <2>3 DEF FilledTo, NamesOf
    <3> QED BY <3>1, <3>2
  <2>8. ASSUME NEW i \in 1..n
        PROVE  /\ Parent(i) \in heap
               /\ found[i] > 0 => Child(i) \in heap
               /\ \A k \in 1..found[i] : FileName(i, k) \in heap
    <3>1. Parent(i) \in ParentBlocks(n) /\ (found[i] > 0 => Child(i) \in ChildBlocks(found))
      BY <2>2 DEF ParentBlocks, ChildBlocks
    <3>2. ASSUME NEW k \in 1..found[i]
          PROVE  FileName(i, k) \in NameBlocks(found, MaxFiles)
      <4>1. k \in {x \in 1..found[i] : ~(i = Len(found) /\ x > MaxFiles)}
        BY <2>3
      <4> QED BY <2>2, <4>1 DEF NameBlocks
    <3> QED BY <2>2, <3>1, <3>2 DEF Pointed
  <2> QED BY <2>2, <2>4, <2>5, <2>6, <2>7, <2>8
<1> QED BY <1>1, MemoryInvariant, PTL
=============================================================================
