------------------------ MODULE ListTransfer_proofs -------------------------
(***************************************************************************)
(* Proofs about ListTransfer, for lists of any number of directories and   *)
(* files.                                                                  *)
(*                                                                         *)
(* Frames are written one behind the other and carry no mark.  What keeps  *)
(* the two ends in step is that either of them can tell the place of a     *)
(* frame in the stream from the list alone: Off.  It counts the files that *)
(* come before, so no sum over the directories has to be taken apart.      *)
(***************************************************************************)
EXTENDS ListTransfer, FiniteSetTheorems, SequenceTheorems, TLAPS

\* The files sent before the frame (d, f).
Before(cat, d, f) ==
  {p \in FilesOf(cat) : p[1] < d \/ (p[1] = d /\ p[2] < f)}

\* Where the frame of file f of directory d begins; (d, 0) is the header of
\* directory d and (0, 0) that of the list.
Off(cat, d, f) ==
  3 * (IF f > 0 THEN d + 1 ELSE d) + 2 * Cardinality(Before(cat, d, f))

Size(f) == IF f = 0 THEN 3 ELSE 2

Frame(cat, d, f) ==
  IF f > 0 THEN Name(d, f)
  ELSE Header(d, IF d = 0 THEN Len(cat) ELSE cat[d])

IsFrame(cat, d, f) ==
  /\ d \in 0..Len(cat)
  /\ f = 0 \/ (d > 0 /\ f \in 1..cat[d])

\* Frame (d, f) is sent before frame (e, g).
Precedes(d, f, e, g) == d < e \/ (d = e /\ f < g)

\* Unit u is the one at place p of what follows the message.
UnitIs(cat, p, u) ==
  \E d, f, h \in Nat :
    /\ IsFrame(cat, d, f) /\ h \in 1..Size(f)
    /\ p = Off(cat, d, f) + h
    /\ u = Frame(cat, d, f)[h]
-----------------------------------------------------------------------------
(* The places of the frames.                                                *)

\* A list has finitely many files.
LEMMA FilesFinite ==
  ASSUME NEW cat \in Seq(Nat)
  PROVE  IsFiniteSet(FilesOf(cat)) /\ Cardinality(FilesOf(cat)) \in Nat
<1> DEFINE Of(i) == {i} \X (1..cat[i])
           Dirs == {Of(i) : i \in 1..Len(cat)}
           of == [i \in 1..Len(cat) |-> Of(i)]
<1>1. IsFiniteSet(1..Len(cat))
  BY FS_Interval
<1>2. of \in Surjection(1..Len(cat), Dirs)
  BY DEF Surjection
<1>3. IsFiniteSet(Dirs)
  BY <1>1, <1>2, FS_Surjection
<1>4. ASSUME NEW T \in Dirs PROVE IsFiniteSet(T)
  <2>1. PICK i \in 1..Len(cat) : T = Of(i)
    OBVIOUS
  <2>2. cat[i] \in Int /\ 1 \in Int
    OBVIOUS
  <2>3. IsFiniteSet({i}) /\ IsFiniteSet(1..cat[i])
    BY <2>2, FS_Singleton, FS_Interval
  <2> QED BY <2>1, <2>3, FS_Product
<1>5. IsFiniteSet(UNION Dirs)
  BY <1>3, <1>4, FS_UNION
<1> QED BY <1>5, FS_CardinalityType DEF FilesOf

\* A pair is a file of the list when the directory has that many.
LEMMA FileIs ==
  ASSUME NEW cat \in Seq(Nat), NEW p
  PROVE  /\ p \in FilesOf(cat) <=>
              \E i \in 1..Len(cat) : \E k \in 1..cat[i] : p = <<i, k>>
         /\ p \in FilesOf(cat) => p[1] \in 1..Len(cat) /\ p[2] \in 1..cat[p[1]]
                                  /\ p = <<p[1], p[2]>>
BY DEF FilesOf

LEMMA BeforeFinite ==
  ASSUME NEW cat \in Seq(Nat), NEW d \in Nat, NEW f \in Nat
  PROVE  /\ IsFiniteSet(Before(cat, d, f))
         /\ Cardinality(Before(cat, d, f)) \in Nat
<1>1. Before(cat, d, f) \in SUBSET FilesOf(cat)
  BY DEF Before
<1> QED BY <1>1, FilesFinite, FS_Subset, FS_CardinalityType

LEMMA OffType ==
  ASSUME NEW cat \in Seq(Nat), NEW d \in Nat, NEW f \in Nat
  PROVE  Off(cat, d, f) \in Nat
<1>1. Cardinality(Before(cat, d, f)) \in Nat
  BY BeforeFinite
<1> QED BY <1>1 DEF Off

LEMMA OffFirst ==
  ASSUME NEW cat \in Seq(Nat), NEW d \in Nat
  PROVE  Off(cat, d, 1) = Off(cat, d, 0) + 3
<1>1. Before(cat, d, 1) = Before(cat, d, 0)
  BY FileIs DEF Before
<1>2. Cardinality(Before(cat, d, 0)) \in Nat
  BY BeforeFinite
<1> QED BY <1>1, <1>2 DEF Off

LEMMA OffNextFile ==
  ASSUME NEW cat \in Seq(Nat), NEW d \in 1..Len(cat), NEW f \in 1..cat[d]
  PROVE  Off(cat, d, f + 1) = Off(cat, d, f) + 2
<1>1. cat[d] \in Nat /\ f \in Nat /\ d \in Nat
  OBVIOUS
<1>2. <<d, f>> \in FilesOf(cat)
  BY FileIs
<1>3. Before(cat, d, f + 1) = Before(cat, d, f) \cup {<<d, f>>}
  <2>1. ASSUME NEW p \in FilesOf(cat)
        PROVE  p \in Before(cat, d, f + 1) <=> (p \in Before(cat, d, f) \/ p = <<d, f>>)
    <3>1. p[1] \in Nat /\ p[2] \in Nat /\ p = <<p[1], p[2]>>
      BY FileIs
    <3>2. p = <<d, f>> <=> (p[1] = d /\ p[2] = f)
      BY <3>1
    <3> QED BY <1>1, <3>1, <3>2 DEF Before
  <2> QED BY <2>1, <1>2 DEF Before
<1>4. <<d, f>> \notin Before(cat, d, f)
  BY <1>1 DEF Before
<1>5. Cardinality(Before(cat, d, f + 1)) = Cardinality(Before(cat, d, f)) + 1
  BY <1>1, <1>3, <1>4, BeforeFinite, FS_AddElement
<1>6. Cardinality(Before(cat, d, f)) \in Nat
  BY <1>1, BeforeFinite
<1> QED BY <1>1, <1>5, <1>6 DEF Off

LEMMA OffNextDir ==
  ASSUME NEW cat \in Seq(Nat), NEW d \in 1..Len(cat)
  PROVE  Off(cat, d + 1, 0) = Off(cat, d, cat[d] + 1)
<1>1. cat[d] \in Nat /\ d \in Nat
  OBVIOUS
<1>2. ASSUME NEW p \in FilesOf(cat)
      PROVE  p \in Before(cat, d + 1, 0) <=> p \in Before(cat, d, cat[d] + 1)
  <2>1. p[1] \in Nat /\ p[2] \in Nat /\ (p[1] = d => p[2] < cat[d] + 1)
    BY <1>1, FileIs
  <2> QED BY <1>1, <2>1 DEF Before
<1>3. Before(cat, d + 1, 0) = Before(cat, d, cat[d] + 1)
  BY <1>2 DEF Before
<1> QED BY <1>1, <1>3 DEF Off

LEMMA OffStart ==
  ASSUME NEW cat \in Seq(Nat)
  PROVE  Off(cat, 0, 0) = 0 /\ Off(cat, 1, 0) = 3
<1>1. Before(cat, 0, 0) = {} /\ Before(cat, 1, 0) = {}
  BY FileIs DEF Before
<1>2. Cardinality(Before(cat, 0, 0)) = 0 /\ Cardinality(Before(cat, 1, 0)) = 0
  BY <1>1, FS_EmptySet
<1> QED BY <1>2 DEF Off

LEMMA OffEnd ==
  ASSUME NEW cat \in Seq(Nat)
  PROVE  /\ Off(cat, Len(cat) + 1, 0) = ListLen(cat)
         /\ ListLen(cat) \in Nat /\ ListLen(cat) >= 3
<1>1. Before(cat, Len(cat) + 1, 0) = FilesOf(cat)
  BY FileIs DEF Before
<1>2. Len(Header(0, 0)) = 3 /\ Len(Name(0, 0)) = 2
  BY DEF Header, Name, Unit
<1>3. Off(cat, Len(cat) + 1, 0) = 3 * (Len(cat) + 1) + 2 * Cardinality(FilesOf(cat))
  BY <1>1 DEF Off
<1>4. ListLen(cat) = (1 + Len(cat)) * 3 + Cardinality(FilesOf(cat)) * 2
  BY <1>2 DEF ListLen
<1>5. Len(cat) \in Nat
  OBVIOUS
<1> QED BY <1>3, <1>4, <1>5, FilesFinite

\* A frame ends where a later one begins or before that.
LEMMA OffOrdered ==
  ASSUME NEW cat \in Seq(Nat), NEW d \in Nat, NEW f \in Nat, NEW e \in Nat, NEW g \in Nat,
         IsFrame(cat, d, f), Precedes(d, f, e, g)
  PROVE  Off(cat, d, f) + Size(f) <= Off(cat, e, g)
<1> DEFINE B == Before(cat, d, f)
           C == Before(cat, e, g)
           b == Cardinality(B)
           c == Cardinality(C)
           p == IF f > 0 THEN d + 1 ELSE d
           q == IF g > 0 THEN e + 1 ELSE e
<1>1. IsFiniteSet(B) /\ b \in Nat /\ IsFiniteSet(C) /\ c \in Nat
  BY BeforeFinite
<1>2. B \in SUBSET C
  BY FileIs DEF Before, Precedes
<1>3. b <= c
  BY <1>1, <1>2, FS_Subset
<1>6. p \in Nat /\ q \in Nat /\ p <= q /\ (f = 0 => p + 1 <= q)
  BY DEF Precedes
<1>7. Off(cat, d, f) = 3 * p + 2 * b /\ Off(cat, e, g) = 3 * q + 2 * c
  BY DEF Off
<1>4. CASE f = 0
  <2> HIDE DEF b, c, p, q
  <2>1. 3 * p + 2 * b + 3 <= 3 * q + 2 * c
    BY <1>1, <1>3, <1>4, <1>6
  <2> QED BY <1>4, <1>7, <2>1 DEF Size
<1>5. CASE f > 0
  <2>1. <<d, f>> \in FilesOf(cat)
    BY <1>5, FileIs DEF IsFrame
  <2>2. <<d, f>> \in C /\ <<d, f>> \notin B
    BY <2>1 DEF Before, Precedes
  <2>3. B \cup {<<d, f>>} \in SUBSET C
    BY <1>2, <2>2
  <2>4. /\ IsFiniteSet(B \cup {<<d, f>>})
        /\ Cardinality(B \cup {<<d, f>>}) = b + 1
    BY <1>1, <2>2, FS_AddElement
  <2>5. b + 1 <= c
    BY <1>1, <2>3, <2>4, FS_Subset
  <2> HIDE DEF b, c, p, q
  <2>6. 3 * p + 2 * b + 2 <= 3 * q + 2 * c
    BY <1>1, <1>6, <2>5
  <2> QED BY <1>5, <1>7, <2>6 DEF Size
<1> QED BY <1>4, <1>5

\* Only one unit has a place within a frame.
LEMMA UnitAt ==
  ASSUME NEW cat \in Seq(Nat), NEW d \in Nat, NEW f \in Nat, NEW h \in 1..Size(f), NEW u,
         IsFrame(cat, d, f), UnitIs(cat, Off(cat, d, f) + h, u)
  PROVE  u = Frame(cat, d, f)[h]
<1>1. PICK e, g, k \in Nat :
        /\ IsFrame(cat, e, g) /\ k \in 1..Size(g)
        /\ Off(cat, d, f) + h = Off(cat, e, g) + k
        /\ u = Frame(cat, e, g)[k]
  BY DEF UnitIs
<1>2. Off(cat, d, f) \in Nat /\ Off(cat, e, g) \in Nat /\ Size(f) \in Nat /\ Size(g) \in Nat
  BY OffType DEF Size
<1>3. ~Precedes(d, f, e, g)
  <2>1. SUFFICES ASSUME Precedes(d, f, e, g) PROVE FALSE
    OBVIOUS
  <2>2. Off(cat, d, f) + Size(f) <= Off(cat, e, g)
    BY <2>1, OffOrdered
  <2> QED BY <1>1, <1>2, <2>2
<1>4. ~Precedes(e, g, d, f)
  <2>1. SUFFICES ASSUME Precedes(e, g, d, f) PROVE FALSE
    OBVIOUS
  <2>2. Off(cat, e, g) + Size(g) <= Off(cat, d, f)
    BY <1>1, <2>1, OffOrdered
  <2> QED BY <1>1, <1>2, <2>2
<1>5. d = e /\ f = g
  BY <1>3, <1>4 DEF Precedes
<1>6. h = k
  BY <1>1, <1>2, <1>5
<1> QED BY <1>1, <1>5, <1>6

\* What follows a frame of a directory: its next file or the next directory.
LEMMA OffNext ==
  ASSUME NEW cat \in Seq(Nat), NEW d \in 1..Len(cat), NEW f \in 0..cat[d]
  PROVE  /\ Off(cat, d, f) + Size(f) = Off(cat, d, f + 1)
         /\ f = cat[d] => Off(cat, d, f) + Size(f) = Off(cat, d + 1, 0)
<1>1. d \in Nat /\ cat[d] \in Nat /\ f \in Nat
  OBVIOUS
<1>2. Off(cat, d, f) + Size(f) = Off(cat, d, f + 1)
  <2>1. CASE f = 0
    <3>1. Off(cat, d, 1) = Off(cat, d, 0) + 3
      BY <1>1, OffFirst
    <3> QED BY <2>1, <3>1 DEF Size
  <2>2. CASE f > 0
    <3>1. f \in 1..cat[d]
      BY <1>1, <2>2
    <3>2. Off(cat, d, f + 1) = Off(cat, d, f) + 2
      BY <3>1, OffNextFile
    <3> QED BY <2>2, <3>2 DEF Size
  <2> QED BY <1>1, <2>1, <2>2
<1>3. Off(cat, d + 1, 0) = Off(cat, d, cat[d] + 1)
  BY OffNextDir
<1> QED BY <1>2, <1>3

\* A frame ends within the length of the list.
LEMMA OffInList ==
  ASSUME NEW cat \in Seq(Nat), NEW d \in Nat, NEW f \in Nat, IsFrame(cat, d, f)
  PROVE  Off(cat, d, f) + Size(f) <= ListLen(cat)
<1>1. Len(cat) + 1 \in Nat /\ 0 \in Nat /\ Precedes(d, f, Len(cat) + 1, 0)
  BY DEF IsFrame, Precedes
<1>2. Off(cat, d, f) + Size(f) <= Off(cat, Len(cat) + 1, 0)
  BY <1>1, OffOrdered
<1> QED BY <1>2, OffEnd

LEMMA UnitType ==
  ASSUME NEW d \in Nat, NEW f \in Nat, NEW n \in Nat
  PROVE  /\ Name(d, f) \in Seq(Units) /\ Len(Name(d, f)) = 2
         /\ Header(d, n) \in Seq(Units) /\ Len(Header(d, n)) = 3
         /\ Message \in Seq(Units) /\ Len(Message) = 2
         /\ Name(d, f)[1] = Unit("name", d, f, 1) /\ Name(d, f)[2] = Unit("name", d, f, 2)
         /\ Header(d, n)[1] = Unit("name", d, 0, 1) /\ Header(d, n)[2] = Unit("name", d, 0, 2)
         /\ Header(d, n)[3] = Unit("count", 0, 0, n)
<1>1. /\ Unit("name", d, f, 1) \in Units /\ Unit("name", d, f, 2) \in Units
      /\ Unit("name", d, 0, 1) \in Units /\ Unit("name", d, 0, 2) \in Units
      /\ Unit("count", 0, 0, n) \in Units
      /\ Unit("message", 0, 0, 1) \in Units /\ Unit("message", 0, 0, 2) \in Units
  BY DEF Unit, Units
<1>2. Name(d, f) = <<Unit("name", d, f, 1), Unit("name", d, f, 2)>>
  BY DEF Name
<1>3. Header(d, n) = Append(<<Unit("name", d, 0, 1), Unit("name", d, 0, 2)>>,
                            Unit("count", 0, 0, n))
  BY DEF Header, Name
<1>4. Message = <<Unit("message", 0, 0, 1), Unit("message", 0, 0, 2)>>
  BY DEF Message
<1>5. ASSUME NEW a \in Units, NEW b \in Units, NEW c \in Units
      PROVE  /\ <<a, b>> \in Seq(Units) /\ Len(<<a, b>>) = 2
             /\ <<a, b>>[1] = a /\ <<a, b>>[2] = b
             /\ Append(<<a, b>>, c) \in Seq(Units) /\ Len(Append(<<a, b>>, c)) = 3
             /\ Append(<<a, b>>, c)[1] = a /\ Append(<<a, b>>, c)[2] = b
             /\ Append(<<a, b>>, c)[3] = c
  OBVIOUS
<1> QED BY <1>1, <1>2, <1>3, <1>4, <1>5

LEMMA FrameType ==
  ASSUME NEW cat \in Seq(Nat), NEW d \in Nat, NEW f \in Nat, IsFrame(cat, d, f)
  PROVE  Frame(cat, d, f) \in Seq(Units) /\ Len(Frame(cat, d, f)) = Size(f)
<1>1. CASE f > 0
  BY <1>1, UnitType DEF Frame, Size
<1>2. CASE f = 0
  <2> DEFINE n == IF d = 0 THEN Len(cat) ELSE cat[d]
  <2>1. n \in Nat
    BY DEF IsFrame
  <2> HIDE DEF n
  <2>2. Header(d, n) \in Seq(Units) /\ Len(Header(d, n)) = 3
    BY <2>1, UnitType
  <2> QED BY <1>2, <2>2 DEF Frame, Size, n
<1> QED BY <1>1, <1>2
-----------------------------------------------------------------------------
(* Sequences.                                                               *)

\* What is left of a stream once k of its units are taken, and what was taken.
LEMMA TakeFacts ==
  ASSUME NEW S, NEW s \in Seq(S), NEW k \in 0..Len(s)
  PROVE  /\ SubSeq(s, k + 1, Len(s)) \in Seq(S)
         /\ Len(SubSeq(s, k + 1, Len(s))) = Len(s) - k
         /\ \A i \in 1..(Len(s) - k) : SubSeq(s, k + 1, Len(s))[i] = s[k + i]
         /\ SubSeq(s, 1, k) \in Seq(S) /\ Len(SubSeq(s, 1, k)) = k
         /\ \A i \in 1..k : SubSeq(s, 1, k)[i] = s[i]
<1>1. k \in Int /\ k + 1 \in Int /\ Len(s) \in Int /\ 1 \in Int /\ Len(s) \in Nat
  OBVIOUS
<1>2. \A i \in (k + 1)..Len(s) : s[i] \in S
  OBVIOUS
<1>3. \A i \in 1..k : s[i] \in S
  OBVIOUS
<1>4. /\ SubSeq(s, k + 1, Len(s)) \in Seq(S)
      /\ Len(SubSeq(s, k + 1, Len(s))) = IF k + 1 <= Len(s) THEN Len(s) - (k + 1) + 1 ELSE 0
      /\ \A i \in 1..(Len(s) - (k + 1) + 1) :
           SubSeq(s, k + 1, Len(s))[i] = s[(k + 1) + i - 1]
  BY <1>1, <1>2, SubSeqProperties
<1>5. /\ SubSeq(s, 1, k) \in Seq(S)
      /\ Len(SubSeq(s, 1, k)) = IF 1 <= k THEN k - 1 + 1 ELSE 0
      /\ \A i \in 1..(k - 1 + 1) : SubSeq(s, 1, k)[i] = s[1 + i - 1]
  BY <1>1, <1>3, SubSeqProperties
<1>6. /\ Len(SubSeq(s, k + 1, Len(s))) = Len(s) - k
      /\ \A i \in 1..(Len(s) - k) : SubSeq(s, k + 1, Len(s))[i] = s[k + i]
  <2> DEFINE m == Len(s)
             u == SubSeq(s, k + 1, m)
  <2>1. m \in Nat /\ k \in Nat /\ k <= m
    BY <1>1
  <2>2. /\ Len(u) = IF k + 1 <= m THEN m - (k + 1) + 1 ELSE 0
        /\ \A i \in 1..(m - (k + 1) + 1) : u[i] = s[(k + 1) + i - 1]
    BY <1>4
  <2> HIDE DEF m, u
  <2>3. m - (k + 1) + 1 = m - k /\ \A i \in 1..(m - k) : (k + 1) + i - 1 = k + i
    BY <2>1
  <2>4. Len(u) = m - k
    BY <2>1, <2>2
  <2>5. \A i \in 1..(m - k) : u[i] = s[k + i]
    BY <2>2, <2>3
  <2> USE DEF m, u
  <2> QED BY <2>4, <2>5
<1>7. Len(SubSeq(s, 1, k)) = k /\ \A i \in 1..k : SubSeq(s, 1, k)[i] = s[i]
  BY <1>1, <1>5
<1> QED BY <1>4, <1>5, <1>6, <1>7

\* What a stream holds after a write.
LEMMA PutFacts ==
  ASSUME NEW S, NEW s \in Seq(S), NEW t \in Seq(S)
  PROVE  /\ s \o t \in Seq(S) /\ Len(s \o t) = Len(s) + Len(t)
         /\ \A i \in 1..Len(s) : (s \o t)[i] = s[i]
         /\ \A i \in 1..Len(t) : (s \o t)[Len(s) + i] = t[i]
<1>1. Len(s) \in Nat /\ Len(t) \in Nat
  OBVIOUS
<1>2. /\ s \o t \in Seq(S) /\ Len(s \o t) = Len(s) + Len(t)
      /\ \A i \in 1..(Len(s) + Len(t)) :
           (s \o t)[i] = IF i <= Len(s) THEN s[i] ELSE t[i - Len(s)]
  BY ConcatProperties
<1> QED BY <1>1, <1>2

Entries == [name : Seq(Units), num : Nat, files : Seq(Seq(Units))]

\* A directory is added to the copy.
LEMMA DirAdded ==
  ASSUME NEW list \in Seq(Entries), NEW entry \in Entries
  PROVE  /\ Append(list, entry) \in Seq(Entries)
         /\ Len(Append(list, entry)) = Len(list) + 1
         /\ \A i \in 1..Len(list) : Append(list, entry)[i] = list[i]
         /\ Append(list, entry)[Len(list) + 1] = entry
<1> HIDE DEF Entries
<1> QED BY AppendProperties

\* A file is added to the last directory of the copy.
WithFile(list, x) ==
  [list EXCEPT ![Len(list)] =
     [list[Len(list)] EXCEPT !.files = Append(list[Len(list)].files, x)]]

LEMMA FileAdded ==
  ASSUME NEW list \in Seq(Entries), list # <<>>, NEW x \in Seq(Units)
  PROVE  /\ Len(list) \in 1..Len(list)
         /\ WithFile(list, x) \in Seq(Entries) /\ Len(WithFile(list, x)) = Len(list)
         /\ \A i \in 1..(Len(list) - 1) : WithFile(list, x)[i] = list[i]
         /\ WithFile(list, x)[Len(list)].name = list[Len(list)].name
         /\ WithFile(list, x)[Len(list)].num = list[Len(list)].num
         /\ WithFile(list, x)[Len(list)].files = Append(list[Len(list)].files, x)
         /\ Len(WithFile(list, x)[Len(list)].files) = Len(list[Len(list)].files) + 1
         /\ \A k \in 1..Len(list[Len(list)].files) :
              WithFile(list, x)[Len(list)].files[k] = list[Len(list)].files[k]
         /\ WithFile(list, x)[Len(list)].files[Len(list[Len(list)].files) + 1] = x
<1> DEFINE L == Len(list)
           old == list[L].files
           entry == [list[L] EXCEPT !.files = Append(old, x)]
           new == WithFile(list, x)
<1>1. L \in Nat /\ L \in 1..L
  BY EmptySeq
<1>2. list[L] \in Entries
  BY <1>1
<1>3. old \in Seq(Seq(Units))
  BY <1>2 DEF Entries
<1>4. /\ Append(old, x) \in Seq(Seq(Units)) /\ Len(Append(old, x)) = Len(old) + 1
      /\ \A k \in 1..Len(old) : Append(old, x)[k] = old[k]
      /\ Append(old, x)[Len(old) + 1] = x
  <2> HIDE DEF old
  <2> QED BY <1>3, AppendProperties
<1>5. /\ entry \in Entries
      /\ entry.name = list[L].name /\ entry.num = list[L].num
      /\ entry.files = Append(old, x)
  BY <1>2, <1>4 DEF Entries
<1>6. new = [list EXCEPT ![L] = entry]
  BY DEF WithFile
<1>7. new \in Seq(Entries) /\ Len(new) = L
  <2> HIDE DEF L, entry, new, Entries
  <2>1. entry \in Entries
    BY <1>5
  <2>2. list \in [1..L -> Entries]
    BY DEF L
  <2>3. new \in [1..L -> Entries]
    BY <1>1, <1>6, <2>1, <2>2
  <2> QED BY <1>1, <2>3
<1>8. new[L] = entry /\ \A i \in 1..(L - 1) : new[i] = list[i]
  <2> HIDE DEF entry, new, Entries
  <2> QED BY <1>1, <1>5, <1>6
<1> HIDE DEF entry
<1> QED BY <1>1, <1>3, <1>4, <1>5, <1>7, <1>8
-----------------------------------------------------------------------------
(* The types and the places of the two ends.                                *)

\* Where the child is says what it has announced and how much it has written.
SenderInv ==
  /\ sender = "message" => announced = 0
  /\ sender \in {"list", "dir", "file", "sent"} => announced = ListLen(catalog)
  /\ sender = "list" => written = 0
  /\ sender = "dir" => dir \in 1..Len(catalog) /\ written = Off(catalog, dir, 0)
  /\ sender = "file" => /\ dir \in 1..Len(catalog) /\ file + 1 \in 1..catalog[dir]
                        /\ written = Off(catalog, dir, file + 1)
  /\ sender = "sent" => written = ListLen(catalog)
  /\ announced = 0 => written = 0

\* Where the device is says what is missing in its copy.
ReceiverInv ==
  /\ receiver \in {"message", "list"} => copy = <<>>
  /\ receiver = "dir" => Len(copy) < count
  /\ receiver = "file" => copy # <<>> /\ Len(Last(copy).files) < Last(copy).num

Typed == TransferTypeOK /\ SenderInv /\ ReceiverInv

LEMMA CatalogType ==
  ASSUME TransferTypeOK
  PROVE  catalog \in Seq(Nat) /\ catalog # <<>> /\ Len(catalog) \in Nat /\ Len(catalog) > 0
<1>1. catalog \in Seq(Nat) /\ catalog # <<>>
  BY TransferAssumption DEF TransferTypeOK
<1> QED BY <1>1, EmptySeq

LEMMA InitTyped == TransferInit => Typed
<1> SUFFICES ASSUME TransferInit PROVE Typed
  OBVIOUS
<1>1. catalog \in Seq(Nat)
  BY TransferAssumption DEF TransferInit
<1>2. ListLen(catalog) \in Nat
  BY <1>1, OffEnd
<1>3. Len(catalog) \in Nat
  BY <1>1
<1>4. SenderInv /\ ReceiverInv
  BY DEF TransferInit, SenderInv, ReceiverInv
<1>5. /\ stream \in Seq(Units) /\ Len(stream) <= MaxStream
      /\ copy \in Seq([name : Seq(Units), num : Nat, files : Seq(Seq(Units))])
      /\ Len(copy) = 0
  BY TransferAssumption DEF TransferInit
<1>6. /\ \A i \in 1..Len(copy) : Len(copy[i].files) <= copy[i].num
      /\ Len(copy) <= count
  BY <1>5 DEF TransferInit
<1>7. /\ written \in 0..ListLen(catalog) /\ dir \in 0..(Len(catalog) + 1)
      /\ announced \in {0, ListLen(catalog)}
  BY <1>2, <1>3 DEF TransferInit
<1> QED BY <1>4, <1>5, <1>6, <1>7 DEF TransferInit, Typed, TransferTypeOK

\* A write: whole, or cut and then the child is gone.
LEMMA WriteFacts ==
  ASSUME Typed, NEW d \in Nat, NEW f \in Nat, NEW next, IsFrame(catalog, d, f),
         written = Off(catalog, d, f), Write(Frame(catalog, d, f), next)
  PROVE  /\ stream' \in Seq(Units) /\ Len(stream') <= MaxStream
         /\ written' \in 0..ListLen(catalog)
         /\ UNCHANGED <<catalog, announced, receiver, count, copy>>
         /\ \/ /\ stream' = stream \o Frame(catalog, d, f) /\ short' = short
               /\ written' = Off(catalog, d, f) + Size(f) /\ sender' = next
            \/ /\ sender' = "ended" /\ short' = TRUE /\ written' = written
<1> DEFINE fr == Frame(catalog, d, f)
<1>1. catalog \in Seq(Nat)
  BY CatalogType DEF Typed
<1>2. fr \in Seq(Units) /\ Len(fr) = Size(f) /\ Len(fr) \in Nat
  BY <1>1, FrameType
<1>3. stream \in Seq(Units) /\ Len(stream) \in Nat /\ written \in Nat /\ MaxStream \in Nat
      /\ written <= ListLen(catalog) /\ ListLen(catalog) \in Nat
  BY <1>1, OffEnd, TransferAssumption DEF Typed, TransferTypeOK
<1>4. Len(stream) + Len(fr) <= MaxStream
  BY DEF Write, HasRoom
<1>5. Off(catalog, d, f) + Size(f) <= ListLen(catalog)
  BY <1>1, OffInList
<1>6. UNCHANGED <<catalog, announced, receiver, count, copy>>
  BY DEF Write, receiverVars
<1> HIDE DEF fr
<1>7. CASE stream' = stream \o fr /\ written' = written + Len(fr) /\ sender' = next /\ short' = short
  <2>1. stream \o fr \in Seq(Units) /\ Len(stream \o fr) = Len(stream) + Len(fr)
    BY <1>2, <1>3, PutFacts
  <2> QED BY <1>2, <1>3, <1>4, <1>5, <1>6, <1>7, <2>1 DEF fr
<1>8. CASE /\ \E part \in WriteParts(fr) : stream' = stream \o part
           /\ sender' = "ended" /\ short' = TRUE /\ written' = written
  <2>1. PICK k \in 1..(Len(fr) - 1) : stream' = stream \o SubSeq(fr, 1, k)
    BY <1>8 DEF WriteParts
  <2>2. k \in 0..Len(fr) /\ k \in Nat
    BY <1>2
  <2>3. SubSeq(fr, 1, k) \in Seq(Units) /\ Len(SubSeq(fr, 1, k)) = k
    BY <1>2, <2>2, TakeFacts
  <2>4. stream' \in Seq(Units) /\ Len(stream') = Len(stream) + k
    BY <1>3, <2>1, <2>3, PutFacts
  <2>5. Len(stream') <= MaxStream
    BY <1>2, <1>3, <1>4, <2>2, <2>4
  <2> QED BY <1>3, <1>6, <1>8, <2>4, <2>5
<1> QED BY <1>7, <1>8 DEF Write, fr

\* The places of the child after a frame of a directory.
LEMMA AfterFrame ==
  ASSUME Typed, NEW d \in 1..Len(catalog), NEW f \in 0..catalog[d],
         dir' = IF f = catalog[d] THEN d + 1 ELSE d, file' = f,
         UNCHANGED <<catalog, announced>>, announced = ListLen(catalog),
         \/ written' = Off(catalog, d, f) + Size(f) /\ sender' = AfterFiles(d, f)
         \/ sender' = "ended"
  PROVE  /\ SenderInv' /\ sender' \in {"message", "list", "dir", "file", "sent", "ended"}
         /\ dir' \in 0..(Len(catalog') + 1) /\ file' \in Nat
<1>1. catalog \in Seq(Nat) /\ Len(catalog) \in Nat
  BY CatalogType DEF Typed
<1>2. catalog[d] \in Nat /\ d \in Nat /\ f \in Nat
  BY <1>1
<1>3. ListLen(catalog) \in Nat /\ ListLen(catalog) >= 3 /\ ListLen(catalog) = Off(catalog, Len(catalog) + 1, 0)
  BY <1>1, OffEnd
<1>4. /\ Off(catalog, d, f) + Size(f) = Off(catalog, d, f + 1)
      /\ f = catalog[d] => Off(catalog, d, f) + Size(f) = Off(catalog, d + 1, 0)
  BY <1>1, OffNext
<1>5. dir' \in 0..(Len(catalog') + 1) /\ file' \in Nat
  BY <1>1, <1>2
<1>6. CASE sender' = "ended"
  BY <1>3, <1>5, <1>6 DEF SenderInv
<1>7. CASE written' = Off(catalog, d, f) + Size(f) /\ sender' = AfterFiles(d, f)
  <2>1. CASE f < catalog[d]
    BY <1>1, <1>2, <1>3, <1>4, <1>5, <1>7, <2>1 DEF SenderInv, AfterFiles
  <2>2. CASE f = catalog[d] /\ d < Len(catalog)
    <3>1. /\ sender' = "dir" /\ dir' = d + 1 /\ dir' \in 1..Len(catalog')
          /\ written' = Off(catalog', dir', 0)
      BY <1>1, <1>2, <1>4, <1>7, <2>2 DEF AfterFiles
    <3>2. announced' = ListLen(catalog') /\ announced' # 0
      BY <1>3
    <3> QED BY <1>5, <3>1, <3>2 DEF SenderInv
  <2>3. CASE f = catalog[d] /\ d = Len(catalog)
    BY <1>1, <1>2, <1>3, <1>4, <1>5, <1>7, <2>3 DEF SenderInv, AfterFiles
  <2> QED BY <1>1, <1>2, <2>1, <2>2, <2>3
<1> QED BY <1>6, <1>7

\* A read: no more than was asked for and is there; when no frame is cut, all
\* of it, or nothing because the child is gone and the link is empty.
LEMMA ReadFacts ==
  ASSUME Typed, NEW n \in {2, 3}, NEW k \in Got(n), Take(k, n)
  PROVE  /\ k \in 0..Len(stream) /\ k <= n /\ k \in Nat
         /\ stream \in Seq(Units) /\ Len(stream) \in Nat
         /\ stream' = SubSeq(stream, k + 1, Len(stream))
         /\ stream' \in Seq(Units) /\ Len(stream') = Len(stream) - k /\ Len(stream') <= MaxStream
         /\ SubSeq(stream, 1, k) \in Seq(Units)
         /\ UNCHANGED <<catalog, announced, sender, dir, file, written>>
         /\ short' \in BOOLEAN
         /\ ~short' => ~short /\ \/ k = n
                                 \/ k = 0 /\ sender = "ended" /\ stream = <<>>
<1>1. /\ stream \in Seq(Units) /\ Len(stream) \in Nat /\ Len(stream) <= MaxStream
      /\ MaxStream \in Nat /\ short \in BOOLEAN
  BY TransferAssumption DEF Typed, TransferTypeOK
<1>2. k \in 0..n /\ k <= Len(stream) /\ (k = n \/ k > 0 \/ (sender = "ended" /\ k = Len(stream)))
  BY DEF Got
<1>3. k \in 0..Len(stream) /\ k <= n /\ k \in Nat
  BY <1>1, <1>2
<1>4. /\ SubSeq(stream, k + 1, Len(stream)) \in Seq(Units)
      /\ Len(SubSeq(stream, k + 1, Len(stream))) = Len(stream) - k
      /\ SubSeq(stream, 1, k) \in Seq(Units)
  BY <1>1, <1>3, TakeFacts
<1>5. /\ stream' = SubSeq(stream, k + 1, Len(stream))
      /\ short' = (short \/ k \in 1..(n - 1))
      /\ UNCHANGED <<catalog, announced, sender, dir, file, written>>
  BY DEF Take, senderVars
<1>6. ASSUME ~short' PROVE ~short /\ (k = n \/ (k = 0 /\ sender = "ended" /\ stream = <<>>))
  <2>1. ~short /\ (k = n \/ k = 0)
    <3>1. ~short /\ k \notin 1..(n - 1)
      BY <1>5, <1>6
    <3> QED BY <1>2, <1>3, <3>1
  <2>2. k = 0 => sender = "ended" /\ Len(stream) = 0
    BY <1>2
  <2>3. Len(stream) = 0 => stream = <<>>
    BY <1>1, EmptySeq
  <2> QED BY <2>1, <2>2, <2>3
<1>7. short' \in BOOLEAN
  BY <1>1, <1>5
<1>8. Len(stream) - k <= MaxStream
  BY <1>1, <1>3
<1> QED BY <1>1, <1>2, <1>3, <1>4, <1>5, <1>6, <1>7, <1>8

\* Where the device goes with the list it has.
LEMMA AfterFacts ==
  ASSUME copy' \in Seq(Entries), copy' # <<>>, count \in Nat, count' = count,
         Len(copy') <= count,
         \A i \in 1..Len(copy') : Len(copy'[i].files) <= copy'[i].num,
         receiver' = After(copy')
  PROVE  ReceiverInv' /\ receiver' \in {"file", "dir", "done"}
<1>1. Len(copy') \in Nat /\ Len(copy') \in 1..Len(copy')
  BY EmptySeq
<1>2. Last(copy') \in Entries
  BY <1>1 DEF Last
<1>3. Last(copy').num \in Nat /\ Len(Last(copy').files) \in Nat
  BY <1>2 DEF Entries
<1>4. receiver' = "file" => Last(copy').num > Len(Last(copy').files)
  BY DEF After
<1>5. receiver' = "dir" => Len(copy') < count
  BY DEF After
<1>6. receiver' \in {"file", "dir", "done"}
  BY DEF After
<1> QED BY <1>3, <1>4, <1>5, <1>6 DEF ReceiverInv

\* The number read from a frame.
LEMMA CountType ==
  ASSUME Typed, NEW k \in 0..Len(stream), NEW before \in SUBSET Nat, NEW n \in CountsIn(k, before)
  PROVE  n \in Nat
<1>1. stream \in Seq(Units) /\ MaxCount \in Nat /\ Len(stream) \in Nat
  BY TransferAssumption DEF Typed, TransferTypeOK
<1>2. k >= 3 => stream[3] \in Units
  BY <1>1
<1>3. k >= 3 => stream[3].num \in Nat
  BY <1>2 DEF Units
<1> QED BY <1>1, <1>3 DEF CountsIn

LEMMA SenderUnchanged ==
  ASSUME SenderInv, UNCHANGED <<catalog, announced, sender, dir, file, written>>
  PROVE  SenderInv'
BY DEF SenderInv

\* A directory received.
LEMMA RecvDirTyped ==
  ASSUME Typed, RecvDir
  PROVE  /\ Typed'
         /\ \E k \in Got(3) : \E n \in CountsIn(k, {0}) : \E entry \in Entries :
              /\ Take(k, 3)
              /\ entry = [name |-> SubSeq(stream, 1, IF k < 2 THEN k ELSE 2),
                          num |-> n, files |-> <<>>]
              /\ copy' = Append(copy, entry) /\ Len(copy') = Len(copy) + 1
              /\ \A i \in 1..Len(copy) : copy'[i] = copy[i]
              /\ copy'[Len(copy) + 1] = entry
<1>1. PICK k \in Got(3) :
        /\ \E n \in CountsIn(k, {0}) :
             copy' = Append(copy, [name |-> SubSeq(stream, 1, IF k < 2 THEN k ELSE 2),
                                   num |-> n, files |-> <<>>])
        /\ Take(k, 3)
  BY DEF RecvDir
<1>2. PICK n \in CountsIn(k, {0}) :
        copy' = Append(copy, [name |-> SubSeq(stream, 1, IF k < 2 THEN k ELSE 2),
                              num |-> n, files |-> <<>>])
  BY <1>1
<1>3. /\ k \in 0..Len(stream) /\ k \in Nat
      /\ stream \in Seq(Units) /\ Len(stream) \in Nat
      /\ stream' \in Seq(Units) /\ Len(stream') <= MaxStream
      /\ UNCHANGED <<catalog, announced, sender, dir, file, written>>
      /\ short' \in BOOLEAN
  BY <1>1, ReadFacts
<1>4. n \in Nat
  BY <1>3, CountType
<1> DEFINE m == IF k < 2 THEN k ELSE 2
           entry == [name |-> SubSeq(stream, 1, m), num |-> n, files |-> <<>>]
<1>5. entry \in Entries
  <2>1. m \in 0..Len(stream)
    BY <1>3
  <2> HIDE DEF m
  <2>2. SubSeq(stream, 1, m) \in Seq(Units)
    BY <1>3, <2>1, TakeFacts
  <2> QED BY <1>4, <2>2 DEF Entries
<1>6. copy \in Seq(Entries) /\ Len(copy) \in Nat /\ count \in Nat /\ Len(copy) < count
  BY DEF Typed, TransferTypeOK, ReceiverInv, RecvDir, Entries
<1>7. copy' = Append(copy, entry)
  BY <1>2
<1>8. entry.num = n /\ Len(entry.files) = 0
  OBVIOUS
<1> HIDE DEF entry
<1>9. /\ copy' \in Seq(Entries) /\ Len(copy') = Len(copy) + 1
      /\ \A i \in 1..Len(copy) : copy'[i] = copy[i]
      /\ copy'[Len(copy) + 1] = entry
  BY <1>5, <1>6, <1>7, DirAdded
<1>10. \A i \in 1..Len(copy') : Len(copy'[i].files) <= copy'[i].num
  <2>1. \A i \in 1..Len(copy) : Len(copy[i].files) <= copy[i].num
    BY DEF Typed, TransferTypeOK
  <2> QED BY <1>4, <1>6, <1>8, <1>9, <2>1
<1>11. count' = count /\ receiver' = After(copy')
  BY DEF RecvDir
<1>12. copy' # <<>> /\ Len(copy') <= count
  BY <1>6, <1>9
<1>13. ReceiverInv' /\ receiver' \in {"file", "dir", "done"}
  BY <1>6, <1>9, <1>10, <1>11, <1>12, AfterFacts
<1>14. SenderInv'
  BY <1>3, SenderUnchanged DEF Typed
<1>15. TransferTypeOK'
  BY <1>3, <1>6, <1>9, <1>10, <1>11, <1>12, <1>13 DEF Typed, TransferTypeOK, Entries
<1> QED BY <1>1, <1>5, <1>7, <1>9, <1>13, <1>14, <1>15 DEF Typed, entry

\* A file received.
LEMMA RecvFileTyped ==
  ASSUME Typed, RecvFile
  PROVE  /\ Typed'
         /\ copy \in Seq(Entries) /\ copy # <<>> /\ copy' \in Seq(Entries)
         /\ \E k \in Got(2) :
              /\ Take(k, 2)
              /\ SubSeq(stream, 1, k) \in Seq(Units)
              /\ copy' = WithFile(copy, SubSeq(stream, 1, k))
<1>1. PICK k \in Got(2) :
        /\ copy' = WithFile(copy, SubSeq(stream, 1, k))
        /\ Take(k, 2)
  BY DEF RecvFile, WithFile
<1>2. /\ stream' \in Seq(Units) /\ Len(stream') <= MaxStream
      /\ SubSeq(stream, 1, k) \in Seq(Units)
      /\ UNCHANGED <<catalog, announced, sender, dir, file, written>>
      /\ short' \in BOOLEAN
  BY <1>1, ReadFacts
<1>3. copy \in Seq(Entries) /\ Len(copy) \in Nat /\ count \in Nat /\ Len(copy) <= count
      /\ copy # <<>> /\ Len(copy[Len(copy)].files) < copy[Len(copy)].num
  BY DEF Typed, TransferTypeOK, ReceiverInv, RecvFile, Entries, Last
<1>4. /\ Len(copy) \in 1..Len(copy)
      /\ copy' \in Seq(Entries) /\ Len(copy') = Len(copy)
      /\ \A i \in 1..(Len(copy) - 1) : copy'[i] = copy[i]
      /\ copy'[Len(copy)].num = copy[Len(copy)].num
      /\ Len(copy'[Len(copy)].files) = Len(copy[Len(copy)].files) + 1
  BY <1>1, <1>2, <1>3, FileAdded
<1>5. copy[Len(copy)].num \in Nat /\ Len(copy[Len(copy)].files) \in Nat
  <2>1. copy[Len(copy)] \in Entries
    BY <1>3, <1>4
  <2> QED BY <2>1 DEF Entries
<1>6. \A i \in 1..Len(copy') : Len(copy'[i].files) <= copy'[i].num
  <2>1. \A i \in 1..Len(copy) : Len(copy[i].files) <= copy[i].num
    BY DEF Typed, TransferTypeOK
  <2>2. ASSUME NEW i \in 1..Len(copy') PROVE Len(copy'[i].files) <= copy'[i].num
    <3>1. CASE i = Len(copy)
      BY <1>3, <1>4, <1>5, <3>1
    <3>2. CASE i \in 1..(Len(copy) - 1)
      BY <1>3, <1>4, <2>1, <3>2
    <3> QED BY <1>3, <1>4, <3>1, <3>2
  <2> QED BY <2>2
<1>7. count' = count /\ receiver' = After(copy')
  BY DEF RecvFile
<1>8. copy' # <<>> /\ Len(copy') <= count
  BY <1>3, <1>4
<1>9. ReceiverInv' /\ receiver' \in {"file", "dir", "done"}
  BY <1>3, <1>4, <1>6, <1>7, <1>8, AfterFacts
<1>10. SenderInv'
  BY <1>2, SenderUnchanged DEF Typed
<1>11. TransferTypeOK'
  BY <1>2, <1>3, <1>4, <1>6, <1>7, <1>8, <1>9 DEF Typed, TransferTypeOK, Entries
<1> QED BY <1>1, <1>2, <1>3, <1>4, <1>9, <1>10, <1>11 DEF Typed

\* The message is sent.
LEMMA SendMessageTyped ==
  ASSUME Typed, SendMessage
  PROVE  Typed' /\ (~short' => ~short /\ stream' = stream \o Message)
<1>1. /\ catalog \in Seq(Nat) /\ stream \in Seq(Units) /\ Len(stream) \in Nat
      /\ MaxStream \in Nat /\ written = 0 /\ short \in BOOLEAN
  BY CatalogType, TransferAssumption, OffEnd DEF Typed, TransferTypeOK, SenderInv, SendMessage
<1>2. ListLen(catalog) \in Nat /\ ListLen(catalog) >= 3
  BY <1>1, OffEnd
<1>3. Message \in Seq(Units) /\ Len(Message) = 2
  BY UnitType
<1>4. Len(stream) + Len(Message) <= MaxStream
  BY DEF SendMessage, HasRoom
<1>5. /\ stream' \in Seq(Units) /\ Len(stream') <= MaxStream /\ short' \in BOOLEAN
      /\ ~short' => ~short /\ stream' = stream \o Message
  <2>1. CASE stream' = stream \o Message /\ short' = short
    BY <1>1, <1>3, <1>4, <2>1, PutFacts
  <2>2. CASE (\E part \in WriteParts(Message) : stream' = stream \o part) /\ short' = TRUE
    <3>1. PICK k \in 1..(Len(Message) - 1) : stream' = stream \o SubSeq(Message, 1, k)
      BY <2>2 DEF WriteParts
    <3>2. k \in 0..Len(Message) /\ k = 1
      BY <1>3
    <3>3. SubSeq(Message, 1, k) \in Seq(Units) /\ Len(SubSeq(Message, 1, k)) = k
      BY <1>3, <3>2, TakeFacts
    <3>4. stream' \in Seq(Units) /\ Len(stream') = Len(stream) + k
      BY <1>1, <3>1, <3>3, PutFacts
    <3> QED BY <1>1, <1>3, <1>4, <2>2, <3>2, <3>4
  <2> QED BY <1>1, <2>1, <2>2 DEF SendMessage
<1>6. SenderInv'
  BY <1>1, <1>2 DEF SendMessage, SenderInv
<1>7. ReceiverInv'
  BY DEF Typed, ReceiverInv, SendMessage, receiverVars
<1>8. TransferTypeOK'
  BY <1>1, <1>2, <1>5 DEF Typed, TransferTypeOK, SendMessage, receiverVars
<1> QED BY <1>5, <1>6, <1>7, <1>8 DEF Typed

LEMMA SendListTyped ==
  ASSUME Typed, SendList
  PROVE  /\ Typed'
         /\ announced = ListLen(catalog) /\ written = Off(catalog, 0, 0)
         /\ IsFrame(catalog, 0, 0) /\ Write(Frame(catalog, 0, 0), "dir")
<1>1. catalog \in Seq(Nat) /\ Len(catalog) \in Nat /\ Len(catalog) > 0
  BY CatalogType DEF Typed
<1>2. /\ announced = ListLen(catalog) /\ written = Off(catalog, 0, 0)
      /\ IsFrame(catalog, 0, 0) /\ Write(Frame(catalog, 0, 0), "dir")
  BY <1>1, OffStart DEF Typed, SenderInv, SendList, IsFrame, Frame
<1>3. /\ stream' \in Seq(Units) /\ Len(stream') <= MaxStream
      /\ written' \in 0..ListLen(catalog)
      /\ UNCHANGED <<catalog, announced, receiver, count, copy>>
      /\ \/ short' = short /\ written' = Off(catalog, 0, 0) + Size(0) /\ sender' = "dir"
         \/ sender' = "ended" /\ short' = TRUE /\ written' = written
  BY <1>2, WriteFacts
<1>4. /\ ListLen(catalog) >= 3 /\ ListLen(catalog) \in Nat
      /\ Off(catalog, 0, 0) + Size(0) = Off(catalog, 1, 0)
  BY <1>1, OffEnd, OffStart DEF Size
<1>5. dir' = 1 /\ file' = file /\ 1 \in 1..Len(catalog) /\ file \in Nat /\ short \in BOOLEAN
  BY <1>1 DEF SendList, Typed, TransferTypeOK
<1>6. SenderInv'
  BY <1>2, <1>3, <1>4, <1>5 DEF SenderInv
<1>7. ReceiverInv'
  BY <1>3 DEF Typed, ReceiverInv
<1>8. /\ sender' \in {"message", "list", "dir", "file", "sent", "ended"}
      /\ short' \in BOOLEAN /\ dir' \in 0..(Len(catalog') + 1) /\ file' \in Nat
  <2>1. catalog' = catalog
    BY <1>3
  <2>2. dir' \in 0..(Len(catalog') + 1) /\ file' \in Nat
    BY <1>1, <1>5, <2>1
  <2>3. sender' = "dir" \/ sender' = "ended"
    BY <1>3
  <2>4. short' \in BOOLEAN
    BY <1>3, <1>5
  <2> QED BY <2>2, <2>3, <2>4
<1>9. TransferTypeOK'
  BY <1>3, <1>8 DEF Typed, TransferTypeOK
<1> QED BY <1>2, <1>6, <1>7, <1>9 DEF Typed

\* A frame of a directory is sent.
LEMMA SendFrameTyped ==
  ASSUME Typed, NEW d \in 1..Len(catalog), NEW f \in 0..catalog[d],
         announced = ListLen(catalog), written = Off(catalog, d, f),
         Write(Frame(catalog, d, f), AfterFiles(d, f)),
         dir' = IF f = catalog[d] THEN d + 1 ELSE d, file' = f
  PROVE  Typed'
<1>1. catalog \in Seq(Nat) /\ Len(catalog) \in Nat
  BY CatalogType DEF Typed
<1>2. d \in Nat /\ f \in Nat /\ IsFrame(catalog, d, f)
  BY <1>1 DEF IsFrame
<1>3. /\ stream' \in Seq(Units) /\ Len(stream') <= MaxStream
      /\ written' \in 0..ListLen(catalog)
      /\ UNCHANGED <<catalog, announced, receiver, count, copy>>
      /\ \/ /\ short' = short /\ written' = Off(catalog, d, f) + Size(f)
            /\ sender' = AfterFiles(d, f)
         \/ sender' = "ended" /\ short' = TRUE /\ written' = written
  BY <1>2, WriteFacts
<1>4. /\ SenderInv' /\ sender' \in {"message", "list", "dir", "file", "sent", "ended"}
      /\ dir' \in 0..(Len(catalog') + 1) /\ file' \in Nat
  BY <1>3, AfterFrame
<1>5. ReceiverInv'
  BY <1>3 DEF Typed, ReceiverInv
<1>6. short \in BOOLEAN
  BY DEF Typed, TransferTypeOK
<1>7. TransferTypeOK'
  BY <1>3, <1>4, <1>6 DEF Typed, TransferTypeOK
<1> QED BY <1>4, <1>5, <1>7 DEF Typed

LEMMA SendDirIsFrame ==
  ASSUME Typed, SendDir
  PROVE  /\ dir \in 1..Len(catalog) /\ 0 \in 0..catalog[dir]
         /\ announced = ListLen(catalog) /\ written = Off(catalog, dir, 0)
         /\ Write(Frame(catalog, dir, 0), AfterFiles(dir, 0))
         /\ dir' = IF 0 = catalog[dir] THEN dir + 1 ELSE dir
         /\ file' = 0
<1>1. catalog \in Seq(Nat)
  BY CatalogType DEF Typed
<1>2. dir \in 1..Len(catalog) /\ announced = ListLen(catalog) /\ written = Off(catalog, dir, 0)
  BY DEF Typed, SenderInv, SendDir
<1>3. dir \in Nat /\ dir > 0 /\ catalog[dir] \in Nat
  BY <1>1, <1>2
<1>4. Frame(catalog, dir, 0) = Header(dir, catalog[dir])
  BY <1>3 DEF Frame
<1> QED BY <1>2, <1>3, <1>4 DEF SendDir

LEMMA SendFileIsFrame ==
  ASSUME Typed, SendFile
  PROVE  /\ dir \in 1..Len(catalog) /\ file + 1 \in 0..catalog[dir]
         /\ announced = ListLen(catalog) /\ written = Off(catalog, dir, file + 1)
         /\ Write(Frame(catalog, dir, file + 1), AfterFiles(dir, file + 1))
         /\ dir' = IF file + 1 = catalog[dir] THEN dir + 1 ELSE dir
         /\ file' = file + 1
<1>1. catalog \in Seq(Nat)
  BY CatalogType DEF Typed
<1>2. /\ dir \in 1..Len(catalog) /\ announced = ListLen(catalog)
      /\ file + 1 \in 1..catalog[dir] /\ written = Off(catalog, dir, file + 1)
  BY DEF Typed, SenderInv, SendFile
<1>3. file \in Nat /\ catalog[dir] \in Nat
  BY <1>1, <1>2 DEF Typed, TransferTypeOK
<1>4. Frame(catalog, dir, file + 1) = Name(dir, file + 1)
  BY <1>3 DEF Frame
<1> QED BY <1>2, <1>3, <1>4 DEF SendFile

LEMMA RecvMessageTyped ==
  ASSUME Typed, RecvMessage
  PROVE  Typed' /\ \E k \in Got(2) : Take(k, 2)
<1>1. PICK k \in Got(2) : Take(k, 2)
  BY DEF RecvMessage
<1>2. /\ stream' \in Seq(Units) /\ Len(stream') <= MaxStream
      /\ UNCHANGED <<catalog, announced, sender, dir, file, written>> /\ short' \in BOOLEAN
  BY <1>1, ReadFacts
<1>3. SenderInv'
  BY <1>2, SenderUnchanged DEF Typed
<1>4. ReceiverInv'
  BY DEF Typed, ReceiverInv, RecvMessage
<1>5. TransferTypeOK'
  BY <1>2 DEF Typed, TransferTypeOK, RecvMessage
<1> QED BY <1>1, <1>3, <1>4, <1>5 DEF Typed

LEMMA RecvListTyped ==
  ASSUME Typed, RecvList
  PROVE  /\ Typed'
         /\ \E k \in Got(3) : Take(k, 3) /\ count' \in CountsIn(k, 0..MaxCount)
         /\ receiver' = (IF count' > 0 THEN "dir" ELSE "failed") /\ copy' = copy
<1>1. PICK k \in Got(3) :
        /\ Take(k, 3)
        /\ \E n \in CountsIn(k, 0..MaxCount) :
             count' = n /\ receiver' = IF n > 0 THEN "dir" ELSE "failed"
  BY DEF RecvList
<1>2. /\ stream' \in Seq(Units) /\ Len(stream') <= MaxStream /\ k \in 0..Len(stream)
      /\ UNCHANGED <<catalog, announced, sender, dir, file, written>> /\ short' \in BOOLEAN
  BY <1>1, ReadFacts
<1>3. /\ count' \in CountsIn(k, 0..MaxCount)
      /\ receiver' = (IF count' > 0 THEN "dir" ELSE "failed")
      /\ copy' = copy /\ copy = <<>>
  BY <1>1 DEF RecvList, Typed, ReceiverInv
<1>4. count' \in Nat
  <2>1. 0..MaxCount \in SUBSET Nat
    BY TransferAssumption
  <2> QED BY <1>2, <1>3, <2>1, CountType
<1>5. Len(copy') = 0
  BY <1>3
<1>6. SenderInv'
  BY <1>2, SenderUnchanged DEF Typed
<1>7. ReceiverInv'
  BY <1>3, <1>4, <1>5 DEF ReceiverInv
<1>8. TransferTypeOK'
  BY <1>2, <1>3, <1>4, <1>5 DEF Typed, TransferTypeOK
<1> QED BY <1>1, <1>3, <1>6, <1>7, <1>8 DEF Typed

\* A step without a frame.
LEMMA EndTyped ==
  ASSUME Typed, SenderEnds \/ RecvFails \/ UNCHANGED transferVars
  PROVE  Typed'
<1>1. CASE SenderEnds
  <2>1. SenderInv' /\ ReceiverInv'
    BY <1>1 DEF Typed, SenderInv, ReceiverInv, SenderEnds, receiverVars
  <2>2. TransferTypeOK'
    BY <1>1 DEF Typed, TransferTypeOK, SenderEnds, receiverVars
  <2> QED BY <2>1, <2>2 DEF Typed
<1>2. CASE RecvFails
  <2>1. SenderInv' /\ ReceiverInv'
    BY <1>2 DEF Typed, SenderInv, ReceiverInv, RecvFails, senderVars
  <2>2. TransferTypeOK'
    BY <1>2 DEF Typed, TransferTypeOK, RecvFails, senderVars
  <2> QED BY <2>1, <2>2 DEF Typed
<1>3. CASE UNCHANGED transferVars
  <2>1. SenderInv' /\ ReceiverInv'
    BY <1>3 DEF Typed, SenderInv, ReceiverInv, transferVars, senderVars, receiverVars
  <2>2. TransferTypeOK'
    BY <1>3 DEF Typed, TransferTypeOK, transferVars, senderVars, receiverVars
  <2> QED BY <2>1, <2>2 DEF Typed
<1> QED BY <1>1, <1>2, <1>3

LEMMA NextTyped == Typed /\ [TransferNext]_transferVars => Typed'
<1> SUFFICES ASSUME Typed, [TransferNext]_transferVars PROVE Typed'
  OBVIOUS
<1>1. CASE SendMessage
  BY <1>1, SendMessageTyped
<1>2. CASE SendList
  BY <1>2, SendListTyped
<1>3. CASE SendDir
  BY <1>3, SendDirIsFrame, SendFrameTyped
<1>4. CASE SendFile
  BY <1>4, SendFileIsFrame, SendFrameTyped
<1>5. CASE RecvMessage
  BY <1>5, RecvMessageTyped
<1>6. CASE RecvList
  BY <1>6, RecvListTyped
<1>7. CASE RecvDir
  BY <1>7, RecvDirTyped
<1>8. CASE RecvFile
  BY <1>8, RecvFileTyped
<1>9. CASE SenderEnds \/ RecvFails \/ UNCHANGED transferVars
  BY <1>9, EndTyped
<1> QED
  BY <1>1, <1>2, <1>3, <1>4, <1>5, <1>6, <1>7, <1>8, <1>9 DEF TransferNext, Sender, Receiver

\* The types, and that the receiver never has more directories or files than it
\* was told of, hold for lists of any size, whatever is cut.
THEOREM TransferTyping == TransferSpec => []TransferTypeOK
<1>1. TransferSpec => []Typed
  BY InitTyped, NextTyped, PTL DEF TransferSpec
<1> QED BY <1>1, PTL DEF Typed

\* The length announced by get_list_len is what send_list_info writes, for a
\* catalogue of any size.
THEOREM AnnouncedLengthIsWritten == TransferSpec => []AnnouncedIsWritten
<1>1. TransferSpec => []Typed
  BY InitTyped, NextTyped, PTL DEF TransferSpec
<1>2. Typed => AnnouncedIsWritten
  BY DEF Typed, SenderInv, AnnouncedIsWritten
<1> QED BY <1>1, <1>2, PTL
-----------------------------------------------------------------------------
(* The two ends in step.                                                    *)

\* The frame the device reads next.
NextDir ==
  IF receiver = "dir" THEN Len(copy) + 1
  ELSE IF receiver = "file" THEN Len(copy)
  ELSE IF receiver = "done" THEN Len(catalog) + 1 ELSE 0

NextFile == IF receiver = "file" THEN Len(Last(copy).files) + 1 ELSE 0

\* Units put on the link and taken from it, those of the message included.
Produced == IF announced = 0 THEN 0 ELSE written + 2
Consumed == IF receiver = "message" THEN 0 ELSE Off(catalog, NextDir, NextFile) + 2

\* What is on the link is what lies between the two.
StreamInStep ==
  /\ Len(stream) + Consumed = Produced
  /\ \A i \in 1..Len(stream) :
       Consumed + i > 2 => UnitIs(catalog, (Consumed + i) - 2, stream[i])

\* The copy is the beginning of the list.
CopyExact ==
  /\ count = Len(catalog) /\ Len(copy) <= Len(catalog)
  /\ \A i \in 1..Len(copy) :
       /\ copy[i].name = Name(i, 0) /\ copy[i].num = catalog[i]
       /\ \A k \in 1..Len(copy[i].files) : copy[i].files[k] = Name(i, k)
       /\ Len(copy[i].files) = catalog[i] \/ (i = Len(copy) /\ receiver = "file")
  /\ receiver = "done" => Len(copy) = Len(catalog)

InOrder ==
  /\ receiver # "failed"
  /\ StreamInStep
  /\ receiver \in {"dir", "file", "done"} => CopyExact

\* What RestIsBlank says of a transfer in which no frame was cut.
CopyOrBlank ==
  \A i \in 1..Len(copy) :
    \/ /\ copy[i].name = <<>> /\ copy[i].num = 0
       /\ sender = "ended" /\ stream = <<>>
    \/ /\ i <= Len(catalog)
       /\ copy[i].name = Name(i, 0) /\ copy[i].num = catalog[i]
       /\ \A k \in 1..Len(copy[i].files) : copy[i].files[k] \in {Name(i, k), <<>>}

\* The child has gone before the end of the list, and the device reads blanks.
CutOff ==
  /\ sender = "ended"
  /\ receiver # "failed" => stream = <<>> /\ written < ListLen(catalog)
  /\ CopyOrBlank

OrderInv == ~short => InOrder \/ CutOff

LEMMA PlaceType ==
  ASSUME Typed
  PROVE  /\ NextDir \in Nat /\ NextFile \in Nat /\ Off(catalog, NextDir, NextFile) \in Nat
         /\ Consumed \in Nat /\ Produced \in Nat
         /\ stream \in Seq(Units) /\ Len(stream) \in Nat
         /\ written \in Nat /\ ListLen(catalog) \in Nat /\ ListLen(catalog) >= 3
<1>1. catalog \in Seq(Nat) /\ Len(catalog) \in Nat
  BY CatalogType DEF Typed
<1>2. ListLen(catalog) \in Nat /\ ListLen(catalog) >= 3
  BY <1>1, OffEnd
<1>3. copy \in Seq(Entries) /\ Len(copy) \in Nat
  BY DEF Typed, TransferTypeOK, Entries
<1>4. receiver = "file" => Len(Last(copy).files) \in Nat
  <2>1. SUFFICES ASSUME receiver = "file" PROVE Len(Last(copy).files) \in Nat
    OBVIOUS
  <2>2. Len(copy) \in 1..Len(copy)
    BY <1>3, <2>1, EmptySeq DEF Typed, ReceiverInv
  <2>3. copy[Len(copy)] \in Entries
    BY <1>3, <2>2
  <2> QED BY <2>3 DEF Last, Entries
<1>5. NextDir \in Nat /\ NextFile \in Nat
  BY <1>1, <1>3, <1>4 DEF NextDir, NextFile
<1>6. Off(catalog, NextDir, NextFile) \in Nat
  BY <1>1, <1>5, OffType
<1>7. written \in Nat /\ stream \in Seq(Units) /\ Len(stream) \in Nat
  BY <1>2 DEF Typed, TransferTypeOK
<1> QED BY <1>2, <1>5, <1>6, <1>7 DEF Consumed, Produced

LEMMA StreamExtended ==
  ASSUME Typed, StreamInStep, UNCHANGED <<catalog, receiver, copy>>,
         NEW units \in Seq(Units), stream' = stream \o units,
         Produced' = Produced + Len(units),
         \A h \in 1..Len(units) :
           Produced + h > 2 => UnitIs(catalog, (Produced + h) - 2, units[h])
  PROVE  StreamInStep'
<1>1. /\ Consumed \in Nat /\ Produced \in Nat /\ stream \in Seq(Units)
      /\ Len(stream) \in Nat /\ Len(units) \in Nat
  BY PlaceType
<1>2. Consumed' = Consumed
  BY DEF Consumed, NextDir, NextFile
<1> DEFINE c == Consumed
           p == Produced
           a == Len(stream)
           b == Len(units)
<1>3. c \in Nat /\ p \in Nat /\ a \in Nat /\ b \in Nat /\ a + c = p
  BY <1>1 DEF StreamInStep
<1>4. /\ Len(stream') = a + b
      /\ \A i \in 1..a : stream'[i] = stream[i]
      /\ \A i \in 1..b : stream'[a + i] = units[i]
  BY <1>1, PutFacts
<1>6. (a + b) + c = p + b
  <2> HIDE DEF a, b, c, p
  <2> QED BY <1>3
<1>7. ASSUME NEW i \in 1..(a + b), i \notin 1..a
      PROVE  \E h \in 1..b : i = a + h /\ c + i = p + h
  <2> HIDE DEF a, b, c, p
  <2> DEFINE h == i - a
  <2>1. h \in 1..b /\ i = a + h
    BY <1>3, <1>7
  <2>2. c + i = p + h
    BY <1>3, <1>7
  <2> QED BY <2>1, <2>2
<1>5. ASSUME NEW i \in 1..Len(stream'), Consumed + i > 2
      PROVE  UnitIs(catalog, (Consumed + i) - 2, stream'[i])
  <2>1. CASE i \in 1..a
    <3>1. i \in 1..Len(stream) /\ stream'[i] = stream[i]
      BY <1>4, <2>1
    <3> QED BY <1>5, <3>1 DEF StreamInStep
  <2>2. CASE i \notin 1..a
    <3>1. PICK h \in 1..b : i = a + h /\ c + i = p + h
      BY <1>4, <1>7, <2>2
    <3>2. stream'[i] = units[h] /\ Consumed + i = Produced + h
      BY <1>4, <3>1
    <3>3. Produced + h > 2 /\ h \in 1..Len(units)
      BY <1>5, <3>2
    <3> QED BY <3>2, <3>3
  <2> QED BY <2>1, <2>2
<1>8. Len(stream') + Consumed' = Produced'
  BY <1>2, <1>4, <1>6
<1> QED BY <1>2, <1>5, <1>8 DEF StreamInStep

LEMMA StreamTaken ==
  ASSUME Typed, StreamInStep, NEW k \in 0..Len(stream),
         stream' = SubSeq(stream, k + 1, Len(stream)),
         catalog' = catalog, Produced' = Produced, Consumed' = Consumed + k
  PROVE  StreamInStep'
<1>1. Consumed \in Nat /\ Produced \in Nat /\ stream \in Seq(Units) /\ Len(stream) \in Nat
  BY PlaceType
<1>2. /\ Len(stream') = Len(stream) - k
      /\ \A i \in 1..(Len(stream) - k) : stream'[i] = stream[k + i]
  BY <1>1, TakeFacts
<1>3. Len(stream') + Consumed' = Produced'
  BY <1>1, <1>2 DEF StreamInStep
<1>4. ASSUME NEW i \in 1..Len(stream'), Consumed' + i > 2
      PROVE  UnitIs(catalog, (Consumed' + i) - 2, stream'[i])
  <2>1. k + i \in 1..Len(stream) /\ stream'[i] = stream[k + i]
    BY <1>1, <1>2
  <2>2. Consumed' + i = Consumed + (k + i)
    BY <1>1, <2>1
  <2> QED BY <1>4, <2>1, <2>2 DEF StreamInStep
<1> QED BY <1>3, <1>4 DEF StreamInStep

\* What the device finds at the head of the link.
LEMMA FrameAtHead ==
  ASSUME Typed, StreamInStep, NEW d \in Nat, NEW f \in Nat, IsFrame(catalog, d, f),
         Consumed = Off(catalog, d, f) + 2, Size(f) <= Len(stream)
  PROVE  \A h \in 1..Size(f) : stream[h] = Frame(catalog, d, f)[h]
<1> SUFFICES ASSUME NEW h \in 1..Size(f) PROVE stream[h] = Frame(catalog, d, f)[h]
  OBVIOUS
<1>1. catalog \in Seq(Nat)
  BY CatalogType DEF Typed
<1>2. Off(catalog, d, f) \in Nat /\ Len(stream) \in Nat /\ Size(f) \in Nat /\ h \in Nat /\ h > 0
  BY <1>1, OffType, PlaceType DEF Size
<1>3. h \in 1..Len(stream) /\ Consumed + h > 2 /\ (Consumed + h) - 2 = Off(catalog, d, f) + h
  BY <1>2
<1>4. UnitIs(catalog, Off(catalog, d, f) + h, stream[h])
  BY <1>3 DEF StreamInStep
<1> QED BY <1>1, <1>4, UnitAt

\* A frame is sent in its place.
LEMMA FrameSent ==
  ASSUME Typed, InOrder, NEW d \in Nat, NEW f \in Nat, IsFrame(catalog, d, f),
         announced = ListLen(catalog), written = Off(catalog, d, f),
         stream' = stream \o Frame(catalog, d, f), written' = Off(catalog, d, f) + Size(f),
         UNCHANGED <<catalog, announced, receiver, count, copy>>
  PROVE  InOrder'
<1> DEFINE fr == Frame(catalog, d, f)
<1>1. catalog \in Seq(Nat)
  BY CatalogType DEF Typed
<1>2. /\ Off(catalog, d, f) \in Nat /\ Size(f) \in Nat /\ ListLen(catalog) >= 3
      /\ fr \in Seq(Units) /\ Len(fr) = Size(f) /\ ListLen(catalog) \in Nat
  BY <1>1, OffType, FrameType, PlaceType DEF Size
<1>3. Produced = Off(catalog, d, f) + 2 /\ Produced' = Produced + Len(fr)
  BY <1>2 DEF Produced
<1>4. ASSUME NEW h \in 1..Len(fr), Produced + h > 2
      PROVE  UnitIs(catalog, (Produced + h) - 2, fr[h])
  <2>1. h \in Nat /\ h \in 1..Size(f)
    BY <1>2
  <2> DEFINE o == Off(catalog, d, f)
             z == Produced
  <2>2. z = o + 2 /\ o \in Nat
    BY <1>2, <1>3
  <2>3. (z + h) - 2 = o + h
    <3> HIDE DEF o, z
    <3> QED BY <2>1, <2>2
  <2> QED BY <2>1, <2>3 DEF UnitIs
<1> HIDE DEF fr
<1>5. StreamInStep'
  <2>1. stream' = stream \o fr /\ StreamInStep
    BY DEF fr, InOrder
  <2> QED BY <1>2, <1>3, <1>4, <2>1, StreamExtended
<1> QED BY <1>5 DEF InOrder, CopyExact

LEMMA ExactIsCopy ==
  ASSUME CopyExact
  PROVE  CopyOrBlank
<1>1. \A i \in 1..Len(copy) : i <= Len(catalog)
  BY DEF CopyExact, CopyOrBlank
<1> QED BY <1>1 DEF CopyExact, CopyOrBlank

LEMMA OrderIsCopy ==
  ASSUME Typed, InOrder \/ CutOff
  PROVE  CopyOrBlank
<1>1. CASE CutOff
  BY <1>1 DEF CutOff
<1>2. CASE InOrder /\ receiver \in {"dir", "file", "done"}
  BY <1>2, ExactIsCopy DEF InOrder
<1>3. CASE InOrder /\ receiver \in {"message", "list"}
  <2>1. copy = <<>> /\ Len(copy) = 0
    BY <1>3 DEF Typed, ReceiverInv
  <2> QED BY <2>1 DEF CopyOrBlank
<1> QED BY <1>1, <1>2, <1>3 DEF InOrder, Typed, TransferTypeOK

\* The next frame is one of the list.
LEMMA NextIsFrame ==
  ASSUME Typed, InOrder, receiver \in {"list", "dir", "file"}
  PROVE  IsFrame(catalog, NextDir, NextFile)
<1>1. Len(catalog) \in Nat /\ copy \in Seq(Entries) /\ Len(copy) \in Nat /\ count \in Nat
  BY CatalogType DEF Typed, TransferTypeOK, Entries
<1>2. CASE receiver = "list"
  BY <1>1, <1>2 DEF IsFrame, NextDir, NextFile
<1>3. CASE receiver = "dir"
  <2>1. count = Len(catalog) /\ Len(copy) < count
    BY <1>3 DEF Typed, ReceiverInv, InOrder, CopyExact
  <2> QED BY <1>1, <1>3, <2>1 DEF IsFrame, NextDir, NextFile
<1>4. CASE receiver = "file"
  <2>1. Len(copy) \in 1..Len(copy) /\ Len(copy) <= Len(catalog)
        /\ copy[Len(copy)].num = catalog[Len(copy)]
        /\ Len(copy[Len(copy)].files) < copy[Len(copy)].num
    <3>1. Len(copy) \in 1..Len(copy)
      BY <1>1, <1>4, EmptySeq DEF Typed, ReceiverInv
    <3> QED BY <1>4, <3>1 DEF Typed, ReceiverInv, InOrder, CopyExact, Last
  <2>2. copy[Len(copy)] \in Entries
    BY <1>1, <2>1
  <2>3. Len(copy[Len(copy)].files) \in Nat /\ copy[Len(copy)].num \in Nat
    BY <2>2 DEF Entries
  <2> QED BY <1>1, <1>4, <2>1, <2>3 DEF IsFrame, NextDir, NextFile, Last
<1> QED BY <1>2, <1>3, <1>4

\* When the link is empty and the device not done, the list is not complete.
LEMMA EmptyIsShort ==
  ASSUME Typed, InOrder, stream = <<>>, receiver \in {"message", "list", "dir", "file"}
  PROVE  written < ListLen(catalog)
<1>1. catalog \in Seq(Nat)
  BY CatalogType DEF Typed
<1>2. /\ Off(catalog, NextDir, NextFile) \in Nat /\ Consumed \in Nat /\ Produced \in Nat
      /\ written \in Nat /\ ListLen(catalog) \in Nat /\ ListLen(catalog) >= 3
      /\ NextDir \in Nat /\ NextFile \in Nat
  BY PlaceType
<1>3. Consumed = Produced
  <2>1. Len(stream) = 0 /\ Len(stream) + Consumed = Produced
    BY DEF InOrder, StreamInStep
  <2> QED BY <1>2, <2>1
<1>4. CASE receiver = "message"
  <2>1. announced = 0
    BY <1>2, <1>3, <1>4 DEF Consumed, Produced
  <2> QED BY <1>2, <2>1 DEF Typed, SenderInv
<1>5. CASE receiver \in {"list", "dir", "file"}
  <2>1. written = Off(catalog, NextDir, NextFile)
    BY <1>2, <1>3, <1>5 DEF Consumed, Produced
  <2>2. Off(catalog, NextDir, NextFile) + Size(NextFile) <= ListLen(catalog)
    BY <1>1, <1>2, <1>5, NextIsFrame, OffInList
  <2>3. Size(NextFile) \in Nat /\ Size(NextFile) > 0
    BY DEF Size
  <2> QED BY <1>2, <2>1, <2>2, <2>3
<1> QED BY <1>4, <1>5

\* A read of a transfer in which no frame was cut: a whole frame while the ends
\* are in step, or nothing.
LEMMA WholeRead ==
  ASSUME Typed, OrderInv, NEW n \in {2, 3}, NEW k \in Got(n), Take(k, n), ~short',
         receiver \in {"message", "list", "dir", "file"}
  PROVE  /\ stream' = SubSeq(stream, k + 1, Len(stream)) /\ k \in 0..Len(stream)
         /\ CopyOrBlank
         /\ \/ k = n /\ InOrder /\ n <= Len(stream)
            \/ /\ k = 0 /\ sender = "ended" /\ stream = <<>> /\ stream' = <<>>
               /\ written < ListLen(catalog)
<1>1. /\ stream' = SubSeq(stream, k + 1, Len(stream)) /\ k \in 0..Len(stream)
      /\ Len(stream) \in Nat /\ stream' \in Seq(Units) /\ Len(stream') = Len(stream) - k
      /\ ~short /\ (k = n \/ (k = 0 /\ sender = "ended" /\ stream = <<>>))
  BY ReadFacts
<1>2. InOrder \/ CutOff
  BY <1>1 DEF OrderInv
<1>3. CopyOrBlank
  BY <1>2, OrderIsCopy
<1>4. CASE k = n
  <2>1. Len(stream) > 0
    BY <1>1, <1>4
  <2>2. stream # <<>>
    BY <2>1
  <2> QED BY <1>1, <1>2, <1>3, <1>4, <2>2 DEF CutOff
<1>5. CASE k = 0 /\ sender = "ended" /\ stream = <<>>
  <2>1. written < ListLen(catalog)
    BY <1>2, <1>5, EmptyIsShort DEF CutOff
  <2>2. stream' = <<>>
    BY <1>1, <1>5, EmptySeq
  <2> QED BY <1>1, <1>3, <1>5, <2>1, <2>2
<1> QED BY <1>1, <1>4, <1>5

LEMMA RecvMessageInOrder ==
  ASSUME Typed, OrderInv, RecvMessage, ~short'
  PROVE  InOrder' \/ CutOff'
<1>1. PICK k \in Got(2) : Take(k, 2)
  BY DEF RecvMessage
<1>2. /\ receiver = "message" /\ receiver' = "list" /\ copy' = copy /\ copy = <<>>
      /\ UNCHANGED <<catalog, announced, sender, written>>
  BY <1>1 DEF RecvMessage, Take, senderVars, Typed, ReceiverInv
<1>3. /\ stream' = SubSeq(stream, k + 1, Len(stream)) /\ k \in 0..Len(stream)
      /\ \/ k = 2 /\ InOrder
         \/ sender = "ended" /\ stream' = <<>> /\ written < ListLen(catalog)
  BY <1>1, <1>2, WholeRead
<1>4. CASE k = 2 /\ InOrder
  <2>1. Consumed = 0 /\ Consumed' = 2
    <3>1. NextDir' = 0 /\ NextFile' = 0 /\ catalog \in Seq(Nat)
      BY <1>2, CatalogType DEF Typed, NextDir, NextFile
    <3>2. Off(catalog', NextDir', NextFile') = 0
      BY <1>2, <3>1, OffStart
    <3> QED BY <1>2, <3>2 DEF Consumed
  <2>2. Produced' = Produced /\ Consumed' = Consumed + k
    BY <1>2, <1>4, <2>1 DEF Produced
  <2>3. StreamInStep'
    BY <1>2, <1>3, <1>4, <2>2, StreamTaken DEF InOrder
  <2> QED BY <1>2, <2>3 DEF InOrder
<1>5. CASE sender = "ended" /\ stream' = <<>> /\ written < ListLen(catalog)
  <2>1. Len(copy') = 0
    BY <1>2
  <2>2. CopyOrBlank'
    BY <2>1 DEF CopyOrBlank
  <2> QED BY <1>2, <1>5, <2>2 DEF CutOff
<1> QED BY <1>3, <1>4, <1>5

LEMMA RecvListInOrder ==
  ASSUME Typed, OrderInv, RecvList, ~short'
  PROVE  InOrder' \/ CutOff'
<1>1. PICK k \in Got(3) : Take(k, 3) /\ count' \in CountsIn(k, 0..MaxCount)
  BY RecvListTyped
<1>2. /\ receiver = "list" /\ receiver' = (IF count' > 0 THEN "dir" ELSE "failed")
      /\ copy' = copy /\ copy = <<>>
      /\ UNCHANGED <<catalog, announced, sender, written>>
  BY <1>1, RecvListTyped DEF RecvList, Take, senderVars, Typed, ReceiverInv
<1>3. /\ stream' = SubSeq(stream, k + 1, Len(stream)) /\ k \in 0..Len(stream)
      /\ \/ k = 3 /\ InOrder /\ 3 <= Len(stream)
         \/ sender = "ended" /\ stream' = <<>> /\ written < ListLen(catalog)
  BY <1>1, <1>2, WholeRead
<1>4. CASE k = 3 /\ InOrder /\ 3 <= Len(stream)
  <2>1. catalog \in Seq(Nat) /\ Len(catalog) \in Nat /\ Len(catalog) > 0
    BY CatalogType DEF Typed
  <2>2. Off(catalog, 0, 0) = 0 /\ Off(catalog, 1, 0) = 3 /\ NextDir = 0 /\ NextFile = 0
    BY <1>2, <2>1, OffStart DEF NextDir, NextFile
  <2>3. Consumed = 2 /\ IsFrame(catalog, 0, 0) /\ Size(0) = 3
    BY <1>2, <2>1, <2>2 DEF Consumed, IsFrame, Size
  <2>4. stream[3] = Frame(catalog, 0, 0)[3]
    BY <1>4, <2>2, <2>3, FrameAtHead DEF InOrder
  <2>5. stream[3] = Unit("count", 0, 0, Len(catalog))
    BY <2>1, <2>4, UnitType DEF Frame
  <2>6. count' = Len(catalog)
    BY <1>1, <1>4, <2>5 DEF CountsIn, Unit
  <2>7. receiver' = "dir" /\ NextDir' = 1 /\ NextFile' = 0 /\ Len(copy') = 0
    BY <1>2, <2>1, <2>6 DEF NextDir, NextFile
  <2>8. Consumed' = 5
    BY <1>2, <2>2, <2>7 DEF Consumed
  <2>9. Produced' = Produced /\ Consumed' = Consumed + k
    BY <1>2, <1>4, <2>3, <2>8 DEF Produced
  <2>10. StreamInStep'
    BY <1>2, <1>3, <1>4, <2>9, StreamTaken DEF InOrder
  <2>11. CopyExact'
    BY <1>2, <2>1, <2>6, <2>7 DEF CopyExact
  <2> QED BY <2>7, <2>10, <2>11 DEF InOrder
<1>5. CASE sender = "ended" /\ stream' = <<>> /\ written < ListLen(catalog)
  <2>1. Len(copy') = 0
    BY <1>2
  <2>2. CopyOrBlank'
    BY <2>1 DEF CopyOrBlank
  <2> QED BY <1>2, <1>5, <2>2 DEF CutOff
<1> QED BY <1>3, <1>4, <1>5

\* Where the device is once it has read a frame of a directory in its place.
LEMMA AfterRead ==
  ASSUME Typed, Typed', catalog' = catalog, count = Len(catalog), receiver' = After(copy'),
         NEW d \in 1..Len(catalog), NEW f \in 0..catalog[d],
         Len(copy') = d, copy'[d].num = catalog[d], Len(copy'[d].files) = f
  PROVE  /\ receiver' \in {"dir", "file", "done"}
         /\ Consumed' = (Off(catalog, d, f) + Size(f)) + 2
         /\ f = catalog[d] \/ receiver' = "file"
         /\ receiver' = "done" => d = Len(catalog)
<1>1. catalog \in Seq(Nat) /\ Len(catalog) \in Nat /\ catalog[d] \in Nat /\ d \in Nat
      /\ f \in Nat
  BY CatalogType DEF Typed
<1>2. Last(copy') = copy'[d]
  BY DEF Last
<1>3. /\ Off(catalog, d, f) + Size(f) = Off(catalog, d, f + 1)
      /\ f = catalog[d] => Off(catalog, d, f) + Size(f) = Off(catalog, d + 1, 0)
  BY <1>1, OffNext
<1>4. CASE f < catalog[d]
  <2>1. receiver' = "file"
    BY <1>2, <1>4 DEF After
  <2>2. NextDir' = d /\ NextFile' = f + 1
    BY <1>2, <2>1 DEF NextDir, NextFile
  <2> QED BY <1>3, <2>1, <2>2 DEF Consumed
<1>5. CASE f = catalog[d] /\ d < Len(catalog)
  <2>1. receiver' = "dir"
    BY <1>1, <1>2, <1>5 DEF After
  <2>2. NextDir' = d + 1 /\ NextFile' = 0
    BY <2>1 DEF NextDir, NextFile
  <2> QED BY <1>3, <1>5, <2>1, <2>2 DEF Consumed
<1>6. CASE f = catalog[d] /\ d = Len(catalog)
  <2>1. receiver' = "done"
    BY <1>1, <1>2, <1>6 DEF After
  <2>2. NextDir' = d + 1 /\ NextFile' = 0
    BY <1>6, <2>1 DEF NextDir, NextFile
  <2> QED BY <1>3, <1>6, <2>1, <2>2 DEF Consumed
<1> QED BY <1>1, <1>4, <1>5, <1>6

LEMMA RecvDirInOrder ==
  ASSUME Typed, OrderInv, RecvDir, ~short'
  PROVE  InOrder' \/ CutOff'
<1> DEFINE d == Len(copy) + 1
<1>1. Typed'
  BY RecvDirTyped
<1> PICK k \in Got(3) : \E n \in CountsIn(k, {0}) : \E entry \in Entries :
        /\ Take(k, 3)
        /\ entry = [name |-> SubSeq(stream, 1, IF k < 2 THEN k ELSE 2),
                    num |-> n, files |-> <<>>]
        /\ Len(copy') = d
        /\ \A i \in 1..Len(copy) : copy'[i] = copy[i]
        /\ copy'[d] = entry
  BY RecvDirTyped
<1>2. PICK n \in CountsIn(k, {0}), entry \in Entries :
        /\ Take(k, 3)
        /\ entry = [name |-> SubSeq(stream, 1, IF k < 2 THEN k ELSE 2),
                    num |-> n, files |-> <<>>]
        /\ Len(copy') = d
        /\ \A i \in 1..Len(copy) : copy'[i] = copy[i]
        /\ copy'[d] = entry
  OBVIOUS
<1>3. /\ receiver = "dir" /\ receiver' = After(copy') /\ count' = count
      /\ UNCHANGED <<catalog, announced, sender, written>>
  BY <1>2 DEF RecvDir, Take, senderVars
<1>4. /\ stream' = SubSeq(stream, k + 1, Len(stream)) /\ k \in 0..Len(stream)
      /\ CopyOrBlank
      /\ \/ k = 3 /\ InOrder /\ 3 <= Len(stream)
         \/ /\ k = 0 /\ sender = "ended" /\ stream = <<>> /\ stream' = <<>>
            /\ written < ListLen(catalog)
  BY <1>2, <1>3, WholeRead
<1>5. catalog \in Seq(Nat) /\ Len(catalog) \in Nat /\ Len(copy) \in Nat /\ stream \in Seq(Units)
  BY CatalogType DEF Typed, TransferTypeOK
<1>6. CASE k = 3 /\ InOrder /\ 3 <= Len(stream)
  <2>1. NextDir = d /\ NextFile = 0 /\ CopyExact /\ count = Len(catalog)
    BY <1>3, <1>6 DEF NextDir, NextFile, InOrder, CopyExact
  <2>2. IsFrame(catalog, d, 0) /\ d \in 1..Len(catalog) /\ d \in Nat /\ catalog[d] \in Nat
    BY <1>3, <1>5, <1>6, <2>1, NextIsFrame DEF IsFrame
  <2>3. Consumed = Off(catalog, d, 0) + 2 /\ Size(0) = 3
    BY <1>3, <2>1 DEF Consumed, Size
  <2>4. \A h \in 1..3 : stream[h] = Header(d, catalog[d])[h]
    <3>1. \A h \in 1..Size(0) : stream[h] = Frame(catalog, d, 0)[h]
      BY <1>6, <2>2, <2>3, FrameAtHead DEF InOrder
    <3> QED BY <2>2, <2>3, <3>1 DEF Frame
  <2>5. /\ stream[1] = Unit("name", d, 0, 1) /\ stream[2] = Unit("name", d, 0, 2)
        /\ stream[3] = Unit("count", 0, 0, catalog[d])
    BY <2>2, <2>4, UnitType
  <2>6. SubSeq(stream, 1, 2) = Name(d, 0)
    <3>1. /\ SubSeq(stream, 1, 2) \in Seq(Units) /\ Len(SubSeq(stream, 1, 2)) = 2
          /\ SubSeq(stream, 1, 2)[1] = stream[1] /\ SubSeq(stream, 1, 2)[2] = stream[2]
      <4>1. 2 \in 0..Len(stream)
        BY <1>5, <1>6
      <4> QED BY <1>5, <4>1, TakeFacts
    <3>2. /\ Name(d, 0) \in Seq(Units) /\ Len(Name(d, 0)) = 2
          /\ Name(d, 0)[1] = Unit("name", d, 0, 1) /\ Name(d, 0)[2] = Unit("name", d, 0, 2)
      <4>1. d \in Nat /\ 0 \in Nat
        BY <2>2
      <4> QED BY <4>1, UnitType, SMTT(60)
    <3>3. \A i \in 1..2 : SubSeq(stream, 1, 2)[i] = Name(d, 0)[i]
      BY <2>5, <3>1, <3>2
    <3> QED BY <3>1, <3>2, <3>3, SeqEqual
  <2>7. n = catalog[d]
    BY <1>2, <1>6, <2>5 DEF CountsIn, Unit
  <2>8. entry.name = Name(d, 0) /\ entry.num = catalog[d] /\ Len(entry.files) = 0
    BY <1>2, <1>6, <2>6, <2>7
  <2>9. /\ receiver' \in {"dir", "file", "done"}
        /\ Consumed' = (Off(catalog, d, 0) + Size(0)) + 2
        /\ 0 = catalog[d] \/ receiver' = "file"
        /\ receiver' = "done" => d = Len(catalog)
    <3>1. 0 \in 0..catalog[d]
      BY <2>2
    <3> QED BY <1>1, <1>2, <1>3, <2>1, <2>2, <2>8, <3>1, AfterRead
  <2>10. Produced' = Produced /\ Consumed' = Consumed + k
    <3>1. Off(catalog, d, 0) \in Nat
      BY <1>5, <2>2, OffType
    <3> QED BY <1>3, <1>6, <2>3, <2>9, <3>1 DEF Produced
  <2>11. StreamInStep'
    BY <1>3, <1>4, <1>6, <2>10, StreamTaken DEF InOrder
  <2>12. CopyExact'
    <3>1. ASSUME NEW i \in 1..Len(copy')
          PROVE  /\ copy'[i].name = Name(i, 0) /\ copy'[i].num = catalog[i]
                 /\ \A j \in 1..Len(copy'[i].files) : copy'[i].files[j] = Name(i, j)
                 /\ Len(copy'[i].files) = catalog[i] \/ (i = Len(copy') /\ receiver' = "file")
      <4>1. CASE i = d
        <5>1. copy'[i] = entry /\ i = Len(copy')
          BY <1>2, <4>1
        <5>2. \A j \in 1..Len(copy'[i].files) : copy'[i].files[j] = Name(i, j)
          BY <2>8, <5>1
        <5> QED BY <2>8, <2>9, <4>1, <5>1, <5>2
      <4>2. CASE i \in 1..Len(copy)
        BY <1>2, <1>3, <2>1, <4>2 DEF CopyExact
      <4> QED BY <1>2, <1>5, <4>1, <4>2
    <3>2. count' = Len(catalog') /\ Len(copy') <= Len(catalog')
          /\ (receiver' = "done" => Len(copy') = Len(catalog'))
      BY <1>2, <1>3, <2>1, <2>2, <2>9
    <3> QED BY <1>3, <3>1, <3>2 DEF CopyExact
  <2> QED BY <2>9, <2>11, <2>12 DEF InOrder
<1>7. CASE /\ k = 0 /\ sender = "ended" /\ stream = <<>> /\ stream' = <<>>
           /\ written < ListLen(catalog)
  <2>1. entry.name = <<>> /\ entry.num = 0
    <3>1. SubSeq(stream, 1, 0) = <<>>
      <4>1. 0 \in 0..Len(stream)
        BY <1>4, <1>7
      <4>2. SubSeq(stream, 1, 0) \in Seq(Units) /\ Len(SubSeq(stream, 1, 0)) = 0
        BY <1>5, <4>1, TakeFacts
      <4> QED BY <4>2, EmptySeq
    <3>2. n = 0
      BY <1>2, <1>7 DEF CountsIn
    <3> QED BY <1>2, <1>7, <3>1, <3>2
  <2>2. CopyOrBlank'
    <3>1. ASSUME NEW i \in 1..Len(copy')
          PROVE  \/ /\ copy'[i].name = <<>> /\ copy'[i].num = 0
                    /\ sender' = "ended" /\ stream' = <<>>
                 \/ /\ i <= Len(catalog')
                    /\ copy'[i].name = Name(i, 0) /\ copy'[i].num = catalog'[i]
                    /\ \A j \in 1..Len(copy'[i].files) :
                          copy'[i].files[j] \in {Name(i, j), <<>>}
      <4>1. CASE i = d
        BY <1>2, <1>3, <1>7, <2>1, <4>1
      <4>2. CASE i \in 1..Len(copy)
        BY <1>2, <1>3, <1>4, <1>7, <4>2 DEF CopyOrBlank
      <4> QED BY <1>2, <1>5, <4>1, <4>2
    <3> QED BY <3>1 DEF CopyOrBlank
  <2> QED BY <1>3, <1>7, <2>2 DEF CutOff
<1> QED BY <1>4, <1>6, <1>7

LEMMA RecvFileInOrder ==
  ASSUME Typed, OrderInv, RecvFile, ~short'
  PROVE  InOrder' \/ CutOff'
<1> DEFINE d == Len(copy)
           f == Len(copy[d].files) + 1
<1>1. Typed' /\ copy \in Seq(Entries) /\ copy # <<>>
  BY RecvFileTyped
<1> PICK k \in Got(2) :
      /\ Take(k, 2)
      /\ SubSeq(stream, 1, k) \in Seq(Units)
      /\ copy' = WithFile(copy, SubSeq(stream, 1, k))
  BY RecvFileTyped
<1> DEFINE x == SubSeq(stream, 1, k)
<1>2. Take(k, 2) /\ x \in Seq(Units)
  OBVIOUS
<1>3. /\ d \in 1..d /\ Len(copy') = d
      /\ \A i \in 1..(d - 1) : copy'[i] = copy[i]
      /\ copy'[d].name = copy[d].name /\ copy'[d].num = copy[d].num
      /\ Len(copy'[d].files) = f
      /\ \A j \in 1..(f - 1) : copy'[d].files[j] = copy[d].files[j]
      /\ copy'[d].files[f] = x
  <2>1. Len(copy[d].files) \in Nat
    <3>1. d \in 1..d /\ copy[d] \in Entries
      BY <1>1, EmptySeq
    <3> QED BY <3>1 DEF Entries
  <2>2. /\ d \in 1..d /\ Len(copy') = d
        /\ \A i \in 1..(d - 1) : copy'[i] = copy[i]
        /\ copy'[d].name = copy[d].name /\ copy'[d].num = copy[d].num
        /\ Len(copy'[d].files) = Len(copy[d].files) + 1
        /\ \A j \in 1..Len(copy[d].files) : copy'[d].files[j] = copy[d].files[j]
        /\ copy'[d].files[Len(copy[d].files) + 1] = x
    <3> DEFINE new == WithFile(copy, x)
    <3>1. /\ d \in 1..d /\ Len(new) = d
          /\ \A i \in 1..(d - 1) : new[i] = copy[i]
          /\ new[d].name = copy[d].name /\ new[d].num = copy[d].num
          /\ Len(new[d].files) = Len(copy[d].files) + 1
          /\ \A j \in 1..Len(copy[d].files) : new[d].files[j] = copy[d].files[j]
          /\ new[d].files[Len(copy[d].files) + 1] = x
      <4> HIDE DEF x
      <4> QED BY <1>1, <1>2, FileAdded
    <3>2. copy' = new
      OBVIOUS
    <3> HIDE DEF new, d, x
    <3> QED BY <3>1, <3>2
  <2>3. f - 1 = Len(copy[d].files)
    <3> DEFINE a == Len(copy[d].files)
    <3>1. a \in Nat
      BY <2>1
    <3>2. (a + 1) - 1 = a
      <4> HIDE DEF a
      <4> QED BY <3>1
    <3> QED BY <3>2
  <2> HIDE DEF x
  <2> QED BY <2>2, <2>3
<1>4. /\ receiver = "file" /\ receiver' = After(copy') /\ count' = count
      /\ UNCHANGED <<catalog, announced, sender, written>>
  BY <1>2 DEF RecvFile, Take, senderVars
<1>5. /\ stream' = SubSeq(stream, k + 1, Len(stream)) /\ k \in 0..Len(stream)
      /\ CopyOrBlank
      /\ \/ k = 2 /\ InOrder /\ 2 <= Len(stream)
         \/ /\ k = 0 /\ sender = "ended" /\ stream = <<>> /\ stream' = <<>>
            /\ written < ListLen(catalog)
  BY <1>2, <1>4, WholeRead
<1>6. /\ catalog \in Seq(Nat) /\ Len(catalog) \in Nat /\ d \in Nat /\ stream \in Seq(Units)
      /\ f \in Nat /\ f > 0 /\ copy[d].num \in Nat /\ f <= copy[d].num
  <2>1. copy[d] \in Entries
    BY <1>1, <1>3
  <2>2. Len(copy[d].files) \in Nat /\ copy[d].num \in Nat
    BY <2>1 DEF Entries
  <2>3. Len(copy[d].files) < copy[d].num
    BY <1>4 DEF Typed, ReceiverInv, Last
  <2>4. catalog \in Seq(Nat) /\ Len(catalog) \in Nat
    BY CatalogType DEF Typed
  <2>5. d \in Nat /\ stream \in Seq(Units)
    BY <1>1, PlaceType
  <2> QED BY <2>2, <2>3, <2>4, <2>5
<1> HIDE DEF x
<1>7. CASE k = 2 /\ InOrder /\ 2 <= Len(stream)
  <2>1. NextDir = d /\ NextFile = f /\ CopyExact /\ count = Len(catalog)
    BY <1>4, <1>7 DEF NextDir, NextFile, InOrder, CopyExact, Last
  <2> HIDE DEF f
  <2>2. IsFrame(catalog, d, f) /\ d \in 1..Len(catalog) /\ f \in 0..catalog[d]
        /\ copy[d].num = catalog[d] /\ copy[d].name = Name(d, 0)
    <3>1. IsFrame(catalog, d, f)
      BY <1>4, <1>7, <2>1, NextIsFrame
    <3> QED BY <1>3, <1>6, <2>1, <3>1 DEF IsFrame, CopyExact
  <2>3. Consumed = Off(catalog, d, f) + 2 /\ Size(f) = 2 /\ Frame(catalog, d, f) = Name(d, f)
    BY <1>4, <1>6, <2>1 DEF Consumed, Size, Frame
  <2>4. \A h \in 1..2 : stream[h] = Name(d, f)[h]
    <3>1. \A h \in 1..Size(f) : stream[h] = Frame(catalog, d, f)[h]
      BY <1>6, <1>7, <2>2, <2>3, FrameAtHead DEF InOrder
    <3> QED BY <2>3, <3>1
  <2>5. x = Name(d, f)
    <3>1. x \in Seq(Units) /\ Len(x) = 2 /\ \A i \in 1..2 : x[i] = stream[i]
      <4>1. 2 \in 0..Len(stream)
        BY <1>6, <1>7
      <4> QED BY <1>6, <1>7, <4>1, TakeFacts DEF x
    <3>2. Name(d, f) \in Seq(Units) /\ Len(Name(d, f)) = 2
      BY <1>6, UnitType
    <3>3. \A i \in 1..2 : x[i] = Name(d, f)[i]
      BY <2>4, <3>1
    <3> QED BY <3>1, <3>2, <3>3, SeqEqual
  <2>6. /\ receiver' \in {"dir", "file", "done"}
        /\ Consumed' = (Off(catalog, d, f) + Size(f)) + 2
        /\ f = catalog[d] \/ receiver' = "file"
        /\ receiver' = "done" => d = Len(catalog)
    BY <1>1, <1>3, <1>4, <2>1, <2>2, AfterRead
  <2>7. Produced' = Produced /\ Consumed' = Consumed + k
    <3>1. Off(catalog, d, f) \in Nat
      BY <1>6, OffType
    <3> QED BY <1>4, <1>7, <2>3, <2>6, <3>1 DEF Produced
  <2>8. StreamInStep'
    BY <1>4, <1>5, <1>7, <2>7, StreamTaken DEF InOrder
  <2>9. CopyExact'
    <3> DEFINE Exact(i) ==
                 /\ copy'[i].name = Name(i, 0) /\ copy'[i].num = catalog[i]
                 /\ \A j \in 1..Len(copy'[i].files) : copy'[i].files[j] = Name(i, j)
                 /\ Len(copy'[i].files) = catalog[i] \/ (i = Len(copy') /\ receiver' = "file")
    <3>1. ASSUME NEW i \in 1..Len(copy') PROVE Exact(i)
      <4>1. CASE i = d
        <5>1. \A j \in 1..(f - 1) : copy[d].files[j] = Name(d, j)
          BY <1>3, <2>1, <4>1 DEF CopyExact, f
        <5>2. ASSUME NEW j \in 1..Len(copy'[d].files)
              PROVE  copy'[d].files[j] = Name(d, j)
          <6>1. j \in 1..f /\ (j = f \/ j \in 1..(f - 1))
            <7>1. f \in Nat /\ Len(copy'[d].files) = f
              BY <1>3, <1>6
            <7>2. j \in 1..f
              BY <7>1
            <7> QED BY <7>1, <7>2
          <6>2. CASE j = f
            BY <1>3, <2>5, <6>2
          <6>3. CASE j \in 1..(f - 1)
            BY <1>3, <5>1, <6>3
          <6> QED BY <6>1, <6>2, <6>3
        <5>3. copy'[d].name = Name(d, 0) /\ copy'[d].num = catalog[d]
          BY <1>3, <2>2
        <5>4. Len(copy'[d].files) = catalog[d] \/ (d = Len(copy') /\ receiver' = "file")
          BY <1>3, <2>6
        <5> QED BY <4>1, <5>2, <5>3, <5>4
      <4>2. CASE i \in 1..(d - 1)
        <5>1. copy'[i] = copy[i] /\ i \in 1..d /\ i # d
          BY <1>3, <1>6, <4>2
        <5>2. /\ copy[i].name = Name(i, 0) /\ copy[i].num = catalog[i]
              /\ \A j \in 1..Len(copy[i].files) : copy[i].files[j] = Name(i, j)
              /\ Len(copy[i].files) = catalog[i]
          BY <2>1, <5>1 DEF CopyExact
        <5> QED BY <5>1, <5>2
      <4>3. i = d \/ i \in 1..(d - 1)
        BY <1>3, <1>6
      <4> HIDE DEF Exact
      <4> QED BY <4>1, <4>2, <4>3
    <3>2. count' = Len(catalog') /\ Len(copy') <= Len(catalog')
          /\ (receiver' = "done" => Len(copy') = Len(catalog'))
      BY <1>3, <1>4, <2>1, <2>2, <2>6
    <3> QED BY <1>4, <3>1, <3>2 DEF CopyExact
  <2> QED BY <2>6, <2>8, <2>9 DEF InOrder
<1>8. CASE /\ k = 0 /\ sender = "ended" /\ stream = <<>> /\ stream' = <<>>
           /\ written < ListLen(catalog)
  <2>1. x = <<>>
    <3>1. 0 \in 0..Len(stream)
      BY <1>5, <1>8
    <3>2. x \in Seq(Units) /\ Len(x) = 0
      BY <1>6, <1>8, <3>1, TakeFacts DEF x
    <3> QED BY <3>2, EmptySeq
  <2>2. CopyOrBlank'
    <3>1. ASSUME NEW i \in 1..Len(copy')
          PROVE  \/ /\ copy'[i].name = <<>> /\ copy'[i].num = 0
                    /\ sender' = "ended" /\ stream' = <<>>
                 \/ /\ i <= Len(catalog')
                    /\ copy'[i].name = Name(i, 0) /\ copy'[i].num = catalog'[i]
                    /\ \A j \in 1..Len(copy'[i].files) :
                          copy'[i].files[j] \in {Name(i, j), <<>>}
      <4>1. CASE i = d
        <5>1. /\ d <= Len(catalog)
              /\ copy[d].name = Name(d, 0) /\ copy[d].num = catalog[d]
              /\ \A j \in 1..(f - 1) : copy[d].files[j] \in {Name(d, j), <<>>}
          <6>1. copy[d].num # 0
            BY <1>6
          <6>2. (f - 1) = Len(copy[d].files)
            BY <1>6
          <6> QED BY <1>3, <1>5, <6>1, <6>2 DEF CopyOrBlank
        <5> HIDE DEF f
        <5>2. ASSUME NEW j \in 1..Len(copy'[d].files)
              PROVE  copy'[d].files[j] \in {Name(d, j), <<>>}
          <6>1. j \in 1..f /\ (j = f \/ j \in 1..(f - 1))
            <7>1. f \in Nat /\ Len(copy'[d].files) = f
              BY <1>3, <1>6
            <7>2. j \in 1..f
              BY <7>1
            <7> QED BY <7>1, <7>2
          <6>2. CASE j = f
            BY <1>3, <2>1, <6>2
          <6>3. CASE j \in 1..(f - 1)
            BY <1>3, <5>1, <6>3
          <6> QED BY <6>1, <6>2, <6>3
        <5> QED BY <1>3, <1>4, <4>1, <5>1, <5>2
      <4>2. CASE i \in 1..(d - 1)
        <5>1. copy'[i] = copy[i] /\ i \in 1..Len(copy)
          BY <1>3, <1>6, <4>2
        <5> QED BY <1>4, <1>5, <1>8, <5>1 DEF CopyOrBlank
      <4> QED BY <1>3, <1>6, <4>1, <4>2
    <3> QED BY <3>1 DEF CopyOrBlank
  <2>3. receiver' # "failed"
    BY <1>4 DEF After
  <2> QED BY <1>4, <1>8, <2>2, <2>3 DEF CutOff
<1> QED BY <1>5, <1>7, <1>8

LEMMA SendMessageInOrder ==
  ASSUME Typed, OrderInv, SendMessage, ~short'
  PROVE  InOrder'
<1>1. stream' = stream \o Message /\ ~short
  BY SendMessageTyped
<1>2. /\ sender = "message" /\ announced = 0 /\ announced' = ListLen(catalog)
      /\ written = 0 /\ UNCHANGED <<catalog, written, receiver, count, copy>>
  BY DEF SendMessage, receiverVars, Typed, SenderInv
<1>3. InOrder
  BY <1>1, <1>2 DEF OrderInv, CutOff
<1>4. Message \in Seq(Units) /\ Len(Message) = 2
  BY UnitType
<1>5. Produced = 0 /\ Produced' = Produced + Len(Message)
  BY <1>2, <1>4, PlaceType DEF Produced
<1>6. \A h \in 1..Len(Message) :
        Produced + h > 2 => UnitIs(catalog, (Produced + h) - 2, Message[h])
  BY <1>4, <1>5
<1>7. StreamInStep'
  BY <1>1, <1>2, <1>3, <1>4, <1>5, <1>6, StreamExtended DEF InOrder
<1> QED BY <1>2, <1>3, <1>7 DEF InOrder, CopyExact

\* A frame that is written whole keeps the ends in step.
LEMMA WriteInOrder ==
  ASSUME Typed, OrderInv, NEW d \in Nat, NEW f \in Nat, NEW next, IsFrame(catalog, d, f),
         announced = ListLen(catalog), written = Off(catalog, d, f),
         Write(Frame(catalog, d, f), next), sender # "ended", ~short'
  PROVE  InOrder'
<1>1. /\ UNCHANGED <<catalog, announced, receiver, count, copy>>
      /\ stream' = stream \o Frame(catalog, d, f) /\ short' = short
      /\ written' = Off(catalog, d, f) + Size(f)
  BY WriteFacts
<1>2. InOrder
  BY <1>1 DEF OrderInv, CutOff
<1> QED BY <1>1, <1>2, FrameSent

LEMMA InitOrder == TransferInit => OrderInv
<1> SUFFICES ASSUME TransferInit PROVE InOrder
  BY DEF OrderInv
<1>1. Produced = 0 /\ Consumed = 0 /\ Len(stream) = 0
  BY DEF TransferInit, Produced, Consumed
<1> QED BY <1>1 DEF TransferInit, InOrder, StreamInStep

LEMMA NextOrder == Typed /\ OrderInv /\ [TransferNext]_transferVars => OrderInv'
<1> SUFFICES ASSUME Typed, OrderInv, [TransferNext]_transferVars, ~short'
             PROVE  InOrder' \/ CutOff'
  BY DEF OrderInv
<1>1. CASE SendMessage
  BY <1>1, SendMessageInOrder
<1>2. CASE SendList
  <2>1. /\ announced = ListLen(catalog) /\ written = Off(catalog, 0, 0)
        /\ IsFrame(catalog, 0, 0) /\ Write(Frame(catalog, 0, 0), "dir")
    BY <1>2, SendListTyped
  <2>2. sender # "ended" /\ 0 \in Nat
    BY <1>2 DEF SendList
  <2> QED BY <2>1, <2>2, WriteInOrder
<1>3. CASE SendDir
  <2>1. /\ dir \in 1..Len(catalog)
        /\ announced = ListLen(catalog) /\ written = Off(catalog, dir, 0)
        /\ Write(Frame(catalog, dir, 0), AfterFiles(dir, 0))
    BY <1>3, SendDirIsFrame
  <2>2. sender # "ended" /\ 0 \in Nat /\ dir \in Nat /\ IsFrame(catalog, dir, 0)
    BY <1>3, <2>1 DEF SendDir, IsFrame
  <2> QED BY <2>1, <2>2, WriteInOrder
<1>4. CASE SendFile
  <2>1. /\ dir \in 1..Len(catalog) /\ file + 1 \in 0..catalog[dir]
        /\ announced = ListLen(catalog) /\ written = Off(catalog, dir, file + 1)
        /\ Write(Frame(catalog, dir, file + 1), AfterFiles(dir, file + 1))
    BY <1>4, SendFileIsFrame
  <2>2. file \in Nat
    BY DEF Typed, TransferTypeOK
  <2>3. /\ sender # "ended" /\ file + 1 \in Nat /\ dir \in Nat
        /\ IsFrame(catalog, dir, file + 1)
    <3>1. catalog \in Seq(Nat) /\ catalog[dir] \in Nat
      BY <2>1, CatalogType DEF Typed
    <3> QED BY <1>4, <2>1, <2>2, <3>1 DEF SendFile, IsFrame
  <2> QED BY <2>1, <2>3, WriteInOrder
<1>5. CASE RecvMessage
  BY <1>5, RecvMessageInOrder
<1>6. CASE RecvList
  BY <1>6, RecvListInOrder
<1>7. CASE RecvDir
  BY <1>7, RecvDirInOrder
<1>8. CASE RecvFile
  BY <1>8, RecvFileInOrder
<1>9. CASE SenderEnds
  <2>1. InOrder
    BY <1>9 DEF SenderEnds, OrderInv, CutOff
  <2>2. StreamInStep'
    BY <1>9, <2>1 DEF SenderEnds, receiverVars, InOrder, StreamInStep, Consumed, Produced,
                      NextDir, NextFile
  <2> QED BY <1>9, <2>1, <2>2 DEF SenderEnds, receiverVars, InOrder, CopyExact
<1>10. CASE RecvFails
  <2>1. CopyOrBlank
    BY <1>10, OrderIsCopy DEF RecvFails, OrderInv
  <2>2. CopyOrBlank'
    BY <1>10, <2>1 DEF RecvFails, senderVars, CopyOrBlank
  <2> QED BY <1>10, <2>2 DEF RecvFails, senderVars, CutOff
<1>11. CASE UNCHANGED transferVars
  <2>1. UNCHANGED <<catalog, announced, sender, written, stream, receiver, count, copy, short>>
    BY <1>11 DEF transferVars, senderVars, receiverVars
  <2>2. InOrder => InOrder'
    BY <2>1 DEF InOrder, StreamInStep, CopyExact, Consumed, Produced, NextDir, NextFile
  <2>3. CutOff => CutOff'
    BY <2>1 DEF CutOff, CopyOrBlank
  <2> QED BY <2>1, <2>2, <2>3 DEF OrderInv
<1> QED
  BY <1>1, <1>2, <1>3, <1>4, <1>5, <1>6, <1>7, <1>8, <1>9, <1>10, <1>11
  DEF TransferNext, Sender, Receiver
-----------------------------------------------------------------------------
(* What follows from them.                                                  *)

TransferInv == Typed /\ OrderInv

LEMMA TransferInvariant == TransferSpec => []TransferInv
<1>1. TransferInit => TransferInv
  BY InitTyped, InitOrder DEF TransferInv
<1>2. TransferInv /\ [TransferNext]_transferVars => TransferInv'
  BY NextTyped, NextOrder DEF TransferInv
<1> QED BY <1>1, <1>2, PTL DEF TransferSpec

\* The list that is sent.
LEMMA SentIs ==
  ASSUME Typed
  PROVE  /\ Len(Sent) = Len(catalog)
         /\ Sent = [i \in 1..Len(catalog) |->
                      [name |-> Name(i, 0), num |-> catalog[i],
                       files |-> [j \in 1..catalog[i] |-> Name(i, j)]]]
         /\ \A i \in 1..Len(catalog) :
              /\ Sent[i].name = Name(i, 0) /\ Sent[i].num = catalog[i]
              /\ \A j \in 1..catalog[i] : Sent[i].files[j] = Name(i, j)
<1>1. Len(catalog) \in Nat
  BY CatalogType DEF Typed
<1> DEFINE Entry(i) == [name |-> Name(i, 0), num |-> catalog[i],
                        files |-> [j \in 1..catalog[i] |-> Name(i, j)]]
<1>2. Sent = [i \in 1..Len(catalog) |-> Entry(i)]
  BY DEF Sent
<1>3. Len(Sent) = Len(catalog)
  <2> HIDE DEF Entry
  <2> QED BY <1>1, <1>2
<1>4. ASSUME NEW i \in 1..Len(catalog)
      PROVE  /\ Sent[i].name = Name(i, 0) /\ Sent[i].num = catalog[i]
             /\ \A j \in 1..catalog[i] : Sent[i].files[j] = Name(i, j)
  <2>1. Sent[i] = Entry(i)
    BY <1>2
  <2> QED BY <2>1
<1> QED BY <1>2, <1>3, <1>4

\* A device that is delivered whole frames files every name where the child read
\* it, and once the child has gone has blanks behind them, for lists of any
\* number of directories and files.
THEOREM CopyIsPrefixThenBlank == TransferSpec => []RestIsBlank
<1>1. TransferInv => RestIsBlank
  <2> SUFFICES ASSUME TransferInv, ~short PROVE RestIsBlank
    BY DEF RestIsBlank
  <2>1. Typed /\ CopyOrBlank
    BY OrderIsCopy DEF TransferInv, OrderInv
  <2> SUFFICES ASSUME NEW i \in 1..Len(copy)
               PROVE  \/ /\ copy[i].name = <<>> /\ copy[i].num = 0
                         /\ sender = "ended" /\ stream = <<>>
                      \/ /\ i <= Len(Sent)
                         /\ copy[i].name = Sent[i].name /\ copy[i].num = Sent[i].num
                         /\ \A j \in 1..Len(copy[i].files) :
                               copy[i].files[j] \in {Sent[i].files[j], <<>>}
    BY DEF RestIsBlank
  <2>2. CASE copy[i].name = <<>> /\ copy[i].num = 0 /\ sender = "ended" /\ stream = <<>>
    BY <2>2
  <2>3. CASE /\ i <= Len(catalog)
             /\ copy[i].name = Name(i, 0) /\ copy[i].num = catalog[i]
             /\ \A j \in 1..Len(copy[i].files) : copy[i].files[j] \in {Name(i, j), <<>>}
    <3>1. /\ i \in 1..Len(catalog) /\ catalog[i] \in Nat
          /\ Len(copy[i].files) \in Nat /\ Len(copy[i].files) <= catalog[i]
      <4>1. copy \in Seq(Entries) /\ Len(copy[i].files) <= copy[i].num
        BY <2>1 DEF Typed, TransferTypeOK, Entries
      <4>2. copy[i] \in Entries /\ i \in Nat
        BY <4>1
      <4>3. Len(copy[i].files) \in Nat /\ Len(copy[i].files) <= catalog[i]
        BY <2>3, <4>1, <4>2 DEF Entries
      <4>4. catalog \in Seq(Nat)
        BY <2>1, CatalogType DEF Typed
      <4>5. i \in 1..Len(catalog)
        BY <2>3, <4>2, <4>4
      <4> QED BY <4>3, <4>4, <4>5
    <3>2. /\ i <= Len(Sent) /\ Sent[i].name = Name(i, 0) /\ Sent[i].num = catalog[i]
          /\ \A j \in 1..catalog[i] : Sent[i].files[j] = Name(i, j)
      BY <2>1, <3>1, SentIs
    <3>3. \A j \in 1..Len(copy[i].files) : j \in 1..catalog[i]
      BY <3>1
    <3> QED BY <2>3, <3>2, <3>3
  <2> QED BY <2>1, <2>2, <2>3 DEF CopyOrBlank
<1> QED BY <1>1, TransferInvariant, PTL

\* A list that the device reports as received, with no frame cut, is the list
\* the child sent as far as the child came, and the link is left empty for the
\* next message: for lists of any number of directories and files.
THEOREM ReceivedIsSent == TransferSpec => []DoneIsCopy
<1>1. TransferInv => DoneIsCopy
  <2> SUFFICES ASSUME TransferInv, receiver = "done", ~short
               PROVE  /\ stream = <<>>
                      /\ sender # "ended" \/ written = ListLen(catalog) => copy = Sent
    BY DEF DoneIsCopy
  <2>1. /\ Typed /\ catalog \in Seq(Nat) /\ Len(catalog) \in Nat
        /\ copy \in Seq(Entries)
    BY CatalogType DEF TransferInv, Typed, TransferTypeOK, Entries
  <2>2. /\ stream \in Seq(Units) /\ Len(stream) \in Nat /\ written \in Nat
        /\ ListLen(catalog) \in Nat /\ written <= ListLen(catalog)
    BY <2>1, PlaceType DEF Typed, TransferTypeOK
  <2>3. CASE CutOff
    BY <2>2, <2>3 DEF CutOff
  <2>4. CASE InOrder
    <3>1. Consumed = ListLen(catalog) + 2
      <4>1. NextDir = Len(catalog) + 1 /\ NextFile = 0
        BY DEF NextDir, NextFile
      <4>2. Off(catalog, NextDir, NextFile) = ListLen(catalog)
        BY <2>1, <4>1, OffEnd
      <4> QED BY <4>2 DEF Consumed
    <3>2. Len(stream) + (ListLen(catalog) + 2) = Produced
      BY <2>4, <3>1 DEF InOrder, StreamInStep
    <3>3. Len(stream) = 0
      <4>1. Produced <= ListLen(catalog) + 2 /\ Produced \in Nat
        BY <2>2 DEF Produced
      <4> QED BY <2>2, <3>2, <4>1
    <3>4. stream = <<>>
      BY <2>2, <3>3, EmptySeq
    <3>5. /\ Len(copy) = Len(catalog)
          /\ \A i \in 1..Len(copy) :
               /\ copy[i].name = Name(i, 0) /\ copy[i].num = catalog[i]
               /\ Len(copy[i].files) = catalog[i]
               /\ \A j \in 1..Len(copy[i].files) : copy[i].files[j] = Name(i, j)
      BY <2>4 DEF InOrder, CopyExact
    <3> DEFINE Entry(i) == [name |-> Name(i, 0), num |-> catalog[i],
                            files |-> [j \in 1..catalog[i] |-> Name(i, j)]]
    <3>6. ASSUME NEW i \in 1..Len(catalog) PROVE copy[i] = Entry(i)
      <4>1. /\ copy[i] \in Entries /\ copy[i].files \in Seq(Seq(Units))
            /\ catalog[i] \in Nat /\ i \in Nat
        <5>1. i \in 1..Len(copy) /\ i \in Nat
          BY <2>1, <3>5
        <5>2. copy[i] \in Entries /\ catalog[i] \in Nat
          BY <2>1, <5>1
        <5> QED BY <5>1, <5>2 DEF Entries
      <4>2. copy[i].files = [j \in 1..catalog[i] |-> Name(i, j)]
        <5>1. copy[i].files = [j \in 1..catalog[i] |-> copy[i].files[j]]
          BY <3>5, <4>1
        <5> QED BY <3>5, <5>1
      <4>3. copy[i] = [name |-> copy[i].name, num |-> copy[i].num, files |-> copy[i].files]
        BY <4>1 DEF Entries
      <4> QED BY <3>5, <4>2, <4>3
    <3>7. copy = Sent
      <4>1. copy = [i \in 1..Len(catalog) |-> copy[i]]
        BY <2>1, <3>5
      <4>2. Sent = [i \in 1..Len(catalog) |-> Entry(i)]
        BY DEF Sent
      <4> HIDE DEF Entry
      <4> QED BY <3>6, <4>1, <4>2
    <3> QED BY <3>4, <3>7
  <2> QED BY <2>3, <2>4 DEF TransferInv, OrderInv
<1> QED BY <1>1, TransferInvariant, PTL
=============================================================================
