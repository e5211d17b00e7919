-------------------------- MODULE Registry_proofs ---------------------------
(***************************************************************************)
(* Proofs about the file of the node list for every set of servers, tools, *)
(* devices, children and peers, any number of starts and any bound.        *)
(***************************************************************************)
EXTENDS Registry, TLAPS

Places == {"off", "seek", "write", "serve", "read", "found", "absent", "failed",
           "idle", "mute", "scan", "print", "last"}
Busy == {"seek", "write", "read", "found", "absent"}

\* The places at which an offset is one of the file, those of a child that has
\* found a record, and those behind a record that it has read.
Held == {"write", "scan", "print", "last"}
Long == {"mute", "scan", "print", "last"}
Past == {"print", "last"}

\* A write at a place of the file leaves what is before that place and puts its
\* units from there on; the file is never shorter.
LEMMA PutFacts ==
  ASSUME NEW file \in Seq(Units), NEW off \in 0..Len(file), NEW units \in Seq(Units)
  PROVE  /\ Put(file, off, units) \in Seq(Units)
         /\ Len(Put(file, off, units)) =
              IF off + Len(units) > Len(file) THEN off + Len(units) ELSE Len(file)
         /\ Len(Put(file, off, units)) >= Len(file)
         /\ \A i \in 1..Len(Put(file, off, units)) :
              Put(file, off, units)[i] =
                IF i \in (off + 1)..(off + Len(units)) THEN units[i - off] ELSE file[i]
<1> DEFINE len == IF off + Len(units) > Len(file) THEN off + Len(units) ELSE Len(file)
           at(i) == IF i \in (off + 1)..(off + Len(units)) THEN units[i - off] ELSE file[i]
<1>1. len \in Nat /\ len >= Len(file) /\ len >= off + Len(units) /\ off \in Nat
  OBVIOUS
<1>2. Put(file, off, units) = [i \in 1..len |-> at(i)]
  BY DEF Put
<1>3. ASSUME NEW i \in 1..len PROVE at(i) \in Units
  <2>1. CASE i \in (off + 1)..(off + Len(units))
    <3>1. i - off \in 1..Len(units)
      BY <1>1, <2>1
    <3>2. QED
      BY <2>1, <3>1
  <2>2. CASE i \notin (off + 1)..(off + Len(units))
    <3>1. i \in 1..Len(file)
      BY <1>1, <2>2
    <3>2. QED
      BY <2>2, <3>1
  <2>3. QED
    BY <2>1, <2>2
<1> HIDE DEF at, len
<1>4. [i \in 1..len |-> at(i)] \in Seq(Units)
  BY <1>1, <1>3
<1>5. Len([i \in 1..len |-> at(i)]) = len
  BY <1>1, <1>4
<1>6. QED
  BY <1>1, <1>2, <1>4, <1>5 DEF at, len

\* The layout of a record is a sequence of its two units.
LEMMA LayoutFacts ==
  ASSUME NEW r \in Record
  PROVE  /\ Layout(r) \in Seq(Units) /\ Len(Layout(r)) = 2
         /\ Layout(r)[1] = [field |-> "ipv6", of |-> r.ipv6]
         /\ Layout(r)[2] = [field |-> "blue", of |-> r.blue]
         /\ << Layout(r)[1] >> \in Seq(Units) /\ Len(<< Layout(r)[1] >>) = 1
<1>1. r.ipv6 \in Addresses /\ r.blue \in Nodes
  BY DEF Record
<1>2. [field |-> "ipv6", of |-> r.ipv6] \in Units /\ [field |-> "blue", of |-> r.blue] \in Units
  BY <1>1 DEF Units
<1>3. QED
  BY <1>2 DEF Layout

\* A line is a sequence of units of text.
LEMMA LineFacts ==
  ASSUME NEW length \in Nat
  PROVE  /\ Line(length) \in Seq(Units) /\ Len(Line(length)) = length
         /\ \A i \in 1..length : Line(length)[i].field = "text"
<1> DEFINE unit == [field |-> "text", of |-> "garbled"]
<1>1. unit \in Units
  BY DEF Units
<1>2. Line(length) = [i \in 1..length |-> unit]
  BY DEF Line
<1>3. unit.field = "text"
  OBVIOUS
<1> HIDE DEF unit
<1>4. QED
  BY <1>1, <1>2, <1>3

\* Where a program is, its offset and its records keep their types, and those of
\* the other programs are left alone.
LEMMA ToFacts ==
  ASSUME RegistryTypeOK, NEW p \in Programs, NEW place \in Places,
         NEW off \in 0..MaxUnits, NEW records \in Seq(Record),
         To(p, place, off, records),
         place \in Busy => records # <<>>,
         place \in Held => off <= Len(list'),
         place \in Long => Len(list') >= 2,
         place \in Past => off >= 2,
         list' \in Seq(Units), Len(list') >= Len(list)
  PROVE  /\ pc' \in [Programs -> Places]
         /\ offset' \in [Programs -> 0..MaxUnits]
         /\ todo' \in [Programs -> Seq(Record)]
         /\ \A q \in Programs : pc'[q] \in Busy => todo'[q] # <<>>
         /\ \A q \in Programs : pc'[q] \in Held => offset'[q] <= Len(list')
         /\ \A q \in Programs : pc'[q] \in Long => Len(list') >= 2
         /\ \A q \in Programs : pc'[q] \in Past => offset'[q] >= 2
         /\ pc'[p] = place /\ offset'[p] = off /\ todo'[p] = records
         /\ \A q \in Programs \ {p} :
              pc'[q] = pc[q] /\ offset'[q] = offset[q] /\ todo'[q] = todo[q]
<1>1. /\ pc \in [Programs -> Places] /\ offset \in [Programs -> 0..MaxUnits]
      /\ todo \in [Programs -> Seq(Record)]
      /\ \A q \in Programs : pc[q] \in Busy => todo[q] # <<>>
      /\ \A q \in Programs : pc[q] \in Held => offset[q] <= Len(list)
      /\ \A q \in Programs : pc[q] \in Long => Len(list) >= 2
      /\ \A q \in Programs : pc[q] \in Past => offset[q] >= 2
      /\ list \in Seq(Units) /\ MaxUnits \in Nat
  BY RegistryAssumption DEF RegistryTypeOK, RegistryAssumption, Places, Busy, Held, Long, Past
<1>2. /\ pc' = [pc EXCEPT ![p] = place] /\ offset' = [offset EXCEPT ![p] = off]
      /\ todo' = [todo EXCEPT ![p] = records]
  BY DEF To
<1>3. /\ pc' \in [Programs -> Places] /\ offset' \in [Programs -> 0..MaxUnits]
      /\ todo' \in [Programs -> Seq(Record)]
  BY <1>1, <1>2
<1>4. pc'[p] = place /\ offset'[p] = off /\ todo'[p] = records
  BY <1>1, <1>2
<1>5. \A q \in Programs \ {p} :
        pc'[q] = pc[q] /\ offset'[q] = offset[q] /\ todo'[q] = todo[q]
  BY <1>1, <1>2
<1>6. \A q \in Programs : pc'[q] \in Busy => todo'[q] # <<>>
  BY <1>1, <1>4, <1>5
<1>7. ASSUME NEW q \in Programs, pc'[q] \in Held PROVE offset'[q] <= Len(list')
  <2>1. CASE q = p
    BY <1>4, <1>7, <2>1
  <2>2. CASE q # p
    <3>1. offset[q] <= Len(list) /\ offset'[q] = offset[q] /\ offset[q] \in Nat
      BY <1>1, <1>5, <1>7, <2>2
    <3>2. QED
      BY <1>1, <3>1
  <2>3. QED
    BY <2>1, <2>2
<1>8. ASSUME NEW q \in Programs, pc'[q] \in Long PROVE Len(list') >= 2
  <2>1. CASE q = p
    BY <1>4, <1>8, <2>1
  <2>2. CASE q # p
    <3>1. Len(list) >= 2 /\ Len(list) \in Nat /\ Len(list') \in Nat
      BY <1>1, <1>5, <1>8, <2>2
    <3>2. QED
      BY <3>1
  <2>3. QED
    BY <2>1, <2>2
<1>9. \A q \in Programs : pc'[q] \in Past => offset'[q] >= 2
  BY <1>1, <1>4, <1>5
<1>10. QED
  BY <1>3, <1>4, <1>5, <1>6, <1>7, <1>8, <1>9

-----------------------------------------------------------------------------
(* Type correctness.                                                        *)

\* A program goes to a place with what that place needs.
Moves(p) ==
  \E place \in Places, off \in 0..MaxUnits, records \in Seq(Record) :
    /\ To(p, place, off, records)
    /\ place \in Busy => records # <<>>
    /\ place \in Held => off <= Len(list')
    /\ place \in Long => Len(list') >= 2
    /\ place \in Past => off >= 2

\* The file stays within the disk and is never shorter.
Grows == list' \in Seq(Units) /\ Len(list') <= MaxUnits /\ Len(list') >= Len(list)

LEMMA TypeParts ==
  ASSUME RegistryTypeOK
  PROVE  /\ list \in Seq(Units) /\ Len(list) \in 0..MaxUnits /\ MaxUnits \in Nat
         /\ MaxFds \in Nat
         /\ pc \in [Programs -> Places]
         /\ offset \in [Programs -> 0..MaxUnits] /\ todo \in [Programs -> Seq(Record)]
         /\ fds \in [Devices -> 0..MaxFds] /\ known \in [Devices -> BOOLEAN]
         /\ settled \in 0..Len(list)
         /\ \A p \in Programs : pc[p] \in Busy => todo[p] # <<>>
         /\ \A p \in Programs : pc[p] \in Held => offset[p] <= Len(list)
         /\ \A p \in Programs : pc[p] \in Long => Len(list) >= 2
         /\ \A p \in Programs : pc[p] \in Past => offset[p] >= 2
         /\ \A d \in Devices : pc[d] = "read" => fds[d] < MaxFds
         /\ Servers \subseteq Programs /\ Tools \subseteq Programs
         /\ Devices \subseteq Programs /\ Children \subseteq Programs
BY RegistryAssumption DEF RegistryTypeOK, RegistryAssumption, Places, Busy, Held, Long, Past,
                          Programs

\* The records of the programs.
LEMMA Records ==
  /\ \A n \in Nodes : Own(n) \in Record
  /\ \A n \in Nodes, a \in Addresses : [ipv6 |-> a, blue |-> n] \in Record
  /\ "42:6E" \in Nodes /\ "10:55" \in Nodes
BY DEF Own, Record, Addresses, Nodes

LEMMA MovesTo ==
  ASSUME NEW p, NEW place \in Places, NEW off \in 0..MaxUnits, NEW records \in Seq(Record),
         To(p, place, off, records),
         place \in Busy => records # <<>>,
         place \in Held => off <= Len(list'),
         place \in Long => Len(list') >= 2,
         place \in Past => off >= 2
  PROVE  Moves(p)
BY DEF Moves

LEMMA MovesAside ==
  ASSUME NEW p, NEW place \in {"off", "serve", "failed", "idle"}, NEW off \in 0..MaxUnits,
         NEW records \in Seq(Record), To(p, place, off, records)
  PROVE  Moves(p)
BY MovesTo DEF Places, Busy, Held, Long, Past

LEMMA MovesBusy ==
  ASSUME NEW p, NEW place \in {"seek", "read", "found", "absent"}, NEW off \in 0..MaxUnits,
         NEW records \in Seq(Record), records # <<>>, To(p, place, off, records)
  PROVE  Moves(p)
BY MovesTo DEF Places, Busy, Held, Long, Past

LEMMA MovesLong ==
  ASSUME NEW p, NEW place \in {"mute", "scan", "print", "last"}, NEW off \in 0..MaxUnits,
         To(p, place, off, <<>>),
         off <= Len(list'), Len(list') >= 2, place \in {"print", "last"} => off >= 2
  PROVE  Moves(p)
<1>1. <<>> \in Seq(Record)
  OBVIOUS
<1>2. QED
  BY <1>1, MovesTo DEF Places, Busy, Held, Long, Past

LEMMA StartMoves ==
  ASSUME RegistryTypeOK, NEW p \in Servers \cup Tools, Start(p)
  PROVE  Moves(p) /\ Grows
<1> USE TypeParts
<1>0. 0 \in 0..MaxUnits
  OBVIOUS
<1>1. Grows
  BY DEF Start, Grows
<1>2. ASSUME To(p, "seek", 0, IF p \in Servers THEN <<Own("42:6E"), Own("10:55")>>
                                             ELSE <<Own("42:6E")>>)
      PROVE  Moves(p)
  <2>1. /\ <<Own("42:6E"), Own("10:55")>> \in Seq(Record) \ {<<>>}
        /\ <<Own("42:6E")>> \in Seq(Record) \ {<<>>}
    BY Records
  <2>2. QED
    BY <1>2, <2>1, <1>0, MovesBusy
<1>3. ASSUME To(p, End(p, FALSE), 0, <<>>) PROVE Moves(p)
  <2>1. <<>> \in Seq(Record) /\ End(p, FALSE) \in {"serve", "off", "idle"}
    BY DEF End
  <2>2. QED
    BY <1>0, <1>3, <2>1, MovesAside
<1>4. QED
  BY <1>1, <1>2, <1>3 DEF Start

LEMMA SeekMoves ==
  ASSUME RegistryTypeOK, NEW p \in Programs, Seek(p)
  PROVE  Moves(p) /\ Grows
<1> USE TypeParts
<1>1. Grows
  BY DEF Seek, Grows
<1>2. todo[p] \in Seq(Record) /\ todo[p] # <<>>
  BY DEF Seek, Busy
<1>3. To(p, "write", Len(list), todo[p]) /\ list' = list
  BY DEF Seek
<1>4. Moves(p)
  BY <1>2, <1>3, MovesTo DEF Places, Busy, Held, Long, Past
<1>5. QED
  BY <1>1, <1>4

LEMMA WriteMoves ==
  ASSUME RegistryTypeOK, NEW p \in Programs, Write(p)
  PROVE  Moves(p) /\ Grows
<1>0. /\ list \in Seq(Units) /\ Len(list) \in 0..MaxUnits /\ MaxUnits \in Nat
      /\ todo[p] \in Seq(Record) /\ todo[p] # <<>>
      /\ offset[p] \in 0..Len(list)
  BY TypeParts DEF Write, Busy, Held
<1>1. Head(todo[p]) \in Record /\ Tail(todo[p]) \in Seq(Record)
  BY <1>0
<1>2. ASSUME NEW units \in Seq(Units), list' = Put(list, offset[p], units),
             offset[p] + Len(units) <= MaxUnits
      PROVE  Grows
  <2>1. /\ Put(list, offset[p], units) \in Seq(Units)
        /\ Len(Put(list, offset[p], units)) = IF offset[p] + Len(units) > Len(list)
                                               THEN offset[p] + Len(units) ELSE Len(list)
    BY <1>0, PutFacts
  <2>2. Len(units) \in Nat
    OBVIOUS
  <2>3. QED
    BY <1>0, <1>2, <2>1, <2>2 DEF Grows
<1>3. Grows
  <2>1. CASE /\ offset[p] + 2 <= MaxUnits
             /\ list' = Put(list, offset[p], Layout(Head(todo[p])))
    <3>1. Layout(Head(todo[p])) \in Seq(Units) /\ Len(Layout(Head(todo[p]))) = 2
      BY <1>1, LayoutFacts
    <3>2. QED
      BY <1>2, <2>1, <3>1
  <2>2. CASE /\ offset[p] + 2 > Len(list) /\ offset[p] + 1 <= MaxUnits
             /\ list' = Put(list, offset[p], << Layout(Head(todo[p]))[1] >>)
    <3>1. /\ << Layout(Head(todo[p]))[1] >> \in Seq(Units)
          /\ Len(<< Layout(Head(todo[p]))[1] >>) = 1
      BY <1>1, LayoutFacts
    <3>2. QED
      BY <1>2, <2>2, <3>1
  <2>3. CASE UNCHANGED list
    BY <1>0, <2>3 DEF Grows
  <2>4. QED
    BY <2>1, <2>2, <2>3 DEF Write
<1>4. PICK complete \in BOOLEAN :
        To(p, IF Len(todo[p]) > 1 THEN "seek" ELSE End(p, complete), 0, Tail(todo[p]))
  <2>1. \E complete \in BOOLEAN : Written(p, complete)
    BY DEF Write
  <2>2. QED
    BY <2>1 DEF Written
<1>5. Len(todo[p]) > 1 => Tail(todo[p]) # <<>>
  <2>1. ASSUME NEW s \in Seq(Record), Len(s) > 1 PROVE Tail(s) # <<>>
    <3>1. Tail(s) \in Seq(Record) /\ Len(Tail(s)) = Len(s) - 1
      BY <2>1
    <3> DEFINE rest == Tail(s)
    <3> HIDE DEF rest
    <3>2. rest \in Seq(Record) /\ Len(rest) > 0
      BY <2>1, <3>1 DEF rest
    <3>3. rest # <<>>
      BY <3>2
    <3>4. QED
      BY <3>3 DEF rest
  <2>2. QED
    BY <1>0, <2>1
<1>6. End(p, complete) \in {"serve", "off", "idle"}
  <2>1. CASE p \in Servers \/ ~complete
    BY <2>1 DEF End
  <2>2. CASE p \notin Servers /\ complete
    BY <2>2 DEF End
  <2>3. QED
    BY <2>1, <2>2
<1>7. 0 \in 0..MaxUnits
  BY <1>0
<1>8. Moves(p)
  <2>1. CASE Len(todo[p]) > 1
    BY <1>1, <1>4, <1>5, <1>7, <2>1, MovesBusy
  <2>2. CASE ~(Len(todo[p]) > 1)
    BY <1>1, <1>4, <1>6, <1>7, <2>2, MovesAside
  <2>3. QED
    BY <2>1, <2>2
<1>9. QED
  BY <1>3, <1>8

LEMMA CrashMoves ==
  ASSUME RegistryTypeOK, NEW p \in Programs, Crash(p)
  PROVE  Moves(p) /\ Grows
<1> USE TypeParts
<1>1. <<>> \in Seq(Record) /\ To(p, "off", 0, <<>>) /\ list' = list
  BY DEF Crash
<1>2. 0 \in 0..MaxUnits
  OBVIOUS
<1>3. Moves(p)
  BY <1>1, <1>2, MovesAside
<1>4. Grows
  BY <1>1 DEF Grows
<1>5. QED
  BY <1>3, <1>4

\* A child that prints writes text at its offset, of which there is a record before.
LEMMA PrintParts ==
  ASSUME RegistryTypeOK, NEW k \in Children, PrintRecord(k) \/ PrintEnd(k)
  PROVE  /\ offset[k] \in 2..Len(list)
         /\ \/ list' = list
            \/ \E length \in 1..3 : /\ offset[k] + length <= MaxUnits
                                    /\ list' = Put(list, offset[k], Line(length))
<1>1. k \in Programs /\ pc[k] \in Past /\ pc[k] \in Held
  BY TypeParts DEF PrintRecord, PrintEnd, Past, Held
<1>2. offset[k] \in 2..Len(list)
  BY <1>1, TypeParts
<1>3. CASE PrintRecord(k)
  BY <1>2, <1>3 DEF PrintRecord
<1>4. CASE PrintEnd(k)
  <2>1. \A length \in 1..2 : length \in 1..3
    OBVIOUS
  <2>2. QED
    BY <1>2, <1>4, <2>1 DEF PrintEnd
<1>5. QED
  BY <1>3, <1>4

\* A line takes the place of as many units as it is long.
LEMMA PrintFacts ==
  ASSUME NEW file \in Seq(Units), NEW off \in 0..Len(file), NEW length \in 1..3
  PROVE  /\ Put(file, off, Line(length)) \in Seq(Units)
         /\ Len(Put(file, off, Line(length))) =
              IF off + length > Len(file) THEN off + length ELSE Len(file)
         /\ Len(Put(file, off, Line(length))) >= Len(file)
         /\ \A i \in 1..Len(Put(file, off, Line(length))) :
              Put(file, off, Line(length))[i] =
                IF i \in (off + 1)..(off + length) THEN Line(length)[i - off] ELSE file[i]
<1>1. length \in Nat
  OBVIOUS
<1> DEFINE line == Line(length)
<1>2. line \in Seq(Units) /\ Len(line) = length
  BY <1>1, LineFacts
<1> HIDE DEF line
<1>3. /\ Put(file, off, line) \in Seq(Units)
      /\ Len(Put(file, off, line)) =
           IF off + Len(line) > Len(file) THEN off + Len(line) ELSE Len(file)
      /\ Len(Put(file, off, line)) >= Len(file)
      /\ \A i \in 1..Len(Put(file, off, line)) :
           Put(file, off, line)[i] =
             IF i \in (off + 1)..(off + Len(line)) THEN line[i - off] ELSE file[i]
  BY <1>2, PutFacts, ZenonT(60)
<1>4. QED
  BY <1>2, <1>3 DEF line

LEMMA PrintGrows ==
  ASSUME RegistryTypeOK, NEW k \in Children, PrintRecord(k) \/ PrintEnd(k)
  PROVE  /\ Grows
         /\ \A length \in 1..3 : list' = Put(list, offset[k], Line(length))
                                  => offset[k] + length <= Len(list')
<1>1. /\ list \in Seq(Units) /\ Len(list) \in 0..MaxUnits /\ MaxUnits \in Nat
      /\ offset[k] \in 0..Len(list)
  <2>1. offset[k] \in 2..Len(list)
    BY PrintParts
  <2>2. QED
    BY <2>1, TypeParts
<1>2. ASSUME NEW length \in 1..3, list' = Put(list, offset[k], Line(length))
      PROVE  /\ list' \in Seq(Units)
             /\ Len(list') = IF offset[k] + length > Len(list) THEN offset[k] + length
                                                              ELSE Len(list)
  BY <1>1, <1>2, PrintFacts
<1>3. ASSUME NEW length \in 1..3, list' = Put(list, offset[k], Line(length))
      PROVE  offset[k] + length <= Len(list')
  BY <1>1, <1>2, <1>3
<1>4. CASE list' = list
  BY <1>1, <1>3, <1>4 DEF Grows
<1>5. CASE \E length \in 1..3 : /\ offset[k] + length <= MaxUnits
                               /\ list' = Put(list, offset[k], Line(length))
  <2>1. Grows
    BY <1>1, <1>2, <1>5 DEF Grows
  <2>2. QED
    BY <1>3, <2>1
<1>6. QED
  BY <1>4, <1>5, PrintParts

LEMMA ChildMoves ==
  ASSUME RegistryTypeOK, NEW k \in Children, Child(k)
  PROVE  Moves(k) /\ Grows
<1>0. /\ list \in Seq(Units) /\ Len(list) \in 0..MaxUnits /\ MaxUnits \in Nat
      /\ 0 \in 0..MaxUnits /\ <<>> \in Seq(Record) /\ k \in Programs
      /\ offset[k] \in 0..MaxUnits
      /\ pc[k] \in Long => Len(list) >= 2
      /\ pc[k] \in Held => offset[k] <= Len(list)
  BY TypeParts
<1>1. ASSUME list' = list PROVE Grows
  BY <1>0, <1>1 DEF Grows
<1>2. CASE Fork(k)
  BY <1>0, <1>1, <1>2, MovesAside DEF Fork
<1>3. CASE JoinEmpty(k)
  <2>1. PICK n \in Peers : \E b \in {n, "garbled"} : To(k, "seek", 0, <<[ipv6 |-> b, blue |-> n]>>)
    BY <1>3 DEF JoinEmpty
  <2>2. PICK a \in {n, "garbled"} : To(k, "seek", 0, <<[ipv6 |-> a, blue |-> n]>>)
    BY <2>1
  <2>3. n \in Nodes /\ a \in Addresses
    BY DEF Nodes, Addresses
  <2>4. <<[ipv6 |-> a, blue |-> n]>> \in Seq(Record) /\ <<[ipv6 |-> a, blue |-> n]>> # <<>>
    BY <2>3, Records
  <2>5. Moves(k)
    BY <1>0, <2>2, <2>4, MovesBusy
  <2>6. QED
    BY <1>1, <1>3, <2>5 DEF JoinEmpty
<1>4. CASE JoinStdout(k)
  <2>1. Len(list) >= 2 /\ To(k, "mute", 0, <<>>) /\ list' = list
    BY <1>4 DEF JoinStdout
  <2>2. Moves(k)
    BY <1>0, <2>1, MovesLong
  <2>3. QED
    BY <1>1, <2>1, <2>2
<1>5. CASE Reopen(k)
  <2>1. Len(list) >= 2 /\ To(k, "scan", 0, <<>>) /\ list' = list
    BY <1>0, <1>5 DEF Reopen, Long
  <2>2. Moves(k)
    BY <1>0, <2>1, MovesLong
  <2>3. QED
    BY <1>1, <2>1, <2>2
<1>6. CASE Scan(k)
  <2>1. Len(list) >= 2 /\ To(k, "print", offset[k] + 2, <<>>) /\ list' = list
    BY <1>0, <1>6 DEF Scan, Long
  <2>2. offset[k] + 2 \in 0..MaxUnits /\ offset[k] + 2 >= 2 /\ offset[k] + 2 <= Len(list)
    BY <1>0, <1>6 DEF Scan
  <2>3. Moves(k)
    BY <1>0, <2>1, <2>2, MovesLong
  <2>4. QED
    BY <1>1, <2>1, <2>3
<1>7. CASE ScanEnd(k)
  <2>1. Len(list) >= 2 /\ To(k, "last", Len(list), <<>>) /\ list' = list
    BY <1>0, <1>7 DEF ScanEnd, Long
  <2>2. Moves(k)
    BY <1>0, <2>1, MovesLong
  <2>3. QED
    BY <1>1, <2>1, <2>2
<1>8. CASE PrintRecord(k)
  <2>1. Grows /\ Len(list') >= 2
    <3>1. Grows /\ Len(list) >= 2
      BY <1>0, <1>8, PrintGrows DEF PrintRecord, Long
    <3>2. QED
      BY <1>0, <3>1 DEF Grows
  <2>2. ASSUME NEW length \in 1..3, NEW n \in 1..length,
               offset[k] + length <= MaxUnits,
               list' = Put(list, offset[k], Line(length)),
               To(k, "scan", offset[k] + n, <<>>)
        PROVE  Moves(k)
    <3>1. offset[k] + length <= Len(list') /\ Len(list') \in Nat
      BY <1>8, <2>1, <2>2, PrintGrows DEF Grows
    <3>2. offset[k] + n \in 0..MaxUnits /\ offset[k] + n <= Len(list')
      BY <1>0, <2>2, <3>1
    <3>3. QED
      BY <1>0, <2>1, <2>2, <3>2, MovesLong
  <2>3. ASSUME list' = list, To(k, "scan", offset[k], <<>>)
        PROVE  Moves(k)
    <3>1. offset[k] <= Len(list)
      BY <1>0, <1>8 DEF PrintRecord, Held
    <3>2. QED
      BY <1>0, <2>1, <2>3, <3>1, MovesLong
  <2>4. QED
    BY <1>8, <2>1, <2>2, <2>3 DEF PrintRecord
<1>9. CASE PrintEnd(k)
  <2>1. Grows
    BY <1>9, PrintGrows
  <2>2. Moves(k)
    BY <1>0, <1>9, MovesAside DEF PrintEnd
  <2>3. QED
    BY <2>1, <2>2
<1>10. QED
  BY <1>2, <1>3, <1>4, <1>5, <1>6, <1>7, <1>8, <1>9 DEF Child

LEMMA DeviceMoves ==
  ASSUME RegistryTypeOK, NEW d \in Devices,
         (\E n \in Nodes : Open(d, n)) \/ Lookup(d) \/ Befriend(d) \/ Answer(d)
  PROVE  Moves(d) /\ Grows
<1> USE TypeParts
<1>1. Grows
  <2>1. list' = list
    BY DEF Open, Lookup, ReadFound, ReadOther, ReadEnd, Befriend, Answer
  <2>2. QED
    BY <2>1 DEF Grows
<1>2. <<>> \in Seq(Record)
  OBVIOUS
<1>3. pc[d] \in Busy => todo[d] \in Seq(Record) \ {<<>>} /\ Head(todo[d]).blue \in Nodes
  <2>1. SUFFICES ASSUME pc[d] \in Busy PROVE Head(todo[d]) \in Record
    BY DEF Record
  <2>2. QED
    BY <2>1
<1>4. ASSUME NEW n \in Nodes, Open(d, n) PROVE Moves(d)
  <2>1. <<[ipv6 |-> "blank", blue |-> n]>> \in Seq(Record)
    BY Records DEF Addresses
  <2>2. 0 \in 0..MaxUnits
    OBVIOUS
  <2>3. QED
    BY <1>2, <1>4, <2>1, <2>2, MovesBusy, MovesAside DEF Open
<1>5. CASE ReadFound(d)
  <2>1. offset[d] + 1 \in 1..Len(list)
    BY <1>5 DEF ReadFound
  <2>2. list[offset[d] + 1] \in Units
    BY <2>1
  <2>3. Address(list[offset[d] + 1]) \in Addresses
    BY <2>2 DEF Address, Units, Addresses
  <2>4. <<[ipv6 |-> Address(list[offset[d] + 1]), blue |-> Head(todo[d]).blue]>> \in Seq(Record)
    BY <1>3, <1>5, <2>3, Records DEF ReadFound, Busy
  <2>5. QED
    <3>1. 0 \in 0..MaxUnits
      OBVIOUS
    <3>2. Moves(d)
      <4> DEFINE records == <<[ipv6 |-> Address(list[offset[d] + 1]),
                               blue |-> Head(todo[d]).blue]>>
      <4>1. records \in Seq(Record) /\ records # <<>> /\ To(d, "found", 0, records)
        BY <1>5, <2>4 DEF ReadFound
      <4> HIDE DEF records
      <4>2. QED
        BY <3>1, <4>1, MovesBusy
    <3>3. QED
      BY <1>1, <3>2
<1>6. CASE ReadOther(d)
  <2>1. offset[d] + 2 \in 0..MaxUnits
    BY <1>6 DEF ReadOther
  <2>2. todo[d] \in Seq(Record) /\ todo[d] # <<>> /\ To(d, "read", offset[d] + 2, todo[d])
    BY <1>3, <1>6 DEF ReadOther, Busy
  <2>3. Moves(d)
    BY <2>1, <2>2, MovesBusy
  <2>4. QED
    BY <1>1, <2>3
<1>7. CASE ReadEnd(d)
  <2>1. todo[d] \in Seq(Record) /\ todo[d] # <<>> /\ To(d, "absent", 0, todo[d])
    BY <1>3, <1>7 DEF ReadEnd, Busy
  <2>2. 0 \in 0..MaxUnits
    OBVIOUS
  <2>3. Moves(d)
    BY <2>1, <2>2, MovesBusy
  <2>4. QED
    BY <1>1, <2>3
<1>8. CASE Befriend(d)
  <2>1. Head(todo[d]).blue \in Nodes
    BY <1>3, <1>8 DEF Befriend, Busy
  <2>2. PICK a \in {Head(todo[d]).blue, "blank"} :
          To(d, "seek", 0, <<[ipv6 |-> a, blue |-> Head(todo[d]).blue]>>)
    BY <1>8 DEF Befriend
  <2>3. <<[ipv6 |-> a, blue |-> Head(todo[d]).blue]>> \in Seq(Record)
    BY <2>1, Records DEF Addresses
  <2>4. QED
    <3>1. 0 \in 0..MaxUnits
      OBVIOUS
    <3>2. Moves(d)
      BY <2>2, <2>3, <3>1, MovesBusy
    <3>3. QED
      BY <1>1, <3>2
<1>9. CASE Answer(d)
  <2>1. To(d, "off", 0, <<>>)
    BY <1>9 DEF Answer
  <2>2. 0 \in 0..MaxUnits
    OBVIOUS
  <2>3. Moves(d)
    BY <1>2, <2>1, <2>2, MovesAside
  <2>4. QED
    BY <1>1, <2>3
<1>10. QED
  BY <1>1, <1>4, <1>5, <1>6, <1>7, <1>8, <1>9 DEF Lookup

LEMMA StepMoves ==
  ASSUME RegistryTypeOK, RegistryNext
  PROVE  Grows /\ \E p \in Programs : Moves(p)
<1>1. /\ Servers \subseteq Programs /\ Tools \subseteq Programs /\ Devices \subseteq Programs
      /\ Children \subseteq Programs
  BY TypeParts
<1>2. QED
  BY <1>1, StartMoves, SeekMoves, WriteMoves, CrashMoves, ChildMoves, DeviceMoves
     DEF RegistryNext

\* What was settled stays so or becomes the whole file.
LEMMA SettledSteps ==
  ASSUME RegistryNext
  PROVE  \/ settled' = settled
         \/ settled' = Len(list') /\ \A p \in Programs : pc'[p] # "write"
<1>1. Settles => \/ settled' = settled
                 \/ settled' = Len(list') /\ \A p \in Programs : pc'[p] # "write"
  BY DEF Settles
<1>2. ASSUME NEW p \in Servers \cup Tools, Start(p) PROVE settled' = settled
  BY <1>2 DEF Start
<1>3. ASSUME NEW p, Seek(p) \/ Write(p) \/ Crash(p) PROVE Settles
  BY <1>3 DEF Seek, Write, Crash
<1>4. ASSUME NEW d \in Devices,
             (\E n \in Nodes : Open(d, n)) \/ Lookup(d) \/ Befriend(d) \/ Answer(d)
      PROVE  settled' = settled
  BY <1>4 DEF Open, Lookup, ReadFound, ReadOther, ReadEnd, Befriend, Answer
<1>5. ASSUME NEW k \in Children, Child(k) PROVE Settles \/ settled' = settled
  BY <1>5 DEF Child, Fork, JoinEmpty, JoinStdout, Reopen, Scan, ScanEnd, PrintRecord, PrintEnd
<1>6. QED
  BY <1>1, <1>2, <1>3, <1>4, <1>5 DEF RegistryNext

\* Runs are counted up to their bound and known is a truth value.
LEMMA CountersTyped ==
  ASSUME RegistryTypeOK, RegistryNext
  PROVE  /\ runs' \in [Servers \cup Tools -> Nat]
         /\ \A p \in Servers \cup Tools : runs'[p] <= MaxRuns[p]
         /\ known' \in [Devices -> BOOLEAN]
<1>1. /\ runs \in [Servers \cup Tools -> Nat] /\ known \in [Devices -> BOOLEAN]
      /\ MaxRuns \in [Servers \cup Tools -> Nat]
      /\ \A p \in Servers \cup Tools : runs[p] <= MaxRuns[p]
  BY RegistryAssumption DEF RegistryTypeOK, RegistryAssumption
<1>2. ASSUME NEW p \in Servers \cup Tools, Start(p)
      PROVE  /\ runs' \in [Servers \cup Tools -> Nat] /\ known' = known
             /\ \A q \in Servers \cup Tools : runs'[q] <= MaxRuns[q]
  <2>1. runs' = [runs EXCEPT ![p] = @ + 1] /\ runs[p] < MaxRuns[p] /\ known' = known
    BY <1>2 DEF Start
  <2>2. \A q \in Servers \cup Tools : runs'[q] = IF q = p THEN runs[q] + 1 ELSE runs[q]
    BY <1>1, <2>1
  <2>3. QED
    BY <1>1, <2>1, <2>2
<1>3. ASSUME NEW p, Seek(p) \/ Write(p) \/ Crash(p)
      PROVE  runs' = runs /\ known' = known
  BY <1>3 DEF Seek, Write, Crash
<1>4. ASSUME NEW d \in Devices,
             (\E n \in Nodes : Open(d, n)) \/ Lookup(d) \/ Befriend(d) \/ Answer(d)
      PROVE  runs' = runs /\ known' \in [Devices -> BOOLEAN]
  <2>1. ASSUME NEW n \in Nodes, Open(d, n) PROVE known' \in [Devices -> BOOLEAN]
    <3>1. Holds(SubSeq(list, 1, settled), n) \in BOOLEAN
      BY DEF Holds
    <3>2. QED
      BY <1>1, <2>1, <3>1 DEF Open
  <2>2. ASSUME Lookup(d) \/ Befriend(d) PROVE known' = known
    BY <2>2 DEF Lookup, ReadFound, ReadOther, ReadEnd, Befriend
  <2>3. ASSUME Answer(d) PROVE known' \in [Devices -> BOOLEAN]
    BY <1>1, <2>3 DEF Answer
  <2>4. runs' = runs
    BY <1>4 DEF Open, Lookup, ReadFound, ReadOther, ReadEnd, Befriend, Answer
  <2>5. QED
    BY <1>1, <1>4, <2>1, <2>2, <2>3, <2>4
<1>5. ASSUME NEW k \in Children, Child(k)
      PROVE  runs' = runs /\ known' \in [Devices -> BOOLEAN]
  <2>1. ASSUME Forgets PROVE known' \in [Devices -> BOOLEAN]
    <3>1. \A d \in Devices :
            (/\ known[d]
             /\ pc[d] = "read" => Holds(SubSeq(list', 1, settled), Head(todo[d]).blue))
              \in BOOLEAN
      OBVIOUS
    <3>2. QED
      BY <2>1, <3>1 DEF Forgets
  <2>2. runs' = runs /\ (known' = known \/ Forgets)
    BY <1>5 DEF Child, Fork, JoinEmpty, JoinStdout, Reopen, Scan, ScanEnd, PrintRecord, PrintEnd
  <2>3. QED
    BY <1>1, <2>1, <2>2
<1>6. QED
  BY <1>1, <1>2, <1>3, <1>4, <1>5 DEF RegistryNext

\* A device opens the file only if it has a descriptor left, and a lookup that
\* leaves one open has read through it.
LEMMA FdsTyped ==
  ASSUME RegistryTypeOK, RegistryNext
  PROVE  /\ fds' \in [Devices -> 0..MaxFds]
         /\ \A d \in Devices : pc'[d] = "read" => fds'[d] < MaxFds
<1> USE TypeParts
<1>1. ASSUME NEW p \in Programs, NEW place, NEW off, NEW records,
             To(p, place, off, records), place # "read"
      PROVE  \A d \in Devices : pc'[d] = "read" => d # p /\ pc[d] = "read"
  BY <1>1 DEF To
<1>2. ASSUME NEW p \in Servers \cup Tools, Start(p)
      PROVE  fds' = fds /\ \A d \in Devices : pc'[d] = "read" => pc[d] = "read"
  <2>1. End(p, FALSE) # "read"
    BY DEF End
  <2>2. QED
    BY <1>1, <1>2, <2>1 DEF Start
<1>3. ASSUME NEW p \in Programs, Seek(p) \/ Write(p) \/ Crash(p)
      PROVE  fds' = fds /\ \A d \in Devices : pc'[d] = "read" => pc[d] = "read"
  <2>1. End(p, TRUE) # "read" /\ End(p, FALSE) # "read"
    BY DEF End
  <2>2. QED
    BY <1>1, <1>3, <2>1 DEF Seek, Write, Written, Crash
<1>4. ASSUME NEW d \in Devices, NEW n \in Nodes, Open(d, n)
      PROVE  fds' = fds /\ \A e \in Devices : pc'[e] = "read" => fds[e] < MaxFds
  <2>1. CASE fds[d] < MaxFds
    BY <1>4, <2>1 DEF Open, To
  <2>2. CASE ~(fds[d] < MaxFds)
    BY <1>1, <1>4, <2>2 DEF Open
  <2>3. QED
    BY <2>1, <2>2
<1>5. ASSUME NEW d \in Devices, ReadFound(d) \/ Befriend(d) \/ Answer(d)
      PROVE  fds' = fds /\ \A e \in Devices : pc'[e] = "read" => pc[e] = "read"
  BY <1>1, <1>5 DEF ReadFound, Befriend, Answer
<1>6. ASSUME NEW d \in Devices, ReadOther(d)
      PROVE  fds' = fds /\ \A e \in Devices : pc'[e] = "read" => pc[e] = "read"
  BY <1>6 DEF ReadOther, To
<1>7. ASSUME NEW d \in Devices, ReadEnd(d)
      PROVE  /\ fds' \in [Devices -> 0..MaxFds]
             /\ \A e \in Devices : pc'[e] = "read" => fds'[e] < MaxFds
  <2>1. fds' = [fds EXCEPT ![d] = @ + 1] /\ pc[d] = "read" /\ fds[d] < MaxFds
    BY <1>7 DEF ReadEnd
  <2>2. \A e \in Devices : pc'[e] = "read" => e # d /\ pc[e] = "read"
    BY <1>1, <1>7 DEF ReadEnd
  <2>3. QED
    BY <2>1, <2>2
<1>8. ASSUME NEW k \in Children, Child(k)
      PROVE  fds' = fds /\ \A e \in Devices : pc'[e] = "read" => pc[e] = "read"
  <2>1. k \in Programs
    OBVIOUS
  <2>2. QED
    BY <1>1, <1>8, <2>1
       DEF Child, Fork, JoinEmpty, JoinStdout, Reopen, Scan, ScanEnd, PrintRecord, PrintEnd
<1>9. QED
  BY <1>2, <1>3, <1>4, <1>5, <1>6, <1>7, <1>8 DEF RegistryNext, Lookup

LEMMA RegistryTypeKept ==
  ASSUME RegistryTypeOK, [RegistryNext]_registryVars
  PROVE  RegistryTypeOK'
<1>1. CASE UNCHANGED registryVars
  BY <1>1 DEF registryVars, RegistryTypeOK
<1>2. CASE RegistryNext
  <2>1. PICK p \in Programs, place \in Places, off \in 0..MaxUnits, records \in Seq(Record) :
          /\ To(p, place, off, records)
          /\ place \in Busy => records # <<>>
          /\ place \in Held => off <= Len(list')
          /\ place \in Long => Len(list') >= 2
          /\ place \in Past => off >= 2
    BY <1>2, StepMoves DEF Moves
  <2>2. list' \in Seq(Units) /\ Len(list') <= MaxUnits /\ Len(list') >= Len(list)
    BY <1>2, StepMoves DEF Grows
  <2>3. /\ pc' \in [Programs -> Places]
        /\ offset' \in [Programs -> 0..MaxUnits]
        /\ todo' \in [Programs -> Seq(Record)]
        /\ \A q \in Programs : pc'[q] \in Busy => todo'[q] # <<>>
        /\ \A q \in Programs : pc'[q] \in Held => offset'[q] <= Len(list')
        /\ \A q \in Programs : pc'[q] \in Long => Len(list') >= 2
        /\ \A q \in Programs : pc'[q] \in Past => offset'[q] >= 2
    BY <2>1, <2>2, ToFacts
  <2>4. settled' \in 0..Len(list')
    <3>1. settled \in 0..Len(list) /\ Len(list) \in Nat /\ Len(list') \in Nat
      BY <2>2, TypeParts
    <3>2. QED
      BY <1>2, <2>2, <3>1, SettledSteps
  <2>5. QED
    BY <1>2, <2>2, <2>3, <2>4, CountersTyped, FdsTyped
       DEF RegistryTypeOK, Places, Busy, Held, Long, Past
<1>3. QED
  BY <1>1, <1>2

LEMMA RegistryInitTyped == RegistryInit => RegistryTypeOK
<1> SUFFICES ASSUME RegistryInit PROVE RegistryTypeOK
  OBVIOUS
<1>1. <<>> \in Seq(Units) /\ <<>> \in Seq(Record) /\ Len(<<>>) = 0
  OBVIOUS
<1>2. MaxUnits \in Nat /\ MaxFds \in Nat /\ MaxRuns \in [Servers \cup Tools -> Nat]
  BY RegistryAssumption DEF RegistryAssumption
<1>3. Devices \subseteq Programs
  BY DEF Programs
<1>4. QED
  BY <1>1, <1>2, <1>3 DEF RegistryInit, RegistryTypeOK

\* The variables of the file and its programs keep their types; a program between
\* its seek and its write is at a place of the file, and a lookup has a
\* descriptor (refcomm-server.c:160-172, msgprocess.c:123-223).
THEOREM RegistryTyping == RegistrySpec => []RegistryTypeOK
<1>1. RegistryInit => RegistryTypeOK
  BY RegistryInitTyped
<1>2. RegistryTypeOK /\ [RegistryNext]_registryVars => RegistryTypeOK'
  BY RegistryTypeKept
<1>3. QED
  BY <1>1, <1>2, PTL DEF RegistrySpec

-----------------------------------------------------------------------------
(* What was settled is kept.                                                *)

\* A program between its seek and its write has sought to a place behind
\* everything that is settled.
WritersBehind == \A p \in Programs : pc[p] = "write" => settled <= offset[p]

\* Only a write changes the file, or a line that is printed.
LEMMA ListSteps ==
  ASSUME RegistryNext
  PROVE  \/ list' = list
         \/ \E p \in Programs : Write(p)
         \/ \E k \in Children : PrintRecord(k) \/ PrintEnd(k)
<1>1. ASSUME NEW p \in Servers \cup Tools, Start(p) PROVE list' = list
  BY <1>1 DEF Start
<1>2. ASSUME NEW p, Seek(p) \/ Crash(p) PROVE list' = list
  BY <1>2 DEF Seek, Crash
<1>3. ASSUME NEW d \in Devices,
             (\E n \in Nodes : Open(d, n)) \/ Lookup(d) \/ Befriend(d) \/ Answer(d)
      PROVE  list' = list
  BY <1>3 DEF Open, Lookup, ReadFound, ReadOther, ReadEnd, Befriend, Answer
<1>4. ASSUME NEW k \in Children, Child(k) PROVE list' = list \/ PrintRecord(k) \/ PrintEnd(k)
  BY <1>4 DEF Child, Fork, JoinEmpty, JoinStdout, Reopen, Scan, ScanEnd
<1>5. QED
  BY <1>1, <1>2, <1>3, <1>4 DEF RegistryNext

\* A write of a record is whole, or is its first half at the end of the file, or
\* nothing.
LEMMA WriteParts ==
  ASSUME RegistryTypeOK, NEW p \in Programs, Write(p)
  PROVE  /\ Head(todo[p]) \in Record
         /\ offset[p] \in 0..Len(list)
         /\ \/ list' = list
            \/ list' = Put(list, offset[p], Layout(Head(todo[p])))
            \/ /\ offset[p] + 2 > Len(list)
               /\ list' = Put(list, offset[p], << Layout(Head(todo[p]))[1] >>)
<1>1. /\ todo[p] \in Seq(Record) /\ todo[p] # <<>>
      /\ offset[p] \in 0..Len(list)
  BY TypeParts DEF Write, Busy, Held
<1>2. Head(todo[p]) \in Record
  BY <1>1
<1>3. QED
  BY <1>1, <1>2 DEF Write

\* A program comes to write by a seek, to the end of the file.
LEMMA WriterSteps ==
  ASSUME RegistryTypeOK, RegistryNext, NEW q \in Programs, pc'[q] = "write"
  PROVE  \/ pc[q] = "write" /\ offset'[q] = offset[q]
         \/ offset'[q] = Len(list) /\ list' = list
<1> USE TypeParts
<1>1. ASSUME NEW p \in Programs, NEW place, NEW off, NEW records,
             To(p, place, off, records), place # "write"
      PROVE  pc[q] = "write" /\ offset'[q] = offset[q]
  BY <1>1 DEF To
<1>2. ASSUME NEW p \in Servers \cup Tools, Start(p)
      PROVE  pc[q] = "write" /\ offset'[q] = offset[q]
  <2>1. End(p, FALSE) # "write" /\ p \in Programs
    BY DEF End
  <2>2. QED
    BY <1>1, <1>2, <2>1 DEF Start
<1>3. ASSUME NEW p \in Programs, Write(p) \/ Crash(p)
      PROVE  pc[q] = "write" /\ offset'[q] = offset[q]
  <2>1. End(p, TRUE) # "write" /\ End(p, FALSE) # "write"
    BY DEF End
  <2>2. QED
    BY <1>1, <1>3, <2>1 DEF Write, Written, Crash
<1>4. ASSUME NEW p \in Programs, Seek(p)
      PROVE  \/ pc[q] = "write" /\ offset'[q] = offset[q]
             \/ offset'[q] = Len(list) /\ list' = list
  BY <1>4 DEF Seek, To
<1>5. ASSUME NEW d \in Devices,
             (\E n \in Nodes : Open(d, n)) \/ Lookup(d) \/ Befriend(d) \/ Answer(d)
      PROVE  pc[q] = "write" /\ offset'[q] = offset[q]
  <2>1. d \in Programs
    OBVIOUS
  <2>2. QED
    BY <1>1, <1>5, <2>1 DEF Open, Lookup, ReadFound, ReadOther, ReadEnd, Befriend, Answer
<1>6. ASSUME NEW k \in Children, Child(k)
      PROVE  pc[q] = "write" /\ offset'[q] = offset[q]
  <2>1. k \in Programs
    OBVIOUS
  <2>2. QED
    BY <1>1, <1>6, <2>1
       DEF Child, Fork, JoinEmpty, JoinStdout, Reopen, Scan, ScanEnd, PrintRecord, PrintEnd
<1>7. QED
  BY <1>2, <1>3, <1>4, <1>5, <1>6 DEF RegistryNext

\* A write leaves what is settled.
LEMMA WriteKeepsSettled ==
  ASSUME RegistryTypeOK, WritersBehind, RegistryNext, NEW p \in Programs, Write(p)
  PROVE  \A i \in 1..settled : list'[i] = list[i]
<1>1. /\ list \in Seq(Units) /\ settled \in 0..Len(list) /\ Len(list) \in Nat
  BY TypeParts
<1>2. CASE list' # list
  <2>1. settled <= offset[p] /\ offset[p] \in 0..Len(list)
    BY WriteParts DEF WritersBehind, Write
  <2>2. PICK units \in Seq(Units) : list' = Put(list, offset[p], units)
    BY <1>2, WriteParts, LayoutFacts
  <2>3. /\ Len(list') >= Len(list)
        /\ \A i \in 1..Len(list') :
              list'[i] = IF i \in (offset[p] + 1)..(offset[p] + Len(units))
                         THEN units[i - offset[p]] ELSE list[i]
    BY <1>1, <2>1, <2>2, PutFacts
  <2>4. Len(units) \in Nat /\ Len(list') \in Nat
    BY StepMoves DEF Grows
  <2>5. QED
    BY <1>1, <2>1, <2>3, <2>4
<1>3. QED
  BY <1>2

LEMMA SettledStaysAsItIs ==
  ASSUME RegistryTypeOK, WritersBehind, [RegistryNext]_registryVars
  PROVE  /\ Len(list') >= settled
         /\ \A i \in 1..settled : list'[i] = list[i] \/ (i > 2 /\ list'[i].field = "text")
         /\ settled' >= settled
<1>1. /\ list \in Seq(Units) /\ settled \in 0..Len(list) /\ Len(list) \in Nat
  BY TypeParts
<1>2. CASE UNCHANGED registryVars
  BY <1>1, <1>2 DEF registryVars
<1>3. CASE RegistryNext
  <2>1. ASSUME NEW p \in Programs, Write(p)
        PROVE  \A i \in 1..settled : list'[i] = list[i]
    BY <1>3, <2>1, WriteKeepsSettled
  <2>2. ASSUME NEW k \in Children, PrintRecord(k) \/ PrintEnd(k), NEW i \in 1..settled,
               list'[i] # list[i]
        PROVE  i > 2 /\ list'[i].field = "text"
    <3>1. offset[k] \in 0..Len(list) /\ offset[k] >= 2 /\ i \in 1..Len(list)
      <4>1. offset[k] \in 2..Len(list)
        BY <2>2, PrintParts
      <4>2. QED
        BY <1>1, <4>1
    <3>2. PICK length \in 1..3 : list' = Put(list, offset[k], Line(length))
      BY <2>2, PrintParts
    <3>3. /\ Line(length) \in Seq(Units) /\ Len(Line(length)) = length
          /\ \A j \in 1..length : Line(length)[j].field = "text"
      <4>1. length \in Nat
        OBVIOUS
      <4>2. QED
        BY <4>1, LineFacts
    <3>4. /\ Len(list') >= Len(list)
          /\ \A j \in 1..Len(list') :
                list'[j] = IF j \in (offset[k] + 1)..(offset[k] + length)
                           THEN Line(length)[j - offset[k]] ELSE list[j]
      <4> DEFINE new == Put(list, offset[k], Line(length))
      <4>1. /\ Len(new) >= Len(list)
            /\ \A j \in 1..Len(new) :
                  new[j] = IF j \in (offset[k] + 1)..(offset[k] + length)
                           THEN Line(length)[j - offset[k]] ELSE list[j]
        BY <1>1, <3>1, PrintFacts, ZenonT(60)
      <4>2. list' = new
        BY <3>2
      <4> HIDE DEF new
      <4>3. QED
        BY <4>1, <4>2
    <3>5. Len(list') \in Nat
      BY <1>3, StepMoves DEF Grows
    <3>6. i \in (offset[k] + 1)..(offset[k] + length) /\ list'[i] = Line(length)[i - offset[k]]
      BY <1>1, <2>2, <3>1, <3>4, <3>5
    <3>7. i - offset[k] \in 1..length /\ i > 2
      BY <3>1, <3>6
    <3>8. QED
      BY <3>3, <3>6, <3>7
  <2>3. \A i \in 1..settled : list'[i] = list[i] \/ (i > 2 /\ list'[i].field = "text")
    BY <1>3, <2>1, <2>2, ListSteps
  <2>4. Len(list') >= Len(list) /\ Len(list') \in Nat
    BY <1>3, StepMoves DEF Grows
  <2>5. settled' >= settled
    BY <1>1, <1>3, <2>4, SettledSteps
  <2>6. QED
    BY <1>1, <2>3, <2>4, <2>5
<1>4. QED
  BY <1>2, <1>3

LEMMA WritersBehindKept ==
  ASSUME RegistryTypeOK, WritersBehind, [RegistryNext]_registryVars
  PROVE  WritersBehind'
<1>1. CASE UNCHANGED registryVars
  BY <1>1 DEF registryVars, WritersBehind
<1>2. CASE RegistryNext
  <2>1. SUFFICES ASSUME NEW q \in Programs, pc'[q] = "write" PROVE settled' <= offset'[q]
    BY DEF WritersBehind
  <2>2. settled' = settled
    BY <1>2, <2>1, SettledSteps
  <2>3. settled \in 0..Len(list) /\ Len(list) \in Nat
    BY TypeParts
  <2>4. QED
    BY <1>2, <2>1, <2>2, <2>3, WriterSteps DEF WritersBehind
<1>3. QED
  BY <1>1, <1>2

\* What the list held when no program was between its seek and its write (main,
\* refcomm-server.c:167-171; add.c:49-51; add_new_node, msgprocess.c:348) is lost
\* to no record, and to a line of a child (msgprocess.c:276) only behind the first
\* record, for any number of programs, children and starts.
THEOREM SettledRecordsKept == RegistrySpec => SettledKept
<1>1. RegistryInit => RegistryTypeOK /\ WritersBehind
  <2>1. RegistryInit => WritersBehind
    BY DEF RegistryInit, WritersBehind
  <2>2. QED
    BY <2>1, RegistryInitTyped
<1>2. RegistryTypeOK /\ WritersBehind /\ [RegistryNext]_registryVars =>
        (RegistryTypeOK /\ WritersBehind)'
  BY RegistryTypeKept, WritersBehindKept
<1>3. RegistryTypeOK /\ WritersBehind /\ [RegistryNext]_registryVars =>
        [/\ Len(list') >= settled
         /\ \A i \in 1..settled :
              list'[i] = list[i] \/ (i > 2 /\ list'[i].field = "text")]_registryVars
  BY SettledStaysAsItIs
<1>4. QED
  BY <1>1, <1>2, <1>3, PTL DEF RegistrySpec, SettledKept

-----------------------------------------------------------------------------
(* A lookup does not miss what was settled.                                 *)

\* The record of node n that is settled ends at unit 2k, behind offset off.
Ahead(n, off) ==
  \E k \in Nat : /\ 2 * k <= settled /\ off < 2 * k
                /\ list[2 * k] = [field |-> "blue", of |-> n]

\* No record of node n ends before offset off.
NoneBehind(n, off) ==
  \A k \in Nat : 0 < k /\ 2 * k <= off => list[2 * k] # [field |-> "blue", of |-> n]

\* A lookup reads whole records, and one for a node that was settled when it
\* began, and is, has a record still before it and none behind it.
LookupInv ==
  \A d \in Devices :
    /\ pc[d] = "read" => \E m \in Nat : offset[d] = 2 * m
    /\ pc[d] = "read" /\ known[d] => /\ Ahead(Head(todo[d]).blue, offset[d])
                                    /\ NoneBehind(Head(todo[d]).blue, offset[d])
    /\ pc[d] = "absent" => ~known[d]

\* A device that does no step of its own stays where it is, and forgets a node
\* only when a line is printed over it.
LEMMA OthersStay ==
  ASSUME RegistryTypeOK, RegistryNext, NEW d \in Devices
  PROVE  \/ /\ pc'[d] = pc[d] /\ offset'[d] = offset[d] /\ todo'[d] = todo[d]
            /\ \/ known'[d] = known[d] /\ (list' = list \/ \E p \in Programs : Write(p))
               \/ Forgets /\ \E k \in Children : PrintRecord(k) \/ PrintEnd(k)
         \/ pc'[d] \in {"write", "seek", "off", "serve", "idle"}
         \/ \E n \in Nodes : Open(d, n)
         \/ Lookup(d) \/ Befriend(d) \/ Answer(d)
<1> DEFINE Same == /\ pc'[d] = pc[d] /\ offset'[d] = offset[d] /\ todo'[d] = todo[d]
<1> USE TypeParts
<1>1. ASSUME NEW p \in Programs, p # d, NEW place, NEW off, NEW records,
             To(p, place, off, records)
      PROVE  Same
  BY <1>1 DEF To
<1>2. ASSUME NEW p \in Servers \cup Tools, Start(p)
      PROVE  Same /\ known' = known /\ list' = list
  <2>1. p # d /\ p \in Programs
    BY RegistryAssumption DEF RegistryAssumption
  <2>2. QED
    BY <1>1, <1>2, <2>1 DEF Start
<1>3. ASSUME NEW p \in Programs, Seek(p) \/ Write(p) \/ Crash(p)
      PROVE  \/ Same /\ known' = known /\ (list' = list \/ Write(p))
             \/ pc'[d] \in {"write", "seek", "off", "serve", "idle"}
  <2>1. CASE p # d
    BY <1>1, <1>3, <2>1 DEF Seek, Write, Written, Crash
  <2>2. CASE p = d
    BY <1>3, <2>2 DEF Seek, Write, Written, Crash, To, End
  <2>3. QED
    BY <2>1, <2>2
<1>4. ASSUME NEW e \in Devices, e # d,
             (\E n \in Nodes : Open(e, n)) \/ Lookup(e) \/ Befriend(e) \/ Answer(e)
      PROVE  Same /\ known'[d] = known[d] /\ list' = list
  <2>1. e \in Programs
    OBVIOUS
  <2>2. Same
    BY <1>1, <1>4, <2>1 DEF Open, Lookup, ReadFound, ReadOther, ReadEnd, Befriend, Answer
  <2>3. known'[d] = known[d] /\ list' = list
    BY <1>4 DEF Open, Lookup, ReadFound, ReadOther, ReadEnd, Befriend, Answer
  <2>4. QED
    BY <2>2, <2>3
<1>5. ASSUME NEW k \in Children, Child(k)
      PROVE  /\ Same
             /\ \/ known' = known /\ list' = list
                \/ Forgets /\ (PrintRecord(k) \/ PrintEnd(k))
  <2>1. k # d /\ k \in Programs
    BY RegistryAssumption DEF RegistryAssumption
  <2>2. Same
    BY <1>1, <1>5, <2>1
       DEF Child, Fork, JoinEmpty, JoinStdout, Reopen, Scan, ScanEnd, PrintRecord, PrintEnd
  <2>3. \/ known' = known /\ list' = list
        \/ Forgets /\ (PrintRecord(k) \/ PrintEnd(k))
    <3>1. PrintRecord(k) \/ PrintEnd(k) => Forgets
      BY DEF PrintRecord, PrintEnd
    <3>2. CASE ~(PrintRecord(k) \/ PrintEnd(k))
      BY <1>5, <3>2 DEF Child, Fork, JoinEmpty, JoinStdout, Reopen, Scan, ScanEnd
    <3>3. QED
      BY <3>1, <3>2
  <2>4. QED
    BY <2>2, <2>3
<1>6. QED
  BY <1>2, <1>3, <1>4, <1>5 DEF RegistryNext

\* The node that a prefix of the file holds has a record in it.
LEMMA HeldBy ==
  ASSUME NEW file \in Seq(Units), NEW n, NEW len \in 0..Len(file),
         Holds(SubSeq(file, 1, len), n)
  PROVE  \E k \in Nat : /\ 0 < k /\ 2 * k <= len
                       /\ file[2 * k] = [field |-> "blue", of |-> n]
<1>1. /\ Len(SubSeq(file, 1, len)) = len /\ len \in Nat
      /\ \A i \in 1..len : SubSeq(file, 1, len)[i] = file[i]
  OBVIOUS
<1>2. PICK k \in 1..Len(SubSeq(file, 1, len)) :
        /\ 2 * k <= Len(SubSeq(file, 1, len))
        /\ SubSeq(file, 1, len)[2 * k] = [field |-> "blue", of |-> n]
  BY DEF Holds
<1>3. k \in Nat /\ 0 < k /\ 2 * k \in 1..len
  BY <1>1, <1>2
<1>4. QED
  BY <1>1, <1>2, <1>3

LEMMA LookupInvKept ==
  ASSUME RegistryTypeOK, WritersBehind, LookupInv, [RegistryNext]_registryVars
  PROVE  LookupInv'
<1> DEFINE Good(d) == /\ pc[d] = "read" => \E m \in Nat : offset[d] = 2 * m
                      /\ pc[d] = "read" /\ known[d] =>
                           /\ Ahead(Head(todo[d]).blue, offset[d])
                           /\ NoneBehind(Head(todo[d]).blue, offset[d])
                      /\ pc[d] = "absent" => ~known[d]
<1>0. /\ list \in Seq(Units) /\ settled \in 0..Len(list) /\ Len(list) \in Nat
      /\ \A d \in Devices : d \in Programs /\ offset[d] \in Nat
      /\ pc \in [Programs -> Places] /\ offset \in [Programs -> 0..MaxUnits]
      /\ todo \in [Programs -> Seq(Record)] /\ known \in [Devices -> BOOLEAN]
      /\ MaxUnits \in Nat
  BY TypeParts
<1> SUFFICES ASSUME NEW d \in Devices PROVE Good(d)'
  BY DEF LookupInv
<1>1. Good(d)
  BY DEF LookupInv
<1>2. ASSUME /\ pc'[d] = pc[d] /\ offset'[d] = offset[d] /\ todo'[d] = todo[d],
             /\ known'[d] => known[d],
             ASSUME pc[d] = "read", known'[d]
             PROVE  \E k \in Nat : /\ 0 < k /\ 2 * k <= settled
                                  /\ list'[2 * k] = [field |-> "blue", of |-> Head(todo[d]).blue]
      PROVE  Good(d)'
  <2>1. ASSUME pc'[d] = "read", known'[d]
        PROVE  /\ Ahead(Head(todo[d]).blue, offset[d])'
               /\ NoneBehind(Head(todo[d]).blue, offset[d])'
    <3> DEFINE n == Head(todo[d]).blue
               off == offset[d]
    <3>1. Ahead(n, off) /\ NoneBehind(n, off)
      BY <1>1, <1>2, <2>1
    <3>2. off < settled
      <4>1. PICK k \in Nat : 2 * k <= settled /\ off < 2 * k
        BY <3>1 DEF Ahead
      <4>2. QED
        BY <1>0, <4>1
    <3>3. settled' \in Nat /\ settled \in Nat /\ off \in Nat /\ settled <= settled'
      BY <1>0, RegistryTypeKept, SettledStaysAsItIs DEF RegistryTypeOK
    <3>4. ASSUME NEW i \in 1..settled, list'[i] = [field |-> "blue", of |-> n]
          PROVE  list[i] = [field |-> "blue", of |-> n]
      BY <3>4, SettledStaysAsItIs
    <3>5. PICK k \in Nat : /\ 0 < k /\ 2 * k <= settled
                           /\ list'[2 * k] = [field |-> "blue", of |-> n]
      BY <1>2, <2>1
    <3>6. 2 * k \in 1..settled /\ 2 * k <= settled'
      BY <3>3, <3>5
    <3>7. off < 2 * k
      BY <3>1, <3>3, <3>4, <3>5, <3>6 DEF NoneBehind
    <3>8. Ahead(Head(todo[d]).blue, offset[d])'
      BY <1>2, <3>5, <3>6, <3>7 DEF Ahead
    <3>9. ASSUME NEW j \in Nat, 0 < j, 2 * j <= off
          PROVE  list'[2 * j] # [field |-> "blue", of |-> n]
      <4>1. 2 * j \in 1..settled
        BY <3>2, <3>3, <3>9
      <4>2. QED
        BY <3>1, <3>4, <3>9, <4>1 DEF NoneBehind
    <3>10. NoneBehind(Head(todo[d]).blue, offset[d])'
      BY <1>2, <3>9 DEF NoneBehind
    <3>11. QED
      BY <3>8, <3>10
  <2>2. QED
    BY <1>1, <1>2, <2>1
<1> DEFINE Same == pc'[d] = pc[d] /\ offset'[d] = offset[d] /\ todo'[d] = todo[d]
<1>3. ASSUME Same, known'[d] = known[d], \A i \in 1..settled : list'[i] = list[i]
      PROVE  Good(d)'
  <2>1. ASSUME pc[d] = "read", known'[d]
        PROVE  \E k \in Nat : /\ 0 < k /\ 2 * k <= settled
                             /\ list'[2 * k] = [field |-> "blue", of |-> Head(todo[d]).blue]
    <3>1. PICK k \in Nat : /\ 2 * k <= settled /\ offset[d] < 2 * k
                           /\ list[2 * k] = [field |-> "blue", of |-> Head(todo[d]).blue]
      BY <1>1, <1>3, <2>1 DEF Ahead
    <3>2. 0 < k /\ 2 * k \in 1..settled
      BY <1>0, <3>1
    <3>3. QED
      BY <1>3, <3>1, <3>2
  <2> HIDE DEF Good
  <2>2. QED
    BY <1>2, <1>3, <2>1
<1>4. ASSUME Same, Forgets PROVE Good(d)'
  <2>1. known'[d] => known[d]
    BY <1>4 DEF Forgets
  <2>2. ASSUME pc[d] = "read", known'[d]
        PROVE  \E k \in Nat : /\ 0 < k /\ 2 * k <= settled
                             /\ list'[2 * k] = [field |-> "blue", of |-> Head(todo[d]).blue]
    <3>1. Holds(SubSeq(list', 1, settled), Head(todo[d]).blue)
      BY <1>4, <2>2 DEF Forgets
    <3>2. list' \in Seq(Units) /\ settled \in 0..Len(list')
      <4>1. Len(list') >= settled /\ list' \in Seq(Units) /\ Len(list') \in Nat
        BY RegistryTypeKept, SettledStaysAsItIs DEF RegistryTypeOK
      <4>2. QED
        BY <1>0, <4>1
    <3>3. QED
      BY <3>1, <3>2, HeldBy
  <2> HIDE DEF Good
  <2>3. QED
    BY <1>2, <1>4, <2>1, <2>2
<1>5. CASE UNCHANGED registryVars
  <2> HIDE DEF Good
  <2>1. QED
    BY <1>3, <1>5 DEF registryVars
<1>6. CASE pc'[d] \in {"write", "seek", "off", "serve", "idle"}
  BY <1>6
<1>7. ASSUME NEW n \in Nodes, Open(d, n) PROVE Good(d)'
  <2>1. CASE fds[d] < MaxFds
    <3>1. /\ pc'[d] = "read" /\ offset'[d] = 0
          /\ todo'[d] = <<[ipv6 |-> "blank", blue |-> n]>>
          /\ known'[d] = Holds(SubSeq(list, 1, settled), n)
          /\ list' = list /\ settled' = settled
      BY <1>0, <1>7, <2>1 DEF Open, To
    <3>2. Head(todo'[d]).blue = n
      BY <3>1
    <3>3. ASSUME Holds(SubSeq(list, 1, settled), n)
          PROVE  \E k \in Nat : /\ 2 * k <= settled /\ 0 < 2 * k
                               /\ list[2 * k] = [field |-> "blue", of |-> n]
      BY <1>0, <3>3, HeldBy
    <3>4. known'[d] => /\ Ahead(Head(todo[d]).blue, offset[d])'
                       /\ NoneBehind(Head(todo[d]).blue, offset[d])'
      BY <3>1, <3>2, <3>3 DEF Ahead, NoneBehind
    <3>5. 0 = 2 * 0
      OBVIOUS
    <3>6. QED
      BY <3>1, <3>4, <3>5
  <2>2. CASE ~(fds[d] < MaxFds)
    <3>1. pc'[d] = "failed"
      BY <1>0, <1>7, <2>2 DEF Open, To
    <3>2. QED
      BY <3>1
  <2>3. QED
    BY <2>1, <2>2
<1>8. CASE ReadFound(d)
  <2>1. pc'[d] = "found"
    BY <1>0, <1>8 DEF ReadFound, To
  <2>2. QED
    BY <2>1
<1>9. CASE ReadOther(d)
  <2>1. /\ pc[d] = "read" /\ pc'[d] = "read" /\ offset'[d] = offset[d] + 2
        /\ todo'[d] = todo[d] /\ known' = known /\ list' = list /\ settled' = settled
        /\ list[offset[d] + 2] # [field |-> "blue", of |-> Head(todo[d]).blue]
    BY <1>0, <1>9 DEF ReadOther, To
  <2>2. PICK m \in Nat : offset[d] = 2 * m
    BY <1>1, <2>1
  <2>3. offset'[d] = 2 * (m + 1) /\ m + 1 \in Nat
    BY <2>1, <2>2
  <2>4. ASSUME known'[d] PROVE Ahead(Head(todo[d]).blue, offset[d])'
    <3>1. PICK k \in Nat : /\ 2 * k <= settled /\ offset[d] < 2 * k
                           /\ list[2 * k] = [field |-> "blue", of |-> Head(todo[d]).blue]
      BY <1>1, <2>1, <2>4 DEF Ahead
    <3>2. 2 * k # offset[d] + 2
      BY <2>1, <3>1
    <3>3. m < k
      BY <2>2, <3>1
    <3>4. k # m + 1
      BY <2>2, <3>2
    <3>5. 2 * (m + 1) < 2 * k
      BY <3>3, <3>4
    <3>6. QED
      BY <2>1, <2>3, <3>1, <3>5 DEF Ahead
  <2>5. ASSUME known'[d] PROVE NoneBehind(Head(todo[d]).blue, offset[d])'
    <3>1. NoneBehind(Head(todo[d]).blue, offset[d])
      BY <1>1, <2>1, <2>5
    <3>2. ASSUME NEW k \in Nat, 0 < k, 2 * k <= offset[d] + 2
          PROVE  list[2 * k] # [field |-> "blue", of |-> Head(todo[d]).blue]
      <4>1. k <= m \/ k = m + 1
        BY <2>2, <3>2
      <4>2. CASE k <= m
        BY <2>2, <3>1, <3>2, <4>2 DEF NoneBehind
      <4>3. CASE k = m + 1
        <5>1. 2 * k = offset[d] + 2
          BY <2>2, <4>3
        <5>2. QED
          BY <2>1, <5>1
      <4>4. QED
        BY <4>1, <4>2, <4>3
    <3>3. QED
      BY <2>1, <3>2 DEF NoneBehind
  <2>6. QED
    BY <2>1, <2>3, <2>4, <2>5
<1>10. CASE ReadEnd(d)
  <2>1. pc[d] = "read" /\ offset[d] + 2 > Len(list) /\ pc'[d] = "absent" /\ known' = known
    BY <1>0, <1>10 DEF ReadEnd, To
  <2>2. PICK m \in Nat : offset[d] = 2 * m
    BY <1>1, <2>1
  <2>3. ~known[d]
    <3>1. SUFFICES ASSUME known[d] PROVE FALSE
      OBVIOUS
    <3>2. PICK k \in Nat : 2 * k <= settled /\ offset[d] < 2 * k
      BY <1>1, <2>1, <3>1 DEF Ahead
    <3>3. m + 1 <= k
      BY <2>2, <3>2
    <3>4. offset[d] + 2 <= settled
      BY <1>0, <2>2, <3>2, <3>3
    <3>5. QED
      BY <1>0, <2>1, <3>4
  <2>4. QED
    BY <2>1, <2>3
<1>11. CASE Befriend(d)
  <2>1. pc'[d] = "seek"
    BY <1>0, <1>11 DEF Befriend, To
  <2>2. QED
    BY <2>1
<1>12. CASE Answer(d)
  <2>1. pc'[d] = "off"
    BY <1>0, <1>12 DEF Answer, To
  <2>2. QED
    BY <2>1
<1>13. CASE RegistryNext /\ Same
            /\ \/ known'[d] = known[d] /\ (list' = list \/ \E p \in Programs : Write(p))
               \/ Forgets
  <2>1. (\E p \in Programs : Write(p)) => \A i \in 1..settled : list'[i] = list[i]
    BY <1>13, WriteKeepsSettled
  <2> HIDE DEF Good, Same
  <2>2. QED
    BY <1>3, <1>4, <1>13, <2>1
<1> HIDE DEF Good
<1>14. QED
  BY <1>5, <1>6, <1>7, <1>8, <1>9, <1>10, <1>11, <1>12, <1>13, OthersStay DEF Lookup

\* check_node_list_blue (msgprocess.c:123-223) does not answer that a node is
\* absent whose record was settled when it opened the file, whatever is
\* appended, cut or overwritten while it reads, as long as a child has not
\* printed over all of the node's settled records.
THEOREM LookupFindsSettled == RegistrySpec => []NotFoundMeansAbsent
<1> DEFINE Inv == RegistryTypeOK /\ WritersBehind /\ LookupInv
<1>1. RegistryInit => Inv
  <2>1. ASSUME RegistryInit PROVE WritersBehind /\ LookupInv
    <3>1. \A p \in Programs : pc[p] = "off"
      BY <2>1 DEF RegistryInit
    <3>2. \A d \in Devices : pc[d] = "off"
      BY <3>1 DEF Programs
    <3>3. QED
      BY <3>1, <3>2 DEF WritersBehind, LookupInv
  <2>2. QED
    BY <2>1, RegistryInitTyped
<1>2. Inv /\ [RegistryNext]_registryVars => Inv'
  BY RegistryTypeKept, WritersBehindKept, LookupInvKept
<1>3. Inv => NotFoundMeansAbsent
  BY DEF LookupInv, NotFoundMeansAbsent
<1>4. QED
  BY <1>1, <1>2, <1>3, PTL DEF RegistrySpec

-----------------------------------------------------------------------------
(* A node that is found is found with its own address.                      *)

\* An address that may stand before the Bluetooth address of node n.
Fits(a, n) == a \in {n, "blank", "garbled"}

\* Halves that stand together belong to one node, in the file and in the records
\* that are to be written.
HalvesMatch ==
  \A i \in 1..Len(list) :
    i < Len(list) /\ list[i].field = "ipv6" /\ list[i + 1].field = "blue" =>
      Fits(list[i].of, list[i + 1].of)

RecordsMatch ==
  \A p \in Programs :
    pc[p] \in {"seek", "write"} =>
      \A i \in 1..Len(todo[p]) : Fits(todo[p][i].ipv6, todo[p][i].blue)

OwnInv == HalvesMatch /\ RecordsMatch /\ FoundIsOwn

LEMMA HalvesMatchKept ==
  ASSUME RegistryTypeOK, OwnInv, RegistryNext
  PROVE  HalvesMatch'
<1>1. list \in Seq(Units) /\ Len(list) \in Nat
  BY TypeParts
<1>2. CASE list' = list
  BY <1>2 DEF OwnInv, HalvesMatch, Fits
<1>3. ASSUME NEW p \in Programs, Write(p), list' # list PROVE HalvesMatch'
  <2> DEFINE r == Head(todo[p])
             off == offset[p]
  <2>1. r \in Record /\ off \in 0..Len(list) /\ off \in Nat
    <3>1. r \in Record /\ off \in 0..Len(list)
      BY <1>3, WriteParts
    <3> HIDE DEF r, off
    <3>2. QED
      BY <1>1, <3>1
  <2>2. Fits(r.ipv6, r.blue)
    <3>1. todo[p] \in Seq(Record) /\ todo[p] # <<>> /\ pc[p] = "write"
      BY <1>3, TypeParts DEF Write, Busy
    <3>2. 1 \in 1..Len(todo[p]) /\ r = todo[p][1]
      BY <3>1
    <3>3. QED
      BY <3>1, <3>2 DEF OwnInv, RecordsMatch
  <2>3. CASE list' = Put(list, off, Layout(r))
    <3>1. /\ Layout(r) \in Seq(Units) /\ Len(Layout(r)) = 2
          /\ Layout(r)[1] = [field |-> "ipv6", of |-> r.ipv6]
          /\ Layout(r)[2] = [field |-> "blue", of |-> r.blue]
      BY <2>1, LayoutFacts
    <3> HIDE DEF r, off
    <3>2. /\ Len(list') = IF off + 2 > Len(list) THEN off + 2 ELSE Len(list)
          /\ \A i \in 1..Len(list') :
               list'[i] = IF i \in (off + 1)..(off + 2) THEN Layout(r)[i - off] ELSE list[i]
      <4> DEFINE new == Layout(r)
      <4>1. new \in Seq(Units) /\ Len(new) = 2 /\ list' = Put(list, off, new)
        BY <2>3, <3>1
      <4> HIDE DEF new
      <4>2. /\ Len(Put(list, off, new)) = IF off + Len(new) > Len(list)
                                          THEN off + Len(new) ELSE Len(list)
            /\ \A i \in 1..Len(Put(list, off, new)) :
                 Put(list, off, new)[i] = IF i \in (off + 1)..(off + Len(new))
                                          THEN new[i - off] ELSE list[i]
        BY <1>1, <2>1, <4>1, PutFacts, ZenonT(60)
      <4>3. QED
        BY <4>1, <4>2 DEF new
    <3>3. /\ list'[off + 1] = [field |-> "ipv6", of |-> r.ipv6]
          /\ list'[off + 2] = [field |-> "blue", of |-> r.blue]
      BY <1>1, <2>1, <3>1, <3>2
    <3>4. ASSUME NEW i \in 1..Len(list'), i < Len(list'),
                 list'[i].field = "ipv6", list'[i + 1].field = "blue"
          PROVE  Fits(list'[i].of, list'[i + 1].of)
      <4>1. CASE i = off
        BY <3>3, <3>4, <4>1
      <4>2. CASE i = off + 1
        <5>1. i + 1 = off + 2
          BY <2>1, <4>2
        <5>2. QED
          BY <2>2, <3>3, <4>2, <5>1
      <4>3. CASE i = off + 2
        BY <3>3, <3>4, <4>3
      <4>4. CASE i \notin {off, off + 1, off + 2}
        <5>1. /\ i \notin (off + 1)..(off + 2) /\ i + 1 \notin (off + 1)..(off + 2)
              /\ i + 1 \in 1..Len(list') /\ i \in 1..Len(list) /\ i < Len(list)
          BY <1>1, <2>1, <3>2, <3>4, <4>4
        <5>2. list'[i] = list[i] /\ list'[i + 1] = list[i + 1]
          BY <3>2, <3>4, <5>1
        <5>3. QED
          BY <3>4, <5>1, <5>2 DEF OwnInv, HalvesMatch
      <4>5. QED
        BY <4>1, <4>2, <4>3, <4>4
    <3>5. QED
      BY <3>4 DEF HalvesMatch, Fits
  <2>4. CASE off + 2 > Len(list) /\ list' = Put(list, off, << Layout(r)[1] >>)
    <3>1. /\ << Layout(r)[1] >> \in Seq(Units) /\ Len(<< Layout(r)[1] >>) = 1
          /\ << Layout(r)[1] >>[1] = [field |-> "ipv6", of |-> r.ipv6]
      BY <2>1, LayoutFacts
    <3> DEFINE half == << Layout(r)[1] >>
    <3> HIDE DEF r, off, half
    <3>2. /\ Len(list') = off + 1
          /\ \A i \in 1..Len(list') :
               list'[i] = IF i \in (off + 1)..(off + 1) THEN half[i - off] ELSE list[i]
      <4>1. half \in Seq(Units) /\ Len(half) = 1 /\ list' = Put(list, off, half)
        BY <2>4, <3>1 DEF half
      <4>2. /\ Len(Put(list, off, half)) = IF off + Len(half) > Len(list)
                                           THEN off + Len(half) ELSE Len(list)
            /\ \A i \in 1..Len(Put(list, off, half)) :
                 Put(list, off, half)[i] = IF i \in (off + 1)..(off + Len(half))
                                           THEN half[i - off] ELSE list[i]
        BY <1>1, <2>1, <4>1, PutFacts
      <4>3. off + 2 > Len(list) /\ off <= Len(list)
        BY <1>1, <2>1, <2>4
      <4>4. Len(list') = off + 1
        BY <1>1, <2>1, <4>1, <4>2, <4>3
      <4>5. QED
        BY <4>1, <4>2, <4>4
    <3>3. list'[off + 1].field = "ipv6"
      <4>1. list'[off + 1] = half[1] /\ half[1] = [field |-> "ipv6", of |-> r.ipv6]
        BY <1>1, <2>1, <3>1, <3>2 DEF half
      <4>2. QED
        BY <4>1
    <3>4. ASSUME NEW i \in 1..Len(list'), i < Len(list'),
                 list'[i].field = "ipv6", list'[i + 1].field = "blue"
          PROVE  Fits(list'[i].of, list'[i + 1].of)
      <4>1. CASE i = off
        BY <3>3, <3>4, <4>1
      <4>2. CASE i # off
        <5>1. /\ i \notin (off + 1)..(off + 1) /\ i + 1 \notin (off + 1)..(off + 1)
              /\ i + 1 \in 1..Len(list') /\ i \in 1..Len(list) /\ i < Len(list)
          BY <1>1, <2>1, <3>2, <3>4, <4>2
        <5>2. list'[i] = list[i] /\ list'[i + 1] = list[i + 1]
          BY <3>2, <3>4, <5>1
        <5>3. QED
          BY <3>4, <5>1, <5>2 DEF OwnInv, HalvesMatch
      <4>3. QED
        BY <4>1, <4>2
    <3>5. QED
      BY <3>4 DEF HalvesMatch, Fits
  <2>5. QED
    BY <1>3, <2>3, <2>4, WriteParts
<1>4. ASSUME NEW k \in Children, PrintRecord(k) \/ PrintEnd(k), list' # list PROVE HalvesMatch'
  <2>1. offset[k] \in 0..Len(list) /\ offset[k] >= 2
    <3>1. offset[k] \in 2..Len(list)
      BY <1>4, PrintParts
    <3>2. QED
      BY <1>1, <3>1
  <2>2. PICK length \in 1..3 : list' = Put(list, offset[k], Line(length))
    BY <1>4, PrintParts
  <2>3. /\ Line(length) \in Seq(Units) /\ Len(Line(length)) = length
        /\ \A j \in 1..length : Line(length)[j].field = "text"
    <3>1. length \in Nat
      OBVIOUS
    <3>2. QED
      BY <3>1, LineFacts
  <2>4. /\ Len(list') = IF offset[k] + length > Len(list) THEN offset[k] + length ELSE Len(list)
        /\ \A j \in 1..Len(list') :
              list'[j] = IF j \in (offset[k] + 1)..(offset[k] + length)
                         THEN Line(length)[j - offset[k]] ELSE list[j]
    <3> DEFINE new == Put(list, offset[k], Line(length))
    <3>1. /\ Len(new) = IF offset[k] + length > Len(list) THEN offset[k] + length
                                                         ELSE Len(list)
          /\ \A j \in 1..Len(new) :
                new[j] = IF j \in (offset[k] + 1)..(offset[k] + length)
                         THEN Line(length)[j - offset[k]] ELSE list[j]
      BY <1>1, <2>1, PrintFacts, ZenonT(60)
    <3>2. list' = new
      BY <2>2
    <3> HIDE DEF new
    <3>3. QED
      BY <3>1, <3>2
  <2>5. ASSUME NEW j \in 1..Len(list'), list'[j].field # "text"
        PROVE  j \in 1..Len(list) /\ list'[j] = list[j]
    <3>1. CASE j \in (offset[k] + 1)..(offset[k] + length)
      <4>1. j - offset[k] \in 1..length
        BY <2>1, <3>1
      <4>2. QED
        BY <2>3, <2>4, <2>5, <3>1, <4>1
    <3>2. CASE j \notin (offset[k] + 1)..(offset[k] + length)
      BY <1>1, <2>1, <2>4, <3>2
    <3>3. QED
      BY <3>1, <3>2
  <2>6. ASSUME NEW i \in 1..Len(list'), i < Len(list'),
               list'[i].field = "ipv6", list'[i + 1].field = "blue"
        PROVE  Fits(list'[i].of, list'[i + 1].of)
    <3>1. i + 1 \in 1..Len(list')
      BY <1>1, <2>1, <2>4, <2>6
    <3>2. /\ i \in 1..Len(list) /\ i + 1 \in 1..Len(list)
          /\ list'[i] = list[i] /\ list'[i + 1] = list[i + 1]
      BY <2>5, <2>6, <3>1
    <3>3. i < Len(list)
      BY <1>1, <3>2
    <3>4. QED
      BY <2>6, <3>2, <3>3 DEF OwnInv, HalvesMatch
  <2>7. QED
    BY <2>6 DEF HalvesMatch, Fits
<1>5. QED
  BY <1>2, <1>3, <1>4, ListSteps

LEMMA RecordsMatchKept ==
  ASSUME RegistryTypeOK, OwnInv, RegistryNext
  PROVE  RecordsMatch'
<1> USE TypeParts
<1> DEFINE Matching(s) == \A i \in 1..Len(s) : Fits(s[i].ipv6, s[i].blue)
<1>1. ASSUME NEW p \in Programs, NEW place, NEW off, NEW records,
             To(p, place, off, records),
             place \in {"seek", "write"} => Matching(records)
      PROVE  RecordsMatch'
  <2>1. ASSUME NEW q \in Programs, pc'[q] \in {"seek", "write"}
        PROVE  Matching(todo'[q])
    <3>1. CASE q = p
      <4>1. pc'[q] = place /\ todo'[q] = records
        BY <1>1, <3>1 DEF To
      <4> HIDE DEF Matching
      <4>2. QED
        BY <1>1, <2>1, <4>1
    <3>2. CASE q # p
      <4>1. pc'[q] = pc[q] /\ todo'[q] = todo[q]
        BY <1>1, <3>2 DEF To
      <4>2. Matching(todo[q])
        BY <2>1, <4>1 DEF OwnInv, RecordsMatch
      <4> HIDE DEF Matching
      <4>3. QED
        BY <4>1, <4>2
    <3>3. QED
      BY <3>1, <3>2
  <2>2. QED
    BY <2>1 DEF RecordsMatch, Fits
<1>2. ASSUME NEW p \in Servers \cup Tools, Start(p) PROVE RecordsMatch'
  <2>1. /\ Matching(<<Own("42:6E"), Own("10:55")>>) /\ Matching(<<Own("42:6E")>>)
    BY DEF Own, Fits
  <2>2. End(p, FALSE) \in {"serve", "off", "idle"} /\ p \in Programs
    BY DEF End
  <2> HIDE DEF Matching
  <2>3. CASE To(p, "seek", 0, IF p \in Servers THEN <<Own("42:6E"), Own("10:55")>>
                                             ELSE <<Own("42:6E")>>)
    <3>1. Matching(IF p \in Servers THEN <<Own("42:6E"), Own("10:55")>>
                                    ELSE <<Own("42:6E")>>)
      BY <2>1
    <3>2. QED
      BY <1>1, <2>2, <2>3, <3>1
  <2>4. CASE To(p, End(p, FALSE), 0, <<>>)
    BY <1>1, <2>2, <2>4
  <2>5. QED
    BY <1>2, <2>3, <2>4 DEF Start
<1>3. ASSUME NEW p \in Programs, Seek(p) PROVE RecordsMatch'
  <2>1. Matching(todo[p])
    BY <1>3 DEF Seek, OwnInv, RecordsMatch
  <2> HIDE DEF Matching
  <2>2. QED
    BY <1>1, <1>3, <2>1 DEF Seek
<1>4. ASSUME NEW p \in Programs, Write(p) PROVE RecordsMatch'
  <2>1. /\ todo[p] \in Seq(Record) /\ todo[p] # <<>>
        /\ Matching(todo[p])
    BY <1>4 DEF Write, OwnInv, RecordsMatch, Busy
  <2>2. Matching(Tail(todo[p]))
    <3>1. \A i \in 1..Len(Tail(todo[p])) :
            Tail(todo[p])[i] = todo[p][i + 1] /\ i + 1 \in 1..Len(todo[p])
      BY <2>1
    <3>2. QED
      BY <2>1, <3>1
  <2> HIDE DEF Matching
  <2>3. QED
    BY <1>1, <1>4, <2>2 DEF Write, Written
<1>5. ASSUME NEW p \in Servers \cup Children, Crash(p) PROVE RecordsMatch'
  <2>1. p \in Programs
    OBVIOUS
  <2> HIDE DEF Matching
  <2>2. QED
    BY <1>1, <1>5, <2>1 DEF Crash
<1>6. ASSUME NEW d \in Devices, (\E n \in Nodes : Open(d, n)) \/ Lookup(d) \/ Answer(d)
      PROVE  RecordsMatch'
  <2>1. d \in Programs
    OBVIOUS
  <2> HIDE DEF Matching
  <2>2. QED
    BY <1>1, <1>6, <2>1 DEF Open, Lookup, ReadFound, ReadOther, ReadEnd, Answer
<1>7. ASSUME NEW d \in Devices, Befriend(d) PROVE RecordsMatch'
  <2>1. d \in Programs
    OBVIOUS
  <2>2. PICK a \in {Head(todo[d]).blue, "blank"} :
          To(d, "seek", 0, <<[ipv6 |-> a, blue |-> Head(todo[d]).blue]>>)
    BY <1>7 DEF Befriend
  <2>3. Matching(<<[ipv6 |-> a, blue |-> Head(todo[d]).blue]>>)
    BY <2>2 DEF Fits
  <2> HIDE DEF Matching
  <2>4. QED
    BY <1>1, <2>1, <2>2, <2>3
<1>8. ASSUME NEW k \in Children, Child(k) PROVE RecordsMatch'
  <2>1. k \in Programs
    OBVIOUS
  <2>2. CASE JoinEmpty(k)
    <3>1. PICK n \in Peers : \E b \in {n, "garbled"} :
            To(k, "seek", 0, <<[ipv6 |-> b, blue |-> n]>>)
      BY <2>2 DEF JoinEmpty
    <3>2. PICK a \in {n, "garbled"} : To(k, "seek", 0, <<[ipv6 |-> a, blue |-> n]>>)
      BY <3>1
    <3>3. Matching(<<[ipv6 |-> a, blue |-> n]>>)
      BY <3>2 DEF Fits
    <3> HIDE DEF Matching
    <3>4. QED
      BY <1>1, <2>1, <3>2, <3>3
  <2> HIDE DEF Matching
  <2>3. QED
    BY <1>1, <1>8, <2>1, <2>2
       DEF Child, Fork, JoinStdout, Reopen, Scan, ScanEnd, PrintRecord, PrintEnd
<1>9. QED
  BY <1>2, <1>3, <1>4, <1>5, <1>6, <1>7, <1>8 DEF RegistryNext

LEMMA FoundIsOwnKept ==
  ASSUME RegistryTypeOK, OwnInv, RegistryNext
  PROVE  FoundIsOwn'
<1> SUFFICES ASSUME NEW d \in Devices, pc'[d] = "found"
             PROVE  Fits(Head(todo'[d]).ipv6, Head(todo'[d]).blue)
  BY DEF FoundIsOwn, Fits
<1>0. /\ d \in Programs /\ pc \in [Programs -> Places] /\ offset \in [Programs -> 0..MaxUnits]
      /\ todo \in [Programs -> Seq(Record)] /\ MaxUnits \in Nat
      /\ list \in Seq(Units) /\ Len(list) \in Nat
  BY TypeParts
<1>1. CASE pc'[d] = pc[d] /\ todo'[d] = todo[d]
  BY <1>1 DEF OwnInv, FoundIsOwn, Fits
<1>2. CASE ReadFound(d)
  <2> DEFINE n == Head(todo[d]).blue
             unit == list[offset[d] + 1]
  <2>1. todo'[d] = <<[ipv6 |-> Address(unit), blue |-> n]>>
    BY <1>0, <1>2 DEF ReadFound, To
  <2>2. /\ offset[d] + 1 \in 1..Len(list) /\ offset[d] + 1 < Len(list)
        /\ list[(offset[d] + 1) + 1] = [field |-> "blue", of |-> n]
    BY <1>0, <1>2 DEF ReadFound
  <2>3. CASE unit.field = "ipv6"
    <3>1. Fits(unit.of, n)
      BY <2>2, <2>3 DEF OwnInv, HalvesMatch
    <3>2. QED
      BY <2>1, <2>3, <3>1 DEF Address
  <2>4. CASE unit.field # "ipv6"
    BY <2>1, <2>4 DEF Address, Fits
  <2>5. QED
    BY <2>3, <2>4
<1>3. ASSUME (\E n \in Nodes : Open(d, n)) \/ ReadOther(d) \/ ReadEnd(d)
             \/ Befriend(d) \/ Answer(d)
      PROVE  FALSE
  BY <1>0, <1>3 DEF Open, ReadOther, ReadEnd, Befriend, Answer, To
<1>4. QED
  BY <1>1, <1>2, <1>3, OthersStay DEF Lookup

\* A lookup never answers with the address of another node (strncpy at
\* msgprocess.c:185), however writes of any number of programs overtake and cut
\* each other: an overwritten record is overwritten by both halves of another.
THEOREM FoundAddressIsOwn == RegistrySpec => []FoundIsOwn
<1> DEFINE Inv == RegistryTypeOK /\ OwnInv
<1>1. RegistryInit => Inv
  <2>1. ASSUME RegistryInit PROVE OwnInv
    <3>1. (\A p \in Programs : pc[p] = "off") /\ list = <<>>
      BY <2>1 DEF RegistryInit
    <3>2. \A d \in Devices : pc[d] = "off"
      BY <3>1 DEF Programs
    <3>3. HalvesMatch
      BY <3>1 DEF HalvesMatch
    <3>4. QED
      BY <3>1, <3>2, <3>3 DEF OwnInv, RecordsMatch, FoundIsOwn
  <2>2. QED
    BY <2>1, RegistryInitTyped
<1>2. Inv /\ [RegistryNext]_registryVars => Inv'
  <2>1. ASSUME Inv, RegistryNext PROVE Inv'
    BY <2>1, RegistryTypeKept, HalvesMatchKept, RecordsMatchKept, FoundIsOwnKept DEF OwnInv
  <2>2. ASSUME Inv, UNCHANGED registryVars PROVE Inv'
    BY <2>2, RegistryTypeKept DEF registryVars, OwnInv, HalvesMatch, RecordsMatch, FoundIsOwn,
                                Fits
  <2>3. QED
    BY <2>1, <2>2
<1>3. Inv => FoundIsOwn
  BY DEF OwnInv
<1>4. QED
  BY <1>1, <1>2, <1>3, PTL DEF RegistrySpec
=============================================================================
