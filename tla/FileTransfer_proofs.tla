------------------------ MODULE FileTransfer_proofs -------------------------
(***************************************************************************)
(* Proofs about the transfer of a file of any length, cut into reads in    *)
(* any way, over a file of any length that was there before.               *)
(***************************************************************************)
EXTENDS FileTransfer, SequenceTheorems, TLAPS

-----------------------------------------------------------------------------
(* Sequences.                                                               *)

\* A part of a sequence within its bounds.
LEMMA PartFacts ==
  ASSUME NEW S, NEW s \in Seq(S), NEW m \in Nat \ {0}, NEW n \in 0..Len(s)
  PROVE  /\ SubSeq(s, m, n) \in Seq(S)
         /\ Len(SubSeq(s, m, n)) = IF m <= n THEN n - m + 1 ELSE 0
         /\ \A i \in 1..(n - m + 1) : SubSeq(s, m, n)[i] = s[m + i - 1]
<1>1. \A i \in m..n : s[i] \in S
  <2> TAKE i \in m..n
  <2>1. i \in 1..Len(s)
    OBVIOUS
  <2> QED
    BY <2>1, ElementOfSeq
<1>2. m \in Int /\ n \in Int
  OBVIOUS
<1> QED
  BY <1>1, <1>2, SubSeqProperties

\* The beginning of f with the rest of o behind it: what a file holds while f
\* is written over o.
Mixed(f, o, w) == SubSeq(f, 1, w) \o SubSeq(o, w + 1, Len(o))

LEMMA MixedFacts ==
  ASSUME NEW S, NEW f \in Seq(S), NEW o \in Seq(S), NEW w \in 0..Len(f)
  PROVE  /\ Mixed(f, o, w) \in Seq(S)
         /\ Len(Mixed(f, o, w)) = IF w < Len(o) THEN Len(o) ELSE w
         /\ \A i \in 1..Len(Mixed(f, o, w)) :
              Mixed(f, o, w)[i] = IF i <= w THEN f[i] ELSE o[i]
<1> DEFINE a == SubSeq(f, 1, w)
           b == SubSeq(o, w + 1, Len(o))
<1>1. w \in Nat /\ Len(o) \in Nat /\ w + 1 \in Nat \ {0} /\ Len(o) \in 0..Len(o)
  OBVIOUS
<1>2. a \in Seq(S) /\ Len(a) = w /\ \A i \in 1..w : a[i] = f[i]
  <2>1. /\ a \in Seq(S) /\ Len(a) = IF 1 <= w THEN w - 1 + 1 ELSE 0
        /\ \A i \in 1..(w - 1 + 1) : a[i] = f[1 + i - 1]
    BY PartFacts
  <2> HIDE DEF a
  <2> QED
    BY <1>1, <2>1
<1>3. /\ b \in Seq(S) /\ Len(b) = IF w + 1 <= Len(o) THEN Len(o) - w ELSE 0
      /\ \A i \in 1..(Len(o) - w) : b[i] = o[w + i]
  <2>1. /\ b \in Seq(S) /\ Len(b) = IF w + 1 <= Len(o) THEN Len(o) - (w + 1) + 1 ELSE 0
        /\ \A i \in 1..(Len(o) - (w + 1) + 1) : b[i] = o[(w + 1) + i - 1]
    BY <1>1, PartFacts
  <2> HIDE DEF b
  <2> QED
    BY <1>1, <2>1
<1> HIDE DEF a, b
<1>4. /\ a \o b \in Seq(S) /\ Len(a \o b) = Len(a) + Len(b)
      /\ \A i \in 1..(Len(a) + Len(b)) : (a \o b)[i] = IF i <= Len(a) THEN a[i] ELSE b[i - Len(a)]
  BY <1>2, <1>3, ConcatProperties
<1>5. Mixed(f, o, w) = a \o b
  BY DEF Mixed, a, b
<1>6. ASSUME NEW i \in 1..Len(a \o b)
      PROVE  (a \o b)[i] = IF i <= w THEN f[i] ELSE o[i]
  <2>1. CASE i <= w
    BY <1>1, <1>2, <1>3, <1>4, <2>1
  <2>2. CASE i > w
    <3>1. i - w \in 1..(Len(o) - w) /\ w + (i - w) = i
      BY <1>1, <1>2, <1>3, <1>4, <2>2
    <3>2. (a \o b)[i] = b[i - w]
      BY <1>1, <1>2, <1>3, <1>4, <2>2
    <3> QED
      BY <1>1, <1>3, <2>2, <3>1, <3>2
  <2> QED
    BY <1>1, <2>1, <2>2
<1> QED
  BY <1>1, <1>2, <1>3, <1>4, <1>5, <1>6

\* A write within a file or at its end puts its units there and keeps the rest.
LEMMA OverwriteFacts ==
  ASSUME NEW S, NEW bytes \in Seq(S), NEW off \in 0..Len(bytes), NEW units \in Seq(S)
  PROVE  /\ Overwrite(bytes, off, units) \in Seq(S)
         /\ Len(Overwrite(bytes, off, units)) =
              IF off + Len(units) < Len(bytes) THEN Len(bytes) ELSE off + Len(units)
         /\ \A i \in 1..Len(Overwrite(bytes, off, units)) :
              Overwrite(bytes, off, units)[i] =
                IF i \in (off + 1)..(off + Len(units)) THEN units[i - off] ELSE bytes[i]
<1> DEFINE a == SubSeq(bytes, 1, off)
           c == SubSeq(bytes, off + Len(units) + 1, Len(bytes))
           after == off + Len(units)
<1>1. /\ off \in Nat /\ Len(units) \in Nat /\ after \in Nat /\ Len(bytes) \in Nat
      /\ after + 1 \in Nat \ {0} /\ Len(bytes) \in 0..Len(bytes)
  OBVIOUS
<1>2. a \in Seq(S) /\ Len(a) = off /\ \A i \in 1..off : a[i] = bytes[i]
  <2>1. /\ a \in Seq(S) /\ Len(a) = IF 1 <= off THEN off - 1 + 1 ELSE 0
        /\ \A i \in 1..(off - 1 + 1) : a[i] = bytes[1 + i - 1]
    BY PartFacts
  <2> HIDE DEF a
  <2> QED
    BY <1>1, <2>1
<1>3. /\ c \in Seq(S) /\ Len(c) = IF after < Len(bytes) THEN Len(bytes) - after ELSE 0
      /\ \A i \in 1..(Len(bytes) - after) : c[i] = bytes[after + i]
  <2>1. /\ c \in Seq(S)
        /\ Len(c) = IF after + 1 <= Len(bytes) THEN Len(bytes) - (after + 1) + 1 ELSE 0
        /\ \A i \in 1..(Len(bytes) - (after + 1) + 1) : c[i] = bytes[(after + 1) + i - 1]
    BY <1>1, PartFacts
  <2> HIDE DEF c, after
  <2> QED
    BY <1>1, <2>1
<1> HIDE DEF a, c
<1>4. /\ a \o units \in Seq(S) /\ Len(a \o units) = after
      /\ \A i \in 1..after : (a \o units)[i] = IF i <= off THEN a[i] ELSE units[i - off]
  <2>1. /\ a \o units \in Seq(S) /\ Len(a \o units) = Len(a) + Len(units)
        /\ \A i \in 1..(Len(a) + Len(units)) :
             (a \o units)[i] = IF i <= Len(a) THEN a[i] ELSE units[i - Len(a)]
    BY <1>2, ConcatProperties
  <2> QED
    BY <1>2, <2>1
<1> DEFINE ab == a \o units
<1> HIDE DEF ab
<1>5. /\ ab \o c \in Seq(S) /\ Len(ab \o c) = after + Len(c)
      /\ \A i \in 1..(after + Len(c)) : (ab \o c)[i] = IF i <= after THEN ab[i] ELSE c[i - after]
  <2>1. ab \in Seq(S) /\ Len(ab) = after
    BY <1>4 DEF ab
  <2>2. /\ ab \o c \in Seq(S) /\ Len(ab \o c) = Len(ab) + Len(c)
        /\ \A i \in 1..(Len(ab) + Len(c)) :
             (ab \o c)[i] = IF i <= Len(ab) THEN ab[i] ELSE c[i - Len(ab)]
    <3>1. c \in Seq(S)
      BY <1>3
    <3> QED
      BY <2>1, <3>1, ConcatProperties, ZenonT(60)
  <2> QED
    BY <2>1, <2>2
<1>6. Overwrite(bytes, off, units) = ab \o c
  BY DEF Overwrite, ab, a, c
<1>7. \A i \in 1..after : ab[i] = IF i <= off THEN bytes[i] ELSE units[i - off]
  BY <1>1, <1>2, <1>4 DEF ab
<1>8. after = off + Len(units)
  OBVIOUS
<1> HIDE DEF after
<1>9. ASSUME NEW i \in 1..Len(ab \o c)
      PROVE  (ab \o c)[i] = IF i \in (off + 1)..after THEN units[i - off] ELSE bytes[i]
  <2>1. i \in 1..(after + Len(c)) /\ i \in Nat /\ Len(c) \in Nat
    BY <1>1, <1>3, <1>5
  <2>2. (ab \o c)[i] = IF i <= after THEN ab[i] ELSE c[i - after]
    BY <1>5, <2>1
  <2>3. CASE i <= after
    <3>1. i \in 1..after
      BY <1>1, <2>1, <2>3
    <3>2. (ab \o c)[i] = IF i <= off THEN bytes[i] ELSE units[i - off]
      BY <1>7, <2>2, <2>3, <3>1
    <3> QED
      BY <1>1, <2>3, <3>1, <3>2
  <2>4. CASE i > after
    <3>1. i - after \in 1..(Len(bytes) - after) /\ after + (i - after) = i
      BY <1>1, <1>3, <2>1, <2>4
    <3>2. (ab \o c)[i] = c[i - after]
      BY <1>1, <2>1, <2>2, <2>4
    <3>3. c[i - after] = bytes[i]
      BY <1>3, <3>1
    <3> QED
      BY <1>1, <2>1, <2>4, <3>2, <3>3
  <2> QED
    BY <1>1, <2>1, <2>3, <2>4
<1>10. Len(ab \o c) = IF after < Len(bytes) THEN Len(bytes) ELSE after
  BY <1>1, <1>3, <1>5
<1> QED
  BY <1>5, <1>6, <1>8, <1>9, <1>10

\* While a file is written over another, the next units of it make the
\* beginning longer.
LEMMA MixedGrows ==
  ASSUME NEW S, NEW f \in Seq(S), NEW o \in Seq(S), NEW w \in 0..Len(f),
         NEW units \in Seq(S), w + Len(units) <= Len(f),
         \A i \in 1..Len(units) : units[i] = f[w + i]
  PROVE  Overwrite(Mixed(f, o, w), w, units) = Mixed(f, o, w + Len(units))
<1> DEFINE d == Mixed(f, o, w)
           next == w + Len(units)
<1>1. w \in Nat /\ Len(o) \in Nat /\ Len(units) \in Nat /\ next \in 0..Len(f)
  OBVIOUS
<1>2. /\ d \in Seq(S) /\ Len(d) = IF w < Len(o) THEN Len(o) ELSE w
      /\ \A i \in 1..Len(d) : d[i] = IF i <= w THEN f[i] ELSE o[i]
  BY MixedFacts
<1>3. /\ Mixed(f, o, next) \in Seq(S)
      /\ Len(Mixed(f, o, next)) = IF next < Len(o) THEN Len(o) ELSE next
      /\ \A i \in 1..Len(Mixed(f, o, next)) :
           Mixed(f, o, next)[i] = IF i <= next THEN f[i] ELSE o[i]
  BY <1>1, MixedFacts
<1> HIDE DEF d
<1>4. w \in 0..Len(d)
  BY <1>1, <1>2
<1>5. /\ Overwrite(d, w, units) \in Seq(S)
      /\ Len(Overwrite(d, w, units)) = IF next < Len(d) THEN Len(d) ELSE next
      /\ \A i \in 1..Len(Overwrite(d, w, units)) :
           Overwrite(d, w, units)[i] =
             IF i \in (w + 1)..next THEN units[i - w] ELSE d[i]
  <2>1. d \in Seq(S)
    BY <1>2
  <2>2. /\ Overwrite(d, w, units) \in Seq(S)
        /\ Len(Overwrite(d, w, units)) =
             IF w + Len(units) < Len(d) THEN Len(d) ELSE w + Len(units)
        /\ \A i \in 1..Len(Overwrite(d, w, units)) :
             Overwrite(d, w, units)[i] =
               IF i \in (w + 1)..(w + Len(units)) THEN units[i - w] ELSE d[i]
    BY <1>4, <2>1, OverwriteFacts
  <2> QED
    BY <2>2
<1>6. \A i \in (w + 1)..next : units[i - w] = f[i]
  <2> TAKE i \in (w + 1)..next
  <2>1. i - w \in 1..Len(units) /\ w + (i - w) = i
    BY <1>1
  <2> QED
    BY <2>1
<1> HIDE DEF next
<1>7. Len(Overwrite(d, w, units)) = Len(Mixed(f, o, next)) /\ w <= next
  BY <1>1, <1>2, <1>3, <1>5 DEF next
<1>8. ASSUME NEW i \in 1..Len(Overwrite(d, w, units))
      PROVE  Overwrite(d, w, units)[i] = Mixed(f, o, next)[i]
  <2>1. CASE i <= w
    BY <1>1, <1>2, <1>3, <1>4, <1>5, <1>7, <2>1
  <2>2. CASE i \in (w + 1)..next
    BY <1>1, <1>3, <1>5, <1>6, <1>7, <2>2
  <2>3. CASE i > next
    BY <1>1, <1>2, <1>3, <1>4, <1>5, <1>7, <2>3
  <2> QED
    BY <1>1, <1>7, <2>1, <2>2, <2>3
<1>9. Overwrite(d, w, units) = Mixed(f, o, next)
  BY <1>3, <1>5, <1>7, <1>8, SeqEqual
<1> QED
  BY <1>9 DEF d, next

-----------------------------------------------------------------------------
(* Type correctness.                                                        *)

Waiting == {"idle", "select", "header", "open"}
Places == Waiting \cup {"body", "done", "failed"}

\* Nothing is written before the file is open, and what is written is in it.
OffsetInFile ==
  /\ device \in Waiting => wrote = 0
  /\ opened = "file" => wrote <= Len(disk)

TypeInv == FileTypeOK /\ OffsetInFile

\* The types, by variable, and what they say of the files.
LEMMA TypeParts ==
  ASSUME FileTypeOK
  PROVE  /\ file \in Seq(OnLink) /\ old \in Seq(OnLink) /\ disk \in Seq(OnLink)
         /\ down \in Seq(OnLink)
         /\ Len(file) \in Nat /\ Len(old) \in Nat /\ Len(disk) \in Nat /\ Len(down) \in Nat
         /\ wrote \in Nat /\ position \in Nat /\ position <= Len(file)
         /\ ReadSize \in Nat \ {0} /\ MaxStream \in Nat
         /\ up \in Seq(OnUp)
<1>1. Units \subseteq OnLink
  BY DEF OnLink
<1>2. file \in Seq(Units) /\ old \in Seq(Units)
  BY FileAssumption DEF FileTypeOK, FileAssumption
<1>3. file \in Seq(OnLink) /\ old \in Seq(OnLink)
  BY <1>1, <1>2, SeqMonotonic
<1>4. disk \in Seq(OnLink) /\ down \in Seq(OnLink) /\ up \in Seq(OnUp)
  BY DEF FileTypeOK
<1>5. wrote \in Nat /\ position \in 0..Len(file)
  BY DEF FileTypeOK
<1>6. ReadSize \in Nat \ {0} /\ MaxStream \in Nat
  BY FileAssumption DEF FileAssumption
<1>7. Len(file) \in Nat /\ Len(old) \in Nat /\ Len(disk) \in Nat /\ Len(down) \in Nat
  BY <1>3, <1>4
<1> QED
  BY <1>3, <1>4, <1>5, <1>6, <1>7

\* The header is four units.
LEMMA HeaderFacts ==
  /\ Header \in Seq(OnLink) /\ Len(Header) = 4
BY DEF Header, OnLink

\* The messages of the device are units of the link to the server.
LEMMA MessageFacts ==
  Request \in Seq(OnUp) /\ Header \in Seq(OnUp)
BY DEF Request, Header, OnUp

\* A message of the device comes behind what is on the link, or a part of it.
LEMMA TellTyped ==
  ASSUME FileTypeOK, NEW message \in Seq(OnUp), NEW next, Tell(message, next)
  PROVE  /\ up' \in Seq(OnUp)
         /\ device' \in {next, "idle"}
         /\ torn' \in BOOLEAN
<1>1. up \in Seq(OnUp) /\ Len(message) \in Nat
  BY TypeParts
<1>2. CASE up' = up \o message /\ device' = next /\ UNCHANGED torn
  BY <1>1, <1>2 DEF FileTypeOK
<1>3. ASSUME NEW k \in 1..(Len(message) - 1), up' = up \o SubSeq(message, 1, k)
      PROVE  up' \in Seq(OnUp)
  <2> DEFINE part == SubSeq(message, 1, k)
  <2>1. k \in 0..Len(message)
    BY <1>1
  <2>2. part \in Seq(OnUp)
    BY <2>1, PartFacts
  <2> HIDE DEF part
  <2>3. up \o part \in Seq(OnUp)
    BY <1>1, <2>2
  <2> QED
    BY <1>3, <2>3 DEF part
<1>4. CASE \E k \in 1..(Len(message) - 1) : up' = up \o SubSeq(message, 1, k)
                                         /\ device' = "idle" /\ torn' = TRUE
  BY <1>3, <1>4
<1>5. CASE device' = "idle" /\ UNCHANGED <<up, torn>>
  BY <1>1, <1>5 DEF FileTypeOK
<1> QED
  BY <1>2, <1>4, <1>5 DEF Tell

\* A recv of the server leaves the units behind those it takes.
LEMMA TakeTyped ==
  ASSUME FileTypeOK, NEW n \in Nat, NEW k \in Taken(n), Take(k)
  PROVE  up' \in Seq(OnUp)
<1>1. up \in Seq(OnUp) /\ Len(up) \in Nat
  BY TypeParts
<1>2. k + 1 \in Nat \ {0} /\ Len(up) \in 0..Len(up)
  BY <1>1 DEF Taken
<1>3. SubSeq(up, k + 1, Len(up)) \in Seq(OnUp)
  BY <1>1, <1>2, PartFacts
<1> QED
  BY <1>3 DEF Take

\* The units that a read takes, and what it leaves on the link.
LEMMA DropFacts ==
  ASSUME FileTypeOK, NEW n \in Nat, NEW k \in Received(n)
  PROVE  /\ k \in 0..Len(down) /\ k <= n /\ k \in Nat
         /\ SubSeq(down, 1, k) \in Seq(OnLink) /\ Len(SubSeq(down, 1, k)) = k
         /\ \A i \in 1..k : SubSeq(down, 1, k)[i] = down[i]
         /\ SubSeq(down, k + 1, Len(down)) \in Seq(OnLink)
         /\ Len(SubSeq(down, k + 1, Len(down))) = Len(down) - k
         /\ \A i \in 1..(Len(down) - k) : SubSeq(down, k + 1, Len(down))[i] = down[k + i]
<1>1. down \in Seq(OnLink) /\ Len(down) \in Nat
  BY TypeParts
<1>2. k \in 0..Len(down) /\ k <= n /\ k \in Nat
  BY <1>1 DEF Received, Least
<1>3. /\ SubSeq(down, 1, k) \in Seq(OnLink)
      /\ Len(SubSeq(down, 1, k)) = IF 1 <= k THEN k - 1 + 1 ELSE 0
      /\ \A i \in 1..(k - 1 + 1) : SubSeq(down, 1, k)[i] = down[1 + i - 1]
  BY <1>1, <1>2, PartFacts
<1>4. /\ SubSeq(down, k + 1, Len(down)) \in Seq(OnLink)
      /\ Len(SubSeq(down, k + 1, Len(down))) =
           IF k + 1 <= Len(down) THEN Len(down) - (k + 1) + 1 ELSE 0
      /\ \A i \in 1..(Len(down) - (k + 1) + 1) :
           SubSeq(down, k + 1, Len(down))[i] = down[(k + 1) + i - 1]
  <2>1. k + 1 \in Nat \ {0} /\ Len(down) \in 0..Len(down)
    BY <1>1, <1>2
  <2> QED
    BY <1>1, <2>1, PartFacts
<1>5. Len(SubSeq(down, 1, k)) = k /\ \A i \in 1..k : SubSeq(down, 1, k)[i] = down[i]
  BY <1>2, <1>3
<1>6. /\ Len(SubSeq(down, k + 1, Len(down))) = Len(down) - k
      /\ \A i \in 1..(Len(down) - k) : SubSeq(down, k + 1, Len(down))[i] = down[k + i]
  BY <1>1, <1>2, <1>4
<1> QED
  BY <1>2, <1>3, <1>4, <1>5, <1>6

\* Units that are sent come behind those on the link; if not all of them do,
\* the send was cut.
LEMMA SendFacts ==
  ASSUME FileTypeOK, NEW units \in Seq(OnLink), SendUnits(units)
  PROVE  /\ down' \in Seq(OnLink) /\ Len(down') <= MaxStream
         /\ \/ down' = down \o units /\ broken' = broken
            \/ broken' = TRUE
         /\ UNCHANGED <<contentVars, deviceVars, up, left, refused, torn>>
<1>1. down \in Seq(OnLink) /\ Len(down) \in Nat /\ Len(units) \in Nat /\ MaxStream \in Nat
  BY TypeParts
<1>2. Len(down) + Len(units) <= MaxStream
  BY DEF SendUnits
<1>3. CASE down' = down \o units /\ UNCHANGED broken
  <2>1. down \o units \in Seq(OnLink) /\ Len(down \o units) = Len(down) + Len(units)
    BY <1>1, ConcatProperties
  <2> QED
    BY <1>2, <1>3, <2>1 DEF SendUnits
<1>4. ASSUME NEW k \in 1..(Len(units) - 1), down' = down \o SubSeq(units, 1, k), broken' = TRUE
      PROVE  down' \in Seq(OnLink) /\ Len(down') <= MaxStream
  <2>1. k \in 0..Len(units) /\ k \in Nat /\ k <= Len(units)
    BY <1>1
  <2>2. /\ SubSeq(units, 1, k) \in Seq(OnLink)
        /\ Len(SubSeq(units, 1, k)) = IF 1 <= k THEN k - 1 + 1 ELSE 0
    BY <2>1, PartFacts
  <2> DEFINE part == SubSeq(units, 1, k)
  <2>3. part \in Seq(OnLink) /\ Len(part) <= Len(units) /\ Len(part) \in Nat
    BY <2>1, <2>2
  <2>4. down' = down \o part
    BY <1>4
  <2> HIDE DEF part
  <2>5. down \o part \in Seq(OnLink) /\ Len(down \o part) = Len(down) + Len(part)
    BY <1>1, <2>3, ConcatProperties
  <2> QED
    BY <1>1, <1>2, <2>3, <2>4, <2>5
<1> QED
  BY <1>3, <1>4 DEF SendUnits

\* The next units of the file.
LEMMA ChunkFacts ==
  ASSUME FileTypeOK, position < Len(file)
  PROVE  LET n == Least(ReadSize, Len(file) - position)
         IN  /\ n \in Nat /\ n > 0 /\ position + n <= Len(file)
             /\ SubSeq(file, position + 1, position + n) \in Seq(OnLink)
<1> DEFINE n == Least(ReadSize, Len(file) - position)
<1>1. /\ file \in Seq(OnLink) /\ Len(file) \in Nat /\ position \in Nat
      /\ ReadSize \in Nat \ {0}
  BY TypeParts
<1>2. n \in Nat /\ n > 0 /\ position + n <= Len(file)
  BY <1>1 DEF Least
<1> HIDE DEF n
<1>3. position + 1 \in Nat \ {0} /\ position + n \in 0..Len(file)
  BY <1>1, <1>2
<1>4. SubSeq(file, position + 1, position + n) \in Seq(OnLink)
  BY <1>1, <1>3, PartFacts
<1> QED
  BY <1>2, <1>4 DEF n

\* A write leaves the file a file, not longer than what is written over what
\* was there.
LEMMA WriteFacts ==
  ASSUME TypeInv, NEW units \in Seq(OnLink), NEW n \in 0..Len(units),
         disk' = (IF opened = "file" THEN Overwrite(disk, wrote, SubSeq(units, 1, n)) ELSE disk),
         wrote' = wrote + n
  PROVE  /\ disk' \in Seq(OnLink) /\ wrote' \in Nat
         /\ Len(disk') <= wrote' + Len(old)
         /\ opened = "file" => wrote' <= Len(disk')
<1>1. /\ disk \in Seq(OnLink) /\ Len(disk) \in Nat /\ Len(old) \in Nat /\ wrote \in Nat
      /\ Len(units) \in Nat /\ n \in Nat
  BY TypeParts DEF TypeInv
<1>2. Len(disk) <= wrote + Len(old)
  BY DEF TypeInv, FileTypeOK
<1>3. CASE opened # "file"
  BY <1>1, <1>2, <1>3
<1>4. CASE opened = "file"
  <2> DEFINE part == SubSeq(units, 1, n)
  <2>1. part \in Seq(OnLink) /\ Len(part) = n
    <3>1. /\ SubSeq(units, 1, n) \in Seq(OnLink)
          /\ Len(SubSeq(units, 1, n)) = IF 1 <= n THEN n - 1 + 1 ELSE 0
      BY PartFacts
    <3> QED
      BY <1>1, <3>1
  <2>2. disk' = Overwrite(disk, wrote, part)
    BY <1>4
  <2> HIDE DEF part
  <2>3. wrote \in 0..Len(disk)
    BY <1>1, <1>4 DEF TypeInv, OffsetInFile
  <2>4. /\ Overwrite(disk, wrote, part) \in Seq(OnLink)
        /\ Len(Overwrite(disk, wrote, part)) =
             IF wrote + Len(part) < Len(disk) THEN Len(disk) ELSE wrote + Len(part)
    BY <1>1, <2>1, <2>3, OverwriteFacts
  <2> QED
    BY <1>1, <1>2, <2>1, <2>2, <2>4
<1> QED
  BY <1>3, <1>4

LEMMA InitTyped == FileInit => TypeInv
<1> SUFFICES ASSUME FileInit PROVE TypeInv
  OBVIOUS
<1>1. file \in Files /\ old \in Olds /\ disk = old
  BY DEF FileInit
<1>2. file \in Seq(Units) /\ old \in Seq(Units) /\ Units \subseteq OnLink
  BY <1>1, FileAssumption DEF FileAssumption, OnLink
<1>3. disk \in Seq(OnLink) /\ Len(file) \in Nat /\ Len(old) \in Nat
  BY <1>1, <1>2, SeqMonotonic
<1>4. /\ down = <<>> /\ up = <<>> /\ wrote = 0 /\ position = 0 /\ asks = 0 /\ chosen = <<>>
      /\ device = "idle" /\ opened = "none" /\ server = "loop"
      /\ left = FALSE /\ refused = FALSE /\ broken = FALSE /\ torn = FALSE
  BY DEF FileInit
<1>5. MaxAsks \in Nat /\ MaxStream \in Nat
  BY FileAssumption DEF FileAssumption
<1>6. /\ down \in Seq(OnLink) /\ Len(down) <= MaxStream
      /\ up \in Seq(OnUp)
  BY <1>4, <1>5
<1>7. /\ Len(disk) <= wrote + Len(old) /\ position \in 0..Len(file)
      /\ wrote \in Nat /\ asks \in 0..MaxAsks
  BY <1>1, <1>3, <1>4, <1>5
<1>8. FileTypeOK
  BY <1>1, <1>3, <1>4, <1>6, <1>7 DEF FileTypeOK
<1>9. OffsetInFile
  BY <1>4 DEF OffsetInFile
<1> QED
  BY <1>8, <1>9 DEF TypeInv

LEMMA StepTyped ==
  ASSUME TypeInv, [FileNext]_fileVars
  PROVE  TypeInv'
<1> USE DEF contentVars, deviceVars, serverVars
<1>1. /\ file \in Seq(OnLink) /\ old \in Seq(OnLink) /\ disk \in Seq(OnLink)
      /\ down \in Seq(OnLink)
      /\ Len(file) \in Nat /\ Len(old) \in Nat /\ Len(disk) \in Nat /\ Len(down) \in Nat
      /\ wrote \in Nat /\ position \in Nat /\ position <= Len(file)
      /\ ReadSize \in Nat \ {0} /\ MaxStream \in Nat /\ MaxAsks \in Nat
      /\ up \in Seq(OnUp)
  BY TypeParts, FileAssumption DEF TypeInv, FileAssumption
<1>2. CASE Ask
  <2>1. asks' \in 0..MaxAsks
    BY <1>1, <1>2 DEF Ask, TypeInv, FileTypeOK
  <2>2. up' \in Seq(OnUp) /\ device' \in {"select", "idle"} /\ torn' \in BOOLEAN
    BY <1>2, TellTyped, MessageFacts DEF Ask, TypeInv
  <2> QED
    BY <1>2, <2>1, <2>2 DEF Ask, TypeInv, FileTypeOK, OffsetInFile, Waiting
<1>3. CASE Quit
  BY <1>3 DEF Quit, TypeInv, FileTypeOK, OffsetInFile, Waiting
<1>4. CASE Choose
  <2>1. chosen' # <<>> => chosen'[1] \in 1..Len(Counts) /\ chosen'[2] \in 1..Counts[chosen'[1]]
    <3>1. PICK a \in Inputs \ {-1}, b \in Inputs : \E c \in FilesAt(a) :
            /\ ~(a < 0 \/ a = 0 \/ a > Len(Counts) \/ b < 0 \/ b = 0 \/ b > c)
            /\ chosen' = <<a, b>>
      BY <1>4 DEF Choose
    <3>2. Counts \in Seq(Nat) /\ a \in Int /\ b \in Int
      BY FileAssumption DEF FileAssumption
    <3>3. a \in 1..Len(Counts)
      BY <3>1, <3>2
    <3>4. FilesAt(a) = {Counts[a]} /\ Counts[a] \in Nat
      BY <3>2, <3>3 DEF FilesAt
    <3>5. b \in 1..Counts[a]
      BY <3>1, <3>2, <3>4
    <3> QED
      BY <3>1, <3>3, <3>5
  <2>2. up' \in Seq(OnUp) /\ device' \in {"header", "idle"} /\ torn' \in BOOLEAN
    BY <1>4, TellTyped, MessageFacts DEF Choose, TypeInv
  <2> QED
    BY <1>4, <2>1, <2>2 DEF Choose, TypeInv, FileTypeOK, OffsetInFile, Waiting
<1>5. CASE Serve
  <2>1. PICK k \in Taken(Len(Request)) :
          Take(k) /\ torn' = (torn \/ k < Len(Request))
    BY <1>5 DEF Serve
  <2>2. up' \in Seq(OnUp) /\ torn' \in BOOLEAN
    BY <2>1, TakeTyped, MessageFacts DEF TypeInv, FileTypeOK
  <2> QED
    BY <1>5, <2>2 DEF Serve, TypeInv, FileTypeOK, OffsetInFile
<1>6. CASE SendOpen
  <2>1. PICK k \in Taken(Len(Header)) :
          Take(k) /\ torn' = (torn \/ k < Len(Header))
    BY <1>6 DEF SendOpen
  <2>2. up' \in Seq(OnUp) /\ torn' \in BOOLEAN
    BY <2>1, TakeTyped, MessageFacts DEF TypeInv, FileTypeOK
  <2>3. refused' \in BOOLEAN /\ server' \in {"loop", "header"}
    BY <1>6 DEF SendOpen, TypeInv, FileTypeOK
  <2> QED
    BY <1>6, <2>2, <2>3 DEF SendOpen, TypeInv, FileTypeOK, OffsetInFile
<1>7. CASE SendHeader
  <2>1. /\ down' \in Seq(OnLink) /\ Len(down') <= MaxStream /\ broken' \in BOOLEAN
        /\ UNCHANGED <<contentVars, deviceVars, up, left, refused, torn>>
    BY <1>7, HeaderFacts, SendFacts DEF SendHeader, TypeInv, FileTypeOK
  <2>2. server' = "body" /\ position' = position
    BY <1>7 DEF SendHeader
  <2> QED
    BY <2>1, <2>2 DEF TypeInv, FileTypeOK, OffsetInFile
<1>8. CASE SendChunk
  <2> DEFINE n == Least(ReadSize, Len(file) - position)
             units == SubSeq(file, position + 1, position + n)
  <2>1. SendUnits(units) /\ position' = position + n /\ server' = server
    BY <1>8 DEF SendChunk
  <2>2. n \in Nat /\ position + n <= Len(file) /\ units \in Seq(OnLink)
    BY <1>8, ChunkFacts DEF SendChunk, TypeInv
  <2> HIDE DEF n, units
  <2>3. /\ down' \in Seq(OnLink) /\ Len(down') <= MaxStream /\ broken' \in BOOLEAN
        /\ UNCHANGED <<contentVars, deviceVars, up, left, refused, torn>>
    BY <2>1, <2>2, SendFacts DEF TypeInv, FileTypeOK
  <2>4. position' \in 0..Len(file)
    BY <1>1, <2>1, <2>2
  <2> QED
    BY <2>1, <2>3, <2>4 DEF TypeInv, FileTypeOK, OffsetInFile
<1>9. CASE SendEnd
  BY <1>9 DEF SendEnd, TypeInv, FileTypeOK, OffsetInFile
<1>10. CASE ServerEnds
  BY <1>10 DEF ServerEnds, TypeInv, FileTypeOK, OffsetInFile
<1>11. CASE RecvHeader
  <2>1. PICK k \in Received(4) :
          /\ opened' = IF k <= 1 THEN "none"
                       ELSE IF SubSeq(down, 1, Least(k, 3)) = SubSeq(Header, 1, 3)
                       THEN "file" ELSE "other"
          /\ Drop(k)
          /\ broken' = (broken \/ k < 4)
    BY <1>11 DEF RecvHeader
  <2>2. /\ SubSeq(down, k + 1, Len(down)) \in Seq(OnLink) /\ k \in Nat
        /\ Len(SubSeq(down, k + 1, Len(down))) = Len(down) - k /\ k \in 0..Len(down)
    BY DropFacts DEF TypeInv
  <2>3. down' \in Seq(OnLink) /\ Len(down') <= MaxStream
    <3>1. down' = SubSeq(down, k + 1, Len(down)) /\ Len(down) <= MaxStream
      BY <2>1 DEF Drop, TypeInv, FileTypeOK
    <3> QED
      BY <1>1, <2>2, <3>1
  <2>4. opened' \in {"file", "other", "none"}
    BY <2>1, <2>2
  <2>5. wrote = 0 /\ broken' \in BOOLEAN
    BY <1>11, <2>1 DEF RecvHeader, TypeInv, OffsetInFile, Waiting
  <2>6. wrote' = wrote /\ disk' = disk /\ device' = "open"
    BY <1>11 DEF RecvHeader
  <2>7. OffsetInFile'
    BY <1>1, <2>5, <2>6 DEF OffsetInFile
  <2> QED
    BY <1>11, <2>3, <2>4, <2>5, <2>7 DEF RecvHeader, TypeInv, FileTypeOK
<1>12. CASE RecvOpen
  BY <1>12 DEF RecvOpen, TypeInv, FileTypeOK, OffsetInFile, Waiting
<1>13. CASE RecvBody
  <2>1. PICK k \in Received(ReadSize) \ {0} :
          WriteUnits(SubSeq(down, 1, k)) /\ Drop(k)
    BY <1>13 DEF RecvBody
  <2> DEFINE units == SubSeq(down, 1, k)
  <2>2. /\ SubSeq(down, k + 1, Len(down)) \in Seq(OnLink) /\ units \in Seq(OnLink)
        /\ Len(SubSeq(down, k + 1, Len(down))) = Len(down) - k /\ k \in 0..Len(down)
    BY <1>1, DropFacts DEF TypeInv
  <2>3. down' \in Seq(OnLink) /\ Len(down') <= MaxStream
    BY <1>1, <2>1, <2>2 DEF Drop, TypeInv, FileTypeOK
  <2>4. WriteUnits(units)
    BY <2>1
  <2> HIDE DEF units
  <2>5. PICK n \in 0..Len(units) :
          /\ disk' = IF opened = "file" THEN Overwrite(disk, wrote, SubSeq(units, 1, n)) ELSE disk
          /\ wrote' = wrote + n
          /\ device' = IF n = Len(units) THEN "body" ELSE "failed"
    BY <2>4 DEF WriteUnits
  <2>6. /\ disk' \in Seq(OnLink) /\ wrote' \in Nat
        /\ Len(disk') <= wrote' + Len(old)
        /\ opened = "file" => wrote' <= Len(disk')
    BY <2>2, <2>5, WriteFacts
  <2>7. device' \in {"body", "failed"}
    BY <2>5
  <2> QED
    <3>1. /\ device = "body"
          /\ UNCHANGED <<contentVars, asks, chosen, opened, serverVars, up, left, refused,
                         broken, torn>>
      BY <1>13 DEF RecvBody
    <3>2. FileTypeOK'
      BY <2>3, <2>6, <2>7, <3>1 DEF TypeInv, FileTypeOK
    <3>3. OffsetInFile'
      BY <2>6, <2>7, <3>1 DEF OffsetInFile, Waiting
    <3> QED
      BY <3>2, <3>3 DEF TypeInv
<1>14. CASE RecvEnd
  <2>1. PICK k \in Received(ReadSize) : Drop(k)
    BY <1>14 DEF RecvEnd
  <2>2. /\ SubSeq(down, k + 1, Len(down)) \in Seq(OnLink)
        /\ Len(SubSeq(down, k + 1, Len(down))) = Len(down) - k /\ k \in 0..Len(down)
    BY <1>1, DropFacts DEF TypeInv
  <2>3. down' \in Seq(OnLink) /\ Len(down') <= MaxStream
    BY <1>1, <2>1, <2>2 DEF Drop, TypeInv, FileTypeOK
  <2> QED
    BY <1>14, <2>3 DEF RecvEnd, TypeInv, FileTypeOK, OffsetInFile, Waiting
<1>15. CASE RecvFails
  BY <1>15 DEF RecvFails, TypeInv, FileTypeOK, OffsetInFile, Waiting
<1>16. CASE ServeOther
  <2>1. PICK k \in Taken(Len(Request)) :
          Take(k) /\ torn' = (torn \/ k < Len(Request))
    BY <1>16 DEF ServeOther
  <2>2. up' \in Seq(OnUp) /\ torn' \in BOOLEAN
    BY <2>1, TakeTyped, MessageFacts DEF TypeInv, FileTypeOK
  <2>3. down' \in Seq(OnLink) /\ Len(down') <= MaxStream /\ broken' \in BOOLEAN
    <3>1. CASE UNCHANGED <<down, broken>>
      BY <3>1 DEF TypeInv, FileTypeOK
    <3>2. CASE Len(down) < MaxStream /\ down' = Append(down, "reply") /\ broken' = TRUE
      <4>1. "reply" \in OnLink
        BY DEF OnLink
      <4>2. Append(down, "reply") \in Seq(OnLink) /\ Len(Append(down, "reply")) = Len(down) + 1
        BY <1>1, <4>1, AppendProperties
      <4> QED
        BY <1>1, <3>2, <4>2
    <3> QED
      BY <1>16, <3>1, <3>2 DEF ServeOther
  <2> QED
    BY <1>16, <2>2, <2>3 DEF ServeOther, TypeInv, FileTypeOK, OffsetInFile
<1>17. CASE UNCHANGED fileVars
  BY <1>17 DEF fileVars, TypeInv, FileTypeOK, OffsetInFile
<1> QED
  BY <1>2, <1>3, <1>4, <1>5, <1>6, <1>7, <1>8, <1>9, <1>10, <1>11, <1>12, <1>13,
     <1>14, <1>15, <1>16, <1>17 DEF FileNext, User, Sender, Receiver

\* The variables of a transfer keep their types for any lists, inputs, files and
\* sizes of reads; in particular what is chosen is in the list, whatever is read
\* beyond its arrays (msgprocess.c:1035).
THEOREM FileTyping == FileSpec => []FileTypeOK
<1>1. FileInit => TypeInv
  BY InitTyped
<1>2. TypeInv /\ [FileNext]_fileVars => TypeInv'
  BY StepTyped
<1>3. TypeInv => FileTypeOK
  BY DEF TypeInv
<1> QED
  BY <1>1, <1>2, <1>3, PTL DEF FileSpec

-----------------------------------------------------------------------------
(* What the device has of the file.                                         *)

\* What is on its way is the part of the file that has been sent and not been
\* written, behind the header as long as that has not been received.
InStep ==
  ~broken =>
    /\ device \in {"idle", "select", "header"} =>
         \/ server \notin {"body", "sent"} /\ position = 0 /\ down = <<>>
         \/ /\ server \in {"body", "sent", "ended"}
            /\ down = Header \o SubSeq(file, 1, position)
    /\ device \in {"open", "body"} =>
         /\ opened = "file" /\ server \in {"body", "sent", "ended"}
         /\ wrote <= position /\ down = SubSeq(file, wrote + 1, position)

ContentInv == DiskIsPrefixOverOld /\ InStep /\ StopsOnlyAtWord

FileInv == TypeInv /\ ContentInv

\* What the device has opened or reported is of no account before the header.
LEMMA InitContent == FileInit => FileInv
<1> SUFFICES ASSUME FileInit PROVE FileInv
  OBVIOUS
<1>1. TypeInv
  BY InitTyped
<1>2. /\ old \in Seq(OnLink) /\ file \in Seq(OnLink) /\ Len(old) \in Nat /\ Len(file) \in Nat
  BY <1>1, TypeParts DEF TypeInv
<1>3. /\ disk = old /\ wrote = 0 /\ position = 0 /\ down = <<>>
      /\ device = "idle" /\ server = "loop"
  BY DEF FileInit
<1>4. disk = SubSeq(file, 1, wrote) \o SubSeq(old, wrote + 1, Len(old))
  <2>1. 0 \in 0..Len(file)
    BY <1>2
  <2>2. /\ Mixed(file, old, 0) \in Seq(OnLink)
        /\ Len(Mixed(file, old, 0)) = IF 0 < Len(old) THEN Len(old) ELSE 0
        /\ \A i \in 1..Len(Mixed(file, old, 0)) :
             Mixed(file, old, 0)[i] = IF i <= 0 THEN file[i] ELSE old[i]
    BY <1>2, <2>1, MixedFacts
  <2>3. Len(Mixed(file, old, 0)) = Len(old)
    BY <1>2, <2>2
  <2>4. \A i \in 1..Len(Mixed(file, old, 0)) : Mixed(file, old, 0)[i] = old[i]
    BY <1>2, <2>2
  <2>5. Mixed(file, old, 0) = old
    BY <1>2, <2>2, <2>3, <2>4, SeqEqual
  <2> QED
    BY <1>3, <2>5 DEF Mixed
<1> QED
  BY <1>1, <1>3, <1>4 DEF FileInv, ContentInv, DiskIsPrefixOverOld, InStep, StopsOnlyAtWord

\* A part of the file that has been sent and the next one.
LEMMA SentGrows ==
  ASSUME FileTypeOK, NEW from \in 1..(position + 1), NEW n \in Nat,
         position + n <= Len(file)
  PROVE  SubSeq(file, from, position) \o SubSeq(file, position + 1, position + n)
           = SubSeq(file, from, position + n)
<1>1. file \in Seq(OnLink) /\ Len(file) \in Nat /\ position \in Nat /\ position <= Len(file)
  BY TypeParts
<1> DEFINE to == position + n
<1>2. /\ from \in 1..(Len(file) + 1) /\ position \in (from - 1)..Len(file)
      /\ to \in position..Len(file)
  BY <1>1
<1> HIDE DEF to
<1>3. SubSeq(file, from, position) \o SubSeq(file, position + 1, to) = SubSeq(file, from, to)
  BY <1>1, <1>2, ConcatAdjacentSubSeq
<1> QED
  BY <1>3 DEF to

\* A header that comes whole is the header of the file, and the file comes
\* behind it.
LEMMA HeaderContent ==
  ASSUME FileInv, RecvHeader
  PROVE  ContentInv'
<1> USE DEF contentVars, deviceVars, serverVars
<1>1. PICK k \in Received(4) :
        /\ opened' = IF k <= 1 THEN "none"
                     ELSE IF SubSeq(down, 1, Least(k, 3)) = SubSeq(Header, 1, 3)
                     THEN "file" ELSE "other"
        /\ Drop(k)
        /\ broken' = (broken \/ k < 4)
  BY DEF RecvHeader
<1>2. /\ device = "header" /\ device' = "open"
      /\ UNCHANGED <<file, old, disk, wrote, server, position>>
  BY DEF RecvHeader
<1>3. DiskIsPrefixOverOld' /\ StopsOnlyAtWord'
  BY <1>1, <1>2 DEF FileInv, ContentInv, DiskIsPrefixOverOld, StopsOnlyAtWord
<1>4. ASSUME ~broken' PROVE InStep'
  <2>1. ~broken /\ k >= 4 /\ k <= 4 /\ k \in 0..Len(down) /\ wrote = 0
    <3>1. ~broken /\ ~(k < 4)
      BY <1>1, <1>4
    <3>2. k \in 0..Len(down) /\ k <= 4 /\ k \in Nat
      <4>1. FileTypeOK /\ 4 \in Nat
        BY DEF FileInv, TypeInv
      <4> QED
        BY <4>1, DropFacts
    <3>3. wrote = 0
      BY <1>2 DEF FileInv, TypeInv, OffsetInFile, Waiting
    <3> QED
      BY <3>1, <3>2, <3>3
  <2>2. k = 4
    BY <2>1
  <2>3. Header \in Seq(OnLink) /\ Len(Header) = 4 /\ down \in Seq(OnLink)
    BY HeaderFacts, TypeParts DEF FileInv, TypeInv
  <2>4. down # <<>>
    BY <2>1, <2>2, <2>3
  <2>5. server \in {"body", "sent", "ended"} /\ down = Header \o SubSeq(file, 1, position)
    BY <1>2, <2>1, <2>4 DEF FileInv, ContentInv, InStep
  <2> DEFINE sent == SubSeq(file, 1, position)
  <2>6. /\ file \in Seq(OnLink) /\ position \in 0..Len(file) /\ position \in Nat
        /\ Len(file) \in Nat
    BY TypeParts DEF FileInv, TypeInv
  <2>7. sent \in Seq(OnLink) /\ Len(sent) = position
    <3>1. sent \in Seq(OnLink) /\ Len(sent) = IF 1 <= position THEN position - 1 + 1 ELSE 0
      BY <2>6, PartFacts
    <3> HIDE DEF sent
    <3> QED
      BY <2>6, <3>1
  <2>8. down = Header \o sent
    BY <2>5
  <2> HIDE DEF sent
  <2>9. /\ Len(down) = 4 + position
        /\ \A i \in 1..(4 + position) : down[i] = IF i <= 4 THEN Header[i] ELSE sent[i - 4]
    <3>1. /\ Len(Header \o sent) = Len(Header) + Len(sent)
          /\ \A i \in 1..(Len(Header) + Len(sent)) :
               (Header \o sent)[i] = IF i <= Len(Header) THEN Header[i] ELSE sent[i - Len(Header)]
      BY <2>3, <2>7, ConcatProperties
    <3> QED
      BY <2>3, <2>7, <2>8, <3>1
  <2>10. opened' = "file"
    <3>1. Least(k, 3) = 3 /\ ~(k <= 1)
      BY <2>2 DEF Least
    <3>2. SubSeq(down, 1, 3) = SubSeq(Header, 1, 3)
      <4>1. 1 \in 1..Len(Header) /\ 3 \in 1..Len(Header)
        BY <2>3
      <4> QED
        BY <2>3, <2>7, <2>8, <4>1, SubSeqOfConcat1
    <3> QED
      BY <1>1, <3>1, <3>2
  <2>11. SubSeq(down, 4 + 1, Len(down)) = sent
    <3> DEFINE rest == SubSeq(down, 4 + 1, Len(down))
    <3>1. /\ rest \in Seq(OnLink) /\ Len(rest) = Len(down) - 4
          /\ \A i \in 1..(Len(down) - 4) : rest[i] = down[4 + i]
      BY <2>2, DropFacts DEF FileInv, TypeInv
    <3> HIDE DEF rest
    <3>2. Len(rest) = Len(sent)
      BY <2>6, <2>7, <2>9, <3>1
    <3>3. \A i \in 1..Len(rest) : rest[i] = sent[i]
      <4> TAKE i \in 1..Len(rest)
      <4>1. /\ 4 + i \in 1..(4 + position) /\ ~(4 + i <= 4) /\ (4 + i) - 4 = i
            /\ i \in 1..(Len(down) - 4)
        BY <2>6, <2>9, <3>1
      <4> QED
        BY <2>9, <3>1, <4>1
    <3>4. rest = sent
      BY <2>7, <3>1, <3>2, <3>3, SeqEqual
    <3> QED
      BY <3>4 DEF rest
  <2>12. down' = SubSeq(file, 1, position)
    BY <1>1, <2>2, <2>11 DEF Drop, sent
  <2> QED
    BY <1>2, <2>1, <2>5, <2>6, <2>10, <2>12 DEF InStep
<1>5. InStep'
  BY <1>4 DEF InStep
<1> QED
  BY <1>3, <1>5 DEF ContentInv

\* Units of a read are the next ones of the file.
LEMMA ReadFacts ==
  ASSUME FileInv, device = "body", ~broken, NEW k \in Received(ReadSize)
  PROVE  /\ k \in Nat /\ wrote + k <= position /\ Len(SubSeq(down, 1, k)) = k
         /\ \A i \in 1..k : SubSeq(down, 1, k)[i] = file[wrote + i]
         /\ SubSeq(down, k + 1, Len(down)) = SubSeq(file, wrote + k + 1, position)
         /\ down = <<>> => wrote = position
<1>1. /\ file \in Seq(OnLink) /\ Len(file) \in Nat /\ position \in Nat /\ wrote \in Nat
      /\ position <= Len(file) /\ ReadSize \in Nat /\ down \in Seq(OnLink)
  BY TypeParts DEF FileInv, TypeInv
<1>2. wrote <= position /\ down = SubSeq(file, wrote + 1, position)
  BY DEF FileInv, ContentInv, InStep
<1>3. /\ Len(down) = position - wrote
      /\ \A i \in 1..(position - wrote) : down[i] = file[wrote + i]
  <2>1. wrote + 1 \in Nat \ {0} /\ position \in 0..Len(file)
    BY <1>1
  <2>2. /\ Len(down) = IF wrote + 1 <= position THEN position - (wrote + 1) + 1 ELSE 0
        /\ \A i \in 1..(position - (wrote + 1) + 1) : down[i] = file[(wrote + 1) + i - 1]
    BY <1>1, <1>2, <2>1, PartFacts
  <2> QED
    BY <1>1, <1>2, <2>2
<1> DEFINE units == SubSeq(down, 1, k)
           rest == SubSeq(down, k + 1, Len(down))
<1>4. /\ k \in 0..Len(down) /\ k \in Nat /\ Len(units) = k
      /\ \A i \in 1..k : units[i] = down[i]
      /\ rest \in Seq(OnLink) /\ Len(rest) = Len(down) - k
      /\ \A i \in 1..(Len(down) - k) : rest[i] = down[k + i]
  BY <1>1, DropFacts DEF FileInv, TypeInv
<1> HIDE DEF units, rest
<1>5. wrote + k <= position
  BY <1>1, <1>3, <1>4
<1>6. \A i \in 1..k : units[i] = file[wrote + i]
  <2> TAKE i \in 1..k
  <2>1. i \in 1..(position - wrote)
    BY <1>1, <1>3, <1>4
  <2> QED
    BY <1>3, <1>4, <2>1
<1>7. rest = SubSeq(file, wrote + k + 1, position)
  <2> DEFINE next == SubSeq(file, wrote + k + 1, position)
  <2>1. wrote + k + 1 \in Nat \ {0} /\ position \in 0..Len(file)
    BY <1>1, <1>4
  <2>2. /\ next \in Seq(OnLink)
        /\ Len(next) = IF wrote + k + 1 <= position THEN position - (wrote + k + 1) + 1 ELSE 0
        /\ \A i \in 1..(position - (wrote + k + 1) + 1) : next[i] = file[(wrote + k + 1) + i - 1]
    BY <1>1, <2>1, PartFacts, SMTT(60)
  <2> HIDE DEF next
  <2>3. Len(rest) = Len(next)
    BY <1>1, <1>3, <1>4, <1>5, <2>2
  <2>4. \A i \in 1..Len(rest) : rest[i] = next[i]
    <3> TAKE i \in 1..Len(rest)
    <3>1. /\ i \in 1..(Len(down) - k) /\ k + i \in 1..(position - wrote)
          /\ wrote + (k + i) = (wrote + k + 1) + i - 1
          /\ i \in 1..(position - (wrote + k + 1) + 1)
      <4>1. /\ Len(rest) = position - wrote - k /\ Len(down) - k = position - wrote - k
            /\ i \in Nat /\ i >= 1 /\ i <= position - wrote - k
        BY <1>1, <1>3, <1>4
      <4>2. i \in 1..(Len(down) - k)
        BY <1>1, <1>4, <4>1
      <4>3. k + i \in 1..(position - wrote)
        BY <1>1, <1>4, <4>1
      <4>4. /\ wrote + (k + i) = (wrote + k + 1) + i - 1
            /\ i \in 1..(position - (wrote + k + 1) + 1)
        BY <1>1, <1>4, <4>1
      <4> QED
        BY <4>2, <4>3, <4>4
    <3>2. rest[i] = down[k + i] /\ down[k + i] = file[wrote + (k + i)]
      BY <1>3, <1>4, <3>1
    <3> QED
      BY <2>2, <3>1, <3>2
  <2>5. rest = next
    BY <1>4, <2>2, <2>3, <2>4, SeqEqual
  <2> QED
    BY <2>5 DEF next
<1>8. down = <<>> => wrote = position
  BY <1>1, <1>2, <1>3
<1> QED
  BY <1>4, <1>5, <1>6, <1>7, <1>8 DEF units, rest

\* What is written is the next units of the file, or the first of them.
LEMMA BodyContent ==
  ASSUME FileInv, RecvBody
  PROVE  ContentInv'
<1> USE DEF contentVars, deviceVars, serverVars
<1>1. PICK k \in Received(ReadSize) \ {0} : WriteUnits(SubSeq(down, 1, k)) /\ Drop(k)
  BY DEF RecvBody
<1>2. device = "body" /\ UNCHANGED <<file, old, opened, server, position, broken>>
  BY DEF RecvBody
<1> DEFINE units == SubSeq(down, 1, k)
<1>3. units \in Seq(OnLink)
  BY DropFacts, TypeParts DEF FileInv, TypeInv
<1>4. WriteUnits(units)
  BY <1>1
<1> HIDE DEF units
<1>5. PICK n \in 0..Len(units) :
        /\ disk' = IF opened = "file" THEN Overwrite(disk, wrote, SubSeq(units, 1, n)) ELSE disk
        /\ wrote' = wrote + n
        /\ device' = IF n = Len(units) THEN "body" ELSE "failed"
  BY <1>4 DEF WriteUnits
<1>6. StopsOnlyAtWord'
  BY <1>5 DEF StopsOnlyAtWord
<1>7. ASSUME ~broken' PROVE DiskIsPrefixOverOld' /\ InStep'
  <2>1. ~broken
    BY <1>2, <1>7
  <2>2. /\ file \in Seq(OnLink) /\ old \in Seq(OnLink) /\ Len(file) \in Nat
        /\ position \in Nat /\ wrote \in Nat /\ position <= Len(file)
    BY TypeParts DEF FileInv, TypeInv
  <2>3. /\ opened = "file" /\ server \in {"body", "sent", "ended"}
        /\ disk = Mixed(file, old, wrote)
    BY <1>2, <2>1 DEF FileInv, ContentInv, InStep, DiskIsPrefixOverOld, Mixed
  <2>4. /\ k \in Nat /\ wrote + k <= position /\ Len(units) = k
        /\ \A i \in 1..k : units[i] = file[wrote + i]
        /\ SubSeq(down, k + 1, Len(down)) = SubSeq(file, wrote + k + 1, position)
    BY <1>2, <2>1, ReadFacts DEF units
  <2> DEFINE part == SubSeq(units, 1, n)
  <2>5. part \in Seq(OnLink) /\ Len(part) = n /\ \A i \in 1..n : part[i] = units[i]
    <3>1. /\ part \in Seq(OnLink) /\ Len(part) = IF 1 <= n THEN n - 1 + 1 ELSE 0
          /\ \A i \in 1..(n - 1 + 1) : part[i] = units[1 + i - 1]
      BY <1>3, PartFacts
    <3> HIDE DEF part
    <3> QED
      BY <2>4, <3>1
  <2>6. disk' = Overwrite(disk, wrote, part)
    BY <1>5, <2>3
  <2> HIDE DEF part
  <2>7. /\ wrote \in 0..Len(file) /\ wrote + Len(part) <= Len(file)
        /\ \A i \in 1..Len(part) : part[i] = file[wrote + i]
    <3>1. n \in 0..k /\ n \in Nat
      BY <2>4
    <3>2. wrote \in 0..Len(file) /\ wrote + Len(part) <= Len(file)
      BY <2>2, <2>4, <2>5, <3>1
    <3>3. \A i \in 1..n : part[i] = file[wrote + i]
      <4> TAKE i \in 1..n
      <4>1. i \in 1..k
        BY <2>4, <3>1
      <4> QED
        BY <2>4, <2>5, <4>1
    <3> QED
      BY <2>5, <3>2, <3>3
  <2>8. Overwrite(Mixed(file, old, wrote), wrote, part) = Mixed(file, old, wrote + Len(part))
    BY <2>2, <2>5, <2>7, MixedGrows
  <2>9. disk' = Mixed(file, old, wrote')
    BY <1>5, <2>3, <2>5, <2>6, <2>8
  <2>10. DiskIsPrefixOverOld'
    BY <1>2, <2>9 DEF DiskIsPrefixOverOld, Mixed
  <2>11. CASE device' = "failed"
    BY <2>10, <2>11 DEF InStep
  <2>12. CASE device' = "body"
    <3>1. n = k /\ wrote' = wrote + k
      BY <1>5, <2>4, <2>12
    <3>2. down' = SubSeq(file', wrote' + 1, position')
      BY <1>1, <1>2, <2>4, <3>1 DEF Drop
    <3>3. wrote' <= position'
      BY <1>2, <2>4, <3>1
    <3>4. opened' = "file" /\ server' \in {"body", "sent", "ended"}
      BY <1>2, <2>3
    <3>5. InStep'
      BY <2>12, <3>2, <3>3, <3>4 DEF InStep
    <3> QED
      BY <2>10, <3>5
  <2> QED
    BY <1>5, <2>11, <2>12
<1>8. DiskIsPrefixOverOld' /\ InStep'
  BY <1>7 DEF DiskIsPrefixOverOld, InStep
<1> QED
  BY <1>6, <1>8 DEF ContentInv

\* A device that comes to an end with its child alive has read the word, which
\* is the next unit of the file.
LEMMA EndContent ==
  ASSUME FileInv, RecvEnd
  PROVE  ContentInv'
<1> USE DEF contentVars, deviceVars, serverVars
<1>1. PICK k \in Received(ReadSize) :
        /\ k = 0 \/ IsWord(SubSeq(down, 1, k))
        /\ Drop(k)
  BY DEF RecvEnd
<1>2. /\ device = "body" /\ device' = "done"
      /\ UNCHANGED <<file, old, disk, wrote, opened, server, position, broken>>
  BY DEF RecvEnd
<1>3. DiskIsPrefixOverOld'
  BY <1>2 DEF FileInv, ContentInv, DiskIsPrefixOverOld
<1>4. InStep'
  BY <1>2 DEF InStep
<1>5. ASSUME server # "ended", ~broken
      PROVE  wrote < Len(file) /\ file[wrote + 1] = Word
  <2>1. /\ k \in Nat /\ wrote + k <= position /\ Len(SubSeq(down, 1, k)) = k
        /\ \A i \in 1..k : SubSeq(down, 1, k)[i] = file[wrote + i]
    BY <1>2, <1>5, ReadFacts
  <2>2. k # 0
    BY <1>5 DEF Received
  <2>3. SubSeq(down, 1, k) = <<Word>>
    BY <1>1, <2>2 DEF IsWord
  <2>4. k = 1 /\ SubSeq(down, 1, k)[1] = Word
    <3>1. Len(<<Word>>) = 1 /\ <<Word>>[1] = Word
      OBVIOUS
    <3> QED
      BY <2>1, <2>3, <3>1
  <2>5. position \in Nat /\ wrote \in Nat /\ Len(file) \in Nat /\ position <= Len(file)
    BY TypeParts DEF FileInv, TypeInv
  <2> QED
    BY <2>1, <2>4, <2>5
<1>6. StopsOnlyAtWord'
  BY <1>2, <1>5 DEF StopsOnlyAtWord
<1> QED
  BY <1>3, <1>4, <1>6 DEF ContentInv

\* A header and the units of the file come behind what has been sent.
LEMMA SendHeaderContent ==
  ASSUME FileInv, SendHeader
  PROVE  ContentInv'
<1> USE DEF contentVars, deviceVars, serverVars
<1>1. /\ server = "header" /\ server' = "body" /\ position' = position
      /\ SendUnits(Header)
  BY DEF SendHeader
<1>2. /\ \/ down' = down \o Header /\ broken' = broken
         \/ broken' = TRUE
      /\ UNCHANGED <<file, old, disk, device, opened, wrote>>
  BY <1>1, HeaderFacts, SendFacts DEF FileInv, TypeInv
<1>3. DiskIsPrefixOverOld' /\ StopsOnlyAtWord'
  BY <1>1, <1>2 DEF FileInv, ContentInv, DiskIsPrefixOverOld, StopsOnlyAtWord
<1>4. ASSUME ~broken' PROVE InStep'
  <2>1. ~broken /\ down' = down \o Header
    BY <1>2, <1>4
  <2>2. device \notin {"open", "body"}
    BY <1>1, <2>1 DEF FileInv, ContentInv, InStep
  <2>3. CASE device \in {"idle", "select", "header"}
    <3>1. position = 0 /\ down = <<>>
      BY <1>1, <2>1, <2>3 DEF FileInv, ContentInv, InStep
    <3>2. SubSeq(file, 1, 0) = <<>>
      BY SubSeqEmpty
    <3>3. down' = Header
      BY <2>1, <3>1, HeaderFacts, ConcatEmptySeq
    <3>4. Header \o SubSeq(file, 1, 0) = Header
      BY <3>2, HeaderFacts, ConcatEmptySeq
    <3> QED
      BY <1>1, <1>2, <2>2, <3>1, <3>3, <3>4 DEF InStep
  <2>4. CASE device \notin {"idle", "select", "header"}
    BY <1>2, <2>2, <2>4 DEF InStep
  <2> QED
    BY <2>3, <2>4
<1>5. InStep'
  BY <1>4 DEF InStep
<1> QED
  BY <1>3, <1>5 DEF ContentInv

LEMMA SendChunkContent ==
  ASSUME FileInv, SendChunk
  PROVE  ContentInv'
<1> USE DEF contentVars, deviceVars, serverVars
<1> DEFINE n == Least(ReadSize, Len(file) - position)
           units == SubSeq(file, position + 1, position + n)
<1>1. /\ server = "body" /\ server' = server /\ position' = position + n
      /\ SendUnits(units) /\ position < Len(file)
  BY DEF SendChunk
<1>2. n \in Nat /\ position + n <= Len(file) /\ units \in Seq(OnLink)
  BY <1>1, ChunkFacts DEF FileInv, TypeInv
<1>3. units = SubSeq(file, position + 1, position + n)
  OBVIOUS
<1> HIDE DEF n, units
<1>4. /\ \/ down' = down \o units /\ broken' = broken
         \/ broken' = TRUE
      /\ UNCHANGED <<file, old, disk, device, opened, wrote>>
  BY <1>1, <1>2, SendFacts DEF FileInv, TypeInv
<1>5. DiskIsPrefixOverOld' /\ StopsOnlyAtWord'
  BY <1>1, <1>4 DEF FileInv, ContentInv, DiskIsPrefixOverOld, StopsOnlyAtWord
<1>6. ASSUME ~broken' PROVE InStep'
  <2>1. ~broken /\ down' = down \o units
    BY <1>4, <1>6
  <2>2. /\ file \in Seq(OnLink) /\ position \in Nat /\ wrote \in Nat /\ Len(file) \in Nat
        /\ position <= Len(file)
    BY TypeParts DEF FileInv, TypeInv
  <2>3. CASE device \in {"idle", "select", "header"}
    <3> DEFINE sent == SubSeq(file, 1, position)
    <3>1. down = Header \o sent
      BY <1>1, <2>1, <2>3 DEF FileInv, ContentInv, InStep
    <3>2. 1 \in 1..(position + 1) /\ position \in 0..Len(file)
      BY <2>2
    <3>3. sent \o units = SubSeq(file, 1, position + n)
      BY <1>2, <1>3, <3>2, SentGrows DEF FileInv, TypeInv
    <3>4. sent \in Seq(OnLink)
      BY <2>2, <3>2, PartFacts
    <3> HIDE DEF sent
    <3>5. (Header \o sent) \o units = Header \o (sent \o units)
      BY <1>2, <3>4, HeaderFacts, ConcatAssociative, SMTT(60)
    <3>6. down' = Header \o SubSeq(file, 1, position')
      BY <1>1, <2>1, <3>1, <3>3, <3>5
    <3> QED
      BY <1>1, <1>4, <2>3, <3>6 DEF InStep
  <2>4. CASE device \in {"open", "body"}
    <3>1. opened = "file" /\ wrote <= position /\ down = SubSeq(file, wrote + 1, position)
      BY <2>1, <2>4 DEF FileInv, ContentInv, InStep
    <3>2. wrote + 1 \in 1..(position + 1)
      BY <2>2, <3>1
    <3>3. down \o units = SubSeq(file, wrote + 1, position + n)
      BY <1>2, <1>3, <3>1, <3>2, SentGrows DEF FileInv, TypeInv
    <3>4. wrote' <= position'
      BY <1>1, <1>2, <1>4, <2>2, <3>1
    <3> QED
      BY <1>1, <1>4, <2>1, <2>4, <3>1, <3>3, <3>4 DEF InStep
  <2>5. CASE device \notin {"idle", "select", "header", "open", "body"}
    BY <1>4, <2>5 DEF InStep
  <2> QED
    BY <2>3, <2>4, <2>5
<1>7. InStep'
  BY <1>6 DEF InStep
<1> QED
  BY <1>5, <1>7 DEF ContentInv

LEMMA StepContent ==
  ASSUME FileInv, [FileNext]_fileVars
  PROVE  FileInv'
<1> USE DEF contentVars, deviceVars, serverVars
<1>1. TypeInv'
  BY StepTyped DEF FileInv
<1> USE DEF FileInv, ContentInv, DiskIsPrefixOverOld, InStep, StopsOnlyAtWord
<1>2. CASE Ask
  <2>1. device = "idle" /\ device' \in {"select", "idle"}
    BY <1>2 DEF Ask, Tell
  <2> QED
    BY <1>1, <1>2, <2>1 DEF Ask
<1>3. CASE Quit
  BY <1>1, <1>3 DEF Quit
<1>4. CASE Choose
  <2>1. device = "select" /\ device' \in {"header", "idle"}
    BY <1>4 DEF Choose, Tell
  <2> QED
    BY <1>1, <1>4, <2>1 DEF Choose
<1>5. CASE Serve
  BY <1>1, <1>5 DEF Serve
<1>6. CASE SendOpen
  BY <1>1, <1>6 DEF SendOpen
<1>7. CASE SendHeader
  <2>1. ContentInv'
    BY <1>7, SendHeaderContent
  <2> QED
    BY <1>1, <2>1
<1>8. CASE SendChunk
  <2>1. ContentInv'
    BY <1>8, SendChunkContent
  <2> QED
    BY <1>1, <2>1
<1>9. CASE SendEnd
  BY <1>1, <1>9 DEF SendEnd
<1>10. CASE ServerEnds
  BY <1>1, <1>10 DEF ServerEnds
<1>11. CASE RecvHeader
  <2>1. ContentInv'
    BY <1>11, HeaderContent
  <2> QED
    BY <1>1, <2>1
<1>12. CASE RecvOpen
  BY <1>1, <1>12 DEF RecvOpen
<1>13. CASE RecvBody
  <2>1. ContentInv'
    BY <1>13, BodyContent
  <2> QED
    BY <1>1, <2>1
<1>14. CASE RecvEnd
  <2>1. ContentInv'
    BY <1>14, EndContent
  <2> QED
    BY <1>1, <2>1
<1>15. CASE RecvFails
  BY <1>1, <1>15 DEF RecvFails
<1>16. CASE ServeOther
  <2>1. UNCHANGED <<file, old, disk, device, opened, wrote, server, position>>
    BY <1>16 DEF ServeOther
  <2>2. CASE broken' = TRUE
    BY <1>1, <2>2
  <2>3. CASE UNCHANGED <<down, broken>>
    BY <1>1, <2>1, <2>3
  <2> QED
    BY <1>16, <2>2, <2>3 DEF ServeOther
<1>17. CASE UNCHANGED fileVars
  BY <1>1, <1>17 DEF fileVars
<1> QED
  BY <1>2, <1>3, <1>4, <1>5, <1>6, <1>7, <1>8, <1>9, <1>10, <1>11, <1>12, <1>13,
     <1>14, <1>15, <1>16, <1>17 DEF FileNext, User, Sender, Receiver

\* For a file of any length, however its bytes are split between reads, what the
\* device has written is the beginning of the file with what was there before
\* behind it (process_recv_data, msgprocess.c:1178-1220).
THEOREM WhatIsWrittenIsTheFile == FileSpec => []DiskIsPrefixOverOld
<1>1. FileInit => FileInv
  BY InitContent
<1>2. FileInv /\ [FileNext]_fileVars => FileInv'
  BY StepContent
<1>3. FileInv => DiskIsPrefixOverOld
  BY DEF FileInv, ContentInv
<1> QED
  BY <1>1, <1>2, <1>3, PTL DEF FileSpec

\* While its child lives a device takes no other end for the end of the file
\* than the word alone in a read (msgprocess.c:1197-1203).
THEOREM OnlyTheWordEnds == FileSpec => []StopsOnlyAtWord
<1>1. FileInit => FileInv
  BY InitContent
<1>2. FileInv /\ [FileNext]_fileVars => FileInv'
  BY StepContent
<1>3. FileInv => StopsOnlyAtWord
  BY DEF FileInv, ContentInv
<1> QED
  BY <1>1, <1>2, <1>3, PTL DEF FileSpec
=============================================================================
