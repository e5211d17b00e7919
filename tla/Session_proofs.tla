--------------------------- MODULE Session_proofs ---------------------------
(***************************************************************************)
(* Proofs about the sessions for every set of connections, every seeding   *)
(* of the list, every bound, with and without short reads.                 *)
(***************************************************************************)
EXTENDS Session, TLAPS

\* A request, or what a cut or a merge makes of one, is ignored, or opens the
\* node list, or ends the child.
LEMMA HandledStates ==
  ASSUME NEW m \in Request \cup Unaddressed
  PROVE  Handled(m) \subseteq {"recv", "open", "exit"}
<1>1. /\ m.type \in {"join", "list", "ignored"}
      /\ m.dest \in {"server", "other", "none"}
  BY DEF Request, Unaddressed, NoRequest
<1>2. QED
  BY <1>1 DEF Handled

\* Writing a slot at most one past the end gives a list of slots that is no
\* shorter and differs in that slot only.
LEMMA PutFacts ==
  ASSUME NEW file \in Seq(Slots), NEW i \in Nat \ {0}, NEW v \in Slots
  PROVE  /\ Put(file, i, v) \in Seq(Slots)
         /\ Len(Put(file, i, v)) = IF i <= Len(file) THEN Len(file)
                                   ELSE Len(file) + 1
         /\ \A j \in 1..Len(file) : j # i => Put(file, i, v)[j] = file[j]
<1>1. CASE i <= Len(file)
  <2>1. i \in 1..Len(file)
    BY <1>1
  <2>2. [file EXCEPT ![i] = v] \in Seq(Slots)
    BY <2>1
  <2>3. Len([file EXCEPT ![i] = v]) = Len(file)
    BY <2>1
  <2>4. QED
    BY <1>1, <2>2, <2>3 DEF Put
<1>2. CASE ~(i <= Len(file))
  BY <1>2 DEF Put
<1>3. QED
  BY <1>1, <1>2

\* A write at slot i leaves a list of slots that is no shorter and the same
\* before that slot.
Writes(new, file, i) ==
  /\ new \in Seq(Slots)
  /\ Len(new) >= Len(file)
  /\ \A j \in 1..Len(file) : j < i => new[j] = file[j]

LEMMA PutWrites ==
  ASSUME NEW file \in Seq(Slots), NEW i \in Nat \ {0}, NEW v \in Slots
  PROVE  Writes(Put(file, i, v), file, i)
<1>1. Len(file) \in Nat
  OBVIOUS
<1>2. /\ Put(file, i, v) \in Seq(Slots)
      /\ Len(Put(file, i, v)) >= Len(file)
  BY <1>1, PutFacts
<1>3. ASSUME NEW j \in 1..Len(file), j < i PROVE Put(file, i, v)[j] = file[j]
  <2>1. j # i
    BY <1>3
  <2>2. QED
    BY <2>1, PutFacts
<1>4. QED
  BY <1>2, <1>3 DEF Writes

LEMMA SpoilWrites ==
  ASSUME NEW file \in Seq(Slots), NEW i \in Nat \ {0}
  PROVE  Writes(Spoil(file, i), file, i)
<1>1. Text \in Slots /\ Part \in Slots
  BY DEF Slots
<1>2. PICK v \in Slots : Spoil(file, i) = Put(file, i, v)
  BY <1>1 DEF Spoil
<1>3. QED
  BY <1>2, PutWrites

LEMMA SpliceWrites ==
  ASSUME NEW file \in Seq(Slots), NEW i \in Nat \ {0}
  PROVE  Writes(Splice(file, i), file, i)
<1> DEFINE half == Put(file, i, Text)
<1>1. Text \in Slots
  BY DEF Slots
<1>2. Writes(half, file, i)
  BY <1>1, PutWrites
<1>3. half \in Seq(Slots) /\ Len(half) \in Nat /\ Len(file) \in Nat
  BY <1>2 DEF Writes
<1>4. Writes(Spoil(half, i + 1), half, i + 1)
  <2> HIDE DEF half
  <2>1. i + 1 \in Nat \ {0}
    OBVIOUS
  <2>2. QED
    BY <1>3, <2>1, SpoilWrites
<1>5. Writes(Spoil(half, i + 1), file, i)
  BY <1>2, <1>3, <1>4 DEF Writes
<1>6. QED
  BY <1>5 DEF Splice

\* What every one of the four ways to receive does.
Received(c) ==
  /\ pc[c] = "recv"
  /\ \E next \in {"recv", "open", "exit"} : pc' = [pc EXCEPT ![c] = next]
  /\ \E m \in Request \cup Unaddressed : req' = [req EXCEPT ![c] = m]
  /\ UNCHANGED <<envVars, list, peer, sent, found, offset, procVars, doneVars>>

LEMMA DispatchReceives ==
  ASSUME NEW c \in Conns, NEW m \in Request \cup Unaddressed,
         pc[c] = "recv", Dispatch(c, m)
  PROVE  Received(c)
<1>1. PICK next \in Handled(m) :
        /\ pc' = [pc EXCEPT ![c] = next]
        /\ req' = [req EXCEPT ![c] = IF next = "recv" THEN NoRequest ELSE m]
  BY DEF Dispatch
<1>2. next \in {"recv", "open", "exit"}
  BY HandledStates
<1>3. NoRequest \in Request
  BY DEF Request
<1>4. (IF next = "recv" THEN NoRequest ELSE m) \in Request \cup Unaddressed
  BY <1>3
<1>5. QED
  BY <1>1, <1>2, <1>4 DEF Received, Dispatch

LEMMA RecvReceives ==
  ASSUME SessionTypeOK, NEW c \in Conns, Recv(c)
  PROVE  /\ Received(c)
         /\ stream' \in [Conns -> Seq(Request)]
         /\ rest' \in [Conns -> BOOLEAN]
<1>1. stream \in [Conns -> Seq(Request)] /\ rest \in [Conns -> BOOLEAN]
  BY DEF SessionTypeOK
<1>2. stream[c] # <<>> =>
        Head(stream[c]) \in Request /\ Tail(stream[c]) \in Seq(Request)
  BY <1>1
<1>3. ASSUME RecvWhole(c) PROVE Received(c)
  BY <1>2, <1>3, DispatchReceives DEF RecvWhole
<1>4. ASSUME RecvCut(c) PROVE Received(c)
  <2>1. PICK m \in CutForms(Head(stream[c])) : Dispatch(c, m)
    BY <1>4 DEF RecvCut
  <2>2. Head(stream[c]) \in Request
    BY <1>2, <1>4 DEF RecvCut
  <2>3. m \in Request \cup Unaddressed
    BY <2>2 DEF CutForms, Request, Unaddressed, NoRequest
  <2>4. QED
    BY <1>4, <2>1, <2>3, DispatchReceives DEF RecvCut
<1>5. ASSUME RecvRest(c) PROVE Received(c)
  BY <1>5, DispatchReceives DEF RecvRest
<1>6. ASSUME RecvMerged(c) PROVE Received(c)
  BY <1>6, DispatchReceives DEF RecvMerged
<1>7. stream' \in [Conns -> Seq(Request)]
  BY <1>1, <1>2 DEF Recv, RecvWhole, RecvCut, RecvRest, RecvMerged
<1>8. rest' \in [Conns -> BOOLEAN]
  BY <1>1 DEF Recv, RecvWhole, RecvCut, RecvRest, RecvMerged
<1>9. QED
  BY <1>3, <1>4, <1>5, <1>6, <1>7, <1>8 DEF Recv

\* The end of a lookup leads to a join, to the listing or to the end.
LEMMA EndStates ==
  ASSUME NEW c \in Conns
  PROVE  AfterScan(c) \in {"seek", "catalog", "exit"}
<1>1. CASE req[c].type = "join"
  BY <1>1 DEF AfterScan
<1>2. CASE req[c].type # "join" /\ found[c]
  BY <1>2 DEF AfterScan
<1>3. CASE req[c].type # "join" /\ ~found[c]
  BY <1>3 DEF AfterScan
<1>4. QED
  BY <1>1, <1>2, <1>3

\* Where reading the end of the list and the line that is printed after it lead.
LEMMA ScanEnds ==
  ASSUME NEW c \in Conns
  PROVE  /\ ReadEnd(c) => \E next \in {"last", "seek", "catalog", "exit"} :
                            pc' = [pc EXCEPT ![c] = next]
         /\ PrintLast(c) => \E next \in {"seek", "catalog", "exit"} :
                              pc' = [pc EXCEPT ![c] = next]
<1>1. AfterScan(c) \in {"seek", "catalog", "exit"}
  BY EndStates
<1>2. QED
  BY <1>1 DEF ReadEnd, PrintLast

\* A write in a join ends with the report or with the child.
LEMMA WriteEnds ==
  ASSUME NEW c \in Conns, WriteNode(c) \/ WriteStdout(c)
  PROVE  /\ pc[c] \in {"write", "splice"}
         /\ \E next \in {"report", "exit"} : pc' = [pc EXCEPT ![c] = next]
         /\ UNCHANGED <<req, found, offset>>
         /\ UNCHANGED <<cwd, out, joins, lists>>
  BY DEF WriteNode, WriteStdout, Exit, procVars, doneVars

\* The list is changed by three system calls only, each of which writes where
\* its child stands in the list.
LEMMA ListWriters ==
  ASSUME SessionTypeOK, [SessionNext]_sessionVars
  PROVE  \/ UNCHANGED list
         \/ \E c \in Conns : /\ PrintNode(c) \/ PrintLast(c) \/ WriteNode(c)
                             /\ Writes(list', list, offset[c] + 1)
                             /\ Len(list') <= MaxSlots
<1>0. /\ list \in Seq(Slots) /\ Len(list) \in Nat /\ Len(list) <= MaxSlots
      /\ offset \in [Conns -> 0..MaxSlots] /\ MaxSlots \in Nat
      /\ Text \in Slots /\ Conns \subseteq Slots
  BY SessionAssumption DEF SessionAssumption, SessionTypeOK, Slots
<1>1. CASE UNCHANGED sessionVars
  BY <1>1 DEF sessionVars
<1>2. ASSUME NEW c \in Conns, Device(c) \/ \E s \in BOOLEAN : Start(c, s)
      PROVE  UNCHANGED list
  BY <1>2 DEF Device, Send, Hangup, Start
<1>3. ASSUME NEW c \in Conns, Recv(c) PROVE UNCHANGED list
  BY <1>3 DEF Recv, RecvWhole, RecvCut, RecvRest, RecvMerged, Dispatch
<1>4. ASSUME NEW c \in Conns,
             \/ RecvNothing(c) \/ Open(c) \/ ReadNode(c) \/ ReadAgain(c)
             \/ ReadEnd(c) \/ Seek(c) \/ WriteStdout(c) \/ Report(c)
             \/ Catalog(c) \/ Reply(c)
      PROVE  UNCHANGED list
  BY <1>4 DEF RecvNothing, Open, ReadNode, ReadAgain, ReadEnd, Seek, WriteStdout,
              Report, Catalog, Reply, sessionVars
<1>5. ASSUME NEW c \in Conns, PrintNode(c)
      PROVE  \/ UNCHANGED list
             \/ Writes(list', list, offset[c] + 1) /\ Len(list') <= MaxSlots
  <2>1. CASE offset[c] < MaxSlots /\ list' = Put(list, offset[c] + 1, Text)
    <3>1. offset[c] \in Nat /\ offset[c] + 1 \in Nat \ {0}
      BY <1>0
    <3>2. Writes(list', list, offset[c] + 1)
      BY <1>0, <2>1, <3>1, PutWrites
    <3>3. Len(list') = IF offset[c] + 1 <= Len(list) THEN Len(list) ELSE Len(list) + 1
      BY <1>0, <2>1, <3>1, PutFacts
    <3>4. QED
      BY <1>0, <2>1, <3>1, <3>2, <3>3
  <2>2. QED
    BY <1>5, <2>1 DEF PrintNode
<1>6. ASSUME NEW c \in Conns, PrintLast(c)
      PROVE  \/ UNCHANGED list
             \/ Writes(list', list, offset[c] + 1) /\ Len(list') <= MaxSlots
  <2>1. offset[c] + 1 \in Nat \ {0}
    BY <1>0
  <2>2. QED
    BY <1>0, <1>6, <2>1, SpoilWrites, SpliceWrites DEF PrintLast
<1>7. ASSUME NEW c \in Conns, WriteNode(c)
      PROVE  \/ UNCHANGED list
             \/ Writes(list', list, offset[c] + 1) /\ Len(list') <= MaxSlots
  <2>1. offset[c] + 1 \in Nat \ {0} /\ c \in Slots
    BY <1>0
  <2>2. CASE list' = WithRecord(c) /\ Len(list') <= MaxSlots
    BY <1>0, <2>1, <2>2, PutWrites, SpliceWrites DEF WithRecord
  <2>3. CASE list' \in WithPart(c) /\ Len(list') <= MaxSlots
    BY <1>0, <2>1, <2>3, PutWrites, SpoilWrites, SpliceWrites DEF WithPart
  <2>4. QED
    BY <1>7, <2>2, <2>3 DEF WriteNode
<1>8. QED
  BY <1>1, <1>2, <1>3, <1>4, <1>5, <1>6, <1>7 DEF SessionNext, Child

-----------------------------------------------------------------------------
(* Type correctness.                                                        *)

Pcs == {"off", "recv", "open", "scan", "print", "last", "seek", "write",
        "splice", "report", "catalog", "reply", "exit"}

LEMMA SessionInitTyped == SessionInit => SessionTypeOK
<1> SUFFICES ASSUME SessionInit PROVE SessionTypeOK
  OBVIOUS
<1> USE SessionAssumption DEF SessionAssumption, SessionInit
<1>1. list \in Seq(Slots) /\ Len(list) <= MaxSlots
  BY DEF Slots
<1>2. nodeDir \in BOOLEAN /\ dataDir \in BOOLEAN
  OBVIOUS
<1>3. /\ peer \in [Conns -> BOOLEAN] /\ rest \in [Conns -> BOOLEAN]
      /\ found \in [Conns -> BOOLEAN] /\ stale \in [Conns -> BOOLEAN]
  OBVIOUS
<1>4. sent \in 0..MaxSends /\ offset \in [Conns -> 0..MaxSlots]
  OBVIOUS
<1>5. stream \in [Conns -> Seq(Request)]
  OBVIOUS
<1>6. pc \in [Conns -> Pcs] /\ req \in [Conns -> Request \cup Unaddressed]
  BY DEF Pcs, Request
<1>7. /\ cwd \in [Conns -> {"root", "Data"}]
      /\ out \in [Conns -> {"stdout", "closed", "list", "Data"}]
      /\ joins \in [Conns -> Nat] /\ lists \in [Conns -> Nat]
  OBVIOUS
<1>8. QED
  BY <1>1, <1>2, <1>3, <1>4, <1>5, <1>6, <1>7 DEF SessionTypeOK, Pcs

LEMMA SessionTypeKept ==
  ASSUME SessionTypeOK, [SessionNext]_sessionVars
  PROVE  SessionTypeOK'
<1> USE SessionAssumption DEF SessionAssumption, SessionTypeOK
<1>0. NoRequest \in Request /\ Text \in Slots /\ Conns \subseteq Slots
  BY DEF Request, Slots
<1>1. ASSUME NEW c \in Conns, NEW s \in BOOLEAN, Start(c, s)
      PROVE  SessionTypeOK'
  BY <1>1 DEF Start, envVars, doneVars
<1>2. ASSUME NEW c \in Conns, NEW m \in Request, Send(c, m)
      PROVE  SessionTypeOK'
  BY <1>2 DEF Send, envVars, procVars, doneVars
<1>3. ASSUME NEW c \in Conns, Hangup(c) PROVE SessionTypeOK'
  BY <1>3 DEF Hangup, envVars, procVars, doneVars
<1>4. ASSUME NEW c \in Conns, Recv(c) PROVE SessionTypeOK'
  <2>1. Received(c) /\ stream' \in [Conns -> Seq(Request)]
                    /\ rest' \in [Conns -> BOOLEAN]
    BY <1>4, RecvReceives
  <2>2. QED
    <3>1. pc' \in [Conns -> Pcs]
      BY <2>1 DEF Received, Pcs
    <3>2. req' \in [Conns -> Request \cup Unaddressed]
      BY <2>1 DEF Received
    <3>3. UNCHANGED <<envVars, list, peer, sent, found, offset, procVars,
                      doneVars>>
      BY <2>1 DEF Received
    <3>4. QED
      BY <2>1, <3>1, <3>2, <3>3 DEF Pcs, envVars, procVars, doneVars
<1>5. ASSUME NEW c \in Conns, Open(c) PROVE SessionTypeOK'
  <2>1. pc' \in [Conns -> Pcs]
    <3>1. pc' = [pc EXCEPT ![c] = "scan"] \/ pc' = [pc EXCEPT ![c] = "exit"]
      BY <1>5 DEF Open
    <3>2. pc \in [Conns -> Pcs] /\ "scan" \in Pcs /\ "exit" \in Pcs
      BY DEF Pcs
    <3> HIDE SessionAssumption DEF SessionTypeOK, SessionAssumption
    <3> QED BY <1>5, <3>1, <3>2
  <2>2. out' \in [Conns -> {"stdout", "closed", "list", "Data"}]
    <3>1. out' = out \/ out' = [out EXCEPT ![c] = IF out[c] = "closed" THEN "list" ELSE out[c]]
      BY <1>5 DEF Open
    <3>2. out \in [Conns -> {"stdout", "closed", "list", "Data"}]
      OBVIOUS
    <3>3. (IF out[c] = "closed" THEN "list" ELSE out[c]) \in {"stdout", "closed", "list", "Data"}
      BY <3>2
    <3> HIDE SessionAssumption DEF SessionTypeOK, SessionAssumption
    <3> QED BY <1>5, <3>1, <3>2, <3>3
  <2>3. found' \in [Conns -> BOOLEAN] /\ offset' \in [Conns -> 0..MaxSlots]
    BY <1>5 DEF Open
  <2>4. UNCHANGED <<envVars, list, streamVars, req, cwd, stale, doneVars>>
    BY <1>5 DEF Open
  <2>5. QED
    BY <2>1, <2>2, <2>3, <2>4 DEF Pcs, envVars, streamVars, doneVars
<1>6. ASSUME NEW c \in Conns, ReadNode(c) PROVE SessionTypeOK'
  <2>1. offset' \in [Conns -> 0..MaxSlots]
    <3>1. offset[c] \in 0..MaxSlots /\ Len(list) \in Nat
      OBVIOUS
    <3>2. \E i \in (offset[c] + 1)..Len(list) : list[i] # Part
      BY <1>6 DEF ReadNode, AtEnd
    <3>3. offset[c] + 1 \in 0..MaxSlots
      BY <3>1, <3>2
    <3>4. QED
      BY <1>6, <3>3 DEF ReadNode
  <2>2. pc' \in [Conns -> Pcs] /\ found' \in [Conns -> BOOLEAN]
    BY <1>6 DEF ReadNode, Pcs
  <2>3. UNCHANGED <<envVars, list, streamVars, req, procVars, doneVars>>
    BY <1>6 DEF ReadNode
  <2>4. QED
    BY <2>1, <2>2, <2>3 DEF Pcs, envVars, streamVars, procVars, doneVars
\* A step that may write the list leaves one that the disk has room for.
<1>l. ASSUME NEW c \in Conns, PrintNode(c) \/ PrintLast(c) \/ WriteNode(c)
      PROVE  list' \in Seq(Slots) /\ Len(list') <= MaxSlots
  <2>1. SessionNext
    BY <1>l DEF SessionNext, Child
  <2>2. QED
    BY <2>1, ListWriters DEF Writes
<1>7. ASSUME NEW c \in Conns, PrintNode(c) PROVE SessionTypeOK'
  <2>1. list' \in Seq(Slots) /\ Len(list') <= MaxSlots
    BY <1>l, <1>7
  <2>2. offset' \in [Conns -> 0..MaxSlots]
    BY <1>7 DEF PrintNode
  <2>3. pc' \in [Conns -> Pcs]
    BY <1>7 DEF PrintNode, Pcs
  <2>4. UNCHANGED <<envVars, streamVars, req, found, procVars, doneVars>>
    BY <1>7 DEF PrintNode
  <2>5. QED
    BY <2>1, <2>2, <2>3, <2>4 DEF Pcs, envVars, streamVars, procVars, doneVars
<1>8. ASSUME NEW c \in Conns, ReadEnd(c) PROVE SessionTypeOK'
  <2>1. pc' \in [Conns -> Pcs]
    BY <1>8, ScanEnds DEF Pcs
  <2>2. UNCHANGED <<envVars, list, streamVars, req, found, offset, procVars,
                    doneVars>>
    BY <1>8 DEF ReadEnd
  <2>3. QED
    BY <2>1, <2>2 DEF Pcs, envVars, streamVars, procVars, doneVars
<1>p. ASSUME NEW c \in Conns, PrintLast(c) PROVE SessionTypeOK'
  <2>1. list' \in Seq(Slots) /\ Len(list') <= MaxSlots
    BY <1>l, <1>p
  <2>2. pc' \in [Conns -> Pcs]
    BY <1>p, ScanEnds DEF Pcs
  <2>3. out' \in [Conns -> {"stdout", "closed", "list", "Data"}]
    BY <1>p DEF PrintLast
  <2>4. UNCHANGED <<envVars, streamVars, req, found, offset, cwd, stale,
                    doneVars>>
    BY <1>p DEF PrintLast
  <2>5. QED
    BY <2>1, <2>2, <2>3, <2>4 DEF Pcs, envVars, streamVars, doneVars
<1>9. ASSUME NEW c \in Conns, Seek(c) PROVE SessionTypeOK'
  <2>1. offset' \in [Conns -> 0..MaxSlots] /\ pc' \in [Conns -> Pcs]
    <3>1. Len(list) \in 0..MaxSlots /\ (list # <<>> => Len(list) - 1 \in 0..MaxSlots)
      OBVIOUS
    <3>2. /\ \E next \in {"write", "splice"} : pc' = [pc EXCEPT ![c] = next]
          /\ \E n \in 0..MaxSlots : offset' = offset \/ offset' = [offset EXCEPT ![c] = n]
      BY <1>9, <3>1 DEF Seek, EndsInPart
    <3>3. pc' \in [Conns -> Pcs]
      BY <3>2 DEF Pcs
    <3>4. offset' \in [Conns -> 0..MaxSlots]
      BY <3>2
    <3>5. QED
      BY <3>3, <3>4
  <2>2. UNCHANGED <<envVars, list, streamVars, req, found, procVars, doneVars>>
    BY <1>9 DEF Seek
  <2>3. QED
    BY <2>1, <2>2 DEF Pcs, envVars, streamVars, procVars, doneVars
<1>10. ASSUME NEW c \in Conns, Return(c) \/ Exit(c)
       PROVE  /\ pc' \in [Conns -> Pcs]
              /\ req' \in [Conns -> Request \cup Unaddressed]
              /\ found' \in [Conns -> BOOLEAN]
              /\ offset' \in [Conns -> 0..MaxSlots]
  <2>1. CASE Return(c)
    <3>1. pc' \in [Conns -> Pcs] /\ found' \in [Conns -> BOOLEAN]
      BY <2>1 DEF Return, Pcs
    <3>2. req' \in [Conns -> Request \cup Unaddressed]
      BY <1>0, <2>1 DEF Return
    <3>3. offset' \in [Conns -> 0..MaxSlots]
      BY <2>1 DEF Return
    <3>4. QED
      BY <3>1, <3>2, <3>3
  <2>2. CASE Exit(c)
    BY <2>2 DEF Exit, Pcs
  <2>3. QED
    BY <1>10, <2>1, <2>2
<1>11. ASSUME NEW c \in Conns, WriteNode(c) \/ WriteStdout(c) PROVE SessionTypeOK'
  <2>1. list' \in Seq(Slots) /\ Len(list') <= MaxSlots
    <3>1. CASE WriteNode(c)
      BY <1>l, <3>1
    <3>2. CASE WriteStdout(c)
      BY <3>2 DEF WriteStdout
    <3>3. QED
      BY <1>11, <3>1, <3>2
  <2>2. PICK next \in {"report", "exit"} : pc' = [pc EXCEPT ![c] = next]
    BY <1>11, WriteEnds
  <2>3. UNCHANGED <<envVars, streamVars, procVars, doneVars>>
    BY <1>11 DEF WriteNode, WriteStdout
  <2>4. pc' \in [Conns -> Pcs]
    BY <2>2 DEF Pcs
  <2>5. UNCHANGED <<req, found, offset>>
    BY <1>11, WriteEnds
  <2>6. QED
    BY <2>1, <2>3, <2>4, <2>5 DEF Pcs, envVars, streamVars, procVars, doneVars
<1>12. ASSUME NEW c \in Conns, Report(c) PROVE SessionTypeOK'
  <2>1. Return(c)
    BY <1>12 DEF Report
  <2>2. joins' \in [Conns -> Nat]
    BY <1>12 DEF Report
  <2>3. out' \in [Conns -> {"stdout", "closed", "list", "Data"}]
    BY <1>12 DEF Report
  <2>4. UNCHANGED <<envVars, list, streamVars, cwd, stale, lists>>
    BY <1>12 DEF Report
  <2>5. QED
    BY <1>10, <2>1, <2>2, <2>3, <2>4 DEF Pcs, envVars, streamVars
<1>13. ASSUME NEW c \in Conns, Catalog(c) PROVE SessionTypeOK'
  BY <1>13 DEF Catalog, envVars, streamVars, doneVars
<1>14. ASSUME NEW c \in Conns, Reply(c) PROVE SessionTypeOK'
  <2>1. Return(c) \/ Exit(c)
    BY <1>14 DEF Reply
  <2>2. lists' \in [Conns -> Nat]
    <3>1. CASE lists' = [lists EXCEPT ![c] = @ + 1]
      BY <3>1
    <3>2. CASE UNCHANGED lists
      BY <3>2
    <3>3. QED
      BY <1>14, <3>1, <3>2 DEF Reply
  <2>3. UNCHANGED <<envVars, list, streamVars, procVars, joins>>
    BY <1>14 DEF Reply
  <2>4. QED
    BY <1>10, <2>1, <2>2, <2>3 DEF Pcs, envVars, streamVars, procVars
<1>15. ASSUME UNCHANGED sessionVars PROVE SessionTypeOK'
  BY <1>15 DEF sessionVars, envVars, streamVars, procVars, doneVars
<1>16. ASSUME NEW c \in Conns, RecvNothing(c) \/ ReadAgain(c)
       PROVE  SessionTypeOK'
  BY <1>15, <1>16 DEF RecvNothing, ReadAgain
<1>17. QED
  BY <1>1, <1>2, <1>3, <1>4, <1>5, <1>6, <1>7, <1>8, <1>p, <1>9, <1>11, <1>12,
     <1>13, <1>14, <1>15, <1>16 DEF SessionNext, Child, Device

\* The variables of the sessions keep their types; above all the offsets stay
\* within the list's bound and the list never grows past the disk.
THEOREM SessionTyping == SessionSafety => []SessionTypeOK
<1>1. QED
  BY SessionInitTyped, SessionTypeKept, PTL DEF SessionSafety
-----------------------------------------------------------------------------
-----------------------------------------------------------------------------
(* One list per connection.                                                 *)

\* A list has been sent only by a child that is in ./Data, and what lies
\* between opening the node list and listing ./Data happens in the directory
\* the server runs in.
SentFromData(d) ==
  /\ lists[d] <= 1
  /\ cwd[d] = "root" => lists[d] = 0
  /\ pc[d] \in {"scan", "print", "last", "seek", "write", "splice", "report",
                "catalog"} => cwd[d] = "root"
  /\ pc[d] = "reply" => lists[d] = 0 /\ cwd[d] = "Data"

SentInv == \A d \in Conns : SentFromData(d)

LEMMA SentInvKept ==
  ASSUME SessionTypeOK, SentInv, [SessionNext]_sessionVars
  PROVE  SentInv'
<1> SUFFICES ASSUME NEW d \in Conns PROVE SentFromData(d)'
  BY DEF SentInv
<1>0. /\ pc \in [Conns -> Pcs]
      /\ cwd \in [Conns -> {"root", "Data"}]
      /\ lists \in [Conns -> Nat]
  BY DEF SessionTypeOK, Pcs
<1>t. SentFromData(d) /\ \A e \in Conns : SentFromData(e)
  BY DEF SentInv
<1>1. ASSUME NEW c \in Conns, NEW s \in BOOLEAN, Start(c, s)
      PROVE  SentFromData(d)'
  BY <1>0, <1>t, <1>1 DEF Start, SentFromData, doneVars
<1>2. ASSUME NEW c \in Conns, Device(c) PROVE SentFromData(d)'
  BY <1>t, <1>2 DEF Device, Send, Hangup, SentFromData, procVars, doneVars
<1>3. ASSUME NEW c \in Conns, Recv(c) PROVE SentFromData(d)'
  <2>1. Received(c)
    BY <1>3, RecvReceives
  <2>2. QED
    BY <1>0, <1>t, <2>1 DEF Received, SentFromData, procVars, doneVars
<1>4. ASSUME NEW c \in Conns, Open(c) PROVE SentFromData(d)'
  BY <1>0, <1>t, <1>4 DEF Open, SentFromData, doneVars
<1>5. ASSUME NEW c \in Conns, ReadNode(c) PROVE SentFromData(d)'
  BY <1>0, <1>t, <1>5 DEF ReadNode, SentFromData, procVars, doneVars
<1>6. ASSUME NEW c \in Conns, PrintNode(c) PROVE SentFromData(d)'
  BY <1>0, <1>t, <1>6 DEF PrintNode, SentFromData, procVars, doneVars
<1>7. ASSUME NEW c \in Conns, ReadEnd(c) \/ PrintLast(c) PROVE SentFromData(d)'
  <2>1. pc[c] \in {"scan", "last"} /\ UNCHANGED <<cwd, doneVars>>
    BY <1>7 DEF ReadEnd, PrintLast, procVars
  <2>2. PICK next \in {"last", "seek", "catalog", "exit"} :
          pc' = [pc EXCEPT ![c] = next]
    BY <1>7, ScanEnds
  <2>3. QED
    BY <1>0, <1>t, <2>1, <2>2 DEF SentFromData, doneVars
<1>8. ASSUME NEW c \in Conns, Seek(c) PROVE SentFromData(d)'
  BY <1>0, <1>t, <1>8 DEF Seek, SentFromData, procVars, doneVars
<1>9. ASSUME NEW c \in Conns, WriteNode(c) \/ WriteStdout(c)
      PROVE  SentFromData(d)'
  <2>1. QED
    BY <1>0, <1>t, <1>9, WriteEnds DEF SentFromData
<1>r. ASSUME NEW c \in Conns, Report(c) PROVE SentFromData(d)'
  BY <1>0, <1>t, <1>r DEF Report, Return, SentFromData
<1>10. ASSUME NEW c \in Conns, Catalog(c) PROVE SentFromData(d)'
  <2>1. pc[c] = "catalog" /\ lists[c] = 0 /\ UNCHANGED lists
    BY <1>t, <1>10 DEF Catalog, SentFromData, doneVars
  <2>2. CASE /\ pc' = [pc EXCEPT ![c] = "reply"]
             /\ cwd' = [cwd EXCEPT ![c] = "Data"]
    BY <1>0, <1>t, <2>1, <2>2 DEF SentFromData
  <2>3. CASE pc' = [pc EXCEPT ![c] = "exit"] /\ UNCHANGED cwd
    BY <1>0, <1>t, <2>1, <2>3 DEF SentFromData
  <2>4. QED
    BY <1>10, <2>2, <2>3 DEF Catalog
<1>11. ASSUME NEW c \in Conns, Reply(c) PROVE SentFromData(d)'
  <2>1. pc[c] = "reply" /\ lists[c] = 0 /\ UNCHANGED cwd
    BY <1>t, <1>11 DEF Reply, SentFromData, procVars
  <2>2. cwd[c] = "Data"
    BY <1>0, <1>t, <2>1 DEF SentFromData
  <2>3. CASE /\ lists' = [lists EXCEPT ![c] = @ + 1]
             /\ pc' = [pc EXCEPT ![c] = "recv"]
    BY <1>0, <1>t, <2>1, <2>2, <2>3 DEF SentFromData
  <2>4. CASE pc' = [pc EXCEPT ![c] = "exit"] /\ UNCHANGED lists
    BY <1>0, <1>t, <2>1, <2>4 DEF SentFromData
  <2>5. QED
    BY <1>11, <2>3, <2>4 DEF Reply, Return, Exit
<1>12. ASSUME UNCHANGED sessionVars PROVE SentFromData(d)'
  BY <1>t, <1>12 DEF sessionVars, procVars, doneVars, SentFromData
<1>13. ASSUME NEW c \in Conns, RecvNothing(c) \/ ReadAgain(c)
       PROVE  SentFromData(d)'
  BY <1>12, <1>13 DEF RecvNothing, ReadAgain
<1>14. QED
  BY <1>1, <1>2, <1>3, <1>4, <1>5, <1>6, <1>7, <1>8, <1>9, <1>r, <1>10, <1>11,
     <1>12, <1>13 DEF SessionNext, Child

\* A connection is sent the list of data at most once, whatever the directories
\* hold and however requests are cut: the child never leaves ./Data.
THEOREM OneListPerConnection == SessionSafety => []ListSentOnce
<1>1. SessionInit => SentInv
  BY DEF SessionInit, SentInv, SentFromData
<1>2. SentInv => ListSentOnce
  BY DEF SentInv, SentFromData, ListSentOnce
<1>3. SessionTypeOK /\ SentInv /\ [SessionNext]_sessionVars => SentInv'
  BY SentInvKept
<1>4. QED
  BY <1>1, <1>2, <1>3, SessionTyping, PTL DEF SessionSafety
-----------------------------------------------------------------------------
(* One join per connection.                                                 *)

\* On a list main has seeded: no list read to its end is taken for an empty
\* one, so a join goes to descriptor 1, and it is done only where descriptor 1
\* was never closed.
JoinedThroughStdout(d) ==
  /\ joins[d] <= 1
  /\ out[d] = "stdout" => joins[d] = 0
  /\ pc[d] = "scan" /\ offset[d] > 0 => found[d]
  /\ pc[d] \in {"print", "last", "seek", "write", "report"} => found[d]
  /\ pc[d] \in {"print", "last"} => offset[d] > 0
  /\ pc[d] # "splice"
  /\ pc[d] = "report" => out[d] = "stdout"

JoinInv ==
  Seeds # <<>> => /\ list # <<>> /\ list[1] = "server"
                  /\ \A d \in Conns : JoinedThroughStdout(d)

\* A child never takes a list whose first slot is a record for an empty one.
LEMMA EndBehindFirst ==
  ASSUME SessionTypeOK, NEW c \in Conns, AtEnd(c), list # <<>>, list[1] # Part
  PROVE  offset[c] > 0
<1>1. list \in Seq(Slots) /\ offset[c] \in Nat
  BY SessionAssumption DEF SessionAssumption, SessionTypeOK
<1>2. Len(list) \in Nat /\ Len(list) > 0
  BY <1>1
<1>3. offset[c] = 0 => list[1] = Part
  BY <1>1, <1>2 DEF AtEnd
<1>4. QED
  BY <1>1, <1>3

\* No join writes to a seeded list.
LEMMA NoRecordWritten ==
  ASSUME JoinInv, Seeds # <<>>, NEW c \in Conns, WriteNode(c)
  PROVE  FALSE
BY DEF WriteNode, JoinInv, JoinedThroughStdout

LEMMA FirstKept ==
  ASSUME SessionTypeOK, JoinInv, [SessionNext]_sessionVars, Seeds # <<>>
  PROVE  list' # <<>> /\ list'[1] = list[1]
<1>0. /\ list \in Seq(Slots) /\ Len(list) \in Nat /\ Len(list) > 0
      /\ offset \in [Conns -> 0..MaxSlots] /\ MaxSlots \in Nat
  BY SessionAssumption DEF SessionAssumption, SessionTypeOK, JoinInv
<1>1. CASE UNCHANGED list
  BY <1>0, <1>1
<1>2. ASSUME NEW c \in Conns, PrintNode(c) \/ PrintLast(c),
             Writes(list', list, offset[c] + 1)
      PROVE  list' # <<>> /\ list'[1] = list[1]
  <2>1. offset[c] > 0
    BY <1>2 DEF PrintNode, PrintLast, JoinInv, JoinedThroughStdout
  <2>2. 1 \in 1..Len(list) /\ 1 < offset[c] + 1
    BY <1>0, <2>1
  <2>3. QED
    BY <1>0, <1>2, <2>2 DEF Writes
<1>3. QED
  BY <1>1, <1>2, ListWriters, NoRecordWritten

LEMMA JoinInvKept ==
  ASSUME SessionTypeOK, JoinInv, [SessionNext]_sessionVars
  PROVE  JoinInv'
<1> SUFFICES ASSUME Seeds # <<>>, NEW d \in Conns
             PROVE  JoinedThroughStdout(d)'
  BY FirstKept DEF JoinInv
<1>0. /\ pc \in [Conns -> Pcs]
      /\ found \in [Conns -> BOOLEAN]
      /\ offset \in [Conns -> 0..MaxSlots] /\ MaxSlots \in Nat
      /\ out \in [Conns -> {"stdout", "closed", "list", "Data"}]
      /\ joins \in [Conns -> Nat]
  BY SessionAssumption DEF SessionAssumption, SessionTypeOK, Pcs
<1>t. /\ list # <<>> /\ list[1] # Part
      /\ \A e \in Conns : JoinedThroughStdout(e)
  BY SessionAssumption DEF SessionAssumption, JoinInv
<1>d. JoinedThroughStdout(d)
  BY <1>t
<1>1. ASSUME NEW c \in Conns, NEW s \in BOOLEAN, Start(c, s)
      PROVE  JoinedThroughStdout(d)'
  BY <1>0, <1>d, <1>1 DEF Start, JoinedThroughStdout, doneVars
<1>2. ASSUME NEW c \in Conns, Device(c) PROVE JoinedThroughStdout(d)'
  BY <1>d, <1>2 DEF Device, Send, Hangup, JoinedThroughStdout, procVars,
                    doneVars
<1>3. ASSUME NEW c \in Conns, Recv(c) PROVE JoinedThroughStdout(d)'
  <2>1. Received(c)
    BY <1>3, RecvReceives
  <2>2. QED
    BY <1>0, <1>d, <2>1 DEF Received, JoinedThroughStdout, procVars, doneVars
<1>4. ASSUME NEW c \in Conns, Open(c) PROVE JoinedThroughStdout(d)'
  <2>1. /\ pc[c] = "open"
        /\ \E next \in {"scan", "exit"} : pc' = [pc EXCEPT ![c] = next]
        /\ offset' = [offset EXCEPT ![c] = 0]
        /\ found' = [found EXCEPT ![c] = FALSE]
        /\ UNCHANGED joins
    BY <1>4 DEF Open, doneVars
  <2>2. /\ out'[d] = "stdout" <=> out[d] = "stdout"
    BY <1>0, <1>4 DEF Open
  <2>3. QED
    BY <1>0, <1>d, <2>1, <2>2 DEF JoinedThroughStdout
<1>5. ASSUME NEW c \in Conns, ReadNode(c) PROVE JoinedThroughStdout(d)'
  BY <1>0, <1>d, <1>5 DEF ReadNode, JoinedThroughStdout, procVars, doneVars
<1>6. ASSUME NEW c \in Conns, PrintNode(c) PROVE JoinedThroughStdout(d)'
  <2>1. /\ pc[c] = "print" /\ pc' = [pc EXCEPT ![c] = "scan"]
        /\ \A e \in Conns \ {c} : offset'[e] = offset[e]
        /\ UNCHANGED <<found, out, joins>>
    BY <1>0, <1>6 DEF PrintNode, procVars, doneVars
  <2>2. found[c]
    BY <1>t, <2>1 DEF JoinedThroughStdout
  <2>3. QED
    BY <1>0, <1>d, <2>1, <2>2 DEF JoinedThroughStdout
<1>7. ASSUME NEW c \in Conns, ReadEnd(c) PROVE JoinedThroughStdout(d)'
  <2>1. pc[c] = "scan" /\ UNCHANGED <<found, offset, out, joins>>
    BY <1>7 DEF ReadEnd, procVars, doneVars
  <2>2. offset[c] > 0
    BY <1>t, <1>7, EndBehindFirst DEF ReadEnd
  <2>3. found[c]
    BY <1>t, <2>1, <2>2 DEF JoinedThroughStdout
  <2>4. PICK next \in {"last", "seek", "catalog", "exit"} :
          pc' = [pc EXCEPT ![c] = next]
    BY <1>7, ScanEnds
  <2>5. QED
    BY <1>0, <1>d, <2>1, <2>2, <2>3, <2>4 DEF JoinedThroughStdout
<1>p. ASSUME NEW c \in Conns, PrintLast(c) PROVE JoinedThroughStdout(d)'
  <2>1. pc[c] = "last" /\ UNCHANGED <<found, offset, joins>>
    BY <1>p DEF PrintLast, doneVars
  <2>2. found[c]
    BY <1>t, <2>1 DEF JoinedThroughStdout
  <2>3. PICK next \in {"seek", "catalog", "exit"} :
          pc' = [pc EXCEPT ![c] = next]
    BY <1>p, ScanEnds
  <2>4. /\ \A e \in Conns \ {c} : out'[e] = out[e]
        /\ out'[c] = "stdout" => out[c] = "stdout"
    BY <1>0, <1>p DEF PrintLast
  <2>5. QED
    BY <1>0, <1>d, <2>1, <2>2, <2>3, <2>4 DEF JoinedThroughStdout
<1>8. ASSUME NEW c \in Conns, Seek(c) PROVE JoinedThroughStdout(d)'
  <2>1. pc[c] = "seek" /\ found[c]
    BY <1>t, <1>8 DEF Seek, JoinedThroughStdout
  <2>2. pc' = [pc EXCEPT ![c] = "write"] /\ UNCHANGED <<found, offset, out, joins>>
    BY <1>8, <2>1 DEF Seek, procVars, doneVars
  <2>3. QED
    BY <1>0, <1>d, <2>1, <2>2 DEF JoinedThroughStdout
<1>9. ASSUME NEW c \in Conns, WriteStdout(c) PROVE JoinedThroughStdout(d)'
  <2>1. found[c] /\ UNCHANGED <<found, offset, out, joins>>
    BY <1>9, WriteEnds DEF WriteStdout
  <2>2. \/ pc' = [pc EXCEPT ![c] = "report"] /\ out[c] = "stdout"
        \/ pc' = [pc EXCEPT ![c] = "exit"]
    BY <1>9 DEF WriteStdout, Exit
  <2>3. QED
    BY <1>0, <1>d, <2>1, <2>2 DEF JoinedThroughStdout
<1>10. ASSUME NEW c \in Conns, Report(c) PROVE JoinedThroughStdout(d)'
  <2>1. found[c] /\ joins[c] = 0
    BY <1>t, <1>10 DEF Report, JoinedThroughStdout
  <2>2. /\ pc' = [pc EXCEPT ![c] = "recv"]
        /\ found' = [found EXCEPT ![c] = FALSE]
        /\ offset' = [offset EXCEPT ![c] = 0]
        /\ joins' = [joins EXCEPT ![c] = @ + 1]
        /\ out' = [out EXCEPT ![c] = "closed"]
    BY <1>10, <2>1 DEF Report, Return
  <2>3. QED
    BY <1>0, <1>d, <2>1, <2>2 DEF JoinedThroughStdout
<1>11. ASSUME NEW c \in Conns, Catalog(c) PROVE JoinedThroughStdout(d)'
  <2>1. /\ pc[c] = "catalog"
        /\ \E next \in {"reply", "exit"} : pc' = [pc EXCEPT ![c] = next]
        /\ UNCHANGED <<found, offset, joins>>
    BY <1>11 DEF Catalog, doneVars
  <2>2. out'[d] = "stdout" <=> out[d] = "stdout"
    BY <1>0, <1>11 DEF Catalog
  <2>3. QED
    BY <1>0, <1>d, <2>1, <2>2 DEF JoinedThroughStdout
<1>12. ASSUME NEW c \in Conns, Reply(c) PROVE JoinedThroughStdout(d)'
  <2>1. UNCHANGED <<out, joins>>
    BY <1>12 DEF Reply, procVars
  <2>2. CASE Return(c)
    BY <1>0, <1>d, <2>1, <2>2 DEF Return, JoinedThroughStdout
  <2>3. CASE Exit(c)
    BY <1>0, <1>d, <2>1, <2>3 DEF Exit, JoinedThroughStdout
  <2>4. QED
    BY <1>12, <2>2, <2>3 DEF Reply
<1>13. ASSUME UNCHANGED sessionVars PROVE JoinedThroughStdout(d)'
  BY <1>d, <1>13 DEF sessionVars, procVars, doneVars, JoinedThroughStdout
<1>14. ASSUME NEW c \in Conns, RecvNothing(c) \/ ReadAgain(c)
       PROVE  JoinedThroughStdout(d)'
  BY <1>13, <1>14 DEF RecvNothing, ReadAgain
<1>15. QED
  BY <1>1, <1>2, <1>3, <1>4, <1>5, <1>6, <1>7, <1>p, <1>8, <1>9, <1>10, <1>11,
     <1>12, <1>13, <1>14, NoRecordWritten DEF SessionNext, Child

LEMMA JoinInvInit == SessionInit => JoinInv
<1> SUFFICES ASSUME SessionInit, Seeds # <<>>
             PROVE  /\ list # <<>> /\ list[1] = "server"
                    /\ \A d \in Conns : JoinedThroughStdout(d)
  BY DEF JoinInv
<1>1. list # <<>> /\ list \in Seq({"server"})
  BY SessionAssumption DEF SessionAssumption, SessionInit
<1>2. list[1] = "server"
  BY <1>1
<1>3. \A d \in Conns : JoinedThroughStdout(d)
  BY DEF SessionInit, JoinedThroughStdout
<1>4. QED
  BY <1>1, <1>2, <1>3

\* On a seeded list a connection has at most one join acknowledged, for any
\* number of connections and with anything in between: the first one closes
\* descriptor 1.
THEOREM OneJoinPerConnection == SessionSafety => []JoinAcknowledgedOnce
<1>1. JoinInv => JoinAcknowledgedOnce
  BY DEF JoinInv, JoinedThroughStdout, JoinAcknowledgedOnce
<1>2. SessionTypeOK /\ JoinInv /\ [SessionNext]_sessionVars => JoinInv'
  BY JoinInvKept
<1>3. QED
  BY <1>1, <1>2, JoinInvInit, SessionTyping, PTL DEF SessionSafety
-----------------------------------------------------------------------------
(* What happens to the shared list and to descriptor 1.                     *)

\* No child takes a slot from the list, however many write to it at once.
THEOREM NoSlotLost == SessionSafety => ListNeverShrinks
<1>1. ASSUME SessionTypeOK, [SessionNext]_sessionVars
      PROVE  Len(list') >= Len(list)
  <2>1. Len(list) \in Nat
    BY DEF SessionTypeOK
  <2>2. QED
    BY <1>1, <2>1, ListWriters DEF Writes
<1>2. SessionTypeOK /\ [SessionNext]_sessionVars
        => [Len(list') >= Len(list)]_list
  BY <1>1
<1>3. QED
  BY <1>2, SessionTyping, PTL DEF SessionSafety, ListNeverShrinks

\* The record main writes first stays where it is for as long as the server
\* runs, on a list of any length.
THEOREM FirstRecordSurvives == SessionSafety => FirstRecordKept
<1>1. SessionTypeOK /\ JoinInv /\ [SessionNext]_sessionVars => JoinInv'
  BY JoinInvKept
<1>2. SessionTypeOK /\ JoinInv /\ [SessionNext]_sessionVars
        => [Seeds # <<>> => list'[1] = list[1]]_list
  BY FirstKept
<1>3. QED
  BY <1>1, <1>2, JoinInvInit, SessionTyping, PTL DEF SessionSafety, FirstRecordKept

LEMMA OutWriters ==
  ASSUME SessionTypeOK, [SessionNext]_sessionVars
  PROVE  \/ UNCHANGED out
         \/ \E c \in Conns, v \in {"closed", "list", "Data"} :
              out' \in {out, [out EXCEPT ![c] = v]}
<1>0. out \in [Conns -> {"stdout", "closed", "list", "Data"}]
  BY DEF SessionTypeOK
<1>1. CASE UNCHANGED sessionVars
  BY <1>1 DEF sessionVars, procVars
<1>2. ASSUME NEW c \in Conns, Device(c) \/ \E s \in BOOLEAN : Start(c, s)
      PROVE  UNCHANGED out
  BY <1>2 DEF Device, Send, Hangup, Start, procVars
<1>3. ASSUME NEW c \in Conns, Recv(c) PROVE UNCHANGED out
  BY <1>3 DEF Recv, RecvWhole, RecvCut, RecvRest, RecvMerged, Dispatch, procVars
<1>4. ASSUME NEW c \in Conns,
             \/ RecvNothing(c) \/ ReadNode(c) \/ PrintNode(c) \/ ReadAgain(c)
             \/ ReadEnd(c) \/ Seek(c) \/ WriteNode(c) \/ WriteStdout(c) \/ Reply(c)
      PROVE  UNCHANGED out
  BY <1>4 DEF RecvNothing, ReadNode, PrintNode, ReadAgain, ReadEnd, Seek,
              WriteNode, WriteStdout, Reply, sessionVars, procVars
<1>5. ASSUME NEW c \in Conns, Open(c) PROVE out' \in {out, [out EXCEPT ![c] = "list"]}
  BY <1>0, <1>5 DEF Open
<1>6. ASSUME NEW c \in Conns, PrintLast(c) \/ Report(c)
      PROVE  out' \in {out, [out EXCEPT ![c] = "closed"]}
  BY <1>0, <1>6 DEF PrintLast, Report
<1>7. ASSUME NEW c \in Conns, Catalog(c)
      PROVE  out' \in {out, [out EXCEPT ![c] = "Data"]}
  BY <1>0, <1>7 DEF Catalog
<1>8. QED
  BY <1>1, <1>2, <1>3, <1>4, <1>5, <1>6, <1>7 DEF SessionNext, Child

\* A child that has lost its standard output does not get it back, whatever
\* takes the place of descriptor 1.
THEOREM StdoutNotGivenBack == SessionSafety => StdoutLostForGood
<1>1. ASSUME SessionTypeOK, [SessionNext]_sessionVars,
             NEW d \in Conns, out[d] # "stdout"
      PROVE  out'[d] # "stdout"
  BY <1>1, OutWriters DEF SessionTypeOK
<1>2. SessionTypeOK /\ [SessionNext]_sessionVars
        => [\A c \in Conns : out[c] # "stdout" /\ pc[c] # "off"
                               => out'[c] # "stdout"]_out
  BY <1>1
<1>3. QED
  BY <1>2, SessionTyping, PTL DEF SessionSafety, StdoutLostForGood

\* Standard output is lost to an acknowledged join only, and a line is printed
\* into the list only where the list has taken its place.
PrintsWhereLost(d) ==
  /\ out[d] # "stdout" => joins[d] > 0
  /\ pc[d] \in {"print", "last"} => PrintsToList(d)

PrintInv == \A d \in Conns : PrintsWhereLost(d)

LEMMA PrintInvKept ==
  ASSUME SessionTypeOK, PrintInv, [SessionNext]_sessionVars
  PROVE  PrintInv'
<1> SUFFICES ASSUME NEW d \in Conns PROVE PrintsWhereLost(d)'
  BY DEF PrintInv
<1> USE DEF PrintsWhereLost, PrintsToList
<1>0. /\ pc \in [Conns -> Pcs]
      /\ out \in [Conns -> {"stdout", "closed", "list", "Data"}]
      /\ joins \in [Conns -> Nat]
  BY DEF SessionTypeOK, Pcs
<1>t. \A e \in Conns : PrintsWhereLost(e)
  BY DEF PrintInv
<1>1. ASSUME NEW c \in Conns, NEW s \in BOOLEAN, Start(c, s)
      PROVE  PrintsWhereLost(d)'
  BY <1>0, <1>t, <1>1 DEF Start, doneVars
<1>2. ASSUME NEW c \in Conns, Device(c) PROVE PrintsWhereLost(d)'
  BY <1>t, <1>2 DEF Device, Send, Hangup, procVars, doneVars
<1>3. ASSUME NEW c \in Conns, Recv(c) PROVE PrintsWhereLost(d)'
  <2>1. Received(c)
    BY <1>3, RecvReceives
  <2>2. QED
    BY <1>0, <1>t, <2>1 DEF Received, procVars, doneVars
<1>4. ASSUME NEW c \in Conns, Open(c) PROVE PrintsWhereLost(d)'
  <2>1. /\ pc[c] = "open" /\ UNCHANGED joins
        /\ \E next \in {"scan", "exit"} : pc' = [pc EXCEPT ![c] = next]
        /\ \A e \in Conns \ {c} : out'[e] = out[e]
        /\ out[c] = "stdout" => out'[c] = "stdout"
    BY <1>0, <1>4 DEF Open, doneVars
  <2>2. QED
    BY <1>0, <1>t, <2>1
<1>5. ASSUME NEW c \in Conns, ReadNode(c) PROVE PrintsWhereLost(d)'
  <2>1. /\ UNCHANGED <<out, joins>>
        /\ pc' = [pc EXCEPT ![c] = IF PrintsToList(c) THEN "print" ELSE "scan"]
    BY <1>5 DEF ReadNode, procVars, doneVars
  <2>2. QED
    BY <1>0, <1>t, <2>1
<1>6. ASSUME NEW c \in Conns, PrintNode(c) \/ Seek(c)
      PROVE  PrintsWhereLost(d)'
  <2>1. /\ UNCHANGED <<out, joins>>
        /\ \E next \in {"scan", "write", "splice"} : pc' = [pc EXCEPT ![c] = next]
    BY <1>6 DEF PrintNode, Seek, procVars, doneVars
  <2>2. QED
    BY <1>0, <1>t, <2>1
<1>7. ASSUME NEW c \in Conns, ReadEnd(c) PROVE PrintsWhereLost(d)'
  <2>1. AfterScan(c) \in {"seek", "catalog", "exit"}
    BY EndStates
  <2>2. /\ UNCHANGED <<out, joins>>
        /\ pc' = [pc EXCEPT ![c] = IF PrintsToList(c) THEN "last" ELSE AfterScan(c)]
    BY <1>7 DEF ReadEnd, procVars, doneVars
  <2>3. QED
    BY <1>0, <1>t, <2>1, <2>2
<1>p. ASSUME NEW c \in Conns, PrintLast(c) PROVE PrintsWhereLost(d)'
  <2>1. /\ pc[c] = "last" /\ UNCHANGED joins
        /\ \A e \in Conns \ {c} : out'[e] = out[e]
    BY <1>0, <1>p DEF PrintLast, doneVars
  <2>2. joins[c] > 0
    BY <1>t, <2>1
  <2>3. PICK next \in {"seek", "catalog", "exit"} :
          pc' = [pc EXCEPT ![c] = next]
    BY <1>p, ScanEnds
  <2>4. QED
    BY <1>0, <1>t, <2>1, <2>2, <2>3
<1>8. ASSUME NEW c \in Conns, WriteNode(c) \/ WriteStdout(c)
      PROVE  PrintsWhereLost(d)'
  BY <1>0, <1>t, <1>8, WriteEnds
<1>r. ASSUME NEW c \in Conns, Report(c) PROVE PrintsWhereLost(d)'
  <2>1. /\ pc' = [pc EXCEPT ![c] = "recv"]
        /\ joins' = [joins EXCEPT ![c] = @ + 1]
        /\ \A e \in Conns \ {c} : out'[e] = out[e]
    BY <1>0, <1>r DEF Report, Return
  <2>2. QED
    BY <1>0, <1>t, <2>1
<1>9. ASSUME NEW c \in Conns, Catalog(c) PROVE PrintsWhereLost(d)'
  <2>1. /\ pc[c] = "catalog" /\ UNCHANGED joins
        /\ \E next \in {"reply", "exit"} : pc' = [pc EXCEPT ![c] = next]
        /\ \A e \in Conns \ {c} : out'[e] = out[e]
        /\ out[c] = "stdout" => out'[c] = "stdout"
    BY <1>0, <1>9 DEF Catalog, doneVars
  <2>2. QED
    BY <1>0, <1>t, <2>1
<1>10. ASSUME NEW c \in Conns, Reply(c) PROVE PrintsWhereLost(d)'
  <2>1. /\ UNCHANGED <<out, joins>>
        /\ \E next \in {"recv", "exit"} : pc' = [pc EXCEPT ![c] = next]
    BY <1>10 DEF Reply, Return, Exit, procVars
  <2>2. QED
    BY <1>0, <1>t, <2>1
<1>11. ASSUME UNCHANGED sessionVars PROVE PrintsWhereLost(d)'
  BY <1>t, <1>11 DEF sessionVars, procVars, doneVars
<1>12. ASSUME NEW c \in Conns, RecvNothing(c) \/ ReadAgain(c)
       PROVE  PrintsWhereLost(d)'
  BY <1>11, <1>12 DEF RecvNothing, ReadAgain
<1>13. QED
  BY <1>1, <1>2, <1>3, <1>4, <1>5, <1>6, <1>7, <1>p, <1>8, <1>r, <1>9, <1>10,
     <1>11, <1>12 DEF SessionNext, Child

LEMMA ChangeFromPrint ==
  ASSUME SessionTypeOK, JoinInv, PrintInv, [SessionNext]_sessionVars,
         Seeds # <<>>, list' # list
  PROVE  \E c \in Conns : joins[c] > 0 /\ out[c] = "list"
<1>1. PICK c \in Conns : PrintNode(c) \/ PrintLast(c)
  BY ListWriters, NoRecordWritten
<1>2. pc[c] \in {"print", "last"}
  BY <1>1 DEF PrintNode, PrintLast
<1>3. QED
  BY <1>2 DEF PrintsToList, PrintInv, PrintsWhereLost

\* No join changes a list that main has seeded: it takes a child that an
\* acknowledged join has cost its standard output, and its lines only.
THEOREM TextOnlyFromLostStdout == SessionSafety => TextNeedsLostStdout
<1>1. SessionInit => PrintInv
  BY DEF SessionInit, PrintInv, PrintsWhereLost
<1>2. SessionTypeOK /\ PrintInv /\ [SessionNext]_sessionVars => PrintInv'
  BY PrintInvKept
<1>3. SessionTypeOK /\ JoinInv /\ [SessionNext]_sessionVars => JoinInv'
  BY JoinInvKept
<1>4. SessionTypeOK /\ JoinInv /\ PrintInv /\ [SessionNext]_sessionVars
        => [Seeds # <<>> /\ list' # list
              => \E c \in Conns : joins[c] > 0 /\ out[c] = "list"]_list
  BY ChangeFromPrint
<1>5. QED
  BY <1>1, <1>2, <1>3, <1>4, JoinInvInit, SessionTyping, PTL
     DEF SessionSafety, TextNeedsLostStdout
-----------------------------------------------------------------------------
(* A join that is the only one.                                             *)

\* What a child has, as far as the others can tell: they do not change it.
Same(d) ==
  /\ pc'[d] = pc[d] /\ req'[d] = req[d]
  /\ found'[d] = found[d] /\ offset'[d] = offset[d]
  /\ cwd'[d] = cwd[d] /\ joins'[d] = joins[d] /\ lists'[d] = lists[d]

LEMMA OwnSteps ==
  ASSUME SessionTypeOK, [SessionNext]_sessionVars, NEW d \in Conns
  PROVE  Same(d) \/ Child(d) \/ \E s \in BOOLEAN : Start(d, s)
<1>0. /\ pc \in [Conns -> Pcs] /\ req \in [Conns -> Request \cup Unaddressed]
      /\ found \in [Conns -> BOOLEAN] /\ offset \in [Conns -> 0..MaxSlots]
      /\ cwd \in [Conns -> {"root", "Data"}]
      /\ joins \in [Conns -> Nat] /\ lists \in [Conns -> Nat]
  BY DEF SessionTypeOK, Pcs
<1>1. ASSUME NEW e \in Conns, Device(e) PROVE Same(d)
  BY <1>1 DEF Device, Send, Hangup, procVars, doneVars, Same
<1>2. ASSUME NEW e \in Conns, NEW s \in BOOLEAN, Start(e, s), e # d PROVE Same(d)
  BY <1>0, <1>2 DEF Start, doneVars, Same
<1>3. ASSUME NEW e \in Conns, Recv(e), e # d PROVE Same(d)
  <2>1. Received(e)
    BY <1>3, RecvReceives
  <2>2. QED
    BY <1>0, <1>3, <2>1 DEF Received, procVars, doneVars, Same
<1>4. ASSUME UNCHANGED sessionVars PROVE Same(d)
  BY <1>4 DEF sessionVars, procVars, doneVars, Same
<1>5. ASSUME NEW e \in Conns, RecvNothing(e) \/ ReadAgain(e) PROVE Same(d)
  BY <1>4, <1>5 DEF RecvNothing, ReadAgain
<1>6. ASSUME NEW e \in Conns, Open(e) \/ ReadNode(e) \/ PrintNode(e) \/ ReadEnd(e), e # d
      PROVE  Same(d)
  BY <1>0, <1>6 DEF Open, ReadNode, PrintNode, ReadEnd, procVars, doneVars, Same
<1>7. ASSUME NEW e \in Conns, PrintLast(e) \/ Seek(e) \/ WriteNode(e) \/ WriteStdout(e), e # d
      PROVE  Same(d)
  BY <1>0, <1>7 DEF PrintLast, Seek, WriteNode, WriteStdout, Exit, procVars, doneVars, Same
<1>8. ASSUME NEW e \in Conns, Report(e) \/ Catalog(e) \/ Reply(e), e # d PROVE Same(d)
  BY <1>0, <1>8 DEF Report, Catalog, Reply, Return, Exit, procVars, doneVars, Same
<1>9. QED
  BY <1>1, <1>2, <1>3, <1>4, <1>5, <1>6, <1>7, <1>8 DEF SessionNext, Child

\* A child that seeks, writes or reports does so for a join.
WritesForJoin(d) == pc[d] \in {"seek", "write", "splice", "report"} => req[d].type = "join"

WriteInv == \A d \in Conns : WritesForJoin(d)

LEMMA WriteInvKept ==
  ASSUME SessionTypeOK, WriteInv, [SessionNext]_sessionVars
  PROVE  WriteInv'
<1> SUFFICES ASSUME NEW d \in Conns PROVE WritesForJoin(d)'
  BY DEF WriteInv
<1>0. pc \in [Conns -> Pcs] /\ WritesForJoin(d)
  BY DEF SessionTypeOK, Pcs, WriteInv
<1> USE DEF WritesForJoin
<1>1. CASE Same(d)
  BY <1>0, <1>1 DEF Same
<1>2. ASSUME NEW s \in BOOLEAN, Start(d, s) PROVE WritesForJoin(d)'
  BY <1>0, <1>2 DEF Start
<1>3. CASE Recv(d)
  BY <1>0, <1>3, RecvReceives DEF Received
<1>4. CASE Open(d) \/ ReadNode(d) \/ PrintNode(d)
  BY <1>0, <1>4 DEF Open, ReadNode, PrintNode
<1>5. CASE ReadEnd(d) \/ PrintLast(d)
  <2>1. AfterScan(d) \in {"seek", "catalog", "exit"}
    BY EndStates
  <2>2. AfterScan(d) = "seek" => req[d].type = "join"
    BY DEF AfterScan
  <2>3. /\ pc'[d] \in {"last", AfterScan(d)} /\ req'[d] = req[d]
    BY <1>0, <1>5 DEF ReadEnd, PrintLast
  <2>4. QED
    BY <2>1, <2>2, <2>3
<1>6. CASE Seek(d)
  BY <1>0, <1>6 DEF Seek
<1>7. CASE WriteNode(d) \/ WriteStdout(d)
  BY <1>0, <1>7, WriteEnds
<1>8. CASE Report(d) \/ Catalog(d) \/ Reply(d)
  BY <1>0, <1>8 DEF Report, Catalog, Reply, Return, Exit
<1>9. CASE RecvNothing(d) \/ ReadAgain(d)
  BY <1>0, <1>9 DEF RecvNothing, ReadAgain, sessionVars
<1>10. QED
  BY <1>1, <1>2, <1>3, <1>4, <1>5, <1>6, <1>7, <1>8, <1>9, OwnSteps DEF Child

\* That a child may have written is never taken back.
LEMMA WrittenStays ==
  ASSUME SessionTypeOK, [SessionNext]_sessionVars, NEW d \in Conns, MayHaveWritten(d)
  PROVE  MayHaveWritten(d)'
<1>0. pc \in [Conns -> Pcs] /\ joins \in [Conns -> Nat]
  BY DEF SessionTypeOK, Pcs
<1> USE DEF MayHaveWritten
<1>1. CASE Same(d)
  BY <1>1 DEF Same
<1>2. ASSUME NEW s \in BOOLEAN, Start(d, s) PROVE MayHaveWritten(d)'
  BY <1>0, <1>2 DEF Start, doneVars
<1>3. CASE Recv(d)
  <2>1. pc[d] = "recv" /\ UNCHANGED joins
    BY <1>3, RecvReceives DEF Received, doneVars
  <2>2. QED
    BY <2>1
<1>4. CASE \/ Open(d) \/ ReadNode(d) \/ PrintNode(d) \/ ReadEnd(d) \/ PrintLast(d)
           \/ Seek(d) \/ WriteNode(d) \/ WriteStdout(d) \/ Catalog(d) \/ Reply(d)
  <2>1. pc[d] \notin {"report", "exit"} /\ UNCHANGED joins
    BY <1>4 DEF Open, ReadNode, PrintNode, ReadEnd, PrintLast, Seek, WriteNode,
                WriteStdout, Catalog, Reply, doneVars
  <2>2. QED
    BY <2>1
<1>5. CASE Report(d)
  BY <1>0, <1>5 DEF Report
<1>6. CASE RecvNothing(d) \/ ReadAgain(d)
  BY <1>6 DEF RecvNothing, ReadAgain, sessionVars, doneVars
<1>7. QED
  BY <1>1, <1>2, <1>3, <1>4, <1>5, <1>6, OwnSteps DEF Child

Lone(c) == \A d \in Conns \ {c} : ~MayHaveWritten(d)

\* While only c may have written, the list holds its record first, or nothing.
RecordedAlone(c) ==
  /\ ~MayHaveWritten(c) => list = <<>>
  /\ joins[c] > 0 \/ pc[c] = "report" => list # <<>> /\ list[1] = c

\* Where c is then: it has read a record only if its own is there, and before
\* that it is at the beginning of the list.
StandsAlone(c) ==
  /\ found[c] => joins[c] > 0
  /\ pc[c] \in {"seek", "write"} /\ ~found[c] => joins[c] = 0
  /\ pc[c] \in {"scan", "write"} /\ ~found[c] => offset[c] = 0
  /\ pc[c] \in {"print", "last"} => found[c] /\ offset[c] > 0
  /\ pc[c] # "splice"

LoneInv == Seeds = <<>> => \A c \in Conns : Lone(c) => RecordedAlone(c) /\ StandsAlone(c)

LEMMA LoneBefore ==
  ASSUME SessionTypeOK, [SessionNext]_sessionVars, NEW c \in Conns, Lone(c)'
  PROVE  Lone(c)
BY WrittenStays DEF Lone

\* A child other than c that comes to the end of a write may have written then,
\* and none of them prints into the list.
LEMMA OnlyWriter ==
  ASSUME SessionTypeOK, PrintInv, WriteInv, [SessionNext]_sessionVars,
         NEW c \in Conns, Lone(c), Lone(c)',
         NEW e \in Conns, PrintNode(e) \/ PrintLast(e) \/ WriteNode(e)
  PROVE  e = c
<1>0. pc \in [Conns -> Pcs]
  BY DEF SessionTypeOK, Pcs
<1>1. CASE PrintNode(e) \/ PrintLast(e)
  <2>1. joins[e] > 0
    BY <1>1 DEF PrintNode, PrintLast, PrintInv, PrintsWhereLost, PrintsToList
  <2>2. QED
    BY <2>1 DEF Lone, MayHaveWritten
<1>2. CASE WriteNode(e)
  <2>1. req'[e].type = "join"
    BY <1>2, WriteEnds DEF WriteInv, WritesForJoin
  <2>2. pc'[e] \in {"report", "exit"}
    BY <1>0, <1>2, WriteEnds
  <2>3. MayHaveWritten(e)'
    BY <2>1, <2>2 DEF MayHaveWritten
  <2>4. QED
    BY <2>3 DEF Lone
<1>3. QED
  BY <1>1, <1>2

LEMMA RecordedAloneKept ==
  ASSUME SessionTypeOK, PrintInv, WriteInv, [SessionNext]_sessionVars,
         NEW c \in Conns, Lone(c)', Lone(c), RecordedAlone(c), StandsAlone(c)
  PROVE  RecordedAlone(c)'
<1>0. /\ list \in Seq(Slots) /\ Len(list) \in Nat
      /\ offset \in [Conns -> 0..MaxSlots] /\ MaxSlots \in Nat
      /\ pc \in [Conns -> Pcs] /\ joins \in [Conns -> Nat]
  BY SessionAssumption DEF SessionAssumption, SessionTypeOK, Pcs
<1>a. ~MayHaveWritten(c)' => ~MayHaveWritten(c)
  BY WrittenStays
\* A step that begins with c's record in the list keeps it there.
<1>b. ASSUME joins[c] > 0 PROVE list' # <<>> /\ list'[1] = c
  <2>1. list # <<>> /\ list[1] = c
    BY <1>b DEF RecordedAlone
  <2>2. CASE UNCHANGED list
    BY <2>1, <2>2
  <2>3. ASSUME NEW e \in Conns, PrintNode(e) \/ PrintLast(e) \/ WriteNode(e),
               Writes(list', list, offset[e] + 1)
        PROVE  list' # <<>> /\ list'[1] = c
    <3>1. e = c
      BY <2>3, OnlyWriter
    <3>2. offset[c] > 0
      BY <1>0, <1>b, <2>3, <3>1 DEF PrintNode, PrintLast, WriteNode, StandsAlone
    <3>3. 1 \in 1..Len(list) /\ 1 < offset[c] + 1
      BY <1>0, <2>1, <3>2
    <3>4. QED
      BY <1>0, <2>1, <2>3, <3>1, <3>3 DEF Writes
  <2>4. QED
    BY <2>2, <2>3, ListWriters
\* Until c may have written, nobody has, and what changes that is its own write.
<1>c. ASSUME ~MayHaveWritten(c), list' # list
      PROVE  WriteNode(c) /\ joins[c] = 0 /\ UNCHANGED joins
  <2>1. list = <<>> /\ joins[c] = 0
    BY <1>0, <1>c DEF RecordedAlone, MayHaveWritten
  <2>2. PICK e \in Conns : PrintNode(e) \/ PrintLast(e) \/ WriteNode(e)
    BY <1>c, ListWriters
  <2>3. e = c
    BY <2>2, OnlyWriter
  <2>4. WriteNode(c)
    BY <2>1, <2>2, <2>3
       DEF PrintNode, PrintLast, PrintInv, PrintsWhereLost, PrintsToList
  <2>5. QED
    BY <2>1, <2>4, WriteEnds
<1>d. ASSUME ~MayHaveWritten(c)' PROVE list' = <<>>
  <2>1. list = <<>> /\ ~MayHaveWritten(c)
    BY <1>a, <1>d DEF RecordedAlone
  <2>2. ~WriteNode(c)
    <3>1. ASSUME WriteNode(c) PROVE FALSE
      <4>1. pc'[c] \in {"report", "exit"} /\ req'[c].type = "join"
        BY <1>0, <3>1, WriteEnds DEF WriteInv, WritesForJoin
      <4>2. QED
        BY <1>d, <4>1 DEF MayHaveWritten
    <3>2. QED
      BY <3>1
  <2>3. QED
    BY <1>c, <2>1, <2>2
<1>e. ASSUME joins'[c] > 0 \/ pc'[c] = "report", ~(joins[c] > 0)
      PROVE  list' # <<>> /\ list'[1] = c
  <2>1. CASE Same(c)
    <3>1. pc[c] = "report"
      BY <1>e, <2>1 DEF Same
    <3>2. list # <<>> /\ list[1] = c
      BY <3>1 DEF RecordedAlone
    <3>3. ASSUME NEW e \in Conns, PrintNode(e) \/ PrintLast(e) \/ WriteNode(e)
          PROVE  FALSE
      BY <3>1, <3>3, OnlyWriter, WriteEnds DEF PrintNode, PrintLast
    <3>4. UNCHANGED list
      BY <3>3, ListWriters
    <3>5. QED
      BY <3>2, <3>4
  <2>2. CASE Report(c)
    BY <2>2 DEF Report, RecordedAlone
  <2>3. CASE WriteNode(c)
    <3>1. /\ ~found[c] /\ pc[c] = "write" /\ offset[c] = 0
      BY <2>3 DEF WriteNode, StandsAlone
    <3>2. list = <<>>
      BY <1>e, <3>1 DEF RecordedAlone, MayHaveWritten
    <3>3. list' = WithRecord(c)
      BY <1>0, <1>e, <2>3 DEF WriteNode, Exit, doneVars
    <3>4. list' = Put(list, 1, c)
      BY <3>1, <3>3 DEF WithRecord
    <3>5. list' = Append(<<>>, c)
      BY <3>2, <3>4 DEF Put
    <3>6. QED
      BY <3>5
  <2>4. CASE WriteStdout(c)
    BY <1>e, <2>4 DEF WriteStdout, StandsAlone
  <2>5. CASE Recv(c)
    BY <1>0, <1>e, <2>5, RecvReceives DEF Received, doneVars
  <2>6. CASE ReadEnd(c) \/ PrintLast(c)
    BY <1>0, <1>e, <2>6, ScanEnds DEF ReadEnd, PrintLast, doneVars
  <2>7. ASSUME \/ Open(c) \/ ReadNode(c) \/ PrintNode(c) \/ Seek(c) \/ Catalog(c)
               \/ Reply(c) \/ \E s \in BOOLEAN : Start(c, s)
        PROVE  FALSE
    BY <1>0, <1>e, <2>7 DEF Open, ReadNode, PrintNode, Seek, Catalog, Reply, Return,
                            Exit, Start, doneVars
  <2>8. CASE RecvNothing(c) \/ ReadAgain(c)
    BY <1>e, <2>8, <2>1 DEF RecvNothing, ReadAgain, sessionVars, procVars, doneVars, Same
  <2>9. QED
    BY <2>1, <2>2, <2>3, <2>4, <2>5, <2>6, <2>7, <2>8, OwnSteps DEF Child
<1>f. QED
  BY <1>b, <1>d, <1>e DEF RecordedAlone

LEMMA StandsAloneKept ==
  ASSUME SessionTypeOK, PrintInv, [SessionNext]_sessionVars, NEW c \in Conns,
         RecordedAlone(c), StandsAlone(c)
  PROVE  StandsAlone(c)'
<1>0. /\ pc \in [Conns -> Pcs]
      /\ found \in [Conns -> BOOLEAN]
      /\ offset \in [Conns -> 0..MaxSlots] /\ MaxSlots \in Nat
      /\ joins \in [Conns -> Nat]
      /\ list \in Seq(Slots) /\ Len(list) \in Nat
  BY SessionAssumption DEF SessionAssumption, SessionTypeOK, Pcs
<1> USE DEF StandsAlone
\* Before it has joined it finds the list empty.
<1>e. ASSUME joins[c] = 0, pc[c] \in {"scan", "seek"} PROVE list = <<>> /\ Len(list) = 0
  BY <1>0, <1>e DEF RecordedAlone, MayHaveWritten
<1>r. joins[c] > 0 => list # <<>> /\ list[1] # Part
  BY SessionAssumption DEF SessionAssumption, RecordedAlone
<1>1. CASE Same(c)
  BY <1>1 DEF Same
<1>2. ASSUME NEW s \in BOOLEAN, Start(c, s) PROVE StandsAlone(c)'
  BY <1>0, <1>2 DEF Start, doneVars
<1>3. CASE Recv(c)
  BY <1>0, <1>3, RecvReceives DEF Received, doneVars
<1>4. CASE Open(c)
  BY <1>0, <1>4 DEF Open, doneVars
<1>5. CASE ReadNode(c)
  <2>1. /\ pc[c] = "scan" /\ ~AtEnd(c)
        /\ found' = [found EXCEPT ![c] = TRUE]
        /\ offset' = [offset EXCEPT ![c] = @ + 1]
        /\ \E next \in {"scan", "print"} : pc' = [pc EXCEPT ![c] = next]
        /\ UNCHANGED joins
    BY <1>5 DEF ReadNode, doneVars
  <2>2. joins[c] > 0
    BY <1>0, <1>e, <2>1 DEF AtEnd
  <2>3. QED
    BY <1>0, <2>1, <2>2
<1>6. CASE PrintNode(c)
  BY <1>0, <1>6 DEF PrintNode, doneVars
<1>7. CASE ReadEnd(c)
  <2>1. /\ pc[c] = "scan" /\ AtEnd(c)
        /\ pc' = [pc EXCEPT ![c] = IF PrintsToList(c) THEN "last" ELSE AfterScan(c)]
        /\ UNCHANGED <<found, offset, joins>>
    BY <1>7 DEF ReadEnd, doneVars
  <2>2. joins[c] > 0 => offset[c] > 0
    BY <1>r, <2>1, EndBehindFirst
  <2>3. PrintsToList(c) => joins[c] > 0
    BY DEF PrintsToList, PrintInv, PrintsWhereLost
  <2>4. ~found[c] => joins[c] = 0
    BY <1>0, <2>1, <2>2
  <2>5. AfterScan(c) \in {"seek", "catalog", "exit"}
    BY EndStates
  <2>6. QED
    BY <1>0, <2>1, <2>2, <2>3, <2>4, <2>5
<1>8. CASE PrintLast(c)
  <2>1. pc[c] = "last" /\ UNCHANGED <<found, offset, joins>>
    BY <1>8 DEF PrintLast, doneVars
  <2>2. QED
    BY <1>0, <1>8, <2>1, ScanEnds
<1>9. CASE Seek(c)
  <2>1. ~found[c] => list = <<>> /\ Len(list) = 0
    BY <1>0, <1>e, <1>9 DEF Seek
  <2>2. QED
    BY <1>0, <1>9, <2>1 DEF Seek, EndsInPart, doneVars
<1>10. CASE WriteNode(c) \/ WriteStdout(c)
  BY <1>0, <1>10, WriteEnds
<1>11. CASE Report(c)
  BY <1>0, <1>11 DEF Report, Return
<1>12. CASE Catalog(c)
  BY <1>0, <1>12 DEF Catalog, doneVars
<1>13. CASE Reply(c)
  BY <1>0, <1>13 DEF Reply, Return, Exit
<1>14. CASE RecvNothing(c) \/ ReadAgain(c)
  BY <1>14 DEF RecvNothing, ReadAgain, sessionVars, doneVars
<1>15. QED
  BY <1>1, <1>2, <1>3, <1>4, <1>5, <1>6, <1>7, <1>8, <1>9, <1>10, <1>11,
     <1>12, <1>13, <1>14, OwnSteps DEF Child

\* On a list that started empty, however many children read and seek at once and
\* wherever their other requests end, the only node that has been told of its
\* join is in the list as long as no other has come to the end of its write, or
\* been cut short in it: a record is lost to another join and to nothing else.
THEOREM LoneJoinStays == SessionSafety => []LoneJoinRecorded
<1>1. SessionInit => PrintInv /\ WriteInv
  BY DEF SessionInit, PrintInv, PrintsWhereLost, WriteInv, WritesForJoin
<1>2. SessionInit => LoneInv
  BY DEF SessionInit, LoneInv, RecordedAlone, StandsAlone, MayHaveWritten
<1>3. SessionTypeOK /\ PrintInv /\ [SessionNext]_sessionVars => PrintInv'
  BY PrintInvKept
<1>4. SessionTypeOK /\ WriteInv /\ [SessionNext]_sessionVars => WriteInv'
  BY WriteInvKept
<1>5. SessionTypeOK /\ PrintInv /\ WriteInv /\ LoneInv /\ [SessionNext]_sessionVars
        => LoneInv'
  BY LoneBefore, RecordedAloneKept, StandsAloneKept DEF LoneInv
<1>6. SessionTypeOK /\ LoneInv => LoneJoinRecorded
  <2>1. SUFFICES ASSUME SessionTypeOK, LoneInv, Seeds = <<>>, NEW c \in Conns,
                        joins[c] > 0, Lone(c)
                 PROVE  \E i \in 1..Len(list) : list[i] = c
    BY DEF LoneJoinRecorded, Lone
  <2>2. list # <<>> /\ list[1] = c
    BY <2>1 DEF LoneInv, RecordedAlone
  <2>3. list \in Seq(Slots)
    BY <2>1 DEF SessionTypeOK
  <2>4. 1 \in 1..Len(list)
    BY <2>2, <2>3
  <2>5. QED
    BY <2>2, <2>4
<1>7. QED
  BY <1>1, <1>2, <1>3, <1>4, <1>5, <1>6, SessionTyping, PTL DEF SessionSafety
-----------------------------------------------------------------------------
(* The first request.                                                       *)

\* A child that has sent no list is in ./Data only to send it, or at its end.
AsForked(d) == cwd[d] = "Data" /\ pc[d] \notin {"reply", "exit"} => lists[d] > 0

AsForkedInv == \A d \in Conns : AsForked(d)

LEMMA AsForkedInvKept ==
  ASSUME SessionTypeOK, AsForkedInv, [SessionNext]_sessionVars
  PROVE  AsForkedInv'
<1> SUFFICES ASSUME NEW d \in Conns PROVE AsForked(d)'
  BY DEF AsForkedInv
<1>0. /\ pc \in [Conns -> Pcs]
      /\ cwd \in [Conns -> {"root", "Data"}]
      /\ lists \in [Conns -> Nat]
  BY DEF SessionTypeOK, Pcs
<1>t. AsForked(d)
  BY DEF AsForkedInv
<1> USE DEF AsForked
<1>1. CASE Same(d)
  BY <1>t, <1>1 DEF Same
<1>2. CASE \E s \in BOOLEAN : Start(d, s)
  BY <1>t, <1>2 DEF Start, doneVars
<1>3. CASE Recv(d)
  <2>1. pc[d] = "recv" /\ UNCHANGED <<cwd, lists>>
    BY <1>3, RecvReceives DEF Received, procVars, doneVars
  <2>2. QED
    BY <1>t, <2>1
<1>4. CASE \/ Open(d) \/ ReadNode(d) \/ PrintNode(d) \/ ReadEnd(d) \/ PrintLast(d)
           \/ Seek(d) \/ WriteNode(d) \/ WriteStdout(d) \/ Report(d)
  <2>1. pc[d] \notin {"reply", "exit"} /\ UNCHANGED <<cwd, lists>>
    BY <1>4 DEF Open, ReadNode, PrintNode, ReadEnd, PrintLast, Seek, WriteNode,
                WriteStdout, Report, procVars, doneVars
  <2>2. QED
    BY <1>t, <2>1
<1>5. CASE Catalog(d)
  BY <1>0, <1>t, <1>5 DEF Catalog, doneVars
<1>6. CASE Reply(d)
  BY <1>0, <1>t, <1>6 DEF Reply, Return, Exit, procVars
<1>7. CASE RecvNothing(d) \/ ReadAgain(d)
  BY <1>t, <1>7 DEF RecvNothing, ReadAgain, sessionVars, procVars, doneVars
<1>8. QED
  BY <1>1, <1>2, <1>3, <1>4, <1>5, <1>6, <1>7, OwnSteps DEF Child

\* A request that ends its child when it is received is not for the server.
LEMMA RecvExits ==
  ASSUME SessionTypeOK, NEW c \in Conns, Recv(c), pc'[c] = "exit"
  PROVE  req'[c].dest # "server"
<1>0. /\ pc \in [Conns -> Pcs] /\ req \in [Conns -> Request \cup Unaddressed]
      /\ stream \in [Conns -> Seq(Request)]
  BY DEF SessionTypeOK, Pcs
<1>1. ASSUME NEW m \in Request \cup Unaddressed, Dispatch(c, m)
      PROVE  req'[c].dest # "server"
  <2>1. PICK next \in Handled(m) :
          /\ pc' = [pc EXCEPT ![c] = next]
          /\ req' = [req EXCEPT ![c] = IF next = "recv" THEN NoRequest ELSE m]
    BY <1>1 DEF Dispatch
  <2>2. next = "exit" /\ req'[c] = m
    BY <1>0, <2>1
  <2>3. /\ m.type \in {"join", "list", "ignored"}
        /\ m.dest \in {"server", "other", "none"}
    BY DEF Request, Unaddressed, NoRequest
  <2>4. ASSUME m.dest = "server" PROVE Handled(m) \subseteq {"recv", "open"}
    BY <2>3, <2>4 DEF Handled
  <2>5. QED
    BY <2>1, <2>2, <2>4
<1>2. stream[c] # <<>> => Head(stream[c]) \in Request
  BY <1>0
<1>3. CASE RecvWhole(c)
  BY <1>1, <1>2, <1>3 DEF RecvWhole
<1>4. CASE RecvCut(c)
  <2>1. PICK m \in CutForms(Head(stream[c])) : Dispatch(c, m)
    BY <1>4 DEF RecvCut
  <2>2. Head(stream[c]) \in Request
    BY <1>2, <1>4 DEF RecvCut
  <2>3. m \in Request \cup Unaddressed
    BY <2>2 DEF CutForms, Request, Unaddressed, NoRequest
  <2>4. QED
    BY <1>1, <2>1, <2>3
<1>5. CASE RecvRest(c)
  BY <1>1, <1>5 DEF RecvRest
<1>6. CASE RecvMerged(c)
  BY <1>1, <1>6 DEF RecvMerged
<1>7. QED
  BY <1>3, <1>4, <1>5, <1>6 DEF Recv

\* Where a child that has answered nothing can end.
LEMMA ExitsExplained ==
  ASSUME SessionTypeOK, JoinInv, PrintInv, AsForkedInv, [SessionNext]_sessionVars,
         NEW d \in Conns, pc[d] # "exit", pc'[d] = "exit", req'[d].dest = "server",
         nodeDir, dataDir, Seeds # <<>>
  PROVE  joins[d] + lists[d] > 0 \/ pc[d] = "reply"
<1>0. /\ pc \in [Conns -> Pcs]
      /\ cwd \in [Conns -> {"root", "Data"}]
      /\ joins \in [Conns -> Nat] /\ lists \in [Conns -> Nat]
  BY DEF SessionTypeOK, Pcs
<1>t. /\ list # <<>> /\ list[1] # Part
      /\ JoinedThroughStdout(d) /\ AsForked(d) /\ PrintsWhereLost(d)
  BY SessionAssumption DEF SessionAssumption, JoinInv, AsForkedInv, PrintInv
<1>s. joins[d] > 0 \/ lists[d] > 0 => joins[d] + lists[d] > 0
  BY <1>0
<1>1. CASE Same(d) \/ \E s \in BOOLEAN : Start(d, s)
  BY <1>0, <1>1 DEF Same, Start
<1>2. CASE Recv(d)
  BY <1>2, RecvExits
<1>3. CASE Open(d)
  <2>1. cwd[d] = "Data" /\ pc[d] = "open"
    BY <1>0, <1>3 DEF Open
  <2>2. QED
    BY <1>s, <1>t, <2>1 DEF AsForked
<1>4. CASE ReadNode(d) \/ PrintNode(d) \/ Seek(d) \/ Report(d)
  BY <1>0, <1>4 DEF ReadNode, PrintNode, Seek, Report, Return
<1>5. CASE ReadEnd(d) \/ PrintLast(d)
  <2>1. ReadEnd(d) => offset[d] > 0
    BY <1>t, EndBehindFirst DEF ReadEnd
  <2>2. found[d]
    BY <1>t, <1>5, <2>1 DEF ReadEnd, PrintLast, JoinedThroughStdout
  <2>3. AfterScan(d) # "exit"
    BY <2>2 DEF AfterScan
  <2>4. QED
    BY <1>0, <1>5, <2>3 DEF ReadEnd, PrintLast
<1>6. CASE WriteNode(d)
  BY <1>6, NoRecordWritten
<1>7. CASE WriteStdout(d)
  <2>1. out[d] # "stdout"
    BY <1>0, <1>7 DEF WriteStdout
  <2>2. QED
    BY <1>s, <1>t, <2>1 DEF PrintsWhereLost
<1>8. CASE Catalog(d)
  BY <1>0, <1>8 DEF Catalog
<1>9. CASE Reply(d)
  BY <1>9 DEF Reply
<1>10. CASE RecvNothing(d) \/ ReadAgain(d)
  BY <1>10 DEF RecvNothing, ReadAgain, sessionVars
<1>11. QED
  BY <1>1, <1>2, <1>3, <1>4, <1>5, <1>6, <1>7, <1>8, <1>9, <1>10, OwnSteps DEF Child

\* With both directories there and a seeded list, the first request addressed to
\* the server is handled up to its answer, which alone can end the child: for any
\* number of connections, and over links that cut requests.
THEOREM FirstRequestIsServed == SessionSafety => FirstRequestIsHandled
<1>1. SessionInit => PrintInv /\ AsForkedInv
  BY DEF SessionInit, PrintInv, PrintsWhereLost, AsForkedInv, AsForked
<1>2. SessionTypeOK /\ PrintInv /\ [SessionNext]_sessionVars => PrintInv'
  BY PrintInvKept
<1>3. SessionTypeOK /\ JoinInv /\ [SessionNext]_sessionVars => JoinInv'
  BY JoinInvKept
<1>4. SessionTypeOK /\ AsForkedInv /\ [SessionNext]_sessionVars => AsForkedInv'
  BY AsForkedInvKept
<1>5. SessionTypeOK /\ JoinInv /\ PrintInv /\ AsForkedInv /\ [SessionNext]_sessionVars
        => [\A c \in Conns :
              /\ pc[c] # "exit" /\ pc'[c] = "exit"
              /\ nodeDir /\ dataDir /\ Seeds # <<>>
              /\ req'[c].dest = "server"
              => joins[c] + lists[c] > 0 \/ pc[c] = "reply"]_pc
  BY ExitsExplained
<1>6. QED
  BY <1>1, <1>2, <1>3, <1>4, <1>5, JoinInvInit, SessionTyping, PTL
     DEF SessionSafety, FirstRequestIsHandled
=============================================================================
