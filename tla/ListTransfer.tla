---------------------------- MODULE ListTransfer ----------------------------
(***************************************************************************)
(* A list of data on its way from a child of the server to a device:       *)
(* send_node_list() and send_list_info() at one end, init_dtn5_msg() and   *)
(* process_recv_list() at the other, a stream of bytes between them.       *)
(*                                                                         *)
(* Everything is sent in frames of fixed size.  A message has two units; a *)
(* directory has a name, of two units, and the number of its files, of one *)
(* (255 bytes, then one of padding and four); a file has a name only.      *)
(* Both ends test a read and a write of a message for an error only, and   *)
(* the receiver does the same with every frame.                            *)
(***************************************************************************)
EXTENDS Naturals, FiniteSets, Sequences, SequencesExt

CONSTANTS Catalogs,   \* what ./Data may hold: the numbers of files by directory
          Short,      \* the link may take or deliver a part of a frame
          MaxStream,  \* units the link holds before a write waits
          MaxCount    \* bound: numbers the receiver may find where none was sent

ASSUME TransferAssumption ==
  /\ Catalogs \subseteq Seq(Nat) \ {<<>>}
  /\ Short \in BOOLEAN
  /\ MaxStream \in Nat /\ MaxStream >= 3
  /\ MaxCount \in Nat

VARIABLES
  catalog,    \* what get_list_info found: at least one directory
  announced,  \* data_len of the message
  sender,     \* where the child is
  dir, file,  \* i and j of send_list_info, counted from one
  written,    \* units of whole frames written so far
  stream,     \* units on the link
  receiver,   \* where the device is
  count,      \* dir_data->child_dir_num of the first frame
  copy,       \* the list the device has built: per directory its name, the
              \* number of its files and the names of those received
  short       \* history: a frame was written or delivered in part (an empty
              \* read at the end of the connection is not a part)

senderVars == <<catalog, announced, sender, dir, file, written>>
receiverVars == <<receiver, count, copy>>
transferVars == <<senderVars, stream, receiverVars, short>>

Units == [kind : {"message", "name", "count"}, dir : Nat, file : Nat, num : Nat]

Unit(kind, d, f, n) == [kind |-> kind, dir |-> d, file |-> f, num |-> n]

\* The two halves of a name: of the list (0, 0), of a directory (d, 0) or of a
\* file of it.
Name(d, f) == <<Unit("name", d, f, 1), Unit("name", d, f, 2)>>
Header(d, n) == Append(Name(d, 0), Unit("count", 0, 0, n))
Message == <<Unit("message", 0, 0, 1), Unit("message", 0, 0, 2)>>

\* The files of a catalogue: each file of each directory.
FilesOf(cat) == UNION {{i} \X (1..cat[i]) : i \in 1..Len(cat)}

\* Mutant: the first frame is not counted.
ListLenNoFirst(cat) ==
  Len(cat) * Len(Header(0, 0)) + Cardinality(FilesOf(cat)) * Len(Name(0, 0))

\* get_list_len: a frame for the list, one for each directory and a name for
\* each file.
ListLen(cat) ==
  (1 + Len(cat)) * Len(Header(0, 0)) + Cardinality(FilesOf(cat)) * Len(Name(0, 0))

TransferInit ==
  /\ catalog \in Catalogs
  /\ announced = 0
  /\ sender = "message"
  /\ dir = 0 /\ file = 0
  /\ written = 0
  /\ stream = <<>>
  /\ receiver = "message"
  /\ count = 0
  /\ copy = <<>>
  /\ short = FALSE
-----------------------------------------------------------------------------
(* The child of the server.                                                 *)

\* A write that is not complete writes at least a unit.
WriteParts(frame) == {SubSeq(frame, 1, k) : k \in 1..(Len(frame) - 1)}

HasRoom(frame) == Len(stream) + Len(frame) <= MaxStream

\* send_msg tests the result of write for -1 only.
SendMessage ==
  /\ sender = "message"
  /\ HasRoom(Message)
  /\ announced' = ListLen(catalog)
  /\ \/ /\ stream' = stream \o Message
        /\ UNCHANGED short
     \/ /\ Short
        /\ \E part \in WriteParts(Message) : stream' = stream \o part
        /\ short' = TRUE
  /\ sender' = "list"
  /\ UNCHANGED <<catalog, dir, file, written, receiverVars>>

\* A frame is written, or a part of it: then send_list_info returns, the child
\* exits and the connection is closed.
Write(frame, next) ==
  /\ HasRoom(frame)
  /\ \/ /\ stream' = stream \o frame
        /\ written' = written + Len(frame)
        /\ sender' = next
        /\ UNCHANGED short
     \/ /\ Short
        /\ \E part \in WriteParts(frame) : stream' = stream \o part
        /\ sender' = "ended"
        /\ short' = TRUE
        /\ UNCHANGED written
  /\ UNCHANGED <<catalog, announced, receiverVars>>

SendList ==
  /\ sender = "list"
  /\ Write(Header(0, Len(catalog)), "dir")
  /\ dir' = 1
  /\ UNCHANGED file

\* Where the loops of send_list_info go after directory d with f files sent.
AfterFiles(d, f) ==
  IF f < catalog[d] THEN "file"
  ELSE IF d < Len(catalog) THEN "dir" ELSE "sent"

\* Mutant: the number of files is left at what init_list_data set it to.
SendDirNoCount ==
  /\ sender = "dir"
  /\ Write(Header(dir, 0), AfterFiles(dir, 0))
  /\ dir' = IF catalog[dir] = 0 THEN dir + 1 ELSE dir
  /\ file' = 0

SendDir ==
  /\ sender = "dir"
  /\ Write(Header(dir, catalog[dir]), AfterFiles(dir, 0))
  /\ dir' = IF catalog[dir] = 0 THEN dir + 1 ELSE dir
  /\ file' = 0

SendFile ==
  /\ sender = "file"
  /\ Write(Name(dir, file + 1), AfterFiles(dir, file + 1))
  /\ file' = file + 1
  /\ dir' = IF file + 1 = catalog[dir] THEN dir + 1 ELSE dir

Sender == SendMessage \/ SendList \/ SendDir \/ SendFile

\* The child is gone: a write has failed, a later request has ended it, or it
\* was killed.  What was written is still delivered.
SenderEnds ==
  /\ sender # "ended"
  /\ sender' = "ended"
  /\ UNCHANGED <<catalog, announced, dir, file, written, stream, receiverVars,
                 short>>
-----------------------------------------------------------------------------
(* The device.                                                              *)

\* Mutant: a read of nothing is tried again.
GotAgain(n) ==
  {k \in 1..n : /\ k <= Len(stream)
                /\ k = n \/ Short \/ (sender = "ended" /\ k = Len(stream))}

\* How many of n units a recv may return.  It returns 0 when the connection is
\* closed and nothing is left.
Got(n) ==
  {k \in 0..n : /\ k <= Len(stream)
                /\ \/ k = n
                   \/ Short /\ k > 0
                   \/ sender = "ended" /\ k = Len(stream)}

Take(k, n) ==
  /\ stream' = SubSeq(stream, k + 1, Len(stream))
  /\ short' = (short \/ k \in 1..(n - 1))
  /\ UNCHANGED senderVars

\* The number in a buffer of three units of which k were received: anything if
\* a name or a message stands there, or what the buffer held before.
CountsIn(k, before) ==
  IF k < 3 THEN before
  ELSE IF stream[3].kind = "count" THEN {stream[3].num} ELSE 0..MaxCount

RecvMessage ==
  /\ receiver = "message"
  /\ \E k \in Got(2) : Take(k, 2)
  /\ receiver' = "list"
  /\ UNCHANGED <<count, copy>>

\* The first frame goes to a buffer that is not cleared.  No directory, or a
\* negative number of them, is an error.
RecvList ==
  /\ receiver = "list"
  /\ \E k \in Got(3) :
       /\ \E n \in CountsIn(k, 0..MaxCount) :
            /\ count' = n
            /\ receiver' = IF n > 0 THEN "dir" ELSE "failed"
       /\ Take(k, 3)
  /\ UNCHANGED copy

\* Mutant: the outer loop ends one directory too late.
AfterTooLate(list) ==
  IF Last(list).num > Len(Last(list).files) THEN "file"
  ELSE IF Len(list) <= count THEN "dir" ELSE "done"

\* Where the loops of process_recv_list go once they have built list.
After(list) ==
  IF Last(list).num > Len(Last(list).files) THEN "file"
  ELSE IF Len(list) < count THEN "dir" ELSE "done"

\* Mutant: the buffer is not cleared, an empty read finds the directory before.
RecvDirNotCleared ==
  /\ receiver = "dir"
  /\ \E k \in Got(3) :
       LET before == IF copy = <<>> THEN [name |-> <<>>, num |-> 0]
                     ELSE [name |-> Last(copy).name, num |-> Last(copy).num]
       IN  /\ \E n \in CountsIn(k, {before.num}) :
                copy' = Append(copy, [name |-> IF k = 0 THEN before.name
                                              ELSE SubSeq(stream, 1, IF k < 2 THEN k ELSE 2),
                                      num |-> n, files |-> <<>>])
           /\ Take(k, 3)
  /\ receiver' = After(copy')
  /\ UNCHANGED count

\* The buffer is cleared first: what is not received is no name and no file.
RecvDir ==
  /\ receiver = "dir"
  /\ \E k \in Got(3) :
       /\ \E n \in CountsIn(k, {0}) :
            copy' = Append(copy, [name |-> SubSeq(stream, 1, IF k < 2 THEN k ELSE 2),
                                  num |-> n, files |-> <<>>])
       /\ Take(k, 3)
  /\ receiver' = After(copy')
  /\ UNCHANGED count

RecvFile ==
  /\ receiver = "file"
  /\ \E k \in Got(2) :
       /\ copy' = [copy EXCEPT ![Len(copy)].files =
                                  Append(@, SubSeq(stream, 1, k))]
       /\ Take(k, 2)
  /\ receiver' = After(copy')
  /\ UNCHANGED count

\* recv returns -1 on a connection that was reset: the list is given up.
RecvFails ==
  /\ receiver \notin {"done", "failed"} /\ sender = "ended"
  /\ receiver' = "failed"
  /\ UNCHANGED <<senderVars, stream, count, copy, short>>

Receiver == RecvMessage \/ RecvList \/ RecvDir \/ RecvFile
-----------------------------------------------------------------------------
TransferNext == Sender \/ SenderEnds \/ Receiver \/ RecvFails

\* Both processes are scheduled; nothing makes the child go away or the
\* connection be reset.
TransferSpec ==
  /\ TransferInit /\ [][TransferNext]_transferVars
  /\ WF_transferVars(Sender) /\ WF_transferVars(Receiver)
-----------------------------------------------------------------------------
\* The variables have their types; the receiver never has more directories or
\* files than it was told of.
TransferTypeOK ==
  /\ catalog \in Catalogs
  /\ announced \in {0, ListLen(catalog)}
  /\ sender \in {"message", "list", "dir", "file", "sent", "ended"}
  /\ dir \in 0..(Len(catalog) + 1) /\ file \in Nat
  /\ written \in 0..ListLen(catalog)
  /\ stream \in Seq(Units) /\ Len(stream) <= MaxStream
  /\ receiver \in {"message", "list", "dir", "file", "done", "failed"}
  /\ count \in Nat
  /\ copy \in Seq([name : Seq(Units), num : Nat, files : Seq(Seq(Units))])
  /\ Len(copy) <= count
  /\ \A i \in 1..Len(copy) : Len(copy[i].files) <= copy[i].num
  /\ short \in BOOLEAN

\* The list that was sent, as the device should have it.
Sent ==
  [i \in 1..Len(catalog) |->
     [name |-> Name(i, 0), num |-> catalog[i],
      files |-> [j \in 1..catalog[i] |-> Name(i, j)]]]

\* A list the device reports as received is the list that was sent, frame by
\* frame, with nothing left on the link for the next message: the two ends stay
\* in step without any mark in the stream, as long as no frame is cut and the
\* child has written the whole list before it goes.
DoneIsCopy ==
  receiver = "done" /\ ~short =>
    /\ stream = <<>>
    /\ sender # "ended" \/ written = ListLen(catalog) => copy = Sent

\* A child that goes away half way leaves the device with what was sent up to
\* there, each name in its place, and blanks after it; process_recv_list
\* (msgprocess.c:887-930) never files a name in the wrong directory or twice.
RestIsBlank ==
  ~short =>
    \A i \in 1..Len(copy) :
      \/ /\ copy[i].name = <<>> /\ copy[i].num = 0
         /\ sender = "ended" /\ stream = <<>>
      \/ /\ i <= Len(Sent)
         /\ copy[i].name = Sent[i].name /\ copy[i].num = Sent[i].num
         /\ \A j \in 1..Len(copy[i].files) :
               copy[i].files[j] \in {Sent[i].files[j], <<>>}

\* The length announced before the list (get_list_len, fileinfo.c:297) is the
\* length of what send_list_info writes after it.
AnnouncedIsWritten == sender = "sent" => written = announced

\* Once the child is gone the device comes to an end, however far out of step
\* it is: an empty read counts as a frame of zeros.
GoneEnds == sender = "ended" ~> receiver \in {"done", "failed"}

\* A device that is never delivered a part of a frame gets its list or finds
\* that the child has gone; it does not wait for a frame that is not sent.
WholeEnds == []~short => <>(receiver \in {"done", "failed"})
=============================================================================
