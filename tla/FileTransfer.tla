---------------------------- MODULE FileTransfer ----------------------------
(***************************************************************************)
(* A file on its way from a child of the server to a device:               *)
(* process_req_data() and process_recv_data() on the device,               *)
(* process_send_data() on the server, and the connection between them.     *)
(*                                                                         *)
(* The device sends a request and then the names of a file, whatever the   *)
(* user chooses in between; the server answers with a header (data_info)   *)
(* and the bytes of the file, with no mark at their end.  A unit of the    *)
(* file is eight bytes, of the header a name or a part of one, of a        *)
(* request a third: a request is three quarters of a header long.          *)
(*                                                                         *)
(* A send and a recv may transfer a part of what they could, in either     *)
(* direction.  Only the device looks at what a send returns and only the   *)
(* server at the length of the names it has received; after either nothing *)
(* puts the two ends in step again.                                        *)
(*                                                                         *)
(* process_dtn_msg calls process_send_data for no type of request; that it *)
(* is called for a request for data is taken from its parameters.          *)
(***************************************************************************)
EXTENDS Integers, Sequences

CONSTANTS Counts,    \* the list the device has: numbers of files by directory
          Inputs,    \* numbers a user may type
          Units,     \* what a unit of a file may hold
          Files,     \* what the file on the server may hold
          Olds,      \* what the device may hold under the same name already
          Word,      \* the unit "Success" with its closing zero
          ReadSize,  \* READ_SIZE, in units
          Short,     \* a send or a recv may transfer a part of what it could
          MaxStream, \* units the link holds before a send waits
          MaxAsks    \* bound: requests the device makes

ASSUME FileAssumption ==
  /\ Counts \in Seq(Nat) /\ Inputs \subseteq Int
  /\ \A f \in Files \cup Olds : f \in Seq(Units)
  /\ ReadSize \in Nat \ {0}
  /\ Short \in BOOLEAN
  /\ MaxStream \in Nat /\ MaxStream >= 4 /\ MaxStream >= ReadSize
  /\ MaxAsks \in Nat

VARIABLES
  file,     \* the file on the server
  old,      \* what the device held under its name
  disk,     \* what it holds now
  device,   \* where the device is
  asks,     \* requests it has made
  chosen,   \* the file chosen: <<directory, file>>, counted from one
  opened,   \* what it has opened: "file", "other" (a wrong name) or "none"
  wrote,    \* units written to it
  up,       \* the units on the link to the server
  server,   \* where the child is
  position, \* units of the file it has read
  down,     \* the units on the link to the device
  left,     \* history: a user gave up a request that had been sent
  refused,  \* history: the server did not find the file
  broken,   \* history: a send of the server or the recv of the header was cut,
            \*          or something else was sent before the header
  torn      \* history: a send of the device or a recv of the server was cut

contentVars == <<file, old>>
deviceVars == <<disk, device, asks, chosen, opened, wrote>>
serverVars == <<server, position>>
fileVars == <<contentVars, deviceVars, serverVars, up, down, left, refused, broken,
              torn>>

\* A dtn_req_msg, its type in the first unit, and a data_info: the names of a
\* file and its length, sent both ways.
Request == <<"request", "addresses", "data">>
Header == <<"parent", "name", "rest of name", "length">>

OnUp == {"request", "addresses", "data", "parent", "name", "rest of name", "length"}
OnLink == Units \cup {"parent", "name", "rest of name", "length", "reply"}

Least(m, n) == IF m < n THEN m ELSE n

\* A file after a write of some units at an offset.
Overwrite(bytes, off, units) ==
  SubSeq(bytes, 1, off) \o units \o SubSeq(bytes, off + Len(units) + 1, Len(bytes))

FileInit ==
  /\ file \in Files
  /\ old \in Olds
  /\ disk = old
  /\ device = "idle"
  /\ asks = 0
  /\ chosen = <<>>
  /\ opened = "none"
  /\ wrote = 0
  /\ up = <<>>
  /\ server = "loop"
  /\ position = 0
  /\ down = <<>>
  /\ left = FALSE /\ refused = FALSE /\ broken = FALSE /\ torn = FALSE
-----------------------------------------------------------------------------
(* The device: process_req_data.                                            *)

\* mysend and the test of what it returns: the message has been sent, or a part
\* of it has or the child is gone, and process_req_data returns.
Tell(message, next) ==
  \/ /\ up' = up \o message
     /\ device' = next
     /\ UNCHANGED torn
  \/ /\ Short
     /\ \E k \in 1..(Len(message) - 1) : up' = up \o SubSeq(message, 1, k)
     /\ device' = "idle"
     /\ torn' = TRUE
  \/ /\ server = "ended"
     /\ device' = "idle"
     /\ UNCHANGED <<up, torn>>

\* The request is sent before anything is chosen.
Ask ==
  /\ device = "idle" /\ asks < MaxAsks
  /\ asks' = asks + 1
  /\ Tell(Request, "select")
  /\ UNCHANGED <<contentVars, disk, chosen, opened, wrote, serverVars, down, left,
                 refused, broken>>

\* -1 for the directory: process_req_data returns, the request stays made.
Quit ==
  /\ device = "select" /\ -1 \in Inputs
  /\ device' = "idle"
  /\ left' = TRUE
  /\ UNCHANGED <<contentVars, disk, asks, chosen, opened, wrote, serverVars, up,
                 down, refused, broken, torn>>

\* The number of files is read at a - 1 before a is compared with anything:
\* beyond the array it is whatever stands there, here any number that makes a
\* difference to a choice.
FilesAt(a) ==
  IF a \in 1..Len(Counts) THEN {Counts[a]} ELSE {0} \cup {n \in Inputs : n > 0}

\* Mutant: the directory is not compared with the number of directories.
ChooseUnbounded ==
  /\ device = "select"
  /\ \E a \in Inputs \ {-1}, b \in Inputs : \E c \in FilesAt(a) :
       /\ ~(a < 0 \/ a = 0 \/ b < 0 \/ b = 0 \/ b > c)
       /\ chosen' = <<a, b>>
  /\ Tell(Header, "header")
  /\ UNCHANGED <<contentVars, disk, asks, opened, wrote, serverVars, down, left,
                 refused, broken>>

\* A choice that is in the list is sent; after any other the user is asked
\* again.
Choose ==
  /\ device = "select"
  /\ \E a \in Inputs \ {-1}, b \in Inputs : \E c \in FilesAt(a) :
       /\ ~(a < 0 \/ a = 0 \/ a > Len(Counts) \/ b < 0 \/ b = 0 \/ b > c)
       /\ chosen' = <<a, b>>
  /\ Tell(Header, "header")
  /\ UNCHANGED <<contentVars, disk, asks, opened, wrote, serverVars, down, left,
                 refused, broken>>
-----------------------------------------------------------------------------
(* The server: process_send_data.                                           *)

\* How many of n units a recv of the server may return; it waits for one.
Taken(n) ==
  {k \in 1..Least(n, Len(up)) : Short \/ k = Least(n, Len(up))}

Take(k) == up' = SubSeq(up, k + 1, Len(up))

\* A recv in the loop of client_process that begins with a request.  How much
\* of it came is looked at by nobody.
Serve ==
  /\ server = "loop" /\ up # <<>> /\ Head(up) = "request"
  /\ \E k \in Taken(Len(Request)) :
       /\ Take(k)
       /\ torn' = (torn \/ k < Len(Request))
  /\ server' = "info"
  /\ UNCHANGED <<contentVars, deviceVars, position, down, left, refused, broken>>

\* Any other is ignored, or what stands at the place of its type is a request of
\* another kind and is answered, with one unit for any answer.
ServeOther ==
  /\ server = "loop" /\ up # <<>> /\ Head(up) # "request"
  /\ \E k \in Taken(Len(Request)) :
       /\ Take(k)
       /\ torn' = (torn \/ k < Len(Request))
  /\ \/ UNCHANGED <<down, broken>>
     \/ /\ Len(down) < MaxStream
        /\ down' = Append(down, "reply")
        /\ broken' = TRUE
  /\ UNCHANGED <<contentVars, deviceVars, server, position, left, refused>>

\* Mutant: the test of the length is the wrong way round.
SendOpenInverted ==
  /\ server = "info"
  /\ \E k \in Taken(Len(Header)) :
       /\ Take(k)
       /\ torn' = (torn \/ k < Len(Header))
       /\ server' = IF k < Len(Header) THEN "header" ELSE "loop"
  /\ UNCHANGED <<contentVars, deviceVars, position, down, left, refused, broken>>

\* The names are received and the file is opened.  A recv of another length is
\* an error, and a file that is not there is not opened: nothing is sent in
\* either case.  Four units that are not a header name no file.
SendOpen ==
  /\ server = "info"
  /\ \E k \in Taken(Len(Header)) :
       /\ Take(k)
       /\ torn' = (torn \/ k < Len(Header))
       /\ \/ /\ SubSeq(up, 1, k) = Header
             /\ server' = "header"
             /\ UNCHANGED refused
          \/ /\ k = Len(Header)
             /\ server' = "loop"
             /\ refused' = TRUE
          \/ /\ k < Len(Header)
             /\ server' = "loop"
             /\ UNCHANGED refused
  /\ UNCHANGED <<contentVars, deviceVars, position, down, left, broken>>

\* mysend, the result of which nobody looks at: all of the units or, when it is
\* cut, the first of them; the rest is not sent.
SendUnits(units) ==
  /\ Len(down) + Len(units) <= MaxStream
  /\ \/ /\ down' = down \o units
        /\ UNCHANGED broken
     \/ /\ Short
        /\ \E k \in 1..(Len(units) - 1) : down' = down \o SubSeq(units, 1, k)
        /\ broken' = TRUE
  /\ UNCHANGED <<contentVars, deviceVars, up, left, refused, torn>>

SendHeader ==
  /\ server = "header"
  /\ SendUnits(Header)
  /\ server' = "body"
  /\ UNCHANGED position

\* Mutant: the next read is one unit too far.
SendChunkSkips ==
  /\ server = "body" /\ position < Len(file)
  /\ LET n == Least(ReadSize, Len(file) - position)
     IN  /\ SendUnits(SubSeq(file, position + 1, position + n))
         /\ position' = Least(position + n + 1, Len(file))
  /\ UNCHANGED server

SendChunk ==
  /\ server = "body" /\ position < Len(file)
  /\ LET n == Least(ReadSize, Len(file) - position)
     IN  /\ SendUnits(SubSeq(file, position + 1, position + n))
         /\ position' = position + n
  /\ UNCHANGED server

\* Nothing is left to read: process_send_data returns and the connection stays
\* open.
SendEnd ==
  /\ server = "body" /\ position = Len(file)
  /\ server' = "sent"
  /\ UNCHANGED <<contentVars, deviceVars, position, up, down, left, refused,
                 broken, torn>>

\* The child is gone; what it has sent is still delivered.
ServerEnds ==
  /\ server # "ended"
  /\ server' = "ended"
  /\ UNCHANGED <<contentVars, deviceVars, position, up, down, left, refused,
                 broken, torn>>
-----------------------------------------------------------------------------
(* The device: process_recv_data.                                           *)

\* How many of n units a recv may return.
Received(n) ==
  {k \in 0..Least(n, Len(down)) :
     \/ k > 0 /\ (Short \/ k = Least(n, Len(down)))
     \/ down = <<>> /\ server = "ended"}

Drop(k) == down' = SubSeq(down, k + 1, Len(down))

\* A header of which less than the name has come names something else: another
\* file, or the directory itself.
RecvHeader ==
  /\ device = "header"
  /\ \E k \in Received(4) :
       /\ opened' = IF k <= 1 THEN "none"
                    ELSE IF SubSeq(down, 1, Least(k, 3)) = SubSeq(Header, 1, 3)
                    THEN "file" ELSE "other"
       /\ Drop(k)
       /\ broken' = (broken \/ k < 4)
  /\ device' = "open"
  /\ UNCHANGED <<contentVars, disk, asks, chosen, wrote, serverVars, up, left,
                 refused, torn>>

\* The file is created if it is not there and is not cut if it is.
RecvOpen ==
  /\ device = "open"
  /\ device' \in (IF opened = "none" THEN {"failed"} ELSE {"body", "failed"})
  /\ UNCHANGED <<contentVars, disk, asks, chosen, opened, wrote, serverVars, up,
                 down, left, refused, broken, torn>>

\* Mutant: a read that is not full is the last one.
IsWordOrShort(units) == Len(units) < ReadSize

\* A recv of the word alone is the end and is not written.
IsWord(units) == units = <<Word>>

\* Units are written to the file that is open; if not all of them are, the
\* transfer is given up.
WriteUnits(units) ==
  \E n \in 0..Len(units) :
    /\ disk' = IF opened = "file" THEN Overwrite(disk, wrote, SubSeq(units, 1, n)) ELSE disk
    /\ wrote' = wrote + n
    /\ device' = IF n = Len(units) THEN "body" ELSE "failed"

RecvBody ==
  /\ device = "body"
  /\ \E k \in Received(ReadSize) \ {0} :
       /\ ~IsWord(SubSeq(down, 1, k))
       /\ WriteUnits(SubSeq(down, 1, k))
       /\ Drop(k)
  /\ UNCHANGED <<contentVars, asks, chosen, opened, serverVars, up, left,
                 refused, broken, torn>>

\* The word, or nothing more: "Recv data successed!", whatever the header's
\* length was.
RecvEnd ==
  /\ device = "body"
  /\ \E k \in Received(ReadSize) :
       /\ k = 0 \/ IsWord(SubSeq(down, 1, k))
       /\ Drop(k)
  /\ device' = "done"
  /\ UNCHANGED <<contentVars, disk, asks, chosen, opened, wrote, serverVars, up,
                 left, refused, broken, torn>>

\* recv fails on a connection that was reset.
RecvFails ==
  /\ device \in {"header", "body"} /\ server = "ended"
  /\ device' = "failed"
  /\ UNCHANGED <<contentVars, disk, asks, chosen, opened, wrote, serverVars, up,
                 down, left, refused, broken, torn>>
-----------------------------------------------------------------------------
User == Ask \/ Quit \/ Choose
Sender == Serve \/ ServeOther \/ SendOpen \/ SendHeader \/ SendChunk \/ SendEnd
Receiver == RecvHeader \/ RecvOpen \/ RecvBody \/ RecvEnd

FileNext == User \/ Sender \/ ServerEnds \/ Receiver \/ RecvFails

\* Both processes are scheduled; a user owes no choice, a child no end.
FileSpec ==
  /\ FileInit /\ [][FileNext]_fileVars
  /\ WF_fileVars(Sender) /\ WF_fileVars(Receiver)
-----------------------------------------------------------------------------
\* The variables have their types; what was chosen is in the list, whatever was
\* read beyond its arrays (set_data_info, msgprocess.c:1035).
FileTypeOK ==
  /\ file \in Files /\ old \in Olds
  /\ disk \in Seq(OnLink) /\ Len(disk) <= wrote + Len(old)
  /\ device \in {"idle", "select", "header", "open", "body", "done", "failed"}
  /\ asks \in 0..MaxAsks
  /\ chosen # <<>> => chosen[1] \in 1..Len(Counts) /\ chosen[2] \in 1..Counts[chosen[1]]
  /\ opened \in {"file", "other", "none"}
  /\ wrote \in Nat
  /\ up \in Seq(OnUp)
  /\ server \in {"loop", "info", "header", "body", "sent", "ended"}
  /\ position \in 0..Len(file)
  /\ down \in Seq(OnLink) /\ Len(down) <= MaxStream
  /\ left \in BOOLEAN /\ refused \in BOOLEAN /\ broken \in BOOLEAN /\ torn \in BOOLEAN

\* However the bytes of the file are split between reads, what has been written
\* is the beginning of the file, and what is behind it is what was there before
\* (process_recv_data, msgprocess.c:1178-1220), at every moment of a transfer
\* of which the header came whole, with no answer to anything else before it, and
\* no send of the server was cut.
DiskIsPrefixOverOld ==
  ~broken => disk = SubSeq(file, 1, wrote) \o SubSeq(old, wrote + 1, Len(old))

\* While the child lives, a device that reports a file as received has the
\* whole of it, unless a read held the word "Success" alone: the file then ends
\* there for the device (msgprocess.c:1197-1203).
StopsOnlyAtWord ==
  device = "done" /\ server # "ended" /\ ~broken =>
    wrote < Len(file) /\ file[wrote + 1] = Word

\* A file that has been sent is written to its last unit, though no end of it
\* is sent, unless the word stands in it or the device fails.
FileArrives ==
  server = "sent" ~> wrote = Len(file) \/ device \in {"done", "failed"} \/ broken

\* A device that has never left a request unfinished is answered, or the file
\* is not there, or what it sent was cut: names that do not come in one recv are
\* an error of which the device hears nothing (msgprocess.c:1092-1097).  After a
\* Quit the next request is taken for the names of the one before and its names
\* for a request.
AskedIsAnswered ==
  device = "header" /\ ~left ~> device # "header" \/ refused \/ torn

\* What the device says, "Recv data successed!" (msgprocess.c:1223), of a file of
\* which the header gave the length (msgprocess.c:1184).
SuccessIsWhole == device = "done" => wrote = Len(file)
=============================================================================
