------------------------------ MODULE Session ------------------------------
(***************************************************************************)
(* The children of the server: client_process() and process_dtn_msg() of   *)
(* refcomm-server.c with the handlers they call in msgprocess.c, one child *)
(* per connection, all of them on the one file ./NodeList/nodelist.data.   *)
(*                                                                         *)
(* A child is followed system call by system call where another child can  *)
(* come between: opening the list, reading a record, printing it, seeking, *)
(* writing.  Per child the model keeps what outlives a request: the        *)
(* working directory, what descriptor 1 is, whether errno is a stale EINTR *)
(* and where the stream of requests is cut.                                *)
(*                                                                         *)
(* The list is a sequence of slots of one record each; behind them there   *)
(* may be a part of a record or of a line.  Standard output is a terminal, *)
(* so that each line is written when it is printed; a line that is printed *)
(* for a record is as long as a slot, give or take three bytes that the    *)
(* model rounds off, the line that is printed at the end is shorter.       *)
(***************************************************************************)
EXTENDS Naturals, Sequences

CONSTANTS Conns,      \* connections, each with the child that serves it
          Seeds,      \* what main wrote to the list before the first accept
          Text,       \* a slot that holds printed text or a broken record
          Part,       \* less than a slot, at the end of the list
          ShortReads, \* the link delivers a request in more than one piece
          MaxSends,   \* bound: requests sent over all connections
          MaxQueue,   \* bound: requests waiting in one socket
          MaxSlots    \* bound: slots the disk has room for

ASSUME SessionAssumption ==
  /\ Text \notin Conns /\ Part \notin Conns
  /\ ShortReads \in BOOLEAN
  /\ MaxSends \in Nat
  /\ MaxQueue \in Nat
  /\ MaxSlots \in Nat
  /\ Seeds \in Seq({"server"})
  /\ Len(Seeds) <= MaxSlots
  /\ "server" \notin Conns
  /\ Text # "server" /\ Part # "server" /\ Text # Part

Slots == Conns \cup {"server", Text, Part}

\* A request by what decides how it is handled: its type and whether it is
\* addressed to this server, to another node or, when the address is missing,
\* to nobody.  Types 1 to 3 and 5 to 11 are all ignored, wherever they go.
NoRequest == [type |-> "ignored", dest |-> "none"]
Request == [type : {"join", "list"}, dest : {"server", "other"}] \cup {NoRequest}
Unaddressed == [type : {"join", "list", "ignored"}, dest : {"none"}]

\* A file after a write of v at slot i, at most one past its end.
Put(file, i, v) ==
  IF i <= Len(file) THEN [file EXCEPT ![i] = v] ELSE Append(file, v)

\* A file after a write of less than a slot at slot i: a record there is broken,
\* at the end a part is left.
Spoil(file, i) ==
  Put(file, i, IF i <= Len(file) /\ file[i] # Part THEN Text ELSE Part)

\* A file after a write of a slot that begins behind the part in slot i: what is
\* written can no longer be read as a record.
Splice(file, i) == Spoil(Put(file, i, Text), i + 1)

VARIABLES
  nodeDir,   \* ./NodeList can be opened from the directory the server runs in
  dataDir,   \* ./Data has directories to list, and nothing else
  list,      \* the slots of nodelist.data
  peer,      \* the device at the other end is still connected
  sent,      \* how many requests devices have sent so far
  stream,    \* the requests that wait in the socket
  rest,      \* the end of a request already read in part is at the front
  pc,        \* where the child is
  req,       \* the request it handles
  found,     \* the local variable flag of check_node_list
  offset,    \* slots of the list read, or the slot to write at
  cwd,       \* the child's working directory: "root" or "Data"
  out,       \* what descriptor 1 is: "stdout", "closed", "list" or "Data"
  stale,     \* the child's errno is the EINTR its parent had at the fork
  joins,     \* joins reported as done by this child
  lists      \* lists sent by this child

envVars == <<nodeDir, dataDir>>
streamVars == <<peer, sent, stream, rest>>
procVars == <<cwd, out, stale>>
doneVars == <<joins, lists>>
sessionVars == <<envVars, list, streamVars, pc, req, found, offset, procVars,
                 doneVars>>

SessionInit ==
  /\ nodeDir \in BOOLEAN
  /\ dataDir \in BOOLEAN
  /\ list = Seeds
  /\ peer = [c \in Conns |-> FALSE]
  /\ sent = 0
  /\ stream = [c \in Conns |-> <<>>]
  /\ rest = [c \in Conns |-> FALSE]
  /\ pc = [c \in Conns |-> "off"]
  /\ req = [c \in Conns |-> NoRequest]
  /\ found = [c \in Conns |-> FALSE]
  /\ offset = [c \in Conns |-> 0]
  /\ cwd = [c \in Conns |-> "root"]
  /\ out = [c \in Conns |-> "stdout"]
  /\ stale = [c \in Conns |-> FALSE]
  /\ joins = [c \in Conns |-> 0]
  /\ lists = [c \in Conns |-> 0]
-----------------------------------------------------------------------------
(* The parent and the device.                                               *)

\* A fork: the child has its parent's errno, directory and descriptors.
Start(c, s) ==
  /\ pc[c] = "off"
  /\ pc' = [pc EXCEPT ![c] = "recv"]
  /\ peer' = [peer EXCEPT ![c] = TRUE]
  /\ stale' = [stale EXCEPT ![c] = s]
  /\ UNCHANGED <<envVars, list, sent, stream, rest, req, found, offset, cwd,
                 out, doneVars>>

Send(c, m) ==
  /\ peer[c] /\ pc[c] # "exit"
  /\ sent < MaxSends /\ Len(stream[c]) < MaxQueue
  /\ sent' = sent + 1
  /\ stream' = [stream EXCEPT ![c] = Append(@, m)]
  /\ UNCHANGED <<envVars, list, peer, rest, pc, req, found, offset, procVars,
                 doneVars>>

Hangup(c) ==
  /\ peer[c] /\ pc[c] # "exit"
  /\ peer' = [peer EXCEPT ![c] = FALSE]
  /\ UNCHANGED <<envVars, list, sent, stream, rest, pc, req, found, offset,
                 procVars, doneVars>>
-----------------------------------------------------------------------------
(* recv, then process_dtn_msg.                                              *)

\* Where the child goes with a request.  A join addressed elsewhere ends
\* process_req_join without a return statement; the caller then tests whatever
\* stands for its result.
Handled(m) ==
  CASE m.type = "ignored"                      -> {"recv"}
    [] m.type # "ignored" /\ m.dest = "server" -> {"open"}
    [] m.type = "join" /\ m.dest # "server"    -> {"recv", "exit"}
    [] m.type = "list" /\ m.dest # "server"    -> {"exit"}

\* Back in the loop of client_process: the buffer is cleared, the local
\* variables of the handlers are gone.
Return(c) ==
  /\ pc' = [pc EXCEPT ![c] = "recv"]
  /\ req' = [req EXCEPT ![c] = NoRequest]
  /\ found' = [found EXCEPT ![c] = FALSE]
  /\ offset' = [offset EXCEPT ![c] = 0]

\* What recv makes of the first bytes of request m, the rest of the buffer
\* being zero: cut after the address, in the address or before the type.
CutForms(m) == {m, [m EXCEPT !.dest = "none"], [type |-> "join", dest |-> "none"]}

Dispatch(c, m) ==
  /\ \E next \in Handled(m) :
       /\ pc' = [pc EXCEPT ![c] = next]
       /\ req' = [req EXCEPT ![c] = IF next = "recv" THEN NoRequest ELSE m]
  /\ UNCHANGED <<envVars, list, peer, sent, found, offset, procVars, doneVars>>

RecvWhole(c) ==
  /\ pc[c] = "recv" /\ ~rest[c] /\ stream[c] # <<>>
  /\ Dispatch(c, Head(stream[c]))
  /\ stream' = [stream EXCEPT ![c] = Tail(@)]
  /\ UNCHANGED rest

RecvCut(c) ==
  /\ ShortReads
  /\ pc[c] = "recv" /\ ~rest[c] /\ stream[c] # <<>>
  /\ \E m \in CutForms(Head(stream[c])) : Dispatch(c, m)
  /\ stream' = [stream EXCEPT ![c] = Tail(@)]
  /\ rest' = [rest EXCEPT ![c] = TRUE]

\* The end of a request is taken for a request; no server address stands where
\* the address of a request would be.
RecvRest(c) ==
  /\ pc[c] = "recv" /\ rest[c]
  /\ \E m \in Unaddressed : Dispatch(c, m)
  /\ rest' = [rest EXCEPT ![c] = FALSE]
  /\ UNCHANGED stream

\* The end of one request and the beginning of the next are read as one: where
\* the address of a request would be any part of the next may stand, the address
\* it comes from, say, which nobody has compared with anything.
RecvMerged(c) ==
  /\ pc[c] = "recv" /\ rest[c] /\ stream[c] # <<>>
  /\ \E m \in Request \cup Unaddressed : Dispatch(c, m)
  /\ stream' = [stream EXCEPT ![c] = Tail(@)]
  /\ UNCHANGED rest

\* recv returns 0, or fails, once the peer is gone: the loop goes round.
RecvNothing(c) ==
  /\ pc[c] = "recv" /\ ~rest[c] /\ stream[c] = <<>> /\ ~peer[c]
  /\ UNCHANGED sessionVars
-----------------------------------------------------------------------------
(* check_node_list.                                                         *)

\* Mutant: the list is opened with O_TRUNC.
OpenTruncates(c) ==
  /\ pc[c] = "open"
  /\ nodeDir /\ cwd[c] = "root"
  /\ pc' = [pc EXCEPT ![c] = "scan"]
  /\ out' = [out EXCEPT ![c] = IF @ = "closed" THEN "list" ELSE @]
  /\ list' = <<>>
  /\ UNCHANGED <<envVars, streamVars, req, found, offset, cwd, stale, doneVars>>

\* Mutant: standard output is always the list.
OpenAsStdout(c) ==
  /\ pc[c] = "open"
  /\ nodeDir /\ cwd[c] = "root"
  /\ pc' = [pc EXCEPT ![c] = "scan"]
  /\ out' = [out EXCEPT ![c] = "list"]
  /\ UNCHANGED <<envVars, list, streamVars, req, found, offset, cwd, stale,
                 doneVars>>

\* The path is relative; the lowest free descriptor is 1 once 1 was closed.
Open(c) ==
  /\ pc[c] = "open"
  /\ \/ /\ nodeDir /\ cwd[c] = "root"
        /\ pc' = [pc EXCEPT ![c] = "scan"]
        /\ out' = [out EXCEPT ![c] = IF @ = "closed" THEN "list" ELSE @]
     \/ /\ ~nodeDir \/ cwd[c] # "root"
        /\ pc' = [pc EXCEPT ![c] = "exit"]
        /\ UNCHANGED out
  /\ found' = [found EXCEPT ![c] = FALSE]
  /\ offset' = [offset EXCEPT ![c] = 0]
  /\ UNCHANGED <<envVars, list, streamVars, req, cwd, stale, doneVars>>

PrintsToList(c) == out[c] = "list"

\* Nothing is left to read, or only a part.
AtEnd(c) == \A i \in (offset[c] + 1)..Len(list) : list[i] = Part

\* Mutant: a read at the end of the list counts as a record.
ReadNodePastEnd(c) ==
  /\ pc[c] = "scan"
  /\ found' = [found EXCEPT ![c] = TRUE]
  /\ offset' = [offset EXCEPT ![c] = @ + 1]
  /\ pc' = [pc EXCEPT ![c] = IF PrintsToList(c) THEN "print" ELSE "scan"]
  /\ UNCHANGED <<envVars, list, streamVars, req, procVars, doneVars>>

\* One record is read; any record sets the flag, the comparison with the
\* client's address is commented out.
ReadNode(c) ==
  /\ pc[c] = "scan" /\ ~AtEnd(c)
  /\ found' = [found EXCEPT ![c] = TRUE]
  /\ offset' = [offset EXCEPT ![c] = @ + 1]
  /\ pc' = [pc EXCEPT ![c] = IF PrintsToList(c) THEN "print" ELSE "scan"]
  /\ UNCHANGED <<envVars, list, streamVars, req, procVars, doneVars>>

\* Mutant: the line is printed from the beginning of the list.
PrintFirst(c) ==
  /\ pc[c] = "print"
  /\ pc' = [pc EXCEPT ![c] = "scan"]
  /\ list' = Put(list, 1, Text)
  /\ UNCHANGED <<envVars, streamVars, req, found, offset, procVars, doneVars>>

\* printf of the record just read, to the list it was read from: it goes where
\* the next record would have been read.  At the bound the disk is full, which
\* is not noticed.
PrintNode(c) ==
  /\ pc[c] = "print"
  /\ pc' = [pc EXCEPT ![c] = "scan"]
  /\ \/ /\ offset[c] < MaxSlots
        /\ list' = Put(list, offset[c] + 1, Text)
        /\ offset' = [offset EXCEPT ![c] = @ + 1]
     \/ /\ offset[c] >= MaxSlots
        /\ UNCHANGED <<list, offset>>
  /\ UNCHANGED <<envVars, streamVars, req, found, procVars, doneVars>>

\* read returns 0 and errno is EINTR since before the fork: "goto again".
ReadAgain(c) ==
  /\ pc[c] = "scan" /\ offset[c] >= Len(list) /\ stale[c]
  /\ UNCHANGED sessionVars

\* A list with a record is closed and 1 is returned, one without is left open
\* and its descriptor returned, to process_req_join or to process_req_list.
AfterScan(c) ==
  CASE req[c].type = "join"              -> "seek"
    [] req[c].type # "join" /\ found[c]  -> "catalog"
    [] req[c].type # "join" /\ ~found[c] -> "exit"

\* Mutant: the end of the list is looked for one slot too far.
ReadEndTooFar(c) ==
  /\ pc[c] = "scan" /\ offset[c] > Len(list) /\ ~stale[c]
  /\ pc' = [pc EXCEPT ![c] = AfterScan(c)]
  /\ UNCHANGED <<envVars, list, streamVars, req, found, offset, procVars,
                 doneVars>>

\* Mutant: a join that finds records fails.
ReadEndJoinFails(c) ==
  /\ pc[c] = "scan" /\ AtEnd(c) /\ ~stale[c]
  /\ pc' = [pc EXCEPT ![c] = IF found[c] /\ req[c].type = "list"
                             THEN "catalog" ELSE "exit"]
  /\ UNCHANGED <<envVars, list, streamVars, req, found, offset, procVars,
                 doneVars>>

\* read returns 0, or a part, which is no interruption whatever errno is.
ReadEnd(c) ==
  /\ pc[c] = "scan" /\ AtEnd(c) /\ (~stale[c] \/ offset[c] < Len(list))
  /\ pc' = [pc EXCEPT ![c] = IF PrintsToList(c) THEN "last" ELSE AfterScan(c)]
  /\ UNCHANGED <<envVars, list, streamVars, req, found, offset, procVars,
                 doneVars>>

\* printf that the list is read, to the list, where the reading ended: at a slot
\* or behind a part; the list is then closed.  A full disk is not noticed.
PrintLast(c) ==
  /\ pc[c] = "last"
  /\ pc' = [pc EXCEPT ![c] = AfterScan(c)]
  /\ out' = [out EXCEPT ![c] = IF found[c] THEN "closed" ELSE @]
  /\ \/ /\ list' \in {Spoil(list, offset[c] + 1)}
                       \cup (IF offset[c] < Len(list)
                             THEN {Splice(list, offset[c] + 1)} ELSE {})
        /\ Len(list') <= MaxSlots
     \/ /\ offset[c] >= MaxSlots
        /\ UNCHANGED list
  /\ UNCHANGED <<envVars, streamVars, req, found, offset, cwd, stale, doneVars>>
-----------------------------------------------------------------------------
(* process_req_join and add_new_node.                                       *)

EndsInPart == list # <<>> /\ list[Len(list)] = Part

\* lseek to the end of the descriptor returned by check_node_list: to a slot or
\* behind a part.
Seek(c) ==
  /\ pc[c] = "seek"
  /\ \/ /\ found[c]
        /\ pc' = [pc EXCEPT ![c] = "write"]
        /\ UNCHANGED offset
     \/ /\ ~found[c] /\ ~EndsInPart
        /\ pc' = [pc EXCEPT ![c] = "write"]
        /\ offset' = [offset EXCEPT ![c] = Len(list)]
     \/ /\ ~found[c] /\ EndsInPart
        /\ pc' = [pc EXCEPT ![c] = "splice"]
        /\ offset' = [offset EXCEPT ![c] = Len(list) - 1]
  /\ UNCHANGED <<envVars, list, streamVars, req, found, procVars, doneVars>>

\* A handler returns an error and process_dtn_msg calls exit.
Exit(c) ==
  /\ pc' = [pc EXCEPT ![c] = "exit"]
  /\ UNCHANGED <<req, found, offset>>

\* What the write of a whole record makes of the list.
WithRecord(c) ==
  IF pc[c] = "write" THEN Put(list, offset[c] + 1, c) ELSE Splice(list, offset[c] + 1)

\* What the write of a part of it may make of the list.
WithPart(c) ==
  {Spoil(list, offset[c] + 1)} \cup
    (IF pc[c] = "splice"
     THEN {Put(list, offset[c] + 1, Text), Splice(list, offset[c] + 1)} ELSE {})

\* The descriptor is the list's when the list was empty: the record is written
\* where the seek went, or the write is short or fails.
WriteNode(c) ==
  /\ pc[c] \in {"write", "splice"} /\ ~found[c]
  /\ \/ /\ list' = WithRecord(c) /\ Len(list') <= MaxSlots
        /\ pc' = [pc EXCEPT ![c] = "report"]
        /\ UNCHANGED <<req, found, offset>>
     \/ /\ list' \in WithPart(c) /\ Len(list') <= MaxSlots
        /\ Exit(c)
     \/ /\ UNCHANGED list
        /\ Exit(c)
  /\ UNCHANGED <<envVars, streamVars, procVars, doneVars>>

\* The descriptor is 1, the flag of check_node_list, when the list had records:
\* the record goes to standard output.
WriteStdout(c) ==
  /\ pc[c] = "write" /\ found[c]
  /\ \/ /\ out[c] = "stdout"
        /\ pc' = [pc EXCEPT ![c] = "report"]
        /\ UNCHANGED <<req, found, offset>>
     \/ /\ out[c] # "stdout"
        /\ Exit(c)
  /\ UNCHANGED <<envVars, list, streamVars, procVars, doneVars>>

\* Mutant: the descriptor is not closed.
ReportOpen(c) ==
  /\ pc[c] = "report"
  /\ joins' = [joins EXCEPT ![c] = @ + 1]
  /\ Return(c)
  /\ UNCHANGED <<envVars, list, streamVars, procVars, lists>>

\* The descriptor is closed, the list's or 1, and the join reported as done.
Report(c) ==
  /\ pc[c] = "report"
  /\ joins' = [joins EXCEPT ![c] = @ + 1]
  /\ out' = [out EXCEPT ![c] = IF found[c] \/ @ = "list" THEN "closed" ELSE @]
  /\ Return(c)
  /\ UNCHANGED <<envVars, list, streamVars, cwd, stale, lists>>
-----------------------------------------------------------------------------
(* send_node_list.                                                          *)

\* Mutant: get_list_info changes back to the directory it came from.
CatalogReturns(c) ==
  /\ pc[c] = "catalog" /\ dataDir
  /\ pc' = [pc EXCEPT ![c] = "reply"]
  /\ UNCHANGED <<envVars, list, streamVars, req, found, offset, procVars,
                 doneVars>>

\* get_list_info leaves the child in ./Data and its directory stream open on
\* the lowest free descriptor.
Catalog(c) ==
  /\ pc[c] = "catalog"
  /\ \/ /\ dataDir
        /\ pc' = [pc EXCEPT ![c] = "reply"]
        /\ cwd' = [cwd EXCEPT ![c] = "Data"]
        /\ out' = [out EXCEPT ![c] = IF @ = "closed" THEN "Data" ELSE @]
     \/ /\ ~dataDir
        /\ pc' = [pc EXCEPT ![c] = "exit"]
        /\ UNCHANGED <<cwd, out>>
  /\ UNCHANGED <<envVars, list, streamVars, req, found, offset, stale, doneVars>>

\* Mutant: an answer that fails is logged and the child goes on.
ReplyGoesOn(c) ==
  /\ pc[c] = "reply"
  /\ lists' = IF peer[c] THEN [lists EXCEPT ![c] = @ + 1] ELSE lists
  /\ Return(c)
  /\ UNCHANGED <<envVars, list, streamVars, procVars, joins>>

\* The message and the frames of the list are written; or one of the writes is
\* short or fails, whether the device is still there or not.
Reply(c) ==
  /\ pc[c] = "reply"
  /\ \/ /\ peer[c]
        /\ lists' = [lists EXCEPT ![c] = @ + 1]
        /\ Return(c)
     \/ /\ Exit(c)
        /\ UNCHANGED lists
  /\ UNCHANGED <<envVars, list, streamVars, procVars, joins>>

\* A write waits until the device has read enough of what was written before.
AwaitsDevice(c) == pc[c] = "reply" /\ peer[c]
-----------------------------------------------------------------------------
Recv(c) == RecvWhole(c) \/ RecvCut(c) \/ RecvRest(c) \/ RecvMerged(c)

Child(c) ==
  \/ Recv(c) \/ RecvNothing(c)
  \/ Open(c) \/ ReadNode(c) \/ PrintNode(c) \/ ReadAgain(c) \/ ReadEnd(c)
  \/ PrintLast(c) \/ Seek(c) \/ WriteNode(c) \/ WriteStdout(c) \/ Report(c)
  \/ Catalog(c) \/ Reply(c)

Device(c) == Hangup(c) \/ \E m \in Request : Send(c, m)

SessionNext ==
  \E c \in Conns : Child(c) \/ Device(c) \/ \E s \in BOOLEAN : Start(c, s)

SessionSafety == SessionInit /\ [][SessionNext]_sessionVars

\* Each child is a process of its own and is scheduled; devices owe nothing, not
\* even to read what a child writes to them.
SessionSpec ==
  SessionSafety /\ \A c \in Conns : WF_sessionVars(Child(c) /\ ~AwaitsDevice(c))
-----------------------------------------------------------------------------
SessionTypeOK ==
  /\ nodeDir \in BOOLEAN
  /\ dataDir \in BOOLEAN
  /\ list \in Seq(Slots)
  /\ Len(list) <= MaxSlots
  /\ peer \in [Conns -> BOOLEAN]
  /\ sent \in 0..MaxSends
  /\ stream \in [Conns -> Seq(Request)]
  /\ rest \in [Conns -> BOOLEAN]
  /\ pc \in [Conns -> {"off", "recv", "open", "scan", "print", "last", "seek",
                       "write", "splice", "report", "catalog", "reply", "exit"}]
  /\ req \in [Conns -> Request \cup Unaddressed]
  /\ found \in [Conns -> BOOLEAN]
  /\ offset \in [Conns -> 0..MaxSlots]
  /\ cwd \in [Conns -> {"root", "Data"}]
  /\ out \in [Conns -> {"stdout", "closed", "list", "Data"}]
  /\ stale \in [Conns -> BOOLEAN]
  /\ joins \in [Conns -> Nat]
  /\ lists \in [Conns -> Nat]

\* A connection is sent the list of data at most once: get_list_info never
\* leaves ./Data (fileinfo.c:100), so the relative path of the node list cannot
\* be opened again and the next request ends the child.
ListSentOnce == \A c \in Conns : lists[c] <= 1

\* On a list with records a connection has at most one join acknowledged: the
\* first one closes descriptor 1 (msgprocess.c:400-401), and every later one
\* fails on it, whatever requests come between them.
JoinAcknowledgedOnce == Seeds # <<>> => \A c \in Conns : joins[c] <= 1

\* A child whose join found records and which asks for the list afterwards has
\* no standard output, and it is not given back before the child ends.
StdoutLostForGood ==
  [][\A c \in Conns : out[c] # "stdout" /\ pc[c] # "off" => out'[c] # "stdout"]_out

\* The list of nodes loses no slot, whatever the children do to it at once.
ListNeverShrinks == [][Len(list') >= Len(list)]_list

\* The first record survives: neither the lines a child prints into the list
\* nor a join writes over the first slot of a list that main has seeded.
FirstRecordKept == [][Seeds # <<>> => list'[1] = list[1]]_list

\* A list that main has seeded is changed by no join (msgprocess.c:400) and by no
\* line that is printed, except by those of a child whose acknowledged join has
\* cost it its standard output and whose descriptor 1 is the list.
TextNeedsLostStdout ==
  [][Seeds # <<>> /\ list' # list
      => \E c \in Conns : joins[c] > 0 /\ out[c] = "list"]_list

\* A child that may have written to a list it found empty: it has reported a join,
\* or is about to, or has ended in one.
MayHaveWritten(c) ==
  joins[c] > 0 \/ pc[c] = "report" \/ (pc[c] = "exit" /\ req[c].type = "join")

\* When the list started empty, the record of a child that has reported its join
\* (msgprocess.c:407) is in the list while no other child has come to the end of
\* its write, however far the others are in their lookups and seeks and whatever
\* other requests they have ended in: a record is lost to another join only.
LoneJoinRecorded ==
  Seeds = <<>> =>
    \A c \in Conns :
      joins[c] > 0 /\ (\A d \in Conns \ {c} : ~MayHaveWritten(d))
        => \E i \in 1..Len(list) : list[i] = c

\* The first request handled may end its child only if it is not addressed to the
\* server (a list is then refused, a join ends as it happens, msgprocess.c:410),
\* if a directory is missing, if the list was not seeded, or in its answer: no
\* other step of a lookup or of a join fails on a fresh child.
FirstRequestIsHandled ==
  [][\A c \in Conns :
       /\ pc[c] # "exit" /\ pc'[c] = "exit"
       /\ nodeDir /\ dataDir /\ Seeds # <<>>
       /\ req'[c].dest = "server"
       => joins[c] + lists[c] > 0 \/ pc[c] = "reply"]_pc

\* Every request a device has sent is read in the end, or the child has ended,
\* if the child did not inherit EINTR (then it may spin in check_node_list) and
\* the device does not leave it waiting in an answer for ever.
RequestsRead ==
  \A c \in Conns :
    []<>~AwaitsDevice(c) =>
      ((stream[c] # <<>> /\ ~stale[c]) ~> (stream[c] = <<>> \/ pc[c] = "exit"))

\* What process_req_join reports (msgprocess.c:381 "add this node in system",
\* 407 "add new node success!"): a node whose join succeeded is in the list.
JoinedIsRecorded ==
  \A c \in Conns :
    joins[c] > 0 => \E i \in 1..Len(list) : list[i] = c

\* What the code after client_process says (refcomm-server.c:232-234
\* "finish...", close, exit): the child of a device that has gone ends.
ChildEnds == \A c \in Conns : (pc[c] # "off" /\ ~peer[c]) ~> pc[c] = "exit"
=============================================================================
