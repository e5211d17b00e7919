------------------------------ MODULE Registry ------------------------------
(***************************************************************************)
(* The file ./NodeList/nodelist.data over the runs of all the programs     *)
(* that write it, none of which takes a lock: main of refcomm-server.c,    *)
(* which adds two records at every start; its children, which add the      *)
(* nodes that join an empty list and, once a join has cost them descriptor *)
(* 1, print into the list (check_node_list, process_req_join); add.c,      *)
(* which adds the first of the two records; and the programs of devices,   *)
(* which look a node up by its Bluetooth address (check_node_list_blue)    *)
(* and add the ones they did not find (init_dtn3_msg,                      *)
(* process_add_new_friend).                                                *)
(*                                                                         *)
(* A record has two units, the IPv6 address and the Bluetooth address, so  *)
(* that a write may be cut within a record and what follows it is read out *)
(* of step.  Each system call is an action.  Of a child only what it does  *)
(* to the list is followed; its requests are those of Session.             *)
(***************************************************************************)
EXTENDS Naturals, Sequences

CONSTANTS Servers,  \* the server, as often as it may run at the same time
          Tools,    \* add.c, likewise
          Devices,  \* the programs that use the library
          Children, \* the children of servers that may run at the same time
          Peers,    \* the nodes a device may meet beside the server
          MaxRuns,  \* bound: starts, by server and tool
          MaxFds,   \* descriptors a device may have open
          MaxUnits  \* bound: units the disk has room for

Programs == Servers \cup Tools \cup Devices \cup Children

\* The two records of the server: main and add.c have its Bluetooth address
\* of the machine 42:6E in common, the second is the one of 10:55.
Nodes == Peers \cup {"42:6E", "10:55"}

ASSUME RegistryAssumption ==
  /\ Servers \cap Tools = {} /\ Servers \cap Devices = {} /\ Tools \cap Devices = {}
  /\ (Servers \cup Tools \cup Devices) \cap Children = {}
  /\ Nodes \cap {"blank", "garbled"} = {}
  /\ MaxRuns \in [Servers \cup Tools -> Nat]
  /\ MaxFds \in Nat /\ MaxUnits \in Nat

Addresses == Nodes \cup {"blank", "garbled"}

Record == [ipv6 : Addresses, blue : Nodes]
Units == [field : {"ipv6"}, of : Addresses] \cup [field : {"blue"}, of : Nodes]
           \cup [field : {"text"}, of : {"garbled"}]

Layout(r) == << [field |-> "ipv6", of |-> r.ipv6], [field |-> "blue", of |-> r.blue] >>

Own(n) == [ipv6 |-> n, blue |-> n]

\* A line that takes the place of so many units, all or a part of the last one.
Line(length) == [i \in 1..length |-> [field |-> "text", of |-> "garbled"]]

\* What stands where an address is expected: out of step it is some other part
\* of a record.
Address(unit) == IF unit.field = "ipv6" THEN unit.of ELSE "garbled"

VARIABLES
  list,    \* the units of the file
  runs,    \* how often a server or a tool has been started
  pc,      \* where a program is
  offset,  \* units it has read, or where it has sought to
  todo,    \* records it has still to write, or the one it looks up
  fds,     \* descriptors of the list a device has left open
  settled, \* history: units the list had when last no program was between a seek
           \* and its write
  known    \* history: the node looked up was settled when the file was opened, and
           \* has been since

registryVars == <<list, runs, pc, offset, todo, fds, settled, known>>

\* A file after a write of some units at an offset, at most at its end.
Put(file, off, units) ==
  [i \in 1..(IF off + Len(units) > Len(file) THEN off + Len(units) ELSE Len(file)) |->
     IF i \in (off + 1)..(off + Len(units)) THEN units[i - off] ELSE file[i]]

\* Where a lookup finds a node: the second unit of each pair it reads is
\* compared.
Holds(file, n) ==
  \E k \in 1..Len(file) : 2 * k <= Len(file) /\ file[2 * k] = [field |-> "blue", of |-> n]

Settles == settled' = IF \E p \in Programs : pc'[p] = "write" THEN settled ELSE Len(list')

RegistryInit ==
  /\ list = <<>>
  /\ runs = [p \in Servers \cup Tools |-> 0]
  /\ pc = [p \in Programs |-> "off"]
  /\ offset = [p \in Programs |-> 0]
  /\ todo = [p \in Programs |-> <<>>]
  /\ fds = [d \in Devices |-> 0]
  /\ settled = 0
  /\ known = [d \in Devices |-> FALSE]

To(p, place, off, records) ==
  /\ pc' = [pc EXCEPT ![p] = place]
  /\ offset' = [offset EXCEPT ![p] = off]
  /\ todo' = [todo EXCEPT ![p] = records]
-----------------------------------------------------------------------------
(* main of the server, add.c, and what they share with add_new_node.        *)

\* When its records are written the server serves; a child waits for the next
\* request, or ends if its write was not complete; the others are done.
End(p, complete) ==
  IF p \in Servers THEN "serve" ELSE IF p \in Children /\ complete THEN "idle" ELSE "off"

\* The file is opened, or is not, which is not tested: each seek and each write
\* fails then and changes nothing.
Start(p) ==
  /\ pc[p] = "off" /\ runs[p] < MaxRuns[p]
  /\ runs' = [runs EXCEPT ![p] = @ + 1]
  /\ \/ To(p, "seek", 0, IF p \in Servers THEN <<Own("42:6E"), Own("10:55")>>
                                          ELSE <<Own("42:6E")>>)
     \/ To(p, End(p, FALSE), 0, <<>>)
  /\ UNCHANGED <<list, fds, settled, known>>

\* Mutant: the place to write at is counted in whole records.
SeekRecord(p) ==
  /\ pc[p] = "seek"
  /\ To(p, "write", 2 * (Len(list) \div 2), todo[p])
  /\ UNCHANGED <<list, runs, fds, known>>
  /\ Settles

\* lseek(datafd, 0, SEEK_END).
Seek(p) ==
  /\ pc[p] = "seek"
  /\ To(p, "write", Len(list), todo[p])
  /\ UNCHANGED <<list, runs, fds, known>>
  /\ Settles

Written(p, complete) ==
  To(p, IF Len(todo[p]) > 1 THEN "seek" ELSE End(p, complete), 0, Tail(todo[p]))

\* write(datafd, &node, node_len) at the offset, which is not moved to the end
\* first.  It is complete, or cut where the file would grow and the disk is
\* full, or it fails.  No program that has more to write looks at the result.
Write(p) ==
  /\ pc[p] = "write"
  /\ \/ /\ offset[p] + 2 <= MaxUnits
        /\ list' = Put(list, offset[p], Layout(Head(todo[p])))
        /\ Written(p, TRUE)
     \/ /\ offset[p] + 2 > Len(list) /\ offset[p] + 1 <= MaxUnits
        /\ list' = Put(list, offset[p], << Layout(Head(todo[p]))[1] >>)
        /\ Written(p, FALSE)
     \/ /\ UNCHANGED list
        /\ Written(p, FALSE)
  /\ UNCHANGED <<runs, fds, known>>
  /\ Settles

\* The server or a child ends: it is killed, its machine stops, or a request that
\* is none of the list's business fails.  The server may be started again.  A
\* child that has sent the list of data is at its end too, as far as the list
\* goes: it has left the directory.  For a program with one record to write, to
\* be killed is to fail to write it.
Crash(p) ==
  /\ pc[p] # "off"
  /\ To(p, "off", 0, <<>>)
  /\ UNCHANGED <<list, runs, fds, known>>
  /\ Settles
-----------------------------------------------------------------------------
(* A child of the server: check_node_list and process_req_join.             *)

\* fork in main; a child outlives the server.
Fork(k) ==
  /\ pc[k] = "off"
  /\ \E p \in Servers : pc[p] = "serve"
  /\ To(k, "idle", 0, <<>>)
  /\ UNCHANGED <<list, runs, fds, settled, known>>

\* A join finds less than a record: the node, which is none of the server's, is
\* added, with its own address or with what is none, of a request that is not read
\* whole.
JoinEmpty(k) ==
  /\ pc[k] = "idle" /\ Len(list) < 2
  /\ \E n \in Peers : \E a \in {n, "garbled"} :
       To(k, "seek", 0, <<[ipv6 |-> a, blue |-> n]>>)
  /\ UNCHANGED <<list, runs, fds, settled, known>>

\* A join finds records: its own goes to descriptor 1, which is then closed.
JoinStdout(k) ==
  /\ pc[k] = "idle" /\ Len(list) >= 2
  /\ To(k, "mute", 0, <<>>)
  /\ UNCHANGED <<list, runs, fds, settled, known>>

\* The next request opens the list, as descriptor 1.
Reopen(k) ==
  /\ pc[k] = "mute"
  /\ To(k, "scan", 0, <<>>)
  /\ UNCHANGED <<list, runs, fds, settled, known>>

Scan(k) ==
  /\ pc[k] = "scan" /\ offset[k] + 2 <= Len(list)
  /\ To(k, "print", offset[k] + 2, <<>>)
  /\ UNCHANGED <<list, runs, fds, settled, known>>

\* Less than a record is left and is read.
ScanEnd(k) ==
  /\ pc[k] = "scan" /\ offset[k] + 2 > Len(list)
  /\ To(k, "last", Len(list), <<>>)
  /\ UNCHANGED <<list, runs, fds, settled, known>>

\* A device's node may lose its settled records to what is printed.
Forgets ==
  known' = [d \in Devices |->
              /\ known[d]
              /\ pc[d] = "read" => Holds(SubSeq(list', 1, settled), Head(todo[d]).blue)]

\* printf of the record just read, to the list, where the next one would have
\* been read.  The line is about as long as a record: shorter when the address is
\* blank, longer when the address has no end.
PrintRecord(k) ==
  /\ pc[k] = "print"
  /\ \/ \E length \in 1..3 : \E n \in 1..length :
          /\ offset[k] + length <= MaxUnits
          /\ list' = Put(list, offset[k], Line(length))
          /\ To(k, "scan", offset[k] + n, <<>>)
     \/ /\ UNCHANGED list
        /\ To(k, "scan", offset[k], <<>>)
  /\ Forgets
  /\ UNCHANGED <<runs, fds>>
  /\ Settles

\* printf that the list is read, to the list, which is then closed.  A join writes
\* to the closed descriptor and ends the child; a list of data is sent and the
\* child does not find the list again.
PrintEnd(k) ==
  /\ pc[k] = "last"
  /\ \/ \E length \in 1..2 :
          /\ offset[k] + length <= MaxUnits
          /\ list' = Put(list, offset[k], Line(length))
     \/ UNCHANGED list
  /\ To(k, "off", 0, <<>>)
  /\ Forgets
  /\ UNCHANGED <<runs, fds>>
  /\ Settles
-----------------------------------------------------------------------------
(* A device: check_node_list_blue, init_dtn3_msg, process_add_new_friend.   *)

\* Mutant: the result of open is not tested.
OpenUntested(d, n) ==
  /\ pc[d] = "off"
  /\ To(d, "read", 0, <<[ipv6 |-> "blank", blue |-> n]>>)
  /\ known' = [known EXCEPT ![d] = Holds(SubSeq(list, 1, settled), n)]
  /\ UNCHANGED <<list, runs, fds, settled>>

\* The address the lookup is to find is blank so far.
Open(d, n) ==
  /\ pc[d] = "off"
  /\ IF fds[d] < MaxFds
     THEN /\ To(d, "read", 0, <<[ipv6 |-> "blank", blue |-> n]>>)
          /\ known' = [known EXCEPT ![d] = Holds(SubSeq(list, 1, settled), n)]
     ELSE /\ To(d, "failed", 0, <<>>)
          /\ UNCHANGED known
  /\ UNCHANGED <<list, runs, fds, settled>>

\* Mutant: the address is taken from the record read before.
ReadFoundLate(d) ==
  /\ pc[d] = "read" /\ offset[d] + 2 <= Len(list)
  /\ LET n == Head(todo[d]).blue
     IN  /\ list[offset[d] + 2] = [field |-> "blue", of |-> n]
         /\ To(d, "found", 0, <<[ipv6 |-> Address(list[IF offset[d] > 0 THEN offset[d] - 1
                                               ELSE 1]),
                                 blue |-> n]>>)
  /\ UNCHANGED <<list, runs, fds, settled, known>>

\* A record with the address looked for: the loop is left, the file is closed.
ReadFound(d) ==
  /\ pc[d] = "read" /\ offset[d] + 2 <= Len(list)
  /\ LET n == Head(todo[d]).blue
     IN  /\ list[offset[d] + 2] = [field |-> "blue", of |-> n]
         /\ To(d, "found", 0, <<[ipv6 |-> Address(list[offset[d] + 1]), blue |-> n]>>)
  /\ UNCHANGED <<list, runs, fds, settled, known>>

ReadOther(d) ==
  /\ pc[d] = "read" /\ offset[d] + 2 <= Len(list)
  /\ list[offset[d] + 2] # [field |-> "blue", of |-> Head(todo[d]).blue]
  /\ To(d, "read", offset[d] + 2, todo[d])
  /\ UNCHANGED <<list, runs, fds, settled, known>>

\* Mutant: the loop is left one record too early.
ReadEndEarly(d) ==
  /\ pc[d] = "read" /\ offset[d] + 2 >= Len(list)
  /\ To(d, "absent", 0, todo[d])
  /\ fds' = [fds EXCEPT ![d] = @ + 1]
  /\ UNCHANGED <<list, runs, settled, known>>

\* Nothing is left, or less than a record: the descriptor is returned open.
ReadEnd(d) ==
  /\ pc[d] = "read" /\ offset[d] + 2 > Len(list)
  /\ To(d, "absent", 0, todo[d])
  /\ fds' = [fds EXCEPT ![d] = @ + 1]
  /\ UNCHANGED <<list, runs, settled, known>>

\* The message of a node that was not found: its source address, or what
\* init_dtn_msg left there when nothing was received.  The node is then added
\* through the descriptor that the lookup left open.
Befriend(d) ==
  /\ pc[d] = "absent"
  /\ LET n == Head(todo[d]).blue
     IN  \E a \in {n, "blank"} : To(d, "seek", 0, <<[ipv6 |-> a, blue |-> n]>>)
  /\ UNCHANGED <<list, runs, fds, settled, known>>

\* The address is put in a request, or there is none and init_dtn4_msg,
\* init_dtn6_msg or init_dtn11_msg returns an error: a descriptor stays open.
Answer(d) ==
  /\ pc[d] \in {"found", "absent", "failed"}
  /\ To(d, "off", 0, <<>>)
  /\ known' = [known EXCEPT ![d] = FALSE]
  /\ UNCHANGED <<list, runs, fds, settled>>
-----------------------------------------------------------------------------
Lookup(d) == ReadFound(d) \/ ReadOther(d) \/ ReadEnd(d)

Child(k) ==
  \/ Fork(k) \/ JoinEmpty(k) \/ JoinStdout(k)
  \/ Reopen(k) \/ Scan(k) \/ ScanEnd(k) \/ PrintRecord(k) \/ PrintEnd(k)

RegistryNext ==
  \/ \E p \in Servers \cup Tools : Start(p)
  \/ \E p \in Servers \cup Children : Crash(p)
  \/ \E k \in Children : Child(k)
  \/ \E p \in Programs : Seek(p) \/ Write(p)
  \/ \E d \in Devices : \/ \E n \in Nodes : Open(d, n)
                        \/ Lookup(d) \/ Befriend(d) \/ Answer(d)

RegistrySpec == RegistryInit /\ [][RegistryNext]_registryVars
-----------------------------------------------------------------------------
\* The variables have their types; a program between a seek and its write has
\* sought to a place in the file and has a record to write, and a lookup reads
\* through a descriptor of its own.
RegistryTypeOK ==
  /\ list \in Seq(Units) /\ Len(list) <= MaxUnits
  /\ runs \in [Servers \cup Tools -> Nat]
  /\ \A p \in Servers \cup Tools : runs[p] <= MaxRuns[p]
  /\ pc \in [Programs -> {"off", "seek", "write", "serve", "read", "found",
                          "absent", "failed", "idle", "mute", "scan", "print", "last"}]
  /\ offset \in [Programs -> 0..MaxUnits]
  /\ todo \in [Programs -> Seq(Record)]
  /\ fds \in [Devices -> 0..MaxFds]
  /\ settled \in 0..Len(list)
  /\ known \in [Devices -> BOOLEAN]
  /\ \A p \in Programs :
       pc[p] \in {"seek", "write", "read", "found", "absent"} => todo[p] # <<>>
  /\ \A d \in Devices : pc[d] = "read" => fds[d] < MaxFds
  /\ \A p \in Programs :
       pc[p] \in {"write", "scan", "print", "last"} => offset[p] <= Len(list)
  /\ \A p \in Programs : pc[p] \in {"mute", "scan", "print", "last"} => Len(list) >= 2
  /\ \A p \in Programs : pc[p] \in {"print", "last"} => offset[p] >= 2

\* What the list held at some moment at which no program was between its lseek
\* and its write (add_new_node, msgprocess.c:348) no record ever replaces,
\* whatever is cut, killed and started again: only a write whose seek was
\* overtaken overwrites, and only what came after the seek.  What is lost of it
\* is lost to a line that a child prints (msgprocess.c:276), which is never
\* printed over the first record.
SettledKept ==
  [][/\ Len(list') >= settled
     /\ \A i \in 1..settled :
          list'[i] = list[i] \/ (i > 2 /\ list'[i].field = "text")]_registryVars

\* check_node_list_blue (msgprocess.c:178-212) does not miss a node whose
\* record was settled, at a whole number of records from the beginning, when it
\* opened the file, whatever is written, and cut, while it reads, unless a child
\* of the server prints over the last such record before it is read.
NotFoundMeansAbsent == \A d \in Devices : pc[d] = "absent" => ~known[d]

\* A node that is found is found with its own address, or with what is none,
\* never with the address of another one (strncpy at msgprocess.c:185): no
\* sequence of overtaken and of cut writes joins the halves of two records.
FoundIsOwn ==
  \A d \in Devices :
    pc[d] = "found" => Head(todo[d]).ipv6 \in {Head(todo[d]).blue, "blank", "garbled"}
=============================================================================
