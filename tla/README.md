# DTN_SERVER: models, checks and proofs

The repository is a small delay-tolerant-network server for Bluetooth (RFCOMM,
C, Linux, 32 bits): a parent process accepts connections and forks one child
per connection; a child receives requests (join the system, send me the list of
your data), keeps the file of known nodes `./NodeList/nodelist.data`, and sends
a listing of `./Data`. The device side of the protocol is a library in
`msgprocess.c` with a test client.

## 1. Inventory

| part | source | state it keeps | operations |
|---|---|---|---|
| accept loop | `refcomm-server.c` `main` 151-240 | listening socket, `client`, `errno`, descriptors, one process per connection | accept, test of errno, fork, close |
| SIGCHLD handler | `sigprocess.c` | zombies, `errno` of the parent | one `waitpid` per round |
| sessions | `refcomm-server.c` 25-118, `msgprocess.c` 225-557 | per child: working directory, descriptor 1, errno, place in the stream of requests | recv, dispatch, join, list request |
| node list | `msgprocess.c` 97-356, `refcomm-server.c` 151-174, `add.c` | the file, one record of 68 bytes per node, no lock | read to the end, look up, append, seed at start |
| catalogue | `fileinfo.c` 14-316 | names of the directories and files of `./Data` in memory | `get_list_info`, `free_list`, `get_list_len` |
| list transfer | `fileinfo.c` 390-442, `msgprocess.c` 740-962 | a stream of frames of fixed size, the list being built | `send_list_info`, `process_recv_list` |
| file transfer | `msgprocess.c` 964-1225 | a stream of bytes behind one frame, a file | `process_req_data`, `process_send_data`, `process_recv_data` |
| device library | `msgprocess.c` 559-802, 1227-1285, `test_client.c` | one request at a time, its own node list | `init_dtn*_msg`, friends, quit |
| time stamps | `msgprocess.c` 23-95 | none | `get_local_time`, `get_dead_time` |
| SDP registration, device search, address helpers | `UUID_Server.c`, `search.c`, `blueinfo.c`, `ipv6info.c` | none that outlives a call | library calls |

How they interact. The parent hands a connection to a child by `fork`: the child
gets the parent's descriptors, working directory and `errno`. A child's exit
makes a zombie and a SIGCHLD, and the handler runs on top of whatever the parent
was doing. Children do not talk to each other but share the file of the node
list, which other programs (`add.c`, a second server, programs of devices on the
same machine) write as well. A request drives `check_node_list`, then
`add_new_node` or `get_list_info` and `send_list_info`. Devices come, send, and
go when they like.

What is hard here, and what correctness means for each part:

- *Accept loop and handler*: one pending bit for any number of exits, an
  interruption at any step, `errno` shared by the handler, the loop and, through
  fork, by children. Correct: no zombie forgotten, no descriptor leaked, each
  connection served once or turned away at the process limit, errno not
  falsified by the handler.
- *Sessions*: what one request leaves behind in the process (descriptor 1,
  directory) decides what the next one does; requests cut and merged by the
  stream; a join that is written is not reported yet, and an answer waits for a
  device that does not read. Correct: a join that is reported is recorded, the
  list reply is repeatable, a request is read in the end. The code does not do
  all of that; the runs say which parts hold and which fail.
- *Node list*: several programs seek, write and print without a lock, are killed
  between two calls and find the disk full. Correct: a record that is complete
  and that nobody was about to write over stays, is found, and gives the address
  of its own node. The lines that children print into the list spoil a part of
  that.
- *Catalogue*: memory that mirrors a directory, in arrays of arrays, any of
  which may be missing. Correct: the list says what was found, what is freed was
  allocated, and nothing else is left.
- *Transfers*: frames of fixed size over a stream, without an end of their own.
  Correct: what arrives is what was sent, lengths announced are lengths sent,
  both ends come to an end.

The list of hazards, each at its line, is in `PROJECT.json`.

## 2. Modules

| module | models | composes |
|---|---|---|
| `ConnectionService` | what the accept loop promises: the life of a connection (away, waiting, taken, served, ended) | |
| `AcceptLoop` | `main` from the accept loop on and `sig_child` | refines `ConnectionService` |
| `Session` | the children and the node list | |
| `DtnServer` | parent and children joined at fork and exit | instances of `AcceptLoop` and `Session` |
| `Registry` | the file of the node list under every program that writes it, over starts and crashes | has the writes and the lines of the children of `Session`, unit by unit, and adds the other writers and the readers |
| `ListTransfer` | the frames of a list from a child to a device, over a stream | details the `Reply` of `Session` |
| `CatalogMemory` | the memory of such a list at both ends | details the `Catalog` of `Session` and the receiver of `ListTransfer` |
| `FileTransfer` | a file from a child to a device | |
| `AcceptLoop_proofs`, `AcceptService_proofs`, `Session_proofs`, `DtnServer_proofs`, `Registry_proofs`, `ListTransfer_proofs`, `CatalogMemory_proofs`, `FileTransfer_proofs` | proofs | extend the modules they are about |
| `MCAcceptLoop`, `MCSession`, `MCDtnServer`, `MCRegistry`, `MCListTransfer`, `MCCatalogMemory`, `MCFileTransfer` | small instances for TLC | |

The code in the modules' words:

- `AcceptLoop`: `loop` is the place in `main`, `client` and `errno` are the
  variables of that name, `parentFds` the descriptors of connections the parent
  holds, `queue` the kernel's queue, `proc` the children with their exit status
  not yet waited for, `pending` and `handling` the signal. `Accept`,
  `AcceptFails`, `TestError`, `ForkChild`, `ForkFails` and `CloseClient` are the
  calls of the loop in their order; `EnterHandler`, `Reap`, `LeaveHandler` the
  handler's rounds. While `handling` holds `main` makes no step.
- `Session`: `pc` is the place of a child: `recv` (client_process), `open`,
  `scan`, `print`, `last` (check_node_list: a read, the line for a record, the
  line at the end), `seek`, `write` or `splice` (add_new_node, the latter behind a
  part of a record), `report` (the rest of process_req_join), `catalog`
  (get_list_info), `reply` (send_msg and send_list_info), `exit`. `found` is the
  local `flag` of check_node_list, which is what process_req_join passes on as a
  descriptor. `out` is what descriptor 1 refers to, `cwd` the directory. Each
  system call on the shared list is an action of its own, and a join that is
  written is reported in another. `Reply` succeeds, or one of its writes is short
  or fails and the child exits, whether the device is there or not.
- `DtnServer`: `Fork` is `ForkChild` with `Start` of the child's session and the
  parent's errno; `ChildStep` is a step of a session, together with `ChildExit`
  of the parent's module when the session ends.
- `Registry`: a program is at `seek` or `write` (main at 151-174, add.c,
  add_new_node), a server then at `serve`, where it forks children (`Fork`). A
  child is `idle` between requests; a join finds the list empty (`JoinEmpty`) or
  goes to descriptor 1 (`JoinStdout`), which is closed then (`mute`), so that the
  next request opens the list as descriptor 1 (`Reopen`) and is at `scan`, `print`
  and `last` as in `Session`. A device is at `read` in check_node_list_blue and
  leaves it `found`, `absent` or `failed`. `list` is the
  file in units of half a record, the two addresses, so that a write may be cut
  within a record and what follows is read out of step. `todo` is the record to
  write or the one looked up. `Befriend` is init_dtn3_msg followed by
  process_add_new_friend, which writes through the descriptor that the lookup
  left open; `Answer` is every other caller, which leaves it open for good
  (`fds`). `settled` and `known` are history: how long the list was when no
  program was between a seek and its write, and whether the node looked up was
  in that part when the file was opened and has been since.
- `ListTransfer`: `sender` is the place of the child in send_node_list and
  send_list_info (`SendMessage`, then `SendList`, `SendDir` and `SendFile`, one
  frame each; `dir` and `file` are the loops' i and j), `receiver` the place of
  the device in init_dtn5_msg and process_recv_list (`RecvMessage`, `RecvList`,
  `RecvDir`, `RecvFile`), `stream` what is on the link. `announced` is `data_len`
  of the message, `count` the `child_dir_num` of the first frame, `copy` the
  list_info the device builds. `SenderEnds` and `RecvFails` are the ends a
  connection may come to at any time.
- `CatalogMemory`: `builder` says whether get_list_info or process_recv_list is
  at work. `heap` is the set of blocks allocated; `parents`, `children`, `names`
  and `counts` are the arrays, a pointer being a block, null or wild (memory
  nobody has written). `last` is the variable child_dir_num of get_list_info,
  which its label myfree takes for the number of directories. `Cleanup` is that
  label, `FreeList` is free_list.
- `FileTransfer`: `device` is the place in process_req_data (`Ask`, `Choose`,
  `Quit`) and process_recv_data (`RecvHeader`, `RecvOpen`, `RecvBody`,
  `RecvEnd`), `server` the place of the child in its loop and in
  process_send_data (`Serve`, or `ServeOther` for bytes that are no request for
  data, `SendOpen`, `SendHeader`, `SendChunk`, `SendEnd`). `up` and `down` are the
  two directions of the connection, sequences of units: `Tell` and `SendUnits`
  send a whole message or the beginning of one, `Taken` and `Received` say how
  much a recv may return. `disk` is what the device holds, `old` what it held
  before, `wrote` the units written. `left`, `refused`, `broken` and `torn` are
  history: a request was given up, a file was not there, a send of the server or
  the recv of the header was cut (or something else was sent before the header),
  a send of the device or a recv of the server was cut.

Definitions marked as mutants are the faulty variants each property was tried
against; no specification uses them.

### What is abstracted

- A record, a line of text and a name are values; a slot of the list in
  `Session` is one record, and behind the slots there may be a part of one
  (`Part`). A write of less than a slot breaks the record it falls on or leaves a
  part at the end (`Spoil`); a write behind a part is no record for any reader
  (`Splice`). A line printed for a record has 71 bytes for these addresses
  against 68 of a record and is rounded to one slot; the line at the end
  ("check_node_list: read node_list finished!") is less than a slot.
- Standard output is a terminal, so each line is written as it is printed. Were
  it redirected, the same text would be written in pieces of 4096 bytes.
- A request is its type (join, list, or one of those ignored) and whom it is
  addressed to. The body of a request for data (type 6), which the server would
  read as one or two requests, is not sent in `Session`.
- Short reads: a request is delivered whole, or its beginning first, and then
  its end alone or together with the beginning of the next. A cut request has
  lost its address or its type, as the buffer is zero behind what was read.
- In `Session` and `DtnServer` malloc, get_blue_addr and get_local_ipv6addr do
  not fail, and SIGCHLD and SIGPIPE are the only signals. SIGPIPE ends a child as
  a failed write does, and both are `Reply`'s second branch. A child or a server
  that is killed by somebody else is `Crash` in `Registry`.
- The message and the frames of a list are one step in `Session`, the last of the
  writes; the time before it is the state `AwaitsDevice`, in which the step is
  possible and not owed.
- signal() of glibc: SA_RESTART, so accept is not interrupted by SIGCHLD, and
  SIGCHLD is blocked while the handler runs.
- In `Session` and `DtnServer` a connection lives once; in `AcceptLoop` its
  place is reused for ever.
- In `Registry` a write is complete, cut in the middle of a record, or nothing;
  a read of a record is one step. An address read out of step is `garbled`, one
  never filled in `blank`. A line that is printed takes one to three units for a
  record, one or two at the end, and is `garbled` throughout. Of the requests of
  a child only those that touch the list are followed; a child that has sent a
  list is as good as ended, as it cannot open the file any more. When the file
  does not open, the writes of main and add.c fail and change nothing; the
  check_node_list that main makes after them only reads, and is left out.
- In `ListTransfer` a message and a name have two units and a number has one, so
  that a read may be cut within a frame and between a name and its number. A
  number read where a name stands is anything from 0 to a bound; negative
  numbers do what 0 does. A first frame of which the number did not arrive has
  what the uninitialised buffer held. `short` is a history variable: some frame
  was cut. The length of a list is the size of its frames times their number, the
  files counted as a set of pairs; get_list_len adds the same up in two loops.
- In `CatalogMemory` names are not told apart, and the entries "." and ".." are
  left out: get_list_info takes two off each count and skips them. A null or wild
  pointer that the code reads through ends the behaviour (`crashed`). What a
  release frees is a set of pairs, a place and the pointer that stands there;
  `bad` is set when a pointer is to no block or stands in two of the places,
  whatever the order of the calls of free.
- In `FileTransfer` a unit is eight bytes, the length of the word "Success" with
  its closing zero. The header and the names of the request have four units, a
  request has three, in the proportion of their sizes. Bytes are a request for
  data when they begin with the unit that holds its type; any other bytes are
  ignored, or taken for another request and answered, with one unit for any
  answer. Four units that are not the names name no file. A connection carries
  one transfer at a time, of one file. A message of another length than the one
  expected (after a `Quit`) is swallowed. process_send_data does not compile as
  it stands (`OFFSET` and `clent` are declared nowhere, `print` is no function
  here, `res` is declared twice) and no type of request calls it: what is
  modelled is what its text does once these names stand for what they are meant
  for.

## 3. Runs

| run | instance | what it shows |
|---|---|---|
| `accept` | 3 connections, 2 queued, 2 processes, 2 counted failures of accept | no zombie is forgotten or kept, no descriptor leaks, one owner per connection, the errno a child inherits, every queued connection is accepted, `ConnectionService` is implemented |
| `session_seeded` | 2 children, list with two records, short reads, 4 requests, 3 slots | one list and one join per connection at most, the first record survives, who writes text into the list, a first request addressed to the server ends a child in its answer only |
| `session_unseeded` | 2 children, empty list, short reads, 3 requests, 2 slots | a lone join is recorded once it is reported, whatever is cut, overtaken and ended between the write and the report; requests are read, unless the device leaves the child waiting in an answer |
| `server` | 2 connections, 1 process, 1 failure of accept, 2 requests | only a failed accept makes a child spin, both parts behave as alone, requests are read while accept works, a session that ends or cannot answer is noticed, reaped and closed, a device that connects is served or turned away |
| `registry` | a server with one child at a time, add.c, a device with one descriptor that looks up three nodes, 5 units of disk | what is settled is lost to a printed line only, never its first record, and is found otherwise; no address is another node's |
| `list_transfer` | 1 or 2 directories of 0 to 2 files, a link of 5 units that may cut any frame | what arrives is what was listed with nothing left on the link, a list cut off by the child's end keeps its names in place, the announced length is the written length, the device comes to an end |
| `catalog_memory` | up to 3 directories of up to 3 files, any malloc and any recv failing | the list mirrors the directories, which frees are of no block, which blocks stay |
| `file_transfer` | files of up to 4 units with the word in any place, 2 units a read, a link of 4 that may cut in both directions, 2 requests | what is written is the beginning of the file over what was there, only the word ends a file early, all of it arrives, a request that was neither cut nor given up is answered |
| `accept_exit` | expects a violation | without a listening socket the loop does not end (`if(errno = EINTR)`) |
| `join_recorded` | expects a violation | a join is reported as done and the node is not in the list |
| `child_ends` | expects a violation | a child outlives its device |
| `file_whole` | expects a violation | a file that was cut off is reported as received |

Bounds. Two children are what it takes to interleave their seeks, writes and
prints; a third adds another of the same. Four requests over both are enough for
a join, a list request and one more on the same connection while the other one
joins: join, then a request with descriptor 1 lost, is where text gets into the
list. The write of a record may be cut or fail at any time; lines that are
printed find three slots, so that one fits and one does not. With more
connections than processes, forks fail. Two failures of accept are enough for
one before and one after a fork; `failures` only counts up to its bound when the
socket is missing.

In `registry` five units are two records and a half, so that a write is cut both
after one record and after two, and records are out of step from an odd place
on. Four writers (a server, its child, add.c, the device) are enough to be
overtaken three times. The server and add.c start once: add.c, which writes the
server's first record at any time, stands for the server that is started again
after a crash. Children are forked again without a bound. One descriptor lets
the first lookup end and fails the second after one that found nothing. The
theorems of section 4 have none of these bounds.

The lists have every combination of empty and filled directories, first and
last, which is all the loops of the two ends distinguish; two files are what it
takes for a loop to go on and to stop, and a third one makes the number of files
of the last directory larger than, equal to and smaller than the number of
directories, which the clean-up confuses. The link holds one frame and the
beginning of the next, so that the sender waits for the receiver.

A file of four units is two full reads of two, three units end in a read that is
not full, and the word stands at either place of a read and across none. Cut
reads shift it between them. Two requests let one be given up, or be cut, and the
next be read out of step. Numbers typed go one beyond the arrays and below zero.

Fairness. `AcceptSpec`: the parent is scheduled and pending signals are
delivered (weak fairness of `Main` and of `Handler`). `SessionSpec`: every child
is scheduled, except where it waits for a device that is there to read an answer
(`AwaitsDevice(c)`). `ServerSpec`: all of these. `TransferSpec` and `FileSpec`:
the child and the device are scheduled; that the child goes away, that the
connection is reset or that a user chooses is never owed. `RegistrySpec` and
`MemorySpec` have safety properties only and state none. Nothing is assumed of
devices: they may never send, never read and never go, so `CHECK_DEADLOCK FALSE`
is said where all of them may stop. Where a property needs a device to read, it
says so itself (`[]<>~AwaitsDevice(c)` in `RequestsRead` and
`RequestsReadIfAcceptWorks`). `EndedIsReleased` speaks of an answer only once
its device has gone. `AcceptSpec` is checked for deadlock. That accept fails a
bounded number of times while the server listens is a bound and not an
assumption on the scheduler; `QueuedAccepted` rests on it.

## 4. Proofs

All theorems start from one assumption per module: `AcceptAssumption` (finitely
many connections, limits are natural numbers, the queue and the count of
failures have at least one place), `SessionAssumption` (text, the server and
connections are distinct values, bounds are natural numbers, the seeds fit),
`ServerAssumption` (a failure of accept is counted), `RegistryAssumption` (the
programs are distinct, the marks of a spoiled address are no nodes),
`FileAssumption` (the files are sequences of units, a header and a read fit on
the link), `TransferAssumption` (a catalogue lists at least one directory, a frame
fits on the link), `MemoryAssumption` (one entry of `./Data` at least).

- `AcceptLoop_proofs`. `AcceptInv` is inductive: types, `ZombiesSignalled`,
  `ParentHoldsOnlyClient`, `OneOwner`, `StaleErrnoNeedsFailure`, and
  `FailureSeen`, which ties the parent's own errno EINTR (and the place before
  the test) to a failure counted; without it nothing says what a fork copies
  into the child. Theorems: `AcceptTyping`, `NoZombieForgotten`,
  `NoDescriptorLeak`, `ConnectionsHaveOneOwner`, `StaleErrnoComesFromAccept`.
- `AcceptService_proofs`. `AcceptLoopImplementsService`: each action is a step
  of `ConnectionService` or leaves the phases alone. The counting lemmas bound
  what waits by the queue and what is served by the processes, for a set of any
  size.
- `Session_proofs`. `SessionTyping`, then one invariant per question.
  `SentInv` ties what was sent to the directory the child is in
  (`OneListPerConnection`). `JoinInv` says that on a seeded list no scan ends
  without a record found, so that a join always goes to descriptor 1
  (`OneJoinPerConnection`, `FirstRecordSurvives`). `PrintInv` says where
  descriptor 1 was lost (`TextOnlyFromLostStdout`). `LoneInv` says where a child
  that is the only one to have joined can be, and where its record is from the
  write to the report; a child between its write and its report, or ended there,
  counts as having written. That nobody else writes without being counted is what
  `PrintInv` adds to it (`LoneJoinStays`). `NoSlotLost`
  and `StdoutNotGivenBack` follow from what a step can do to the list and to
  descriptor 1; no run is spent on them. `AsForkedInv` says that a child that
  has sent no list is in `./Data` only to send it, or at its end. With `JoinInv`,
  which also says that nothing is ever at `splice` on a seeded list, and with
  `PrintInv`, a first request that is addressed to the server has no way to `exit`
  but in its answer (`FirstRequestIsServed`).
- `DtnServer_proofs`. `ServerInv` is the types both parts share with `StaleInv`,
  which follows a failure of accept through the parent's errno into a child's.
  Theorems: `OnlyFailedAcceptSpins`, and `ServerImplementsParts`: every step of
  the server is one of the accept loop or none, and one of the sessions or none,
  so that the theorems about either hold of the whole.
- `Registry_proofs`. `WritersBehind` says that whoever is about to write has
  sought behind what is settled; a child that prints has read a record first, so
  that its lines fall behind the first one (`RegistryTypeOK` has both offsets).
  From these follow what a step may change of the settled part
  (`SettledRecordsKept`). `LookupInv` adds that a lookup reads at a whole number
  of records and that a known node is still ahead of it; a line that is printed
  keeps this or takes the node out of `known` (`LookupFindsSettled`). `OwnInv`
  pairs the halves: wherever an IPv6 and a Bluetooth unit stand side by side
  they are of one node or spoiled (`HalvesMatch`), in the file, and in what is
  about to be written (`RecordsMatch`); a write that is cut or overtaken keeps
  it (`FoundAddressIsOwn`).
- `ListTransfer_proofs`. `Off` is the place of a frame in the list, from the
  catalogue alone: it counts the frames before it, and the lemmas on it say by
  how much the next frame is further on. `Typed` adds to the types how far the
  loops of both ends are; the sender's place is the `Off` of its next frame, and
  behind the last one it is `ListLen` (`AnnouncedLengthIsWritten`). `OrderInv`
  says what holds as long as no frame is cut: the device is in order (`InOrder`:
  what is on the link is the units from the `Off` of its next frame to the
  sender's, and the copy has exactly the frames before) or the child has gone
  before the whole list was written and the copy is the beginning of the list
  with blanks behind it (`CutOff`), or the device has given up. From it
  `CopyIsPrefixThenBlank` and `ReceivedIsSent` follow for lists of any size.
  That the second case is needed is what the exception in `DoneIsCopy` is about:
  an empty read counts as a frame.
- `CatalogMemory_proofs`. `MemoryInv` says that, until a malloc fails, the heap
  is exactly the blocks of the arrays, what the arrays point to, and what the
  builder keeps for its own use. The arrays and the blocks are both functions of
  the numbers of files found and of how many names of the last directory have
  been set, `Built(s)`, so that each loop of the builders only moves s.
  `Control` says at which places a malloc may have failed: a list that is
  returned comes from a builder for which none did. As long as none has,
  `Cleanup` is only reached with child_dir_num 0 or -1 and frees no directory,
  and free_list frees each pointer once. From this follow `ListIsWhole`,
  `ReleaseIsSound` and `LeakIsExact`, the last as an equality: no block more is
  lost than the property lists, and none less. What is freed after a failed
  malloc, and after a recv that fails before the first name of a directory, is
  left out by the properties themselves (`shortage`, `early`): there the code
  does free what is no block.
- `FileTransfer_proofs`. `FileInv` adds to the types and to `OffsetInFile` the
  invariant `InStep`: as long as nothing on the way to the device was cut or
  mixed with another answer (`broken`), what has been written and what is on the
  link are together the part of the file that was read, behind whatever is left
  of the header. From it `WhatIsWrittenIsTheFile` and `OnlyTheWordEnds` follow for
  a file of any length, whatever happens on the way to the server; `FileTyping`
  contains that no choice beyond the arrays is made.

Every safety invariant and every action property of the runs that pass is thus a
theorem. Only model-checked are the liveness properties (`ZombiesReaped`,
`QueuedAccepted`, `RequestsRead`, `RequestsReadIfAcceptWorks`,
`EndedIsReleased`, `ConnectedIsDecided`, `GoneEnds`, `WholeEnds`,
`FileArrives`, `AskedIsAnswered`): the prover has no fairness and no ENABLED. The
four properties that are violated have a counterexample and no proof.

## 5. Findings

- `refcomm-server.c:216`: the test of errno is an assignment, so the exit
  written behind it is never taken (`accept_exit`); it also leaves EINTR behind,
  which each later child inherits, and with which `check_node_list` repeats the
  read at the end of the list for ever (`SpinNeedsFailedAccept` shows that this
  is the only way to it).
- `msgprocess.c:400`: on a list with records the flag 1 is used as a descriptor
  (`join_recorded`). The file in the repository agrees: its eight records are
  the two seeds of four starts.
- `refcomm-server.c:85`: a session never ends by itself (`child_ends`).
- `msgprocess.c:1194`: a transfer that ends early counts as a success; the
  length of the header is read and not used (`file_whole`).

What the other runs establish as the way the code works, without a text of the
repository to the contrary:

- `fileinfo.c:272`: free_list frees the array of names inside the loop over the
  names and thus the first name only; the later ones stay allocated
  (`OnlyTheseStay`).
- `fileinfo.c:196`: when `./Data` holds anything but directories, the clean-up of
  get_list_info frees no directory (`OnlyTheseStay`), and after a failed malloc
  it runs to the number of files of the last directory.
- `msgprocess.c:917`: a connection that fails between a directory and its first
  name makes free_list free a pointer nobody has set (the exception `early` in
  `FreesAreSound`).
- `msgprocess.c:212`: each lookup that finds nothing leaves a descriptor open
  (`fds` in `Registry`), until open fails.
- `msgprocess.c:1069`: a request the user gives up is not taken back: the
  next one is taken for its names (the exception `left` in `AskedIsAnswered`).
- `msgprocess.c:1093`: names that do not come in one recv are an error of which
  the device hears nothing: it waits for ever (the exception `torn` in
  `AskedIsAnswered`).
- `msgprocess.c:276`: a child whose join has cost it descriptor 1 prints over
  records that other programs have settled (the exception in `SettledKept`).
- `msgprocess.c:445`: a device that stays and does not read keeps its child in an
  answer for ever, and the requests behind it unread (the premise of
  `RequestsRead`).
- `msgprocess.c:1178`: a file received over a longer one of the same name keeps
  the end of the old one (`DiskIsPrefixOverOld`).

## 6. Not modelled

- SDP registration, device search and address helpers make library calls and
  print; `main01` in `refcomm-server.c` and `main` in `fileinfo.c` are tests and
  are not part of the server.
- The time stamps and deadlines of a message are only printed: no state of a
  server or a device depends on them.
- process_make_friend, process_send_reqlist and process_node_quit send one
  message each, to which the server or a friend does what `Session` says of a
  request. The order in which the test client calls the library is its user's.
- Failures of malloc and of the address helpers within a session.

## 7. What may come next

1. `ListTransfer` as an implementation of the one step `Reply` of `Session`: a
   list that is sent whole, or a child that ends, or waits.
2. `CatalogMemory` after a failed malloc: which blocks stay then, as a property of
   its own, and which of the wild frees the arrays' sizes make impossible.
3. Two devices that are friends, each with a list of its own: a composition of
   `Registry` with the requests of process_make_friend.
