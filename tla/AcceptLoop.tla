----------------------------- MODULE AcceptLoop -----------------------------
(***************************************************************************)
(* The parent process of the server: main() of refcomm-server.c from the   *)
(* accept loop on, and the SIGCHLD handler sig_child() of sigprocess.c.    *)
(*                                                                         *)
(* The loop accepts a connection, forks a child that serves it for ever,   *)
(* and closes its own copy of the descriptor.  signal() of glibc installs  *)
(* the handler with SA_RESTART and with SIGCHLD blocked while it runs, so  *)
(* a pending SIGCHLD is one bit and an interrupted accept() is restarted   *)
(* by the kernel.  What a child does is in module Session.                 *)
(***************************************************************************)
EXTENDS Naturals, Sequences, FiniteSets

CONSTANTS Conns,        \* connections that can exist at one time
          NoConn,       \* the value of client when there is none
          QueueLimit,   \* connections the kernel holds for accept (listen(s,1))
          MaxChildren,  \* bound: processes the system lets the server have
          MaxFailures   \* bound: failures of accept that are counted

ASSUME AcceptAssumption ==
  /\ IsFiniteSet(Conns)
  /\ NoConn \notin Conns
  /\ QueueLimit \in Nat \ {0}
  /\ MaxChildren \in Nat
  /\ MaxFailures \in Nat \ {0}

VARIABLES
  listening,  \* socket(), bind() and listen() worked; nothing in main tests it
  loop,       \* where main is: "accept", "test", "fork", "close" or "exit"
  client,     \* the local variable client: the connection just accepted
  errno,      \* the parent's errno
  failures,   \* how many times accept has failed, up to MaxFailures
  queue,      \* connections the kernel has completed and main not accepted
  parentFds,  \* connections whose descriptor the parent holds
  proc,       \* the child of each connection: "none", "run" or "zombie"
  inherited,  \* the errno each child started with
  pending,    \* SIGCHLD is pending
  handling    \* main is interrupted by sig_child

acceptVars == <<listening, loop, client, errno, failures, queue, parentFds,
                proc, inherited, pending, handling>>

Errnos == {"other", "EINTR", "EAGAIN", "ECHILD"}

Unreaped == {c \in Conns : proc[c] # "none"}
Running  == {c \in Conns : proc[c] = "run"}
Zombies  == {c \in Conns : proc[c] = "zombie"}

AcceptInit ==
  /\ listening \in BOOLEAN
  /\ loop = "accept"
  /\ client = NoConn
  /\ errno = "other"
  /\ failures = 0
  /\ queue = <<>>
  /\ parentFds = {}
  /\ proc = [c \in Conns |-> "none"]
  /\ inherited = [c \in Conns |-> "other"]
  /\ pending = FALSE
  /\ handling = FALSE
-----------------------------------------------------------------------------
(* The environment: a device connects; its connection is queued for accept. *)

Connect(c) ==
  /\ listening
  /\ proc[c] = "none"
  /\ c \notin parentFds
  /\ \A i \in 1..Len(queue) : queue[i] # c
  /\ Len(queue) < QueueLimit
  /\ queue' = Append(queue, c)
  /\ UNCHANGED <<listening, loop, client, errno, failures, parentFds, proc,
                 inherited, pending, handling>>
-----------------------------------------------------------------------------
(* main: it makes no step while the handler runs on top of it.              *)

Accept ==
  /\ ~handling /\ loop = "accept"
  /\ listening /\ queue # <<>>
  /\ client' = Head(queue)
  /\ queue' = Tail(queue)
  /\ parentFds' = parentFds \cup {Head(queue)}
  /\ loop' = "fork"
  /\ UNCHANGED <<listening, errno, failures, proc, inherited, pending,
                 handling>>

\* accept returns -1.  An interruption is no reason for it (SA_RESTART).
AcceptFails ==
  /\ ~handling /\ loop = "accept"
  /\ ~listening \/ failures < MaxFailures
  /\ errno' = "other"
  /\ failures' = IF failures < MaxFailures THEN failures + 1 ELSE failures
  /\ loop' = "test"
  /\ UNCHANGED <<listening, client, queue, parentFds, proc, inherited,
                 pending, handling>>

\* Mutant: the comparison the condition looks like.
TestErrorCompares ==
  /\ ~handling /\ loop = "test"
  /\ loop' = IF errno = "EINTR" THEN "accept" ELSE "exit"
  /\ UNCHANGED <<listening, client, errno, failures, queue, parentFds, proc,
                 inherited, pending, handling>>

\* "if(errno = EINTR) continue; else exit(-2);": the condition assigns, its
\* value is EINTR, which is not zero, and the branch that exits is dead.
TestError ==
  /\ ~handling /\ loop = "test"
  /\ errno' = "EINTR"
  /\ loop' = "accept"
  /\ UNCHANGED <<listening, client, failures, queue, parentFds, proc,
                 inherited, pending, handling>>

\* Mutant: the father goes on where the child should.
ForkChildNoTest ==
  /\ ~handling /\ loop = "fork"
  /\ Cardinality(Unreaped) < MaxChildren
  /\ proc' = [proc EXCEPT ![client] = "run"]
  /\ inherited' = [inherited EXCEPT ![client] = errno]
  /\ loop' = "serve"
  /\ UNCHANGED <<listening, client, errno, failures, queue, parentFds,
                 pending, handling>>

\* Mutant: the fork is tried again although it worked.
ForkChildTwice ==
  /\ ~handling /\ loop = "fork"
  /\ Cardinality(Unreaped) < MaxChildren
  /\ proc' = [proc EXCEPT ![client] = "run"]
  /\ inherited' = [inherited EXCEPT ![client] = errno]
  /\ UNCHANGED <<listening, loop, client, errno, failures, queue, parentFds,
                 pending, handling>>

ForkChild ==
  /\ ~handling /\ loop = "fork"
  /\ Cardinality(Unreaped) < MaxChildren
  /\ proc' = [proc EXCEPT ![client] = "run"]
  /\ inherited' = [inherited EXCEPT ![client] = errno]
  /\ loop' = "close"
  /\ UNCHANGED <<listening, client, errno, failures, queue, parentFds,
                 pending, handling>>

\* fork returns -1, which main does not tell from the father's case.
ForkFails ==
  /\ ~handling /\ loop = "fork"
  /\ Cardinality(Unreaped) >= MaxChildren
  /\ errno' = "EAGAIN"
  /\ loop' = "close"
  /\ UNCHANGED <<listening, client, failures, queue, parentFds, proc,
                 inherited, pending, handling>>

\* Mutant: the father keeps the descriptor.
CloseClientNot ==
  /\ ~handling /\ loop = "close"
  /\ client' = NoConn
  /\ loop' = "accept"
  /\ UNCHANGED <<listening, errno, failures, queue, parentFds, proc,
                 inherited, pending, handling>>

CloseClient ==
  /\ ~handling /\ loop = "close"
  /\ parentFds' = parentFds \ {client}
  /\ client' = NoConn
  /\ loop' = "accept"
  /\ UNCHANGED <<listening, errno, failures, queue, proc, inherited, pending,
                 handling>>
-----------------------------------------------------------------------------
(* Children and the SIGCHLD handler.                                        *)

ChildExit(c) ==
  /\ proc[c] = "run"
  /\ proc' = [proc EXCEPT ![c] = "zombie"]
  /\ pending' = TRUE
  /\ UNCHANGED <<listening, loop, client, errno, failures, queue, parentFds,
                 inherited, handling>>

\* Mutant: the handler is installed without SA_RESTART.
EnterHandlerInterrupts ==
  /\ pending /\ ~handling
  /\ handling' = TRUE
  /\ pending' = FALSE
  /\ errno' = IF loop = "accept" THEN "EINTR" ELSE errno
  /\ UNCHANGED <<listening, loop, client, failures, queue, parentFds, proc,
                 inherited>>

EnterHandler ==
  /\ pending /\ ~handling
  /\ handling' = TRUE
  /\ pending' = FALSE
  /\ UNCHANGED <<listening, loop, client, errno, failures, queue, parentFds,
                 proc, inherited>>

\* Mutant: a child is given up while it still runs.
ReapAny(c) ==
  /\ handling
  /\ proc[c] # "none"
  /\ proc' = [proc EXCEPT ![c] = "none"]
  /\ inherited' = [inherited EXCEPT ![c] = "other"]
  /\ UNCHANGED <<listening, loop, client, errno, failures, queue, parentFds,
                 pending, handling>>

\* One round of "while(pid = waitpid(-1,&stat,WNOHANG) > 0)".
Reap(c) ==
  /\ handling
  /\ proc[c] = "zombie"
  /\ proc' = [proc EXCEPT ![c] = "none"]
  /\ inherited' = [inherited EXCEPT ![c] = "other"]
  /\ UNCHANGED <<listening, loop, client, errno, failures, queue, parentFds,
                 pending, handling>>

\* Mutant: an if where the while is.
LeaveHandlerEarly ==
  /\ handling
  /\ errno' = IF Unreaped = {} THEN "ECHILD" ELSE errno
  /\ handling' = FALSE
  /\ UNCHANGED <<listening, loop, client, failures, queue, parentFds, proc,
                 inherited, pending>>

\* The last waitpid: 0 when children still run, -1 with ECHILD when none is
\* left; the handler returns without restoring errno.
LeaveHandler ==
  /\ handling
  /\ Zombies = {}
  /\ errno' = IF Running = {} THEN "ECHILD" ELSE errno
  /\ handling' = FALSE
  /\ UNCHANGED <<listening, loop, client, failures, queue, parentFds, proc,
                 inherited, pending>>
-----------------------------------------------------------------------------
Main ==
  Accept \/ AcceptFails \/ TestError \/ ForkChild \/ ForkFails \/ CloseClient

Handler == EnterHandler \/ LeaveHandler \/ \E c \in Conns : Reap(c)

AcceptNext ==
  \/ Main
  \/ Handler
  \/ \E c \in Conns : Connect(c) \/ ChildExit(c)

AcceptSafety == AcceptInit /\ [][AcceptNext]_acceptVars

\* The kernel schedules the parent and delivers its signals; nothing makes a
\* device connect or a child exit.
AcceptSpec ==
  AcceptSafety /\ WF_acceptVars(Main) /\ WF_acceptVars(Handler)
-----------------------------------------------------------------------------
AcceptTypeOK ==
  /\ listening \in BOOLEAN
  /\ loop \in {"accept", "test", "fork", "close", "exit"}
  /\ client \in Conns \cup {NoConn}
  /\ errno \in Errnos
  /\ failures \in 0..MaxFailures
  /\ queue \in Seq(Conns)
  /\ parentFds \subseteq Conns
  /\ proc \in [Conns -> {"none", "run", "zombie"}]
  /\ inherited \in [Conns -> Errnos]
  /\ pending \in BOOLEAN
  /\ handling \in BOOLEAN

\* No lost wake-up: SIGCHLD is one bit however many children exit, and yet
\* whenever a zombie is left the handler is running or will run.  It is what
\* the while of sig_child (sigprocess.c:11) is for.
ZombiesSignalled == Zombies # {} => pending \/ handling

\* The parent holds the descriptor of the connection it is handing over and of
\* no other, on the path of a failed fork too (refcomm-server.c:227-237); a
\* leaked copy would keep the peer from ever seeing its connection closed.
ParentHoldsOnlyClient ==
  parentFds = IF loop \in {"fork", "close"} THEN {client} ELSE {}

\* A connection is in one place: queued, being handed over or served.  A
\* connection still queued has no child, and the one to be forked for has
\* neither a child nor a second place in the queue.
OneOwner ==
  /\ \A i \in 1..Len(queue) :
       /\ proc[queue[i]] = "none"
       /\ queue[i] \notin parentFds
       /\ \A j \in 1..Len(queue) : queue[i] = queue[j] => i = j
  /\ loop = "fork" => proc[client] = "none"

\* A child starts with errno EINTR, which makes check_node_list spin at the
\* end of the list (msgprocess.c:286-292), only after a failed accept: not
\* because of the SIGCHLD handler, which runs at any point of the loop.
StaleErrnoNeedsFailure ==
  \A c \in Running : inherited[c] = "EINTR" => failures > 0

\* Every child that exits is waited for in the end: no zombie stays.
ZombiesReaped == \A c \in Conns : proc[c] = "zombie" ~> proc[c] # "zombie"

\* A connection the kernel queued is taken by main in the end, although the
\* handler interrupts main and accept may fail a bounded number of times.
QueuedAccepted ==
  \A c \in Conns : (queue # <<>> /\ Head(queue) = c)
                      ~> (loop = "fork" /\ client = c)

\* What "accept err!" and exit(-2) say of an accept that fails for another
\* reason than an interruption (refcomm-server.c:216-223): without a listening
\* socket the server ends.
FailedAcceptEnds == ~listening ~> loop = "exit"
-----------------------------------------------------------------------------
(* What the loop promises the devices is module ConnectionService.          *)

Queued(c) == \E i \in 1..Len(queue) : queue[i] = c

phaseOf ==
  [c \in Conns |->
     IF Queued(c) THEN "waiting"
     ELSE IF loop = "fork" /\ client = c THEN "taken"
     ELSE IF proc[c] = "run" THEN "served"
     ELSE IF proc[c] = "zombie" \/ c \in parentFds THEN "ended"
     ELSE "away"]

Service == INSTANCE ConnectionService WITH phase <- phaseOf

\* The loop implements the service: a connection is taken once, one at a time,
\* served by one child or turned away only at the process limit, and its place
\* is free again only after the child is reaped and the descriptor closed.
ServiceImplemented == Service!ServiceSpec
=============================================================================
