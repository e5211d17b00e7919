----------------------------- MODULE DtnServer -----------------------------
(***************************************************************************)
(* The server as a whole: the parent process of module AcceptLoop and the  *)
(* children of module Session, joined where the processes meet.  A fork    *)
(* starts a session with the parent's errno, and the exit of a session     *)
(* makes a zombie and a SIGCHLD for the parent.                            *)
(***************************************************************************)
EXTENDS Naturals, Sequences, FiniteSets

CONSTANTS Conns, NoConn, QueueLimit, MaxChildren, MaxFailures,  \* AcceptLoop
          Seeds, Text, Part, ShortReads, MaxSends, MaxQueue, MaxSlots   \* Session

\* What the two modules assume of their constants, as far as their composition
\* depends on it.
ASSUME ServerAssumption == MaxFailures \in Nat \ {0}

VARIABLES listening, loop, client, errno, failures, queue, parentFds, proc,
          inherited, pending, handling

VARIABLES nodeDir, dataDir, list, peer, sent, stream, rest, pc, req, found,
          offset, cwd, out, stale, joins, lists

Parent == INSTANCE AcceptLoop
Sessions == INSTANCE Session

parentVars == <<listening, loop, client, errno, failures, queue, parentFds,
                proc, inherited, pending, handling>>
childVars == <<nodeDir, dataDir, list, peer, sent, stream, rest, pc, req,
               found, offset, cwd, out, stale, joins, lists>>
serverVars == <<parentVars, childVars>>

ServerInit == Parent!AcceptInit /\ Sessions!SessionInit

\* A connection that has had its child is not made again in a run.
Connect(c) ==
  /\ pc[c] = "off"
  /\ Parent!Connect(c)
  /\ UNCHANGED childVars

\* Mutant: any leftover of the handler counts as an interruption.
ForkStaleChild ==
  /\ Parent!ForkChild
  /\ Sessions!Start(client, errno \in {"EINTR", "ECHILD"})

\* Mutant: every child starts with a stale EINTR.
ForkStale ==
  /\ Parent!ForkChild
  /\ Sessions!Start(client, TRUE)

Fork ==
  /\ Parent!ForkChild
  /\ Sessions!Start(client, errno = "EINTR")

\* Mutant: a fork that fails is waited for.
MainAloneWaits ==
  /\ \/ Parent!Accept \/ Parent!AcceptFails \/ Parent!TestError
     \/ Parent!CloseClient
  /\ UNCHANGED childVars

MainAlone ==
  /\ \/ Parent!Accept \/ Parent!AcceptFails \/ Parent!TestError
     \/ Parent!ForkFails \/ Parent!CloseClient
  /\ UNCHANGED childVars

MainStep == Fork \/ MainAlone

HandlerStep == Parent!Handler /\ UNCHANGED childVars

Ends(c) == pc[c] # "exit" /\ pc'[c] = "exit"

\* Mutant: SIGCHLD is ignored, so the kernel reaps the child itself.
ChildStepAutoReap(c) ==
  /\ Sessions!Child(c)
  /\ proc' = IF Ends(c) THEN [proc EXCEPT ![c] = "none"] ELSE proc
  /\ UNCHANGED <<listening, loop, client, errno, failures, queue, parentFds,
                 inherited, pending, handling>>

ChildStep(c) ==
  /\ Sessions!Child(c)
  /\ IF Ends(c) THEN Parent!ChildExit(c) ELSE UNCHANGED parentVars

DeviceStep(c) ==
  /\ Sessions!Device(c)
  /\ UNCHANGED parentVars

ServerNext ==
  \/ MainStep \/ HandlerStep
  \/ \E c \in Conns : Connect(c) \/ ChildStep(c) \/ DeviceStep(c)

\* The scheduler runs every process of the server, and a signal is delivered
\* however busy the parent is.  A device need not read what a child writes to it.
ServerSpec ==
  /\ ServerInit /\ [][ServerNext]_serverVars
  /\ WF_serverVars(MainStep) /\ WF_serverVars(HandlerStep)
  /\ \A c \in Conns : WF_serverVars(ChildStep(c) /\ ~Sessions!AwaitsDevice(c))
-----------------------------------------------------------------------------
\* Joined together the parts still do only what each of them does alone: what
\* is shown of the accept loop holds of the parent of this server, and what is
\* shown of the sessions holds of its children.
PartsImplemented == Parent!AcceptSafety /\ Sessions!SessionSafety

\* A child spins at the end of the node list (msgprocess.c:286-292) only if
\* accept has failed in the parent before the fork.
SpinNeedsFailedAccept ==
  (\E c \in Conns : pc[c] = "scan" /\ offset[c] >= Len(list) /\ stale[c])
    => failures > 0

\* While accept never fails, every request of every device is read in the end,
\* unless the child has ended or the device leaves it waiting in an answer.
RequestsReadIfAcceptWorks ==
  [](failures = 0) =>
    \A c \in Conns :
      []<>~Sessions!AwaitsDevice(c) =>
        (stream[c] # <<>> ~> (stream[c] = <<>> \/ pc[c] = "exit"))

\* A session that ends, or whose device is gone while it is answered, is given up
\* altogether: the device finds out, the child ends, and in the end no process
\* holds the descriptor and none is left to be waited for.
EndedIsReleased ==
  \A c \in Conns :
    (pc[c] = "exit" \/ (pc[c] = "reply" /\ ~peer[c]))
      ~> (proc[c] = "none" /\ c \notin parentFds)

\* A device that connects is given a child or is turned away with its
\* connection closed; it does not stay queued or half handed over.
ConnectedIsDecided ==
  \A c \in Conns :
    (\E i \in 1..Len(queue) : queue[i] = c)
      ~> (pc[c] # "off" \/ (c \notin parentFds
                            /\ \A i \in 1..Len(queue) : queue[i] # c))
=============================================================================
