-------------------------- MODULE DtnServer_proofs --------------------------
(***************************************************************************)
(* Proofs about the server as a whole: its parts are implemented by it,    *)
(* and what it takes for a child to spin.                                  *)
(***************************************************************************)
EXTENDS DtnServer, TLAPS

Places == {"off", "recv", "open", "scan", "print", "last", "seek", "write",
           "splice", "report", "catalog", "reply", "exit"}

\* What the joint steps need to know of the types of both parts.
JointTypes ==
  /\ queue \in Seq(Conns)
  /\ loop \in {"fork", "close"} => client \in Conns
  /\ stream \in [Conns -> Seq(Sessions!Request)]
  /\ pc \in [Conns -> Places]
  /\ stale \in [Conns -> BOOLEAN]
  /\ failures \in Nat

\* The parent has EINTR, or is about to, and a child has it, only after a
\* failure of accept.
StaleInv ==
  /\ errno = "EINTR" \/ loop = "test" => failures > 0
  /\ \A c \in Conns : stale[c] => failures > 0

ServerInv == JointTypes /\ StaleInv
-----------------------------------------------------------------------------
(* What the steps of one part do to what the other one sees of it.          *)

LEMMA TailTyped ==
  ASSUME NEW S, NEW s \in Seq(S), s # <<>>
  PROVE  Head(s) \in S /\ Tail(s) \in Seq(S)
OBVIOUS

\* Where a child goes with a request of a device or with what recv makes of it.
LEMMA HandledTyped ==
  ASSUME NEW m \in [type : {"join", "list", "ignored"},
                    dest : {"server", "other", "none"}],
         NEW next \in Sessions!Handled(m)
  PROVE  next \in Places \ {"off"}
<1>1. CASE m.type = "ignored"
  BY <1>1 DEF Sessions!Handled, Places
<1>2. CASE m.type # "ignored" /\ m.dest = "server"
  BY <1>2 DEF Sessions!Handled, Places
<1>3. CASE m.type = "join" /\ m.dest # "server"
  BY <1>3 DEF Sessions!Handled, Places
<1>4. CASE m.type = "list" /\ m.dest # "server"
  BY <1>4 DEF Sessions!Handled, Places
<1>5. QED
  BY <1>1, <1>2, <1>3, <1>4

\* What a step of a child leaves for the parent to see.
ChildMoves(c) ==
  /\ pc' \in [Conns -> Places]
  /\ stream' \in [Conns -> Seq(Sessions!Request)]
  /\ stale' = stale

LEMMA DispatchMoves ==
  ASSUME JointTypes, NEW c \in Conns, pc[c] = "recv",
         NEW m \in [type : {"join", "list", "ignored"},
                    dest : {"server", "other", "none"}],
         Sessions!Dispatch(c, m),
         stream' \in [Conns -> Seq(Sessions!Request)]
  PROVE  ChildMoves(c)
<1>1. PICK next \in Sessions!Handled(m) : pc' = [pc EXCEPT ![c] = next]
  BY DEF Sessions!Dispatch
<1>2. next \in Places \ {"off"}
  BY HandledTyped
<1>3. stale' = stale
  BY DEF Sessions!Dispatch, Sessions!procVars
<1>4. QED
  BY <1>1, <1>2, <1>3 DEF ChildMoves, JointTypes

LEMMA RecvMoves ==
  ASSUME JointTypes, NEW c \in Conns, Sessions!Recv(c)
  PROVE  ChildMoves(c)
<1> DEFINE AnyRequest == [type : {"join", "list", "ignored"},
                          dest : {"server", "other", "none"}]
<1>1. pc[c] = "recv"
  BY DEF Sessions!Recv, Sessions!RecvWhole, Sessions!RecvCut, Sessions!RecvRest,
         Sessions!RecvMerged
<1>2. stream' \in [Conns -> Seq(Sessions!Request)]
  <2>1. ASSUME stream[c] # <<>> PROVE Tail(stream[c]) \in Seq(Sessions!Request)
    BY <2>1, TailTyped DEF JointTypes
  <2>2. QED
    BY <2>1 DEF JointTypes, Sessions!Recv, Sessions!RecvWhole, Sessions!RecvCut,
                Sessions!RecvRest, Sessions!RecvMerged
<1>3. \A m \in Sessions!Request \cup Sessions!Unaddressed : m \in AnyRequest
  BY DEF Sessions!Request, Sessions!NoRequest, Sessions!Unaddressed
<1>4. ASSUME stream[c] # <<>> PROVE Head(stream[c]) \in AnyRequest
  BY <1>3, <1>4, TailTyped DEF JointTypes
<1>5. ASSUME stream[c] # <<>>, NEW m \in Sessions!CutForms(Head(stream[c]))
      PROVE  m \in AnyRequest
  <2> DEFINE h == Head(stream[c])
  <2>1. h \in AnyRequest
    BY <1>4, <1>5
  <2>2. [h EXCEPT !.dest = "none"] \in AnyRequest
    BY <2>1
  <2>3. [type |-> "join", dest |-> "none"] \in AnyRequest
    OBVIOUS
  <2>4. m = h \/ m = [h EXCEPT !.dest = "none"] \/ m = [type |-> "join", dest |-> "none"]
    BY <1>5 DEF Sessions!CutForms
  <2>5. QED
    BY <2>1, <2>2, <2>3, <2>4
<1>6. \E m \in AnyRequest : Sessions!Dispatch(c, m)
  <2>1. CASE Sessions!RecvWhole(c)
    BY <1>4, <2>1 DEF Sessions!RecvWhole
  <2>2. CASE Sessions!RecvCut(c)
    BY <1>5, <2>2 DEF Sessions!RecvCut
  <2>3. CASE Sessions!RecvRest(c)
    BY <1>3, <2>3 DEF Sessions!RecvRest
  <2>4. CASE Sessions!RecvMerged(c)
    BY <1>3, <2>4 DEF Sessions!RecvMerged
  <2>5. QED
    BY <2>1, <2>2, <2>3, <2>4 DEF Sessions!Recv
<1>7. QED
  BY <1>1, <1>2, <1>6, DispatchMoves

LEMMA ChildStepMoves ==
  ASSUME JointTypes, NEW c \in Conns, Sessions!Child(c)
  PROVE  ChildMoves(c)
<1> USE DEF ChildMoves, JointTypes, Places
<1>1. CASE Sessions!Recv(c)
  BY <1>1, RecvMoves
<1>2. CASE Sessions!RecvNothing(c) \/ Sessions!ReadAgain(c)
  BY <1>2 DEF Sessions!RecvNothing, Sessions!ReadAgain, Sessions!sessionVars,
              Sessions!streamVars, Sessions!procVars
<1>3. CASE Sessions!Open(c)
  BY <1>3 DEF Sessions!Open, Sessions!streamVars
<1>4. CASE Sessions!ReadNode(c)
  BY <1>4 DEF Sessions!ReadNode, Sessions!streamVars, Sessions!procVars
<1>5. CASE Sessions!PrintNode(c)
  BY <1>5 DEF Sessions!PrintNode, Sessions!streamVars, Sessions!procVars
<1>a. Sessions!AfterScan(c) \in {"seek", "catalog", "exit"}
  <2>1. CASE req[c].type = "join"
    BY <2>1 DEF Sessions!AfterScan
  <2>2. CASE req[c].type # "join" /\ found[c]
    BY <2>2 DEF Sessions!AfterScan
  <2>3. CASE req[c].type # "join" /\ ~found[c]
    BY <2>3 DEF Sessions!AfterScan
  <2>4. QED
    BY <2>1, <2>2, <2>3
<1>6. CASE Sessions!ReadEnd(c)
  BY <1>a, <1>6 DEF Sessions!ReadEnd, Sessions!streamVars, Sessions!procVars
<1>p. CASE Sessions!PrintLast(c)
  BY <1>a, <1>p DEF Sessions!PrintLast, Sessions!streamVars
<1>7. CASE Sessions!Seek(c)
  BY <1>7 DEF Sessions!Seek, Sessions!streamVars, Sessions!procVars
<1>8. CASE Sessions!WriteNode(c) \/ Sessions!WriteStdout(c)
  BY <1>8 DEF Sessions!WriteNode, Sessions!WriteStdout, Sessions!streamVars,
              Sessions!procVars, Sessions!Exit
<1>9. CASE Sessions!Report(c)
  BY <1>9 DEF Sessions!Report, Sessions!streamVars, Sessions!Return
<1>10. CASE Sessions!Catalog(c)
  BY <1>10 DEF Sessions!Catalog, Sessions!streamVars
<1>11. CASE Sessions!Reply(c)
  BY <1>11 DEF Sessions!Reply, Sessions!streamVars, Sessions!procVars,
               Sessions!Return, Sessions!Exit
<1>12. QED
  BY <1>1, <1>2, <1>3, <1>4, <1>5, <1>6, <1>p, <1>7, <1>8, <1>9, <1>10, <1>11
     DEF Sessions!Child

LEMMA DeviceStepMoves ==
  ASSUME JointTypes, NEW c \in Conns, Sessions!Device(c)
  PROVE  /\ stream' \in [Conns -> Seq(Sessions!Request)]
         /\ pc' = pc /\ stale' = stale
<1>1. CASE Sessions!Hangup(c)
  BY <1>1 DEF Sessions!Hangup, Sessions!procVars, JointTypes
<1>2. CASE \E m \in Sessions!Request : Sessions!Send(c, m)
  <2>1. PICK m \in Sessions!Request : Sessions!Send(c, m)
    BY <1>2
  <2>2. Append(stream[c], m) \in Seq(Sessions!Request)
    BY DEF JointTypes
  <2>3. QED
    BY <2>1, <2>2 DEF Sessions!Send, Sessions!procVars, JointTypes
<1>3. QED
  BY <1>1, <1>2 DEF Sessions!Device
-----------------------------------------------------------------------------
(* The invariant is kept by each joint step.                                *)

LEMMA InitJoint == ServerInit => ServerInv
<1> SUFFICES ASSUME ServerInit PROVE ServerInv
  OBVIOUS
<1>1. JointTypes
  BY DEF ServerInit, Parent!AcceptInit, Sessions!SessionInit, JointTypes, Places
<1>2. StaleInv
  BY DEF ServerInit, Parent!AcceptInit, Sessions!SessionInit, StaleInv
<1>3. QED
  BY <1>1, <1>2 DEF ServerInv

\* Nothing of a session changes.
SessionsStand == stream' = stream /\ pc' = pc /\ stale' = stale

LEMMA ChildVarsStand ==
  ASSUME UNCHANGED childVars
  PROVE  SessionsStand
BY DEF childVars, SessionsStand

\* A step of main but the fork of a child.
LEMMA MainKeeps ==
  ASSUME ServerInv, MainAlone
  PROVE  ServerInv'
<1> USE DEF ServerInv, JointTypes, StaleInv
<1>1. SessionsStand
  BY ChildVarsStand DEF MainAlone
<1>2. CASE Parent!Accept
  <2>1. Head(queue) \in Conns /\ Tail(queue) \in Seq(Conns)
    BY <1>2, TailTyped DEF Parent!Accept
  <2>2. QED
    BY <1>1, <1>2, <2>1 DEF Parent!Accept, SessionsStand
<1>3. CASE Parent!AcceptFails
  <2>1. failures' \in Nat /\ failures' > 0
    BY <1>3, ServerAssumption DEF Parent!AcceptFails, ServerAssumption
  <2>2. QED
    BY <1>1, <1>3, <2>1 DEF Parent!AcceptFails, SessionsStand
<1>4. CASE Parent!TestError
  BY <1>1, <1>4 DEF Parent!TestError, SessionsStand
<1>5. CASE Parent!ForkFails
  BY <1>1, <1>5 DEF Parent!ForkFails, SessionsStand
<1>6. CASE Parent!CloseClient
  BY <1>1, <1>6 DEF Parent!CloseClient, SessionsStand
<1>7. QED
  BY <1>2, <1>3, <1>4, <1>5, <1>6 DEF MainAlone

\* A child begins with the errno of its parent.
LEMMA ForkKeeps ==
  ASSUME ServerInv, Fork
  PROVE  ServerInv'
<1>1. loop = "fork" /\ client \in Conns /\ loop' = "close" /\ client' = client
  BY DEF ServerInv, JointTypes, Fork, Parent!ForkChild
<1>2. /\ pc' = [pc EXCEPT ![client] = "recv"]
      /\ stale' = [stale EXCEPT ![client] = (errno = "EINTR")]
  BY DEF Fork, Parent!ForkChild, Sessions!Start
<1>3. stream' = stream /\ queue' = queue /\ failures' = failures /\ errno' = errno
  BY DEF Fork, Parent!ForkChild, Sessions!Start
<1>4. JointTypes'
  BY <1>1, <1>2, <1>3 DEF ServerInv, JointTypes, Places
<1>5. StaleInv'
  BY <1>1, <1>2, <1>3 DEF ServerInv, JointTypes, StaleInv
<1>6. QED
  BY <1>4, <1>5 DEF ServerInv

LEMMA HandlerKeeps ==
  ASSUME ServerInv, HandlerStep
  PROVE  ServerInv'
<1> USE DEF ServerInv, JointTypes, StaleInv
<1>1. SessionsStand
  BY ChildVarsStand DEF HandlerStep
<1>2. CASE Parent!EnterHandler
  BY <1>1, <1>2 DEF Parent!EnterHandler, SessionsStand
<1>3. CASE Parent!LeaveHandler
  BY <1>1, <1>3 DEF Parent!LeaveHandler, SessionsStand
<1>4. ASSUME NEW c \in Conns, Parent!Reap(c) PROVE ServerInv'
  BY <1>1, <1>4 DEF Parent!Reap, SessionsStand
<1>5. QED
  BY <1>2, <1>3, <1>4 DEF HandlerStep, Parent!Handler

LEMMA ConnectKeeps ==
  ASSUME ServerInv, NEW c \in Conns, Connect(c)
  PROVE  ServerInv'
<1>1. SessionsStand
  BY ChildVarsStand DEF Connect
<1>2. Append(queue, c) \in Seq(Conns)
  BY DEF ServerInv, JointTypes
<1>3. QED
  BY <1>1, <1>2 DEF ServerInv, JointTypes, StaleInv, Connect,
                    Parent!Connect, SessionsStand

\* A step of a child changes nothing of what its parent remembers.
LEMMA ChildKeeps ==
  ASSUME ServerInv, NEW c \in Conns, ChildStep(c)
  PROVE  ServerInv'
<1>1. ChildMoves(c)
  BY ChildStepMoves DEF ServerInv, ChildStep
<1>2. /\ loop' = loop /\ client' = client /\ errno' = errno
      /\ failures' = failures /\ queue' = queue
  BY DEF ChildStep, Parent!ChildExit, parentVars
<1>3. QED
  BY <1>1, <1>2 DEF ServerInv, JointTypes, StaleInv, ChildMoves

LEMMA DeviceKeeps ==
  ASSUME ServerInv, NEW c \in Conns, DeviceStep(c)
  PROVE  ServerInv'
<1>1. /\ stream' \in [Conns -> Seq(Sessions!Request)]
      /\ pc' = pc /\ stale' = stale
  BY DeviceStepMoves DEF ServerInv, DeviceStep
<1>2. /\ loop' = loop /\ client' = client /\ errno' = errno
      /\ failures' = failures /\ queue' = queue
  BY DEF DeviceStep, parentVars
<1>3. QED
  BY <1>1, <1>2 DEF ServerInv, JointTypes, StaleInv

LEMMA ServerInvKept ==
  ASSUME ServerInv, [ServerNext]_serverVars
  PROVE  ServerInv'
<1>1. CASE UNCHANGED serverVars
  BY <1>1 DEF serverVars, parentVars, childVars, ServerInv, JointTypes, StaleInv
<1>2. CASE ServerNext
  BY <1>2, MainKeeps, ForkKeeps, HandlerKeeps, ConnectKeeps, ChildKeeps, DeviceKeeps
     DEF ServerNext, MainStep
<1>3. QED
  BY <1>1, <1>2

THEOREM ServerInvInductive == ServerSpec => []ServerInv
<1>1. QED
  BY InitJoint, ServerInvKept, PTL DEF ServerSpec

\* Only a server of which accept has failed has a child that spins at the end
\* of the list (msgprocess.c:286-292).
THEOREM OnlyFailedAcceptSpins == ServerSpec => []SpinNeedsFailedAccept
<1>1. ServerInv => SpinNeedsFailedAccept
  BY DEF ServerInv, StaleInv, SpinNeedsFailedAccept
<1>2. QED
  BY <1>1, ServerInvInductive, PTL
-----------------------------------------------------------------------------
(* The parts.                                                               *)

LEMMA ParentSteps ==
  ASSUME [ServerNext]_serverVars
  PROVE  [Parent!AcceptNext]_(Parent!acceptVars)
<1>1. CASE MainStep
  BY <1>1 DEF MainStep, Fork, MainAlone, Parent!AcceptNext, Parent!Main
<1>2. CASE HandlerStep
  BY <1>2 DEF HandlerStep, Parent!AcceptNext
<1>3. ASSUME NEW c \in Conns, Connect(c) \/ ChildStep(c) \/ DeviceStep(c)
      PROVE  [Parent!AcceptNext]_(Parent!acceptVars)
  <2>1. CASE Connect(c)
    BY <2>1 DEF Connect, Parent!AcceptNext
  <2>2. CASE ChildStep(c)
    BY <2>2 DEF ChildStep, Parent!AcceptNext, parentVars, Parent!acceptVars
  <2>3. CASE DeviceStep(c)
    BY <2>3 DEF DeviceStep, parentVars, Parent!acceptVars
  <2>4. QED
    BY <1>3, <2>1, <2>2, <2>3
<1>4. CASE UNCHANGED serverVars
  BY <1>4 DEF serverVars, parentVars, Parent!acceptVars
<1>5. QED
  BY <1>1, <1>2, <1>3, <1>4 DEF ServerNext

LEMMA SessionSteps ==
  ASSUME ServerInv, [ServerNext]_serverVars
  PROVE  [Sessions!SessionNext]_(Sessions!sessionVars)
<1>1. ASSUME UNCHANGED childVars PROVE UNCHANGED Sessions!sessionVars
  BY <1>1 DEF childVars, Sessions!sessionVars, Sessions!envVars,
              Sessions!streamVars, Sessions!procVars, Sessions!doneVars
<1>2. CASE MainAlone \/ HandlerStep \/ UNCHANGED serverVars
  BY <1>1, <1>2 DEF MainAlone, HandlerStep, serverVars
<1>3. CASE Fork
  <2>1. client \in Conns
    BY <1>3 DEF Fork, Parent!ForkChild, ServerInv, JointTypes
  <2>2. Sessions!Start(client, errno = "EINTR") /\ (errno = "EINTR") \in BOOLEAN
    BY <1>3 DEF Fork
  <2>3. QED
    BY <2>1, <2>2 DEF Sessions!SessionNext
<1>4. ASSUME NEW c \in Conns, Connect(c) \/ ChildStep(c) \/ DeviceStep(c)
      PROVE  [Sessions!SessionNext]_(Sessions!sessionVars)
  BY <1>1, <1>4 DEF Connect, ChildStep, DeviceStep, Sessions!SessionNext
<1>5. QED
  BY <1>2, <1>3, <1>4 DEF ServerNext, MainStep

\* A server does to its parent's state what the accept loop alone may do, and
\* to the sessions what sessions alone may do: what is proved of each of them
\* holds of the whole, for every value of the constants.
THEOREM ServerImplementsParts == ServerSpec => PartsImplemented
<1>1. ServerInit => Parent!AcceptInit /\ Sessions!SessionInit
  BY DEF ServerInit
<1>2. [ServerNext]_serverVars => [Parent!AcceptNext]_(Parent!acceptVars)
  BY ParentSteps
<1>3. ServerInv /\ [ServerNext]_serverVars
        => [Sessions!SessionNext]_(Sessions!sessionVars)
  BY SessionSteps
<1>4. QED
  BY <1>1, <1>2, <1>3, ServerInvInductive, PTL
     DEF ServerSpec, PartsImplemented, Parent!AcceptSafety, Sessions!SessionSafety
=============================================================================
