------------------------- MODULE AcceptLoop_proofs -------------------------
(***************************************************************************)
(* Proofs about the accept loop for every set of connections and every     *)
(* limit.  AcceptInv below is the inductive invariant: the four safety     *)
(* invariants of the loop and, for the errno a child inherits, where an    *)
(* EINTR can be between the failure of accept and the fork.                *)
(***************************************************************************)
EXTENDS AcceptLoop, TLAPS

\* EINTR in the parent's errno, and the test of the error of accept, both mean
\* that accept has failed.
FailureSeen == errno = "EINTR" \/ loop = "test" => failures > 0

AcceptInv ==
  /\ AcceptTypeOK
  /\ ZombiesSignalled
  /\ ParentHoldsOnlyClient
  /\ OneOwner
  /\ FailureSeen
  /\ StaleErrnoNeedsFailure
-----------------------------------------------------------------------------
LEMMA AcceptInitTyped == AcceptInit => AcceptTypeOK
<1> SUFFICES ASSUME AcceptInit PROVE AcceptTypeOK
  OBVIOUS
<1>1. MaxFailures \in Nat \ {0}
  BY AcceptAssumption DEF AcceptAssumption
<1>2. failures \in 0..MaxFailures
  BY <1>1 DEF AcceptInit
<1>3. proc \in [Conns -> {"none", "run", "zombie"}]
  BY DEF AcceptInit
<1>4. inherited \in [Conns -> Errnos]
  BY DEF AcceptInit, Errnos
<1>5. queue \in Seq(Conns)
  BY DEF AcceptInit
<1>6. /\ listening \in BOOLEAN /\ pending \in BOOLEAN /\ handling \in BOOLEAN
  BY DEF AcceptInit
<1>7. /\ loop \in {"accept", "test", "fork", "close", "exit"}
      /\ client \in Conns \cup {NoConn}
      /\ errno \in Errnos
      /\ parentFds \subseteq Conns
  BY DEF AcceptInit, Errnos
<1>8. QED
  BY <1>2, <1>3, <1>4, <1>5, <1>6, <1>7 DEF AcceptTypeOK

LEMMA AcceptTypeKept ==
  ASSUME AcceptTypeOK, [AcceptNext]_acceptVars
  PROVE  AcceptTypeOK'
<1> USE AcceptAssumption DEF AcceptTypeOK, Errnos
<1>1. ASSUME Accept PROVE AcceptTypeOK'
  <2>1. Head(queue) \in Conns /\ Tail(queue) \in Seq(Conns)
    BY <1>1 DEF Accept
  <2>2. QED
    BY <1>1, <2>1 DEF Accept
<1>2. ASSUME AcceptFails PROVE AcceptTypeOK'
  BY <1>2 DEF AcceptFails
<1>3. ASSUME TestError PROVE AcceptTypeOK'
  BY <1>3 DEF TestError
<1>4. ASSUME ForkChild PROVE AcceptTypeOK'
  BY <1>4 DEF ForkChild
<1>5. ASSUME ForkFails PROVE AcceptTypeOK'
  BY <1>5 DEF ForkFails
<1>6. ASSUME CloseClient PROVE AcceptTypeOK'
  BY <1>6 DEF CloseClient
<1>7. ASSUME EnterHandler PROVE AcceptTypeOK'
  BY <1>7 DEF EnterHandler
<1>8. ASSUME LeaveHandler PROVE AcceptTypeOK'
  BY <1>8 DEF LeaveHandler
<1>9. ASSUME NEW c \in Conns, Reap(c) PROVE AcceptTypeOK'
  BY <1>9 DEF Reap
<1>10. ASSUME NEW c \in Conns, Connect(c) PROVE AcceptTypeOK'
  BY <1>10 DEF Connect
<1>11. ASSUME NEW c \in Conns, ChildExit(c) PROVE AcceptTypeOK'
  BY <1>11 DEF ChildExit
<1>12. CASE UNCHANGED acceptVars
  BY <1>12 DEF acceptVars
<1>13. QED
  BY <1>1, <1>2, <1>3, <1>4, <1>5, <1>6, <1>7, <1>8, <1>9, <1>10, <1>11,
     <1>12 DEF AcceptNext, Main, Handler

\* Every variable of the loop keeps its type, whatever the interleaving of
\* main, the handler, the children and the devices.
THEOREM AcceptTyping == AcceptSafety => []AcceptTypeOK
<1>1. QED
  BY AcceptInitTyped, AcceptTypeKept, PTL DEF AcceptSafety
-----------------------------------------------------------------------------
(* Each conjunct of the invariant is kept by each action.                   *)

LEMMA ZombiesKept ==
  ASSUME ZombiesSignalled, [AcceptNext]_acceptVars
  PROVE  ZombiesSignalled'
<1> USE DEF ZombiesSignalled, Zombies
<1>1. CASE Main
  <2>1. ASSUME Accept PROVE ZombiesSignalled'
    BY <2>1 DEF Accept
  <2>2. ASSUME AcceptFails PROVE ZombiesSignalled'
    BY <2>2 DEF AcceptFails
  <2>3. ASSUME TestError PROVE ZombiesSignalled'
    BY <2>3 DEF TestError
  <2>4. ASSUME ForkChild PROVE ZombiesSignalled'
    <3>1. \A c \in Conns : proc'[c] = "zombie" => proc[c] = "zombie"
      BY <2>4 DEF ForkChild
    <3>2. QED
      BY <2>4, <3>1 DEF ForkChild
  <2>5. ASSUME ForkFails PROVE ZombiesSignalled'
    BY <2>5 DEF ForkFails
  <2>6. ASSUME CloseClient PROVE ZombiesSignalled'
    BY <2>6 DEF CloseClient
  <2>7. QED
    BY <1>1, <2>1, <2>2, <2>3, <2>4, <2>5, <2>6 DEF Main
<1>2. CASE Handler
  <2>1. ASSUME EnterHandler PROVE ZombiesSignalled'
    BY <2>1 DEF EnterHandler
  <2>2. ASSUME LeaveHandler PROVE ZombiesSignalled'
    BY <2>2 DEF LeaveHandler
  <2>3. ASSUME NEW c \in Conns, Reap(c) PROVE ZombiesSignalled'
    BY <2>3 DEF Reap
  <2>4. QED
    BY <1>2, <2>1, <2>2, <2>3 DEF Handler
<1>3. ASSUME NEW c \in Conns, Connect(c) PROVE ZombiesSignalled'
  BY <1>3 DEF Connect
<1>4. ASSUME NEW c \in Conns, ChildExit(c) PROVE ZombiesSignalled'
  BY <1>4 DEF ChildExit
<1>5. CASE UNCHANGED acceptVars
  BY <1>5 DEF acceptVars
<1>6. QED
  BY <1>1, <1>2, <1>3, <1>4, <1>5 DEF AcceptNext

LEMMA DescriptorKept ==
  ASSUME ParentHoldsOnlyClient, [AcceptNext]_acceptVars
  PROVE  ParentHoldsOnlyClient'
<1> USE DEF ParentHoldsOnlyClient
<1>1. CASE Main
  <2>1. ASSUME Accept PROVE ParentHoldsOnlyClient'
    BY <2>1 DEF Accept
  <2>2. ASSUME AcceptFails PROVE ParentHoldsOnlyClient'
    BY <2>2 DEF AcceptFails
  <2>3. ASSUME TestError PROVE ParentHoldsOnlyClient'
    BY <2>3 DEF TestError
  <2>4. ASSUME ForkChild PROVE ParentHoldsOnlyClient'
    BY <2>4 DEF ForkChild
  <2>5. ASSUME ForkFails PROVE ParentHoldsOnlyClient'
    BY <2>5 DEF ForkFails
  <2>6. ASSUME CloseClient PROVE ParentHoldsOnlyClient'
    BY <2>6 DEF CloseClient
  <2>7. QED
    BY <1>1, <2>1, <2>2, <2>3, <2>4, <2>5, <2>6 DEF Main
<1>2. CASE Handler
  BY <1>2 DEF Handler, EnterHandler, LeaveHandler, Reap
<1>3. ASSUME NEW c \in Conns, Connect(c) \/ ChildExit(c)
      PROVE  ParentHoldsOnlyClient'
  BY <1>3 DEF Connect, ChildExit
<1>4. CASE UNCHANGED acceptVars
  BY <1>4 DEF acceptVars
<1>5. QED
  BY <1>1, <1>2, <1>3, <1>4 DEF AcceptNext

\* An EINTR seen in errno, in the parent or in a child, comes from accept.
LEMMA ErrnoKept ==
  ASSUME AcceptTypeOK, FailureSeen, StaleErrnoNeedsFailure,
         [AcceptNext]_acceptVars
  PROVE  FailureSeen' /\ StaleErrnoNeedsFailure'
<1> USE DEF FailureSeen, StaleErrnoNeedsFailure, Running
<1> DEFINE Goal == FailureSeen' /\ StaleErrnoNeedsFailure'
<1>1. CASE Main
  <2>1. ASSUME Accept PROVE Goal
    BY <2>1 DEF Accept
  <2>2. ASSUME AcceptFails PROVE Goal
    <3>1. failures' > 0
      BY <2>2, AcceptAssumption DEF AcceptAssumption, AcceptFails, AcceptTypeOK
    <3>2. QED
      BY <2>2, <3>1 DEF AcceptFails
  <2>3. ASSUME TestError PROVE Goal
    BY <2>3 DEF TestError
  <2>4. ASSUME ForkChild PROVE Goal
    <3>1. \A c \in Conns :
            proc'[c] = "run" /\ inherited'[c] = "EINTR" => failures > 0
      BY <2>4 DEF ForkChild, AcceptTypeOK
    <3>2. QED
      BY <2>4, <3>1 DEF ForkChild
  <2>5. ASSUME ForkFails PROVE Goal
    BY <2>5 DEF ForkFails
  <2>6. ASSUME CloseClient PROVE Goal
    BY <2>6 DEF CloseClient
  <2>7. QED
    BY <1>1, <2>1, <2>2, <2>3, <2>4, <2>5, <2>6 DEF Main
<1>2. CASE Handler
  <2>1. ASSUME EnterHandler PROVE Goal
    BY <2>1 DEF EnterHandler
  <2>2. ASSUME LeaveHandler PROVE Goal
    BY <2>2 DEF LeaveHandler
  <2>3. ASSUME NEW c \in Conns, Reap(c) PROVE Goal
    BY <2>3 DEF Reap, AcceptTypeOK
  <2>4. QED
    BY <1>2, <2>1, <2>2, <2>3 DEF Handler
<1>3. ASSUME NEW c \in Conns, Connect(c) PROVE Goal
  BY <1>3 DEF Connect
<1>4. ASSUME NEW c \in Conns, ChildExit(c) PROVE Goal
  BY <1>4 DEF ChildExit, AcceptTypeOK
<1>5. CASE UNCHANGED acceptVars
  BY <1>5 DEF acceptVars
<1>6. QED
  BY <1>1, <1>2, <1>3, <1>4, <1>5 DEF AcceptNext
-----------------------------------------------------------------------------
(* The queue: its elements are distinct and belong to nobody yet.           *)

LEMMA TailOfQueue ==
  ASSUME NEW s \in Seq(Conns), s # <<>>
  PROVE  /\ Head(s) = s[1] /\ Head(s) \in Conns
         /\ Tail(s) \in Seq(Conns)
         /\ Len(Tail(s)) = Len(s) - 1 /\ Len(s) \in Nat /\ Len(s) > 0
         /\ \A i \in 1..Len(Tail(s)) : Tail(s)[i] = s[i+1] /\ i+1 \in 1..Len(s)
OBVIOUS

LEMMA OwnerKept ==
  ASSUME AcceptTypeOK, ParentHoldsOnlyClient, OneOwner,
         [AcceptNext]_acceptVars
  PROVE  OneOwner'
<1> USE DEF OneOwner
\* A step that leaves the queue, the hand-over and the children alone, or only
\* frees a child or a descriptor.
<1> DEFINE Keeps ==
      /\ queue' = queue
      /\ parentFds' \subseteq parentFds
      /\ \A c \in Conns : proc[c] = "none" => proc'[c] = "none"
      /\ loop' = "fork" => loop = "fork" /\ client' = client
<1>1. ASSUME Keeps PROVE OneOwner'
  <2>1. \A i \in 1..Len(queue) : queue[i] \in Conns
    BY DEF AcceptTypeOK
  <2>2. loop = "fork" => client \in Conns
    BY DEF ParentHoldsOnlyClient, AcceptTypeOK
  <2>3. QED
    BY <1>1, <2>1, <2>2
<1>2. ASSUME Accept PROVE OneOwner'
  <2> USE <1>2 DEF Accept
  <2>1. queue \in Seq(Conns) /\ queue # <<>>
    BY DEF AcceptTypeOK
  <2>2. parentFds = {}
    BY DEF ParentHoldsOnlyClient
  <2>3. 1 \in 1..Len(queue) /\ proc[Head(queue)] = "none"
    BY <2>1, TailOfQueue
  <2>4. \A i \in 1..Len(queue') :
          /\ queue'[i] = queue[i+1] /\ i+1 \in 1..Len(queue)
          /\ queue'[i] # Head(queue)
    <3>1. \A i \in 1..Len(queue') :
            queue'[i] = queue[i+1] /\ i+1 \in 1..Len(queue) /\ i+1 # 1
      BY <2>1, TailOfQueue
    <3>2. QED
      BY <2>1, <2>3, <3>1, TailOfQueue
  <2>5. parentFds' = {Head(queue)} /\ client' = Head(queue) /\ proc' = proc
    BY <2>2
  <2>6. ASSUME NEW i \in 1..Len(queue'), NEW j \in 1..Len(queue'),
               queue'[i] = queue'[j]
        PROVE  i = j
    <3>1. i+1 = j+1
      BY <2>4, <2>6
    <3>2. i \in Nat /\ j \in Nat
      OBVIOUS
    <3>3. QED
      BY <3>1, <3>2
  <2>7. \A i \in 1..Len(queue') :
          proc'[queue'[i]] = "none" /\ queue'[i] \notin parentFds'
    BY <2>4, <2>5
  <2>8. loop' = "fork" => proc'[client'] = "none"
    BY <2>3, <2>5
  <2>9. QED
    BY <2>6, <2>7, <2>8
<1>3. ASSUME ForkChild PROVE OneOwner'
  <2>1. client \in parentFds /\ client \in Conns
    BY <1>3 DEF ForkChild, ParentHoldsOnlyClient, AcceptTypeOK
  <2>2. \A i \in 1..Len(queue) : queue[i] # client /\ queue[i] \in Conns
    BY <2>1 DEF AcceptTypeOK
  <2>3. \A i \in 1..Len(queue) : proc'[queue[i]] = proc[queue[i]]
    BY <1>3, <2>2 DEF ForkChild, AcceptTypeOK
  <2>4. QED
    BY <1>3, <2>3 DEF ForkChild
<1>4. ASSUME NEW c \in Conns, Connect(c) PROVE OneOwner'
  <2> USE <1>4 DEF Connect
  <2>1. queue \in Seq(Conns) /\ Len(queue) \in Nat
    BY DEF AcceptTypeOK
  <2>2. /\ Len(queue') = Len(queue) + 1
        /\ queue'[Len(queue) + 1] = c
        /\ \A i \in 1..Len(queue) : queue'[i] = queue[i]
    BY <2>1
  <2>3. \A i \in 1..Len(queue') : i \in 1..Len(queue) \/ i = Len(queue) + 1
    BY <2>1, <2>2
  <2>4. \A i \in 1..Len(queue) : queue[i] # c
    OBVIOUS
  <2>5. \A i \in 1..Len(queue') :
          proc[queue'[i]] = "none" /\ queue'[i] \notin parentFds
    BY <2>2, <2>3
  <2>6. \A i, j \in 1..Len(queue') : queue'[i] = queue'[j] => i = j
    BY <2>2, <2>3, <2>4
  <2>7. QED
    BY <2>5, <2>6
<1>5. AcceptFails \/ TestError \/ ForkFails \/ CloseClient => Keeps
  BY DEF AcceptFails, TestError, ForkFails, CloseClient
<1>6. EnterHandler \/ LeaveHandler => Keeps
  BY DEF EnterHandler, LeaveHandler
<1>7. ASSUME NEW c \in Conns, Reap(c) \/ ChildExit(c) PROVE Keeps
  <2>1. \A d \in Conns : proc[d] = "none" => proc'[d] = "none"
    BY <1>7 DEF Reap, ChildExit, AcceptTypeOK
  <2>2. QED
    BY <1>7, <2>1 DEF Reap, ChildExit
<1>8. UNCHANGED acceptVars => Keeps
  BY DEF acceptVars
<1>9. QED
  BY <1>1, <1>2, <1>3, <1>4, <1>5, <1>6, <1>7, <1>8
     DEF AcceptNext, Main, Handler
-----------------------------------------------------------------------------
\* AcceptInv is an inductive invariant of the loop.
THEOREM AcceptInvInductive == AcceptSafety => []AcceptInv
<1>1. AcceptInit => AcceptInv
  <2> SUFFICES ASSUME AcceptInit PROVE AcceptInv
    OBVIOUS
  <2>1. AcceptTypeOK
    BY AcceptInitTyped
  <2>2. ZombiesSignalled /\ StaleErrnoNeedsFailure
    BY DEF AcceptInit, ZombiesSignalled, Zombies, StaleErrnoNeedsFailure,
           Running
  <2>3. ParentHoldsOnlyClient /\ FailureSeen
    BY DEF AcceptInit, ParentHoldsOnlyClient, FailureSeen
  <2>4. OneOwner
    BY DEF AcceptInit, OneOwner
  <2>5. QED
    BY <2>1, <2>2, <2>3, <2>4 DEF AcceptInv
<1>2. AcceptInv /\ [AcceptNext]_acceptVars => AcceptInv'
  BY AcceptTypeKept, ZombiesKept, DescriptorKept, OwnerKept, ErrnoKept
     DEF AcceptInv
<1>3. QED
  BY <1>1, <1>2, PTL DEF AcceptSafety

\* No zombie is ever left without a signal pending or the handler at work.
THEOREM NoZombieForgotten == AcceptSafety => []ZombiesSignalled
BY AcceptInvInductive, PTL DEF AcceptInv

\* The parent never holds a descriptor but the one it is handing over.
THEOREM NoDescriptorLeak == AcceptSafety => []ParentHoldsOnlyClient
BY AcceptInvInductive, PTL DEF AcceptInv

\* Queued, handed over or served: no connection is ever in two places.
THEOREM ConnectionsHaveOneOwner == AcceptSafety => []OneOwner
BY AcceptInvInductive, PTL DEF AcceptInv

\* A child inherits EINTR only from a parent whose accept has failed.
THEOREM StaleErrnoComesFromAccept == AcceptSafety => []StaleErrnoNeedsFailure
BY AcceptInvInductive, PTL DEF AcceptInv
=============================================================================
