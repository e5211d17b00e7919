----------------------- MODULE AcceptService_proofs -----------------------
(***************************************************************************)
(* The accept loop implements module ConnectionService: every step of main,*)
(* of the handler, of a child or of a device is one step in the life of    *)
(* one connection or changes no phase.  The mapping phaseOf is that of     *)
(* AcceptLoop; the proof uses the invariant of AcceptLoop_proofs.          *)
(***************************************************************************)
EXTENDS AcceptLoop_proofs, FiniteSetTheorems

Phases == {"away", "waiting", "taken", "served", "ended"}

\* What the mapping says of one connection.
PhaseFact(c) ==
  /\ phaseOf[c] = "waiting" <=> Queued(c)
  /\ phaseOf[c] = "taken"   <=> loop = "fork" /\ client = c
  /\ phaseOf[c] = "served"  <=> proc[c] = "run"
  /\ phaseOf[c] = "ended"   <=> \/ proc[c] = "zombie"
                                \/ proc[c] = "none" /\ loop = "close"
                                     /\ client = c
  /\ phaseOf[c] \in Phases

\* It says so in every state where every connection has one owner, the states
\* before and after a step among them.
LEMMA PhaseBefore == ASSUME AcceptInv, NEW c \in Conns PROVE PhaseFact(c)
<1>1. Queued(c) => proc[c] = "none" /\ c \notin parentFds
  BY DEF AcceptInv, OneOwner, Queued
<1>2. loop = "fork" /\ client = c => proc[c] = "none" /\ c \in parentFds
  BY DEF AcceptInv, OneOwner, ParentHoldsOnlyClient
<1>3. proc[c] \in {"none", "run", "zombie"}
  BY DEF AcceptInv, AcceptTypeOK
<1>4. c \in parentFds <=> (loop \in {"fork", "close"} /\ client = c)
  BY DEF AcceptInv, ParentHoldsOnlyClient
<1>5. phaseOf[c] = IF Queued(c) THEN "waiting"
                   ELSE IF loop = "fork" /\ client = c THEN "taken"
                   ELSE IF proc[c] = "run" THEN "served"
                   ELSE IF proc[c] = "zombie" \/ c \in parentFds THEN "ended"
                   ELSE "away"
  BY DEF phaseOf
<1>6. QED
  BY <1>1, <1>2, <1>3, <1>4, <1>5 DEF PhaseFact, Phases

LEMMA PhaseAfter == ASSUME AcceptInv', NEW c \in Conns PROVE PhaseFact(c)'
<1>1. Queued(c)' => proc'[c] = "none" /\ c \notin parentFds'
  BY DEF AcceptInv, OneOwner, Queued
<1>2. loop' = "fork" /\ client' = c => proc'[c] = "none" /\ c \in parentFds'
  BY DEF AcceptInv, OneOwner, ParentHoldsOnlyClient
<1>3. proc'[c] \in {"none", "run", "zombie"}
  BY DEF AcceptInv, AcceptTypeOK
<1>4. c \in parentFds' <=> (loop' \in {"fork", "close"} /\ client' = c)
  BY DEF AcceptInv, ParentHoldsOnlyClient
<1>5. phaseOf'[c] =
        IF Queued(c)' THEN "waiting"
        ELSE IF loop' = "fork" /\ client' = c THEN "taken"
        ELSE IF proc'[c] = "run" THEN "served"
        ELSE IF proc'[c] = "zombie" \/ c \in parentFds' THEN "ended"
        ELSE "away"
  BY DEF phaseOf
<1>6. QED
  BY <1>1, <1>2, <1>3, <1>4, <1>5 DEF PhaseFact, Phases

\* A step that takes connection c from one phase to another and leaves the
\* phase of every other one is a Move of the service.
LEMMA MoveFromPhases ==
  ASSUME NEW c \in Conns, NEW from, NEW to,
         phaseOf[c] = from, phaseOf'[c] = to,
         \A d \in Conns \ {c} : phaseOf'[d] = phaseOf[d]
  PROVE  Service!Move(c, from, to)
<1>1. phaseOf' = [phaseOf EXCEPT ![c] = to]
  BY ZenonT(60) DEF phaseOf
<1>2. QED
  BY <1>1 DEF Service!Move

\* A connection keeps its phase in a step that keeps its place in the queue,
\* its child and whether it is being handed over.
LEMMA PhaseKept ==
  ASSUME AcceptInv, AcceptInv', NEW d \in Conns,
         Queued(d)' <=> Queued(d), proc'[d] = proc[d],
         (loop' = "fork" /\ client' = d) <=> (loop = "fork" /\ client = d),
         proc[d] = "none" => ((loop' = "close" /\ client' = d)
                                <=> (loop = "close" /\ client = d))
  PROVE  phaseOf'[d] = phaseOf[d]
<1>1. PhaseFact(d) /\ PhaseFact(d)'
  BY PhaseBefore, PhaseAfter
<1>2. QED
  BY <1>1 DEF PhaseFact, Phases
-----------------------------------------------------------------------------
(* Counting: the queue and the processes bound the phases.                  *)

\* The service counts as the loop does.
LEMMA SameCount == \A S : Service!Cardinality(S) = Cardinality(S)
BY DEF Service!Cardinality, Cardinality

\* No more connections wait than the queue is long.
LEMMA WaitingCount ==
  ASSUME AcceptInv
  PROVE  /\ IsFiniteSet(Service!In("waiting"))
         /\ Cardinality(Service!In("waiting")) <= Len(queue)
<1> DEFINE Elems == {queue[i] : i \in 1..Len(queue)}
<1>1. Len(queue) \in Nat
  BY DEF AcceptInv, AcceptTypeOK
<1>2. /\ IsFiniteSet(1..Len(queue)) /\ Cardinality(1..Len(queue)) = Len(queue)
  <2>1. /\ IsFiniteSet(1..Len(queue))
        /\ Cardinality(1..Len(queue)) =
             IF 1 > Len(queue) THEN 0 ELSE Len(queue) - 1 + 1
    BY <1>1, 1 \in Int, Len(queue) \in Int, FS_Interval, Zenon
  <2>2. QED
    BY <1>1, <2>1
<1>3. IsFiniteSet(Elems) /\ Cardinality(Elems) <= Len(queue)
  <2>1. [i \in 1..Len(queue) |-> queue[i]] \in Surjection(1..Len(queue), Elems)
    BY DEF Surjection
  <2>2. /\ IsFiniteSet(Elems)
        /\ Cardinality(Elems) <= Cardinality(1..Len(queue))
    <3> HIDE DEF Elems
    <3>1. QED
      BY <1>2, <2>1, FS_Surjection, Zenon
  <2>3. QED
    BY <1>2, <2>2
<1>4. Service!In("waiting") \subseteq Elems
  <2>1. SUFFICES ASSUME NEW c \in Conns, phaseOf[c] = "waiting"
                 PROVE  c \in Elems
    BY DEF Service!In
  <2>2. Queued(c)
    BY <2>1, PhaseBefore DEF PhaseFact
  <2>3. QED
    BY <2>2 DEF Queued
<1>5. QED
  BY <1>1, <1>3, <1>4, FS_Subset, FS_CardinalityType

\* A served connection has a process, and while a connection is handed over
\* every process belongs to one that is served or ended.
LEMMA ProcessCount ==
  ASSUME AcceptInv
  PROVE  /\ Cardinality(Service!In("served")) <= Cardinality(Unreaped)
         /\ Cardinality(Unreaped) <=
              Cardinality(Service!In("served") \cup Service!In("ended"))
         /\ Cardinality(Unreaped) \in Nat
         /\ Cardinality(Service!In("served")) \in Nat
         /\ Cardinality(Service!In("served") \cup Service!In("ended")) \in Nat
<1>1. IsFiniteSet(Conns)
  BY AcceptAssumption DEF AcceptAssumption
<1>2. Unreaped \subseteq Conns /\ Service!In("served") \subseteq Conns
        /\ Service!In("ended") \subseteq Conns
  BY DEF Unreaped, Service!In
<1>3. Service!In("served") \subseteq Unreaped
  BY PhaseBefore DEF Service!In, Unreaped, PhaseFact
<1>4. Unreaped \subseteq Service!In("served") \cup Service!In("ended")
  <2>1. SUFFICES ASSUME NEW c \in Conns, proc[c] # "none"
                 PROVE  phaseOf[c] \in {"served", "ended"}
    BY DEF Unreaped, Service!In
  <2>2. proc[c] \in {"run", "zombie"}
    BY <2>1 DEF AcceptInv, AcceptTypeOK
  <2>3. QED
    BY <2>2, PhaseBefore DEF PhaseFact
<1>5. /\ IsFiniteSet(Unreaped)
      /\ IsFiniteSet(Service!In("served"))
      /\ IsFiniteSet(Service!In("served") \cup Service!In("ended"))
  <2>1. Service!In("served") \cup Service!In("ended") \subseteq Conns
    BY <1>2
  <2>2. QED
    BY <1>1, <1>2, <2>1, FS_Subset
<1>6. QED
  BY <1>3, <1>4, <1>5, FS_Subset, FS_CardinalityType
-----------------------------------------------------------------------------
(* Each action is one step of the service, or none.                         *)

LEMMA ConnectArrives ==
  ASSUME AcceptInv, AcceptInv', NEW c \in Conns, Connect(c)
  PROVE  Service!Arrive(c)
<1> USE DEF Connect
<1>1. queue \in Seq(Conns) /\ Len(queue) \in Nat
  BY DEF AcceptInv, AcceptTypeOK
<1>2. /\ Len(queue') = Len(queue) + 1 /\ queue'[Len(queue) + 1] = c
      /\ \A i \in 1..Len(queue) : queue'[i] = queue[i]
  BY <1>1
<1>3. ~Queued(c) /\ Queued(c)'
  <2>1. Len(queue) + 1 \in 1..Len(queue')
    BY <1>1, <1>2
  <2>2. QED
    BY <1>2, <2>1 DEF Queued
<1>4. \A d \in Conns \ {c} : Queued(d)' <=> Queued(d)
  <2>1. \A i : i \in 1..Len(queue') <=> i \in 1..Len(queue) \/ i = Len(queue) + 1
    BY <1>1, <1>2
  <2>2. QED
    BY <1>2, <2>1 DEF Queued
<1>5. phaseOf[c] = "away"
  <2>1. PhaseFact(c)
    BY PhaseBefore
  <2>2. ~(loop \in {"fork", "close"} /\ client = c)
    BY DEF AcceptInv, ParentHoldsOnlyClient
  <2>3. QED
    BY <1>3, <2>1, <2>2 DEF PhaseFact, Phases
<1>6. phaseOf'[c] = "waiting"
  BY <1>3, PhaseAfter DEF PhaseFact
<1>7. \A d \in Conns \ {c} : phaseOf'[d] = phaseOf[d]
  BY <1>4, PhaseKept
<1>8. Cardinality(Service!In("waiting")) < QueueLimit
  <2>1. Cardinality(Service!In("waiting")) \in Nat
    BY WaitingCount, FS_CardinalityType
  <2>2. QueueLimit \in Nat
    BY AcceptAssumption DEF AcceptAssumption
  <2>3. QED
    BY <1>1, <2>1, <2>2, WaitingCount
<1>9. QED
  BY <1>5, <1>6, <1>7, <1>8, MoveFromPhases, SameCount
     DEF Service!Arrive

LEMMA AcceptTakes ==
  ASSUME AcceptInv, AcceptInv', Accept
  PROVE  \E c \in Conns : Service!Take(c)
<1> USE DEF Accept
<1> DEFINE c == Head(queue)
<1>1. queue \in Seq(Conns) /\ queue # <<>>
  BY DEF AcceptInv, AcceptTypeOK
<1>2. c \in Conns
  BY <1>1, TailOfQueue
<1>3. Queued(c)
  <2>1. c = queue[1] /\ 1 \in 1..Len(queue)
    BY <1>1, TailOfQueue
  <2>2. QED
    BY <2>1 DEF Queued
<1>4. \A d \in Conns \ {c} : Queued(d)' <=> Queued(d)
  <2>1. ASSUME NEW d \in Conns \ {c}, Queued(d)' PROVE Queued(d)
    BY <1>1, <2>1, TailOfQueue DEF Queued
  <2>2. ASSUME NEW d \in Conns \ {c}, Queued(d) PROVE Queued(d)'
    <3>1. PICK i \in 1..Len(queue) : queue[i] = d
      BY <2>2 DEF Queued
    <3>2. i # 1 /\ i \in Nat /\ Len(queue) \in Nat
      BY <1>1, <3>1, TailOfQueue
    <3>3. i - 1 \in 1..Len(Tail(queue)) /\ (i - 1) + 1 = i
      BY <1>1, <3>2, TailOfQueue
    <3>4. Tail(queue)[i - 1] = d
      BY <1>1, <3>1, <3>3, TailOfQueue
    <3>5. QED
      BY <3>3, <3>4 DEF Queued
  <2>3. QED
    BY <2>1, <2>2
<1>5. phaseOf[c] = "waiting"
  BY <1>2, <1>3, PhaseBefore DEF PhaseFact
<1>6. phaseOf'[c] = "taken"
  BY <1>2, PhaseAfter DEF PhaseFact
<1>7. \A d \in Conns \ {c} : phaseOf'[d] = phaseOf[d]
  BY <1>4, PhaseKept
<1>8. Service!In("taken") = {}
  BY PhaseBefore DEF Service!In, PhaseFact
<1>9. QED
  BY <1>2, <1>5, <1>6, <1>7, <1>8, MoveFromPhases DEF Service!Take

LEMMA ForkServesOrTurnsAway ==
  ASSUME AcceptInv, AcceptInv', NEW c \in Conns, client = c,
         ForkChild \/ ForkFails
  PROVE  Service!Serve(c) \/ Service!TurnAway(c)
<1>0. loop = "fork" /\ loop' = "close" /\ client' = c /\ queue' = queue
  BY DEF ForkChild, ForkFails
<1>1. proc[c] = "none"
  BY <1>0 DEF AcceptInv, AcceptTypeOK, ParentHoldsOnlyClient, OneOwner
<1>2. phaseOf[c] = "taken"
  BY <1>0, <1>1, PhaseBefore DEF PhaseFact
<1>3. MaxChildren \in Nat
  BY AcceptAssumption DEF AcceptAssumption
<1>4. ASSUME NEW d \in Conns \ {c} PROVE phaseOf'[d] = phaseOf[d]
  <2>1. proc'[d] = proc[d]
    BY <1>1 DEF ForkChild, ForkFails, AcceptInv, AcceptTypeOK
  <2>2. Queued(d)' <=> Queued(d)
    BY <1>0 DEF Queued
  <2>3. QED
    BY <1>0, <2>1, <2>2, PhaseKept
<1>5. ASSUME ForkChild PROVE Service!Serve(c)
  <2>1. proc'[c] = "run"
    BY <1>1, <1>5 DEF ForkChild, AcceptInv, AcceptTypeOK
  <2>2. phaseOf'[c] = "served"
    BY <1>1, <2>1, PhaseAfter DEF PhaseFact
  <2>3. Cardinality(Unreaped) < MaxChildren
    BY <1>5 DEF ForkChild
  <2>4. Cardinality(Service!In("served")) < MaxChildren
    BY <1>3, <2>3, ProcessCount
  <2>5. QED
    BY <1>1, <1>2, <1>4, <2>2, <2>4, MoveFromPhases, SameCount
       DEF Service!Serve
<1>6. ASSUME ForkFails PROVE Service!TurnAway(c)
  <2>1. proc'[c] = "none"
    BY <1>1, <1>6 DEF ForkFails
  <2>2. phaseOf'[c] = "ended"
    BY <1>0, <1>1, <2>1, PhaseAfter DEF PhaseFact
  <2>3. Cardinality(Unreaped) >= MaxChildren
    BY <1>6 DEF ForkFails
  <2>4. Cardinality(Service!In("served") \cup Service!In("ended"))
          >= MaxChildren
    BY <1>3, <2>3, ProcessCount
  <2>5. QED
    BY <1>1, <1>2, <1>4, <2>2, <2>4, MoveFromPhases, SameCount
       DEF Service!TurnAway
<1>7. QED
  BY <1>5, <1>6

LEMMA ExitFinishes ==
  ASSUME AcceptInv, AcceptInv', NEW c \in Conns, ChildExit(c)
  PROVE  Service!Finish(c)
<1> USE DEF ChildExit
<1>1. proc'[c] = "zombie" /\ \A d \in Conns \ {c} : proc'[d] = proc[d]
  BY DEF AcceptInv, AcceptTypeOK
<1>2. \A d \in Conns : Queued(d)' <=> Queued(d)
  BY DEF Queued
<1>3. phaseOf[c] = "served" /\ phaseOf'[c] = "ended"
  BY <1>1, PhaseBefore, PhaseAfter DEF PhaseFact
<1>4. \A d \in Conns \ {c} : phaseOf'[d] = phaseOf[d]
  BY <1>1, <1>2, PhaseKept
<1>5. QED
  BY <1>3, <1>4, MoveFromPhases DEF Service!Finish

\* A reaped connection is forgotten, unless the parent still holds it.
LEMMA ReapForgets ==
  ASSUME AcceptInv, AcceptInv', NEW c \in Conns, Reap(c)
  PROVE  Service!Forget(c) \/ phaseOf' = phaseOf
<1> USE DEF Reap
<1>1. proc'[c] = "none" /\ \A d \in Conns \ {c} : proc'[d] = proc[d]
  BY DEF AcceptInv, AcceptTypeOK
<1>2. \A d \in Conns : Queued(d)' <=> Queued(d)
  BY DEF Queued
<1>3. phaseOf[c] = "ended"
  BY PhaseBefore DEF PhaseFact
<1>4. \A d \in Conns \ {c} : phaseOf'[d] = phaseOf[d]
  BY <1>1, <1>2, PhaseKept
<1>5. PhaseFact(c) /\ PhaseFact(c)'
  BY PhaseBefore, PhaseAfter
<1>6. phaseOf'[c] \in {"ended", "away"}
  BY <1>1, <1>2, <1>3, <1>5 DEF PhaseFact, Phases
<1>7. CASE phaseOf'[c] = "away"
  BY <1>3, <1>4, <1>7, MoveFromPhases DEF Service!Forget
<1>8. CASE phaseOf'[c] = "ended"
  BY <1>3, <1>4, <1>8 DEF phaseOf
<1>9. QED
  BY <1>6, <1>7, <1>8

\* Closing the descriptor forgets a connection without a child, and no other.
LEMMA CloseForgets ==
  ASSUME AcceptInv, AcceptInv', NEW c \in Conns, client = c, CloseClient
  PROVE  Service!Forget(c) \/ phaseOf' = phaseOf
<1> USE DEF CloseClient
<1>1. client' # c
  BY AcceptAssumption DEF AcceptAssumption
<1>2. \A d \in Conns : Queued(d)' <=> Queued(d)
  BY DEF Queued
<1>3. \A d \in Conns \ {c} : phaseOf'[d] = phaseOf[d]
  BY <1>2, PhaseKept
<1>4. PhaseFact(c) /\ PhaseFact(c)'
  BY <1>1, PhaseBefore, PhaseAfter
<1>5. CASE proc[c] = "none"
  <2>1. phaseOf[c] = "ended"
    BY <1>4, <1>5 DEF PhaseFact
  <2>2. ~Queued(c)
    BY <1>4, <2>1 DEF PhaseFact
  <2>3. phaseOf'[c] = "away"
    BY <1>1, <1>2, <1>4, <1>5, <2>2 DEF PhaseFact, Phases
  <2>4. QED
    BY <1>1, <1>3, <2>1, <2>3, MoveFromPhases DEF Service!Forget
<1>6. CASE proc[c] # "none"
  <2>1. phaseOf'[c] = phaseOf[c]
    BY <1>1, <1>2, <1>6, PhaseKept
  <2>2. QED
    BY <1>3, <2>1 DEF phaseOf
<1>7. QED
  BY <1>5, <1>6

LEMMA RestStutters ==
  ASSUME AcceptInv, AcceptInv',
         \/ AcceptFails \/ TestError \/ EnterHandler \/ LeaveHandler
         \/ UNCHANGED acceptVars
  PROVE  phaseOf' = phaseOf
<1>1. /\ queue' = queue /\ proc' = proc /\ client' = client
      /\ loop' = "fork" <=> loop = "fork"
      /\ loop' = "close" <=> loop = "close"
  BY DEF AcceptFails, TestError, EnterHandler, LeaveHandler, acceptVars
<1>2. \A d \in Conns : Queued(d)' <=> Queued(d)
  BY <1>1 DEF Queued
<1>3. \A d \in Conns : phaseOf'[d] = phaseOf[d]
  BY <1>1, <1>2, PhaseKept
<1>4. QED
  BY <1>3 DEF phaseOf
-----------------------------------------------------------------------------
\* The accept loop implements the connection service: taken one at a time,
\* served once by one child, turned away only at the process limit, forgotten
\* only when the child is reaped and the parent's descriptor closed.
THEOREM AcceptLoopImplementsService == AcceptSafety => ServiceImplemented
<1>1. AcceptInit => Service!ServiceInit
  BY DEF AcceptInit, Service!ServiceInit, phaseOf, Queued
<1>2. AcceptInv /\ AcceptInv' /\ [AcceptNext]_acceptVars
        => [Service!ServiceNext]_phaseOf
  <2> SUFFICES ASSUME AcceptInv, AcceptInv', [AcceptNext]_acceptVars
               PROVE  Service!ServiceNext \/ phaseOf' = phaseOf
    OBVIOUS
  <2>1. CASE Main
    <3>1. ASSUME ForkChild \/ ForkFails PROVE Service!ServiceNext
      <4>1. client \in Conns
        BY <3>1 DEF ForkChild, ForkFails, AcceptInv, AcceptTypeOK,
                    ParentHoldsOnlyClient
      <4>2. QED
        BY <3>1, <4>1, ForkServesOrTurnsAway DEF Service!ServiceNext
    <3>2. ASSUME CloseClient PROVE Service!ServiceNext \/ phaseOf' = phaseOf
      <4>1. client \in Conns
        BY <3>2 DEF CloseClient, AcceptInv, AcceptTypeOK, ParentHoldsOnlyClient
      <4>2. QED
        BY <3>2, <4>1, CloseForgets DEF Service!ServiceNext
    <3>3. Accept => Service!ServiceNext
      BY AcceptTakes DEF Service!ServiceNext
    <3>4. AcceptFails \/ TestError => phaseOf' = phaseOf
      BY RestStutters
    <3>5. QED
      BY <2>1, <3>1, <3>2, <3>3, <3>4 DEF Main
  <2>2. CASE Handler
    BY <2>2, ReapForgets, RestStutters DEF Handler, Service!ServiceNext
  <2>3. ASSUME NEW c \in Conns, Connect(c) \/ ChildExit(c)
        PROVE  Service!ServiceNext
    BY <2>3, ConnectArrives, ExitFinishes DEF Service!ServiceNext
  <2>4. CASE UNCHANGED acceptVars
    BY <2>4, RestStutters
  <2>5. QED
    BY <2>1, <2>2, <2>3, <2>4 DEF AcceptNext
<1>3. AcceptSafety => []AcceptInv
  BY AcceptInvInductive
<1>4. QED
  BY <1>1, <1>2, <1>3, PTL DEF AcceptSafety, ServiceImplemented,
     Service!ServiceSpec
=============================================================================
