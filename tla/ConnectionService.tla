------------------------- MODULE ConnectionService -------------------------
(***************************************************************************)
(* What the accept loop of the server promises to the devices that connect *)
(* to it, without processes, signals and descriptors: the life of each     *)
(* connection.  A service takes one connection at a time, serves each one  *)
(* once and turns one away only when it is full.                           *)
(***************************************************************************)
EXTENDS Naturals, FiniteSets

CONSTANTS Conns,        \* connections that can exist at one time
          QueueLimit,   \* connections that can wait at one time
          MaxChildren   \* connections the service can hold at one time

VARIABLE phase  \* "away", "waiting", "taken", "served" or "ended"

In(p) == {c \in Conns : phase[c] = p}

Move(c, from, to) ==
  /\ phase[c] = from
  /\ phase' = [phase EXCEPT ![c] = to]

Arrive(c)   == Cardinality(In("waiting")) < QueueLimit
                 /\ Move(c, "away", "waiting")
Take(c)     == In("taken") = {} /\ Move(c, "waiting", "taken")
Serve(c)    == Cardinality(In("served")) < MaxChildren
                 /\ Move(c, "taken", "served")
TurnAway(c) == Cardinality(In("served") \cup In("ended")) >= MaxChildren
                 /\ Move(c, "taken", "ended")
Finish(c)   == Move(c, "served", "ended")
Forget(c)   == Move(c, "ended", "away")

ServiceInit == phase = [c \in Conns |-> "away"]

ServiceNext ==
  \E c \in Conns : \/ Arrive(c) \/ Take(c) \/ Serve(c)
                   \/ TurnAway(c) \/ Finish(c) \/ Forget(c)

ServiceSpec == ServiceInit /\ [][ServiceNext]_phase
=============================================================================
