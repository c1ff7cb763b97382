----------------------------- MODULE Connection -----------------------------
(***************************************************************************)
(* What the engines of the server rely on: a connection is "open" once the *)
(* server lists it, "lost" once it is closed, "gone" once it is forgotten; *)
(* its requests are served while it is open or lost, never afterwards, and *)
(* it is forgotten once.                                                   *)
(***************************************************************************)
EXTENDS Naturals

VARIABLES
    state,   \* "new", "open", "lost" or "gone"
    served   \* the requests served

ConnectionInit == state = "new" /\ served = 0

Open == state = "new" /\ state' = "open" /\ UNCHANGED served
Lose == state = "open" /\ state' = "lost" /\ UNCHANGED served
Forget == state = "lost" /\ state' = "gone" /\ UNCHANGED served
Serve == state \in {"open", "lost"} /\ served' = served + 1 /\ UNCHANGED state

ConnectionNext == Open \/ Lose \/ Forget \/ Serve

ConnectionSpec == ConnectionInit /\ [][ConnectionNext]_<<state, served>>

=============================================================================
