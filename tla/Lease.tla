------------------------------- MODULE Lease -------------------------------
(***************************************************************************)
(* What the reservation of a report control block promises (the docstring  *)
(* of server/reporting.py): one connection at a time holds the block; who  *)
(* uses it (RptEna) holds it until it stops or leaves; after a holder has  *)
(* left, the block may be kept for its station for a time, and is free     *)
(* once that time has passed.                                              *)
(***************************************************************************)
CONSTANTS Conns, Address, None

VARIABLES
    holder,  \* the connection that holds the block, or None
    using,   \* the holder has the block enabled
    kept,    \* the connection for whose station the block is kept, or None
    live,    \* the time it is kept has not passed
    left     \* the connections that have left

lvars == <<holder, using, kept, live, left>>

Free(c) == holder = None /\ (live => Address[c] = Address[kept])

LeaseInit ==
    /\ holder = None /\ using = FALSE /\ kept = None /\ live = FALSE
    /\ left = {}

Acquire(c) ==
    /\ c \notin left
    /\ Free(c)
    /\ holder' = c
    /\ using' \in BOOLEAN
    /\ kept' = None
    /\ live' = FALSE
    /\ left' = left

\* The holder starts or stops using the block.
Use(c) ==
    /\ holder = c
    /\ using' = ~using
    /\ UNCHANGED <<holder, kept, live, left>>

GiveUp(c) ==
    /\ holder = c
    /\ ~using
    /\ holder' = None
    /\ UNCHANGED <<using, kept, live, left>>

Leave(c) ==
    /\ c \notin left
    /\ left' = left \cup {c}
    /\ IF holder = c
       THEN /\ holder' = None
            /\ using' = FALSE
            /\ kept' \in {None, c}
            /\ live' = (kept' # None)
       ELSE UNCHANGED <<holder, using, kept, live>>

TimePasses == live /\ live' = FALSE /\ UNCHANGED <<holder, using, kept, left>>

Expire ==
    /\ kept # None
    /\ ~live
    /\ kept' = None
    /\ UNCHANGED <<holder, using, live, left>>

LeaseNext ==
    \/ \E c \in Conns : Acquire(c) \/ Use(c) \/ GiveUp(c) \/ Leave(c)
    \/ TimePasses
    \/ Expire

LeaseSpec == LeaseInit /\ [][LeaseNext]_lvars

=============================================================================
