--------------------------- MODULE GoosePublisher ---------------------------
(***************************************************************************)
(* A GOOSE publisher (goose_publisher.py): the states published, by the    *)
(* caller (send_now) or by the publisher's thread, and their repetition.   *)
(* Code under the condition is one action.  The values of a state are the  *)
(* number of its publish(); time counts in units of min_time_ms.           *)
(***************************************************************************)
EXTENDS Integers, Sequences, GooseMessage

CONSTANTS
    MaxTime,     \* max_time_ms, in min_time_ms
    TalFactor,   \* tal_factor
    MaxPublish,  \* bound: calls of publish()
    MaxHeld      \* bound: frames on the wire

ASSUME PublisherAssumption ==
    /\ MaxTime \in Nat \ {0} /\ TalFactor \in Nat \ {0}
    /\ MaxPublish \in Nat /\ MaxHeld \in Nat

VARIABLES
    pub,   \* the GoosePublisher
    wire,  \* the frames sent and not received
    now    \* time.monotonic()

Publisher == [st : Num, sq : Num, values : Nat,
              changed : BOOLEAN,
              interval : 1 .. MaxTime,  \* what _intervals yields next
              due : Nat,
              thread : {"none", "running", "stopping"},
              control : Nat]            \* which GooseControl it was made with

New(control, values) ==
    [st |-> 0, sq |-> 0, values |-> values, changed |-> FALSE, interval |-> 1,
     due |-> now, thread |-> "none", control |-> control]

\* One comes after _UINT32_MAX.
WrongNextNum(n) == n + 1

\* _new_state and _next_sq skip 0.
NextNum(n) == IF n = NumMax THEN 1 ELSE n + 1

\* The waits: min, 2 min, 4 min ... max, max ...
NextInterval(i) == IF 2 * i > MaxTime THEN MaxTime ELSE 2 * i

\* stNum stays.
WrongNewState(p) ==
    [p EXCEPT !.changed = FALSE, !.sq = 0, !.interval = 1, !.due = now]

NewState(p) == [p EXCEPT !.changed = FALSE, !.st = NextNum(@), !.sq = 0,
                         !.interval = 1, !.due = now]

FrameOf(p) == [st |-> p.st, sq |-> p.sq, tal |-> TalFactor * p.interval,
               values |-> p.values, control |-> p.control]

\* A send that fails counts an error and goes on alike: its frame is one of
\* those lost, at the network's choice.
SendDue(p) ==
    /\ Len(wire) < MaxHeld
    /\ wire' = Append(wire, FrameOf(p))
    /\ pub' = [p EXCEPT !.due = @ + p.interval, !.sq = NextNum(@),
                        !.interval = NextInterval(@)]

Start ==
    /\ pub.thread = "none"
    /\ pub' = [pub EXCEPT !.thread = "running", !.changed = TRUE]
    /\ UNCHANGED <<wire, now>>

Publish(sendNow) ==
    /\ pub.values < MaxPublish
    /\ LET p == [pub EXCEPT !.values = @ + 1]
       IN  IF sendNow /\ pub.thread # "none" THEN SendDue(NewState(p))
           ELSE pub' = [p EXCEPT !.changed = TRUE] /\ UNCHANGED wire
    /\ UNCHANGED now

\* What is published while it waits is forgotten.
WrongRun ==
    /\ pub.thread = "running"
    /\ \/ pub.due <= now /\ SendDue(IF pub.changed THEN NewState(pub) ELSE pub)
       \/ /\ pub.due > now /\ pub.changed
          /\ pub' = [pub EXCEPT !.changed = FALSE] /\ UNCHANGED wire
    /\ UNCHANGED now

\* _run until it waits again.
Run ==
    /\ pub.thread = "running"
    /\ \/ pub.changed /\ SendDue(NewState(pub))
       \/ ~pub.changed /\ pub.due <= now /\ SendDue(pub)
    /\ UNCHANGED now

\* stop() asks; the thread ends, and is joined.
Stop ==
    /\ pub.thread = "running"
    /\ pub' = [pub EXCEPT !.thread = "stopping"]
    /\ UNCHANGED <<wire, now>>

Joined ==
    /\ pub.thread = "stopping"
    /\ pub' = [pub EXCEPT !.thread = "none"]
    /\ UNCHANGED <<wire, now>>

\* The program starts again, with a publisher of its own.
Restart ==
    /\ pub.control = 0
    /\ pub' = [New(1, pub.values) EXCEPT !.thread = "running", !.changed = TRUE]
    /\ UNCHANGED <<wire, now>>

Overdue == pub.thread = "running" /\ (pub.changed \/ pub.due <= now)

PublisherNext ==
    \/ Start \/ Run \/ Stop \/ Joined \/ Restart
    \/ \E sendNow \in BOOLEAN : Publish(sendNow)

PublisherInit == now = 0 /\ wire = <<>> /\ pub = New(0, 0)

=============================================================================
