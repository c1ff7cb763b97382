------------------------------- MODULE Goose -------------------------------
(***************************************************************************)
(* A GoosePublisher and a GooseSupervisor that a BusSupervisor feeds, over *)
(* a network that loses, repeats and reorders frames.  trouble records     *)
(* what has disturbed the stream; lost and fed, the numbers of the frames. *)
(***************************************************************************)
EXTENDS GoosePublisher, GooseSupervisor, FiniteSets

CONSTANTS
    Faults,    \* what the network does: of {"loss", "repetition", "reordering"}
    MaxLost,   \* bound: frames lost, or not sent for an OSError
    MaxTrouble, \* bound: kinds of trouble in a behaviour
    MaxClock   \* bound: the time

VARIABLES
    lastSent,   \* the values of the frame given to send() last
    lastFed, lost, fed, trouble

vars == <<pub, wire, now, stream, lastSent, lastFed, lost, fed, trouble>>
history == <<lastFed, lost, fed>>

Nothing == FrameOf(New(0, 0))

Init ==
    /\ PublisherInit
    /\ stream = Unknown(Nothing) /\ lastSent = 0 /\ lastFed = Nothing
    /\ lost = {} /\ fed = {} /\ trouble = {}

Wraps == pub'.st < pub.st \/ (pub'.st = pub.st /\ pub'.sq < pub.sq)

Published ==
    /\ PublisherNext
    /\ "stop" \in trouble => pub'.thread # "stopping"
    /\ lastSent' = IF wire' # wire THEN Last(wire').values ELSE lastSent
    /\ trouble' =
          trouble \cup
          {k \in {"restart"} : pub'.control # pub.control /\ pub.st # 1} \cup
          {k \in {"state repeated"} : pub'.control # pub.control /\ pub.st = 1} \cup
          {k \in {"stop"} : pub'.thread = "stopping"} \cup
          {k \in {"wrap"} : pub'.control = pub.control /\ Wraps}
    /\ UNCHANGED <<stream, history>>

Number(f) == <<f.st, f.sq>>

\* Numbers tell frames apart.
Orderly == trouble \subseteq {"loss", "delay", "stop"}
Note(numbers, f) == IF Orderly THEN numbers \cup {Number(f)} ELSE {}

\* BusSupervisor.feed, with the i-th frame of those on their way; again: it
\* will come again.  Bound: what is lost is in order, what is repeated or
\* overtaken is of one state.
Deliver(i, again) ==
    /\ i > 1 => "reordering" \in Faults
    /\ again => "repetition" \in Faults /\ "disorder" \notin trouble
    /\ again \/ i > 1 => lost = {} /\ \A j \in 1 .. i : wire[j].st = wire[i].st
    /\ stream' = Feed(Check(stream, now), wire[i], now)
    /\ lastFed' = wire[i]
    /\ fed' = Note(fed, wire[i])
    /\ wire' = IF again THEN wire ELSE RemoveAt(wire, i)
    /\ trouble' = IF again \/ i > 1 THEN trouble \cup {"disorder"} ELSE trouble
    /\ UNCHANGED <<pub, now, lastSent, lost>>

Lose(i) ==
    /\ "loss" \in Faults
    /\ Cardinality(lost) < MaxLost /\ "disorder" \notin trouble
    /\ lost' = Note(lost, wire[i])
    /\ wire' = RemoveAt(wire, i)
    /\ trouble' = trouble \cup {"loss"}
    /\ UNCHANGED <<pub, now, stream, lastSent, lastFed, fed>>

\* BusSupervisor.check, between two frames.
Supervise ==
    /\ stream' = Check(stream, now)
    /\ UNCHANGED <<pub, wire, now, lastSent, history, trouble>>

\* A thread that is late, and a frame that is, are a trouble.
Tick ==
    /\ now < MaxClock
    /\ now' = now + 1
    /\ trouble' = IF Overdue \/ wire # <<>> THEN trouble \cup {"delay"}
                  ELSE trouble
    /\ UNCHANGED <<pub, wire, stream, lastSent, history>>

Next ==
    /\ \/ Published
       \/ \E i \in DOMAIN wire :
             Lose(i) \/ \E again \in BOOLEAN : Deliver(i, again)
       \/ Supervise
       \/ Tick
    /\ Cardinality(trouble') <= MaxTrouble

Spec == Init /\ [][Next]_vars

----------------------------------------------------------------------------
(* Properties                                                              *)

TypeOK ==
    /\ pub \in Publisher /\ wire \in Seq(Frame) /\ now \in Nat
    /\ stream \in GooseStream

(***************************************************************************)
(* publish() from any thread, with or without send_now, around start(), a  *)
(* repetition and stop(): when the thread has nothing left to send, the    *)
(* last frame given to send() carries the last values published.           *)
(***************************************************************************)
CurrentIsSent ==
    pub.thread = "running" /\ ~pub.changed => lastSent = pub.values

(***************************************************************************)
(* The publisher's numbers and times and the supervisor's agree, at a      *)
(* state change, through the repetitions and when a number wraps: what     *)
(* arrives whole and in time raises no alarm.                              *)
(***************************************************************************)
NoFalseAlarm ==
    trouble \subseteq {"wrap"} => stream.events \subseteq {"new", "state change"}

(***************************************************************************)
(* missed counts the frames lost between two received of their state, and  *)
(* the states lost whole between two received; what is only repeated, or   *)
(* overtaken within its state, is not missed once it has come.             *)
(***************************************************************************)
LostBetween ==
    {n \in lost : \E a, b \in fed : /\ a[1] = n[1] /\ b[1] = n[1]
                                    /\ a[2] < n[2] /\ n[2] < b[2]}
LostStates ==
    {s \in {n[1] : n \in lost} : /\ \A n \in fed : n[1] # s
                                 /\ \E a, b \in fed : a[1] < s /\ s < b[1]}

MissedIsLost ==
    /\ Orderly =>
          stream.missed = Cardinality(LostBetween) + Cardinality(LostStates)
    /\ trouble \subseteq {"disorder", "delay", "stop"} /\ wire = <<>> =>
          stream.missed = 0

(***************************************************************************)
(* "it becomes the new reference, so the stream is followed again at       *)
(* once": after any loss, delay or silence, after a wrap and after a       *)
(* restart, the reference is the message received last.                    *)
(***************************************************************************)
Followed ==
    /\ stream.known
    /\ \/ Orderly
       \/ trouble \subseteq {"wrap", "restart", "delay", "stop"}
    => stream.last = lastFed

(***************************************************************************)
(* What feed() knows of a stream: where it stands, and what it missed.     *)
(***************************************************************************)
StreamSound == TypeOK /\ Followed /\ MissedIsLost

=============================================================================
