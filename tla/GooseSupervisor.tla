-------------------------- MODULE GooseSupervisor --------------------------
(***************************************************************************)
(* The supervision of one GOOSE stream (supervision.py): what it makes of  *)
(* the messages it is fed, and of silence.  Of the events, which kinds     *)
(* have occurred is kept; the configuration compared (confRev, datSet,     *)
(* goID, the flags) is one value; every message is consistent.             *)
(***************************************************************************)
EXTENDS Supervision, GooseMessage

VARIABLE stream

GooseStream ==
    [known : BOOLEAN,
     last : Frame, lastSeen : Nat, missed : Nat, timedOut : BOOLEAN,
     recent : Seq(Num)      ,   \* the counters accepted last
     events : SUBSET {"new", "state change", "data", "gap", "duplicate",
                      "out of order", "restart", "timeout", "resumed",
                      "configuration"}]

Unknown(message) ==
    [known |-> FALSE, last |-> message, lastSeen |-> 0, missed |-> 0,
     timedOut |-> FALSE, recent |-> <<>>, events |-> {}]

\* Skipped states are not counted.
WrongStAhead(previous, current) == IF current > previous THEN 1 ELSE 0

StAhead(previous, current) ==
    IF current > previous THEN current - previous
    ELSE IF previous = NumMax /\ current >= 1 THEN current
    ELSE 0

SqNext(previous, current) ==
    current = previous + 1 \/ (previous = NumMax /\ current \in {0, 1})

IsLate(last, m) ==
    /\ m.st = last.st
    /\ m.sq = last.sq \/ (m.sq < last.sq /\ ~SqNext(last.sq, m.sq))

\* It becomes the reference.
Accept(s, m) == [Remember(s, m.sq) EXCEPT !.last = m]

SameState(s, m) ==
    LET gap == ~SqNext(s.last.sq, m.sq)
        s1 == EmitIf(s, gap, "gap")
        s2 == IF gap THEN [s1 EXCEPT !.missed = @ + m.sq - s.last.sq - 1]
              ELSE s1
    IN  Accept(EmitIf(s2, m.values # s.last.values, "data"), m)

OtherState(s, m) ==
    LET ahead == StAhead(s.last.st, m.st)
        s1 == [s EXCEPT !.recent = <<>>]
    IN  Accept(IF ahead = 0 THEN Emit(s1, "restart")
               ELSE [Emit(s1, "state change") EXCEPT !.missed = @ + ahead - 1],
               m)

\* A stNum that goes back is taken for a late one.
WrongFollow(s, m) ==
    IF IsLate(s.last, m) THEN Late(s, m.sq)
    ELSE IF m.st = s.last.st THEN SameState(s, m)
    ELSE IF StAhead(s.last.st, m.st) = 0 THEN Emit(s, "out of order")
    ELSE OtherState(s, m)

\* _follow_goose
Follow(s, m) ==
    IF IsLate(s.last, m) THEN Late(s, m.sq)
    ELSE IF m.st = s.last.st THEN SameState(s, m)
    ELSE OtherState(s, m)

Feed(s, m, t) ==
    LET heard == [s EXCEPT !.known = TRUE, !.lastSeen = t, !.timedOut = FALSE]
    IN  IF ~s.known THEN Accept(Emit(heard, "new"), m)
        ELSE Follow(EmitIf(EmitIf(heard, s.timedOut, "resumed"),
                           m.control # s.last.control, "configuration"), m)

Silent(s, t) == s.known /\ ~s.timedOut /\ t > s.lastSeen + s.last.tal
Check(s, t) ==
    IF Silent(s, t) THEN [Emit(s, "timeout") EXCEPT !.timedOut = TRUE] ELSE s

=============================================================================
