---------------------------- MODULE Supervision ----------------------------
(* What the supervisions of GOOSE and SV share (supervision.py): a stream  *)
(* is a record with the kinds of the events that occurred, the counters    *)
(* accepted last and the number of messages missed.                        *)
EXTENDS Integers, SequencesExt

CONSTANT Window  \* REORDER_WINDOW

ASSUME WindowAssumption == Window \in Nat \ {0}

Emit(s, kind) == [s EXCEPT !.events = @ \cup {kind}]
EmitIf(s, condition, kind) == IF condition THEN Emit(s, kind) ELSE s

\* deque(maxlen=REORDER_WINDOW)
Remember(s, n) ==
    [s EXCEPT !.recent = IF Len(@) < Window THEN Append(@, n)
                         ELSE Append(Tail(@), n)]

\* A counter behind the reference: one received already, or one late.
Late(s, n) ==
    IF n \in Range(s.recent) THEN Emit(s, "duplicate")
    ELSE [Remember(Emit(s, "out of order"), n)
             EXCEPT !.missed = IF @ = 0 THEN 0 ELSE @ - 1]

=============================================================================
