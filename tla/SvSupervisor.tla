--------------------------- MODULE SvSupervisor ---------------------------
(***************************************************************************)
(* The supervision of one SV stream (supervision.py): what it makes of the *)
(* samples it is fed, and of silence.  The configuration fields of a       *)
(* sample never change here.                                               *)
(***************************************************************************)
EXTENDS Supervision

CONSTANT Timeout   \* of the SvSupervisor, in periods of a frame

ASSUME SupervisorAssumption == Timeout \in Nat \ {0}

VARIABLE sv

SvStreamState ==
    [rate : Nat,      \* where smpCnt wraps; 0: neither set nor in the stream
     known : BOOLEAN, smp : Nat, maxSeen : Nat, wrapped : BOOLEAN,
     missed : Nat, timedOut : BOOLEAN, lastSeen : Nat, recent : Seq(Nat),
     events : SUBSET {"new", "gap", "duplicate", "out of order", "restart",
                      "timeout", "resumed"}]

SvUnknown(rate) ==
    [rate |-> rate, known |-> FALSE, smp |-> 0, maxSeen |-> 0,
     wrapped |-> FALSE, missed |-> 0, timedOut |-> FALSE,
     lastSeen |-> 0, recent |-> <<>>, events |-> {}]

WrapsAt(s) == IF s.rate # 0 THEN s.rate
              ELSE IF s.wrapped THEN s.maxSeen + 1 ELSE 0

\* The first wrap of a stream of unknown rate gives the rate.
Learn(s, smp) ==
    [s EXCEPT !.wrapped = @ \/ (WrapsAt(s) = 0 /\ s.smp - smp > Window)]

\* Whatever is smaller is behind.
WrongAhead(s, smp) == smp - s.smp

\* Half a second ahead or more is taken as behind.
Ahead(s, smp) ==
    LET wrap == WrapsAt(s)
        ahead == IF wrap = 0 THEN 0 ELSE (smp - s.smp) % wrap
    IN  IF wrap = 0 \/ s.smp >= wrap \/ smp >= wrap THEN smp - s.smp
        ELSE IF ahead >= wrap \div 2 THEN ahead - wrap
        ELSE ahead

AcceptSample(s, smp) ==
    [Remember(s, smp) EXCEPT !.smp = smp, !.maxSeen = IF smp > @ THEN smp ELSE @]

\* _follow and what _feed_asdu does with its answer
FollowSample(s, smp) ==
    LET ahead == Ahead(s, smp)
    IN  IF ahead <= 0 /\ ahead + Window >= 0 THEN Late(s, smp)
        ELSE IF ahead <= 0
        THEN AcceptSample([Emit(s, "restart") EXCEPT !.recent = <<>>], smp)
        ELSE AcceptSample([EmitIf(s, ahead > 1, "gap")
                              EXCEPT !.missed = @ + (ahead - 1)], smp)

FeedSample(s, smp, t) ==
    LET heard == [s EXCEPT !.known = TRUE, !.lastSeen = t, !.timedOut = FALSE]
    IN  IF ~s.known THEN AcceptSample(Emit(heard, "new"), smp)
        ELSE FollowSample(Learn(EmitIf(heard, s.timedOut, "resumed"), smp), smp)

\* feed: the samples of a frame, one after the other.
FeedSamples(s, samples, t) ==
    LET f[n \in 0 .. Len(samples)] ==
            IF n = 0 THEN s ELSE FeedSample(f[n-1], samples[n].smp, t)
    IN  f[Len(samples)]

SvCheck(s, t) ==
    IF s.known /\ ~s.timedOut /\ t > s.lastSeen + Timeout
    THEN [Emit(s, "timeout") EXCEPT !.timedOut = TRUE] ELSE s

=============================================================================
