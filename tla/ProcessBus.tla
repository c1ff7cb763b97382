----------------------------- MODULE ProcessBus -----------------------------
(***************************************************************************)
(* An SV publisher, a network that loses, repeats and reorders its frames, *)
(* a capture at the other end, and what is done with the frames captured:  *)
(* a BusSupervisor follows the stream, and Playback.from_sv_frames takes   *)
(* its samples.                                                            *)
(***************************************************************************)
EXTENDS SvPublisher, Capture, SvSupervisor, FiniteSets

CONSTANTS
    Remembered,   \* smpCnts from_sv_frames looks back at: 64
    MaxFrames,    \* bound: frames of the stream
    MaxTrouble    \* bound: frames lost, repeated, overtaken or of this host,
                  \* lateness (for two), stop

\* What a counter is compared with is short against a second of samples: 16
\* and 64 counters, against 4000 and more.  The samples of a frame, 16 at
\* most, are among those remembered.
ASSUME BusAssumption ==
    /\ MaxFrames \in Nat /\ MaxTrouble \in Nat
    /\ Window + 2 * Asdus <= Rate /\ Asdus + 1 < Rate \div 2
    /\ Remembered \in Asdus .. Rate - 1

VARIABLES
    recorded,  \* from_sv_frames: its last smpCnts and last samples
    lost, fed, repeated, overtaken,  \* frames, by number
    late,      \* the publisher's thread, the network or the reader was
    own        \* frames this host has sent

vars == <<engine, wire, now, capture, sv, recorded, lost, fed, repeated,
          overtaken, late, own>>
history == <<lost, fed, repeated, overtaken, own>>
reader == <<sv, recorded>>

Init ==
    /\ PublisherInit /\ CaptureInit
    /\ \E rate \in {0, Rate} : sv = SvUnknown(rate)
    /\ recorded = [recent |-> <<>>, tail |-> <<>>]
    /\ lost = {} /\ fed = {} /\ repeated = {} /\ overtaken = {}
    /\ late = FALSE /\ own = 0

Published ==
    /\ PublisherNext
    /\ engine'.k <= MaxFrames /\ Len(wire' \o Waiting) <= 2
    /\ UNCHANGED <<capture, reader, late, history>>

Bounded ==
    /\ Cardinality(lost') + Cardinality(repeated' \cup overtaken') + own' +
          Cardinality({x \in {1, 2} : late'}) +
          Cardinality({x \in {1} : engine'.stop}) <= MaxTrouble
    /\ now' <= engine'.k + 2

\* On a wire, into a socket that is full, or at a ring that is.
Drop(k) == lost' = lost \cup {k}

SendError ==
    /\ Send(FALSE) /\ engine'.k <= MaxFrames
    /\ Drop(engine.k)
    /\ UNCHANGED <<capture, reader, late, fed, repeated, overtaken, own>>

Lose ==
    /\ wire # <<>>
    /\ Drop(Head(wire)) /\ wire' = Tail(wire)
    /\ UNCHANGED <<engine, now, capture, reader, late, fed, repeated, overtaken,
                   own>>

\* The i-th frame on its way reaches the ring; again: it will come again.
\* Bound: one frame is overtaken, by one other, one is repeated, once.
Arrive(i, again) ==
    LET k == wire[i]
        frame == [k |-> k, at |-> now, own |-> FALSE]
    IN  /\ again => repeated = {}
        /\ i > 1 => i = 2 /\ overtaken = {}
        /\ repeated' = repeated \cup {x \in {k} : again}
        /\ overtaken' = overtaken \cup {x \in {wire[1]} : i > 1}
        /\ wire' = IF again THEN wire
                   ELSE SubSeq(wire, 1, i - 1) \o SubSeq(wire, i + 1, Len(wire))
        /\ capture' = Queued(capture, frame)
        /\ IF capture' = capture THEN Drop(k) ELSE UNCHANGED lost
        /\ UNCHANGED <<engine, now, reader, late, fed, own>>

\* This host sends a frame of its own: the kernel queues it like the others.
SendOwn ==
    /\ own' = own + 1
    /\ capture' = Queued(capture, [k |-> 0, at |-> now, own |-> TRUE])
    /\ capture' # capture
    /\ UNCHANGED <<engine, wire, now, reader, late, lost, fed, repeated, overtaken>>

HandedOver ==
    Retire /\ UNCHANGED <<engine, wire, now, reader, late, history>>

\* A sample is taken unless its smpCnt is among the last ones.
TakeSample(r, sample) ==
    LET recent == Append(r.recent, sample.smp)
        tail == Append(r.tail, sample.from)
    IN  IF \E i \in DOMAIN r.recent : r.recent[i] = sample.smp THEN r
        ELSE [recent |-> IF Len(recent) > Remembered THEN Tail(recent) ELSE recent,
              tail |-> IF Len(tail) > Asdus + 1 THEN Tail(tail) ELSE tail]

Record(r, samples) ==
    LET f[n \in 0 .. Len(samples)] ==
            IF n = 0 THEN r ELSE TakeSample(f[n-1], samples[n])
    IN  f[Len(samples)]

\* The loop of main: a frame, or None.
TakeFrame ==
    /\ Recv
    /\ LET samples == Samples(Received.k)
       IN  /\ sv' = FeedSamples(SvCheck(sv, Received.at), samples, Received.at)
           /\ recorded' = Record(recorded, samples)
    /\ fed' = fed \cup {Received.k}
    /\ UNCHANGED <<engine, wire, now, late, lost, repeated, overtaken, own>>

TakeNothing ==
    /\ Nothing
    /\ sv' = SvCheck(sv, now)
    /\ UNCHANGED <<engine, wire, now, recorded, late, history>>

\* Bound: at most two frames are on their way; late: a frame is, or the one
\* due is not sent in its period.
Tick ==
    /\ now <= MaxFrames
    /\ Len(wire) < 2
    /\ now' = now + 1
    /\ late' = (late \/ wire \o Waiting # <<>> \/ (engine.thread = "running" /\ Due))
    /\ UNCHANGED <<engine, wire, capture, reader, history>>

Next ==
    /\ \/ Published \/ SendError \/ Lose
       \/ \E i \in DOMAIN wire, again \in BOOLEAN : Arrive(i, again)
       \/ SendOwn \/ HandedOver \/ TakeFrame \/ TakeNothing \/ Tick
    /\ Bounded

Spec == Init /\ [][Next]_vars

----------------------------------------------------------------------------
(* Properties                                                              *)

TypeOK ==
    /\ engine \in Engine /\ wire \in Seq(Nat) /\ now \in Nat
    /\ sv \in SvStreamState
    /\ capture.fill \in Places /\ capture.next \in Places

(***************************************************************************)
(* The ring, its wrap and its two ways of reading are a queue: a frame the *)
(* kernel accepted comes out of recv() once and in its turn, whatever was  *)
(* dropped, however the blocks were handed over, and this host's own       *)
(* frames left out.                                                        *)
(***************************************************************************)
RingIsQueue ==
    [][\/ Waiting' = Waiting
       \/ Waiting # <<>> /\ Waiting' = Tail(Waiting)
       \/ \E k \in 0 .. MaxFrames :
             Waiting' = Append(Waiting, [k |-> k, at |-> now, own |-> FALSE])]_vars

PerSecond == Rate \div Asdus

\* What the rate is learnt from is a second received whole and in order.
RateLearnt ==
    sv.rate # 0 \/ \A k \in lost \cup repeated \cup overtaken : k > PerSecond

(***************************************************************************)
(* missed counts the samples lost between two received, in gaps of one or  *)
(* more frames, across the wrap of smpCnt, for the rates set and learnt;   *)
(* those only repeated or overtaken are not missed once they have come.    *)
(***************************************************************************)
LostBetween == {n \in lost : (\E a \in fed : a < n) /\ (\E b \in fed : n < b)}

\* A counter half a second ahead or more is taken as one behind.
ShortGaps ==
    \A a, b \in lost :
        a .. b \subseteq lost => (b - a + 1) * Asdus + 1 < Rate \div 2

MissedIsLost ==
    /\ repeated = {} /\ overtaken = {} /\ RateLearnt /\ ShortGaps
       => sv.missed = Asdus * Cardinality(LostBetween)
    /\ lost = {} /\ RateLearnt /\ fed = 0 .. engine.k - 1 => sv.missed = 0

(***************************************************************************)
(* What feed() knows of a stream.                                          *)
(***************************************************************************)
StreamSound == TypeOK /\ MissedIsLost

(***************************************************************************)
(* A stream that arrives whole and in order is only new: no gap at the     *)
(* wrap, learnt or known, no timeout between two frames sent in time.      *)
(***************************************************************************)
NoFalseAlarm ==
    lost = {} /\ repeated = {} /\ overtaken = {} =>
        sv.events \ {"new"} \subseteq
            IF late \/ engine.stop THEN {"timeout", "resumed"} ELSE {}

(***************************************************************************)
(* What from_sv_frames takes of a stream that lost nothing, repeated or    *)
(* not, is what the publisher was to send, sample after sample: the rows   *)
(* of a playback follow each other, across the second, and it starts again *)
(* at its first row.                                                       *)
(***************************************************************************)
Follows(a, b) ==
    /\ b[1] = "row" /\ b[2] > 0 => a = <<"row", b[2] - 1>>
    /\ a[1] = "row" /\ a[2] < Rows - 1 =>
          b = <<"row", (IF Repeat = 0 THEN a[2] + 1
                        ELSE (a[2] + 1) % (Repeat * Rate))>>

RecordedInOrder ==
    lost = {} /\ overtaken = {} =>
        \A i \in 1 .. Len(recorded.tail) - 1 :
            Follows(recorded.tail[i], recorded.tail[i + 1])

=============================================================================
