---------------------------- MODULE SvPublisher ----------------------------
(***************************************************************************)
(* A Publisher of one SV stream (sv_publisher.py) and its two engines, the *)
(* Python thread and the native one.  The unit of time is the period of a  *)
(* frame, and the k-th frame stands for its bytes: Samples(k) is what they *)
(* carry.  Of a sample's values only where they come from is kept.         *)
(***************************************************************************)
EXTENDS Integers, Sequences

CONSTANTS
    Rate, Asdus,     \* samples per second, samples per frame
    StartSecond,     \* the second the first frame is due in
    Rows, PlaySmp, Repeat,       \* the playback; Repeat = 0: played once
    Cycle, Offset, FaultSmp      \* the fault, active for half its cycle

ASSUME PublisherAssumption ==
    /\ Rate \in Nat \ {0} /\ Asdus \in Nat \ {0} /\ Rate % Asdus = 0
    /\ StartSecond \in Nat /\ Rows \in Nat \ {0} /\ PlaySmp \in Nat
    /\ Repeat \in Nat /\ Cycle \in Nat /\ Offset \in Nat /\ FaultSmp \in 0 .. Rate - 1

VARIABLES
    engine,   \* the runner and its thread; k: the frame due next
    wire,     \* the frames on their way
    now       \* CLOCK_REALTIME, from StartSecond - 1 period

Engine == [native : BOOLEAN, thread : {"none", "running", "ended"},
           stop : BOOLEAN, k : Nat]

\* Playback.index, its start second that of the publisher.
PlayedRow(second, smp) ==
    LET i == second * Rate + smp - (StartSecond * Rate + PlaySmp)
        played == IF Repeat = 0 THEN i ELSE i % (Repeat * Rate)
    IN  {row \in 0 .. Rows - 1 : row = played}

\* Fault.active
FaultActive(second, smp) ==
    LET cycle == IF Cycle < 1 THEN 1 ELSE Cycle
        start == (Offset % cycle) * Rate + FaultSmp
    IN  (second * Rate + smp - start) % (cycle * Rate) < (cycle * Rate) \div 2

Source(second, smp) ==
    IF PlayedRow(second, smp) # {}
    THEN <<"row", CHOOSE row \in PlayedRow(second, smp) : TRUE>>
    ELSE <<IF FaultActive(second, smp) THEN "fault" ELSE "waves", 0>>

\* The samples of a frame are numbered from 0 in every frame.
WrongSamples(k) ==
    [i \in 1 .. Asdus |-> [smp |-> i - 1, from |-> Source(StartSecond, i - 1)]]

\* The recording goes on where the second before left it.
StaleSamples(k) ==
    LET first == (k % (Rate \div Asdus)) * Asdus
    IN  [i \in 1 .. Asdus |-> [smp |-> first + i - 1,
                               from |-> Source(StartSecond, first + i - 1)]]

\* What render_frame puts into the frame due at the period k.
Samples(k) ==
    LET perSecond == Rate \div Asdus
        first == (k % perSecond) * Asdus
    IN  [i \in 1 .. Asdus |->
            LET n == first + i - 1
                second == StartSecond + (k \div perSecond) + n \div Rate
            IN  [smp |-> n % Rate, from |-> Source(second, n % Rate)]]

PublisherInit ==
    /\ \E native \in BOOLEAN :
          engine = [native |-> native, thread |-> "none", stop |-> FALSE, k |-> 0]
    /\ wire = <<>> /\ now = 0

\* A second start() raises, after stop() too: the runner stays.
Start ==
    /\ engine.thread = "none"
    /\ engine' = [engine EXCEPT !.thread = "running"]
    /\ UNCHANGED <<wire, now>>

Due == now >= engine.k + 1

\* A frame that cannot be sent is an error counted, and the next is due.
Send(sent) ==
    /\ engine.thread = "running" /\ Due
    /\ wire' = IF sent THEN Append(wire, engine.k) ELSE wire
    /\ engine' = [engine EXCEPT !.k = @ + 1,
                                !.thread = IF engine.stop THEN "ended" ELSE @]
    /\ UNCHANGED now

\* stop() waits for the thread, which ends in End or after a last frame.
Stop ==
    /\ engine.thread = "running" /\ ~engine.stop
    /\ engine' = [engine EXCEPT !.stop = TRUE]
    /\ UNCHANGED <<wire, now>>

\* The Python thread waits on the event; the native one sleeps to the end.
End ==
    /\ engine.thread = "running" /\ engine.stop /\ ~engine.native
    /\ engine' = [engine EXCEPT !.thread = "ended"]
    /\ UNCHANGED <<wire, now>>

PublisherNext == Start \/ Send(TRUE) \/ Stop \/ End

=============================================================================
