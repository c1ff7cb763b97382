------------------------------ MODULE Capture ------------------------------
(***************************************************************************)
(* A PacketCapture (capture.py) and the kernel's side of its ring.  The    *)
(* low-latency ring (TPACKET_V2) is one of blocks of a single frame, handed *)
(* over at once and read one by one; the other's blocks (TPACKET_V3) are   *)
(* handed over full or after a timeout, and all those ready read at once.  *)
(***************************************************************************)
EXTENDS Integers, Sequences

CONSTANTS Blocks, PerBlock   \* blocks of the ring, frames of a TPACKET_V3 block

ASSUME CaptureAssumption ==
    Blocks \in Nat \ {0, 1} /\ PerBlock \in Nat \ {0}

VARIABLE capture

Places == 0 .. Blocks - 1

CaptureInit ==
    \E lowLatency \in BOOLEAN :
       capture = [lowLatency |-> lowLatency,
                  block |-> [b \in Places |-> <<>>],
                  user |-> [b \in Places |-> FALSE],    \* TP_STATUS_USER
                  fill |-> 0, next |-> 0, pending |-> <<>>]

WrongAfter(b) == b + 1
After(b) == (b + 1) % Blocks

HandOver(c) == [c EXCEPT !.user[c.fill] = TRUE, !.fill = After(c.fill)]

\* The kernel queues a frame, or drops it: the block is not given back yet.
Queued(c, frame) ==
    IF c.user[c.fill] THEN c
    ELSE LET c1 == [c EXCEPT !.block[c.fill] = Append(@, frame)]
         IN  IF c.lowLatency \/ Len(c1.block[c.fill]) = PerBlock
             THEN HandOver(c1) ELSE c1

\* The timeout of a block.
Retire ==
    /\ ~capture.user[capture.fill] /\ capture.block[capture.fill] # <<>>
    /\ capture' = HandOver(capture)

\* Those of a block, but for the ones this host sent (outgoing=False).
Foreign(frames) ==
    LET f[n \in 0 .. Len(frames)] ==
            IF n = 0 THEN <<>>
            ELSE IF frames[n].own THEN f[n-1] ELSE Append(f[n-1], frames[n])
    IN  f[Len(frames)]

\* The reader forgets to go on to the next block.
WrongGiveBack(c) ==
    [c EXCEPT !.block[c.next] = <<>>, !.user[c.next] = FALSE]

GiveBack(c) ==
    [c EXCEPT !.block[c.next] = <<>>, !.user[c.next] = FALSE,
              !.next = After(c.next)]

Read(c) == [GiveBack(c) EXCEPT !.pending = @ \o Foreign(c.block[c.next])]

\* Every block handed over; one slot after the other until a frame is found.
Ready(c) == c.user[c.next] /\ ~(c.lowLatency /\ c.pending # <<>>)
ReadReady(c) ==
    LET f[n \in 0 .. Blocks] == IF n = 0 THEN c
                                ELSE IF Ready(f[n-1]) THEN Read(f[n-1]) ELSE f[n-1]
    IN  f[Blocks]

\* What recv() has to choose from, then what it leaves.
Collected == IF capture.pending # <<>> THEN capture ELSE ReadReady(capture)
Recv == /\ Collected.pending # <<>>
        /\ capture' = [Collected EXCEPT !.pending = Tail(@)]
Received == Head(Collected.pending)

\* recv() returns None.
Nothing == /\ Collected.pending = <<>>
           /\ capture' = Collected

\* The frames accepted and not returned yet, in the order of their arrival.
WaitingIn(c) ==
    LET f[n \in 0 .. Blocks] ==
            IF n = 0 THEN c.pending
            ELSE f[n-1] \o Foreign(c.block[(c.next + n - 1) % Blocks])
    IN  f[Blocks]

Waiting == WaitingIn(capture)

=============================================================================
