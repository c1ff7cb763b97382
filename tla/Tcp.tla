-------------------------------- MODULE Tcp --------------------------------
(* A TCP connection between a client and the server: what each side has    *)
(* sent and the other has not received, and the ends still connected.      *)
EXTENDS Sequences, FiniteSets, Integers

CONSTANT Room  \* PDUs that fit in TCP's buffers, each way

VARIABLES toServer, toClient, up

net == <<toServer, toClient, up>>
Both == {"client", "server"}

\* The server's end takes no more: a blocking send to it does not return.
Full == up = Both /\ Len(toServer) >= Room

TcpInit == toServer = <<>> /\ toClient = <<>> /\ up = Both

\* Keepalive or a reset tells both ends; what was on its way is lost.
Break == up = Both /\ up' = {} /\ toServer' = <<>> /\ toClient' = <<>>

\* The steps of a thread that leave TCP alone, or only disconnect an end.
Quiet == UNCHANGED net
Hangs(end) == up' = up \ {end} /\ UNCHANGED <<toServer, toClient>>

=============================================================================
