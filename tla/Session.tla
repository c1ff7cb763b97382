------------------------------ MODULE Session ------------------------------
(***************************************************************************)
(* An MmsClient and the connection of an MmsServer that serves it, over a  *)
(* TCP connection that may break at any time.                              *)
(***************************************************************************)
EXTENDS ServerConnection, MmsClient

vars == <<net, server, client>>

Init == TcpInit /\ ServerInit /\ ClientInit

\* What MmsClient never sends and another client may.
OtherPdu ==
    /\ client.receiver = "running" /\ "client" \in up /\ sent < MaxSent
    /\ Len(toServer) < Room
    /\ sent' = sent + 1
    /\ \E kind \in {"conclude", "unknown"} :
          toServer' = Append(toServer, [kind |-> kind, id |-> 0, about |-> 0])
    /\ UNCHANGED <<toClient, up, conn, listening, client>>

Next ==
    \/ ServerNext /\ UNCHANGED client
    \/ ClientNext /\ UNCHANGED server
    \/ Break /\ UNCHANGED <<server, client>>
    \/ OtherPdu

(***************************************************************************)
(* Threads go on when they can; timers fire.  Nothing is assumed of the    *)
(* receive thread, the application and its handlers, which may never       *)
(* return, the other client, the network, stop().                          *)
(***************************************************************************)
Fairness ==
    /\ WF_vars(ServingThread /\ UNCHANGED client)
    /\ WF_vars(WriterThread /\ UNCHANGED client)
    /\ WF_vars(Closer /\ UNCHANGED client)
    /\ \A t \in Threads : WF_vars(Caller(t) /\ UNCHANGED server)

Spec == Init /\ [][Next]_vars
FairSpec == Spec /\ Fairness

----------------------------------------------------------------------------
(* Properties                                                              *)

\* The sum of the bytes of the PDUs of q, of which none has more than two.
SizeOf(q) ==
    Cardinality({kb \in (DOMAIN q) \X (1 .. 2) : kb[2] <= Bytes(q[kb[1]])})

TypeOK ==
    /\ toServer \in Seq(Pdu) /\ toClient \in Seq(Pdu) /\ up \subseteq Both
    /\ conn \in Conn /\ listening \in BOOLEAN /\ sent \in Nat
    /\ client \in Client

(***************************************************************************)
(* send(), close() and _write_loop keep _queued by additions, subtractions *)
(* and a reset, between which closed may be set without the lock: it stays *)
(* the size of the queue and within send_queue_bytes, and a connection     *)
(* that has been closed holds nothing.                                     *)
(***************************************************************************)
QueueExact ==
    /\ conn.queued = SizeOf(conn.queue)
    /\ conn.queued <= MaxQueued
    /\ conn.closed /\ ~conn.clearing => conn.queue = <<>>

(***************************************************************************)
(* The connection as its engines see it: see Connection.                   *)
(***************************************************************************)
C == INSTANCE Connection WITH
        state <- IF conn.listed THEN IF conn.closed THEN "lost" ELSE "open"
                 ELSE IF conn.serving = "gone" /\ conn.closed THEN "gone"
                 ELSE "new",
        served <- conn.served

ImplementsConnection == C!ConnectionSpec

(***************************************************************************)
(* _request, _dispatch and _fail_all under one lock, the events and the    *)
(* send outside it: a thread that sends or waits, and for which nothing    *)
(* has come, is in _pending, so that an answer or the end of the           *)
(* connection will be told to it, and an invokeID in _pending is one       *)
(* thread's.                                                               *)
(***************************************************************************)
WaiterIsPending ==
    /\ \A t \in Threads :
          LET c == client.calls[t]
          IN  c.at \in {"registered", "sending", "waiting"} /\ c.got = "nothing"
                 => c.id \in client.pending
    /\ \A id \in client.pending :
          \E t \in Threads : \A u \in Threads :
             client.calls[u].id = id /\ client.calls[u].got = "nothing"
                <=> u = t
    /\ client.finished => client.pending = {}

(***************************************************************************)
(* request() returns the response to its own request, whatever timed out   *)
(* before and however late its answer comes.                               *)
(***************************************************************************)
OwnAnswer ==
    \A t \in Threads : LET c == client.calls[t]
                       IN  c.got = "answer" => c.about = c.id

(***************************************************************************)
(* Every way out of request() gives back the slot it took, once.           *)
(***************************************************************************)
SlotsExact ==
    client.free + Cardinality({t \in Threads : client.calls[t].at # "idle"})
        = Slots

(***************************************************************************)
(* What the client knows of its requests, under the lock and outside it:   *)
(* its slots and its pending requests are those of the threads.            *)
(***************************************************************************)
CallsExact == TypeOK /\ SlotsExact /\ WaiterIsPending

(***************************************************************************)
(* _request: a request ends, with an answer, an error or a timeout,        *)
(* whatever the server answers or not and the network, close() and a       *)
(* listener do, unless the server has stopped reading for ever and the     *)
(* connection stays: then a send does not return, in time or at all, nor   *)
(* does a request at the send lock.                                        *)
(***************************************************************************)
RequestEnds ==
    \A t \in Threads :
       client.calls[t].at # "idle" ~> client.calls[t].at = "idle" \/ []Full

(***************************************************************************)
(* serve()'s finally, send_timeout: a connection that was listed and is    *)
(* closed, by whomever, is forgotten (its hooks run), whatever its peer    *)
(* reads, if the application's handlers return.                            *)
(***************************************************************************)
ClosedIsForgotten ==
    (conn.listed /\ conn.closed) ~> conn.serving \in {"gone", "stuck"}

=============================================================================
