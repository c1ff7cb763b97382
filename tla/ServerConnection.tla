-------------------------- MODULE ServerConnection --------------------------
(***************************************************************************)
(* One connection of the MMS server (server/server.py): the thread that    *)
(* serves its requests in order, the writer thread with its bounded queue, *)
(* the threads that send it reports, and the closing by any of them, by    *)
(* its peer or by stop().                                                  *)
(*                                                                         *)
(* A PDU is a record of its kind, its invokeID and what it is about.  Code *)
(* outside a lock is an action of its own.  The age of the oldest PDU is   *)
(* abstracted: one that waits may or may not be older than send_timeout.   *)
(***************************************************************************)
EXTENDS Integers, SequencesExt, Tcp

CONSTANTS
    None,       \* no PDU
    MaxQueued,  \* send_queue_bytes
    MaxSent     \* bound: PDUs other than responses that are sent

ASSUME RoomAssumption == Room \in Nat /\ MaxQueued \in Nat /\ MaxSent \in Nat

VARIABLES
    conn,       \* the ServerConnection and its threads
    listening,  \* stop() has not closed the socket
    sent        \* counts reports, and PDUs of other clients

server == <<conn, listening, sent>>

(* "accepted": in _serve before the connection is listed; "associating":   *)
(* listed; "reading": waiting for a PDU; "handling": it has one; "after":  *)
(* its response queued; "stuck": a handler of the application does not     *)
(* return; "ending": in the finally of serve(); "gone".                    *)
Stages == {"none", "accepted", "associating", "reading", "handling", "after",
           "stuck", "ending", "gone"}

Kinds == {"request", "response", "reject", "report", "accept", "conclude",
          "concluded", "unknown"}
Pdu == [kind : Kinds, id : Nat, about : Nat]

Conn == [serving : Stages,
         request : Pdu \cup {None},   \* the PDU being handled
         listed : BOOLEAN,            \* it is in server.connections
         closed : BOOLEAN,            \* the Event
         dropping : BOOLEAN,  \* a sender found it behind and is to close it
         clearing : BOOLEAN,  \* closed is set, the queue is to be cleared
         queue : Seq(Pdu), queued : Int,
         sending : Pdu \cup {None},   \* what the writer thread has taken
         served : Nat]                \* counts the requests handled

Response(kind, r) == [kind |-> kind, id |-> r.id, about |-> r.about]
Report == [kind |-> "report", id |-> 0, about |-> 0]
Accepted == [kind |-> "accept", id |-> 0, about |-> 0]

\* A report is longer than a response.
Bytes(p) == IF p.kind = "report" THEN 2 ELSE 1

\* send(): late is that the oldest PDU has waited too long.
Behind(c, p, late) ==
    (late /\ (c.sending # None \/ c.queue # <<>>))
        \/ c.queued + Bytes(p) > MaxQueued

\* closed is not looked at.
WrongEnqueue(c, p, late) ==
    IF Behind(c, p, late) THEN [c EXCEPT !.dropping = TRUE]
    ELSE [c EXCEPT !.queue = Append(@, p), !.queued = @ + Bytes(p)]

Enqueue(c, p, late) ==
    IF c.closed THEN c
    ELSE IF Behind(c, p, late) THEN [c EXCEPT !.dropping = TRUE]
    ELSE [c EXCEPT !.queue = Append(@, p), !.queued = @ + Bytes(p)]

\* close(): closed is set without the lock, the queue cleared under it.
SetClosed(c) == [c EXCEPT !.closed = TRUE, !.clearing = TRUE]

----------------------------------------------------------------------------
(* The connection's thread                                                 *)

\* _accept_loop and _serve up to the COTP handshake.
Accept ==
    /\ listening /\ conn.serving = "none" /\ up = Both
    /\ conn' = [conn EXCEPT !.serving = "accepted"]
    /\ Quiet /\ UNCHANGED <<listening, sent>>

AcceptFails ==
    /\ conn.serving = "accepted"
    /\ conn' = [conn EXCEPT !.serving = "gone"]
    /\ Hangs("server") /\ UNCHANGED <<listening, sent>>

List ==
    /\ conn.serving = "accepted"
    /\ conn' = [conn EXCEPT !.serving = "associating", !.listed = TRUE]
    /\ Quiet /\ UNCHANGED <<listening, sent>>

\* The association's answer does not go through the queue.
Associate ==
    /\ conn.serving = "associating"
    /\ IF up = Both
       THEN /\ conn' = [conn EXCEPT !.serving = "reading"]
            /\ toClient' = Append(toClient, Accepted)
            /\ UNCHANGED <<toServer, up>>
       ELSE conn' = [conn EXCEPT !.serving = "ending"] /\ Quiet
    /\ UNCHANGED <<listening, sent>>

\* close() does not wake the thread in recv().
WrongRead ==
    /\ conn.serving = "reading"
    /\ \/ /\ "server" \in up /\ toServer # <<>>
          /\ conn' = [conn EXCEPT !.serving = "handling",
                                  !.request = Head(toServer)]
          /\ toServer' = Tail(toServer)
          /\ UNCHANGED <<toClient, up>>
       \/ /\ toServer = <<>> /\ "client" \notin up
          /\ conn' = [conn EXCEPT !.serving = "ending"]
          /\ Quiet
    /\ UNCHANGED <<listening, sent>>

\* The loop's condition and iso.recv(): the peer's data before its closing.
Read ==
    /\ conn.serving = "reading"
    /\ \/ /\ ~conn.closed /\ "server" \in up /\ toServer # <<>>
          /\ conn' = [conn EXCEPT !.serving = "handling",
                                  !.request = Head(toServer)]
          /\ toServer' = Tail(toServer)
          /\ UNCHANGED <<toClient, up>>
       \/ /\ \/ conn.closed \/ "server" \notin up
             \/ toServer = <<>> /\ up # Both
          /\ conn' = [conn EXCEPT !.serving = "ending"]
          /\ Quiet
    /\ UNCHANGED <<listening, sent>>

\* _handle: a confirmed request gets _service's response (or its error or
\* rejection, with the same invokeID), a PDU that is none is rejected.
Handle(late) ==
    /\ conn.serving = "handling"
    /\ conn.request.kind # "conclude"
    /\ LET kind == IF conn.request.kind = "request" THEN "response" ELSE "reject"
       IN  conn' = Enqueue([conn EXCEPT !.serving = "after", !.served = @ + 1],
                           Response(kind, conn.request), late)
    /\ Quiet /\ UNCHANGED <<listening, sent>>

Conclude(late) ==
    /\ conn.serving = "handling"
    /\ conn.request.kind = "conclude"
    /\ conn' = Enqueue([conn EXCEPT !.serving = "ending", !.request = None,
                                    !.served = @ + 1],
                       Response("concluded", conn.request), late)
    /\ Quiet /\ UNCHANGED <<listening, sent>>

\* _service calls the application's handlers on this thread, which reads
\* nothing meanwhile, and nothing more when one never returns.
Hang ==
    /\ conn.serving = "handling" /\ conn.request.kind = "request"
    /\ conn' = [conn EXCEPT !.serving = "stuck"]
    /\ Quiet /\ UNCHANGED <<listening, sent>>

\* after_response, and back to the loop.
AfterResponse ==
    /\ conn.serving = "after"
    /\ conn' = [conn EXCEPT !.serving = "reading", !.request = None]
    /\ Quiet /\ UNCHANGED <<listening, sent>>

\* serve()'s close(), then _forget.
End ==
    /\ conn.serving = "ending" /\ ~conn.closed
    /\ conn' = SetClosed(conn)
    /\ Quiet /\ UNCHANGED <<listening, sent>>

\* Forgotten by whoever closes it.
WrongForget ==
    /\ conn.listed /\ conn.closed /\ ~conn.clearing
    /\ conn' = [conn EXCEPT !.listed = FALSE, !.serving =
                   IF @ = "handling" THEN @ ELSE "gone"]
    /\ Quiet /\ UNCHANGED <<listening, sent>>

Forget ==
    /\ conn.serving = "ending" /\ conn.closed /\ ~conn.clearing
    /\ conn' = [conn EXCEPT !.serving = "gone", !.listed = FALSE]
    /\ Quiet /\ UNCHANGED <<listening, sent>>

----------------------------------------------------------------------------
(* The writer thread                                                       *)

Writing ==
    conn.serving \in {"reading", "handling", "after", "stuck", "ending", "gone"}

Take ==
    /\ Writing /\ ~conn.closed /\ conn.sending = None /\ conn.queue # <<>>
    /\ conn' = [conn EXCEPT !.sending = Head(conn.queue), !.queue = Tail(@),
                            !.queued = @ - Bytes(Head(conn.queue))]
    /\ Quiet /\ UNCHANGED <<listening, sent>>

\* iso.send() returns when TCP has room, or fails: a reset, send_timeout.
Write ==
    /\ conn.sending # None /\ "server" \in up /\ Len(toClient) < Room
    /\ toClient' = Append(toClient, conn.sending)
    /\ conn' = [conn EXCEPT !.sending = None]
    /\ UNCHANGED <<toServer, up, listening, sent>>

\* A blocking send without a time limit.
WrongWriteFails ==
    /\ conn.sending # None /\ ~conn.closed /\ up # Both
    /\ conn' = SetClosed(conn)
    /\ Quiet /\ UNCHANGED <<listening, sent>>

WriteFails ==
    /\ conn.sending # None /\ ~conn.closed
    /\ up # Both \/ Len(toClient) >= Room
    /\ conn' = SetClosed(conn)
    /\ Quiet /\ UNCHANGED <<listening, sent>>

----------------------------------------------------------------------------
(* Other threads                                                           *)

\* broadcast() by whoever changed a value.
SendReport(late) ==
    /\ conn.listed /\ Writing /\ sent < MaxSent
    /\ sent' = sent + 1
    /\ conn' = Enqueue(conn, Report, late)
    /\ Quiet /\ UNCHANGED listening

\* send() goes on to close(), out of the lock.
Drop ==
    /\ conn.dropping
    /\ conn' = SetClosed([conn EXCEPT !.dropping = FALSE])
    /\ Quiet /\ UNCHANGED <<listening, sent>>

Clear ==
    /\ conn.clearing
    /\ conn' = [conn EXCEPT !.clearing = FALSE, !.queue = <<>>, !.queued = 0]
    /\ Hangs("server") /\ UNCHANGED <<listening, sent>>

\* stop(): no more accept; the connections listed now are closed.
Stop ==
    /\ listening
    /\ listening' = FALSE
    /\ conn' = IF conn.listed THEN SetClosed(conn) ELSE conn
    /\ Quiet /\ UNCHANGED sent

----------------------------------------------------------------------------

ServerInit ==
    /\ conn = [serving |-> "none", request |-> None, listed |-> FALSE,
               closed |-> FALSE, dropping |-> FALSE, clearing |-> FALSE,
               queue |-> <<>>, queued |-> 0, sending |-> None, served |-> 0]
    /\ listening = TRUE /\ sent = 0

ServingThread ==
    \/ AcceptFails \/ List \/ Associate \/ Read \/ AfterResponse \/ End
    \/ Forget
    \/ \E late \in BOOLEAN : Handle(late) \/ Conclude(late)
WriterThread == Take \/ Write \/ WriteFails
Closer == Drop \/ Clear

ServerNext ==
    \/ Accept \/ ServingThread \/ Hang \/ WriterThread \/ Closer
    \/ \E late \in BOOLEAN : SendReport(late)
    \/ Stop

=============================================================================
