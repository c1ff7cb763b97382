----------------------------- MODULE MmsClient -----------------------------
(***************************************************************************)
(* The MMS client (mms/client.py) after its association: requests of       *)
(* several threads, each with a slot (max_outstanding_calling of them) and *)
(* an invokeID, the thread that receives, timeouts, late answers, a        *)
(* connection that breaks, close(), and a listener that raises.            *)
(*                                                                         *)
(* A caller's step ends where another thread may come in between: at the   *)
(* semaphore, at the lock, at the send lock, in the send, at the wait.     *)
(* Only the wait for a slot and the wait for the answer have a time limit: *)
(* the socket has none (transport.py connect), and a send to a server that *)
(* does not read holds its thread, and those at the send lock.  invokeIDs  *)
(* do not wrap within a behaviour.  A request that gets no slot in time    *)
(* changes nothing.                                                        *)
(***************************************************************************)
EXTENDS Integers, Tcp

CONSTANTS
    Threads,
    Slots,         \* max_outstanding_calling
    ListenersFail, \* a report listener may raise an exception
    MaxRequests    \* bound: requests sent

ASSUME SlotsAssumption == Slots \in Nat /\ IsFiniteSet(Threads)

VARIABLE client

(* "idle"; "called": its request is to be registered; "registered": to be  *)
(* sent; "sending": it holds the send lock; "waiting" for the event;       *)
(* "late": the wait has timed out.  got is what _pending was popped for,   *)
(* about the answer's; done that the event is set.                         *)
Call == [at : {"idle", "called", "registered", "sending", "waiting", "late"},
         id : Nat, got : {"nothing", "answer", "error"}, about : Nat,
         done : BOOLEAN]
Idle == [at |-> "idle", id |-> 0, got |-> "nothing", about |-> 0,
         done |-> FALSE]

Client == [free : 0 .. Slots,           \* the semaphore's value
           calls : [Threads -> Call],   \* the request each thread has in hand
           pending : SUBSET Nat,        \* the invokeIDs in _pending
           nextId : Nat \ {0},          \* _invoke_ids
           finished : BOOLEAN,          \* _closed
           receiver : {"waiting", "running", "ended"}]

\* The caller gets its result, and gives its slot back.
Return(t) == [client EXCEPT !.calls[t] = Idle, !.free = @ + 1]

----------------------------------------------------------------------------
(* A caller                                                                *)

\* The semaphore is not looked at.
WrongAcquire(t) ==
    /\ client.receiver # "waiting" /\ client.calls[t].at = "idle"
    /\ client.nextId <= MaxRequests
    /\ client' = [client EXCEPT !.free = @ - 1,
                                !.calls[t] = [Idle EXCEPT !.at = "called"]]
    /\ Quiet

Acquire(t) ==
    /\ client.receiver # "waiting" /\ client.calls[t].at = "idle"
    /\ client.free > 0 /\ client.nextId <= MaxRequests
    /\ client' = [client EXCEPT !.free = @ - 1,
                                !.calls[t] = [Idle EXCEPT !.at = "called"]]
    /\ Quiet

Register(t) ==
    /\ client.calls[t].at = "called" /\ ~client.finished
    /\ LET id == client.nextId
       IN  client' = [client EXCEPT !.calls[t].at = "registered",
                                    !.calls[t].id = id,
                                    !.pending = @ \cup {id}, !.nextId = id + 1]
    /\ Quiet

NotConnected(t) ==
    /\ client.calls[t].at = "called" /\ client.finished
    /\ client' = Return(t)
    /\ Quiet

LockSend(t) ==
    /\ client.calls[t].at = "registered"
    /\ \A u \in Threads : client.calls[u].at # "sending"
    /\ client' = [client EXCEPT !.calls[t].at = "sending"]
    /\ Quiet

\* sendall() returns once TCP has taken it all.  about tells the request from
\* any other.
Send(t) ==
    LET id == client.calls[t].id
    IN  /\ client.calls[t].at = "sending"
        /\ "client" \in up /\ Len(toServer) < Room
        /\ toServer' = Append(toServer, [kind |-> "request", id |-> id,
                                         about |-> id])
        /\ client' = [client EXCEPT !.calls[t].at = "waiting"]
        /\ UNCHANGED <<toClient, up>>

SendFails(t) ==
    /\ client.calls[t].at = "sending" /\ up # Both
    /\ client' = [Return(t) EXCEPT !.pending = @ \ {client.calls[t].id}]
    /\ Quiet

\* done.wait() returns before its timeout.
Awake(t) ==
    /\ client.calls[t].at = "waiting" /\ client.calls[t].done
    /\ client' = Return(t)
    /\ Quiet

\* wait() without a time limit.
WrongTimeOut(t) == client.calls[t].at = "late" /\ Quiet /\ UNCHANGED client

TimeOut(t) ==
    /\ client.calls[t].at = "waiting" /\ ~client.calls[t].done
    /\ client' = [client EXCEPT !.calls[t].at = "late"]
    /\ Quiet

\* The slot stays taken.
WrongGiveUp(t) ==
    /\ client.calls[t].at = "late"
    /\ client' = [client EXCEPT !.calls[t] = Idle,
                                !.pending = @ \ {client.calls[t].id}]
    /\ Quiet

\* The lock again; an answer that came in between is not looked at.
GiveUp(t) ==
    /\ client.calls[t].at = "late"
    /\ client' = [Return(t) EXCEPT !.pending = @ \ {client.calls[t].id}]
    /\ Quiet

----------------------------------------------------------------------------
(* The receive thread                                                      *)

\* connect(): the association is accepted, or the connection closed.
Start ==
    /\ client.receiver = "waiting" /\ toClient # <<>>
    /\ toClient' = Tail(toClient)
    /\ client' = [client EXCEPT !.receiver = "running"]
    /\ UNCHANGED <<toServer, up>>

ConnectFails ==
    /\ client.receiver = "waiting" /\ toClient = <<>>
    /\ client' = [client EXCEPT !.receiver = "ended", !.finished = TRUE]
    /\ Hangs("client")

\* The requests ids are popped from _pending, their events to be set.
Tell(c, ids, got, about) ==
    [c EXCEPT !.pending = @ \ ids,
              !.calls = [t \in Threads |->
                 IF @[t].at # "idle" /\ @[t].id \in ids
                 THEN [@[t] EXCEPT !.got = got, !.about = about] ELSE @[t]]]

\* The thread that popped them, the receive thread or close(), sets the events
\* of the requests, one by one and without the lock.
SetDone(t) ==
    /\ client.calls[t].got # "nothing" /\ ~client.calls[t].done
    /\ client' = [client EXCEPT !.calls[t].done = TRUE]
    /\ Quiet

\* The receive thread is back at its socket, which has a PDU.
Receives ==
    /\ client.receiver = "running" /\ toClient # <<>> /\ "client" \in up
    /\ \A t \in Threads : client.calls[t].got = "answer" => client.calls[t].done

\* The oldest request gets every answer.
WrongDispatch ==
    /\ Receives
    /\ LET p == Head(toClient)
           ids == {i \in client.pending : \A j \in client.pending : i <= j}
       IN  client' = IF p.kind = "report" THEN client
                     ELSE Tell(client, ids, "answer", p.about)
    /\ toClient' = Tail(toClient)
    /\ UNCHANGED <<toServer, up>>

\* A report, an unsolicited PDU (id 0), a response to whoever still waits.
Dispatch ==
    /\ Receives
    /\ LET p == Head(toClient)
       IN  client' = Tell(client, {p.id} \cap client.pending, "answer", p.about)
    /\ toClient' = Tail(toClient)
    /\ UNCHANGED <<toServer, up>>

\* Only OSError and MmsProtocolError are caught: the thread ends, and the
\* client goes on as if it were connected.
ListenerRaises ==
    /\ ListenersFail
    /\ Receives /\ Head(toClient).kind = "report"
    /\ toClient' = Tail(toClient)
    /\ client' = [client EXCEPT !.receiver = "ended"]
    /\ UNCHANGED <<toServer, up>>

\* The requests are forgotten, not told.
WrongFailAll(c) == [c EXCEPT !.finished = TRUE, !.pending = {}]

\* _fail_all, once.
FailAll(c) ==
    IF c.finished THEN c
    ELSE [Tell(c, c.pending, "error", 0) EXCEPT !.finished = TRUE]

ConnectionLost ==
    /\ client.receiver = "running"
    /\ "client" \notin up \/ (toClient = <<>> /\ "server" \notin up)
    /\ client' = [FailAll(client) EXCEPT !.receiver = "ended"]
    /\ Hangs("client")

Close ==
    /\ client.receiver # "waiting" /\ ~client.finished
    /\ client' = FailAll(client)
    /\ Hangs("client")

----------------------------------------------------------------------------

ClientInit ==
    client = [free |-> Slots, calls |-> [t \in Threads |-> Idle],
              pending |-> {}, nextId |-> 1, finished |-> FALSE,
              receiver |-> "waiting"]

Caller(t) ==
    \/ Register(t) \/ NotConnected(t) \/ LockSend(t) \/ Send(t) \/ SendFails(t)
    \/ Awake(t) \/ TimeOut(t) \/ GiveUp(t)
Receiver == Start \/ Dispatch \/ ConnectionLost \/ ListenerRaises

ClientNext ==
    \/ \E t \in Threads : Acquire(t) \/ Caller(t) \/ SetDone(t)
    \/ Receiver \/ ConnectFails \/ Close

=============================================================================
