--------------------------- MODULE SessionProofs ---------------------------
(***************************************************************************)
(* Proofs about Session, for every number of threads and slots and for all *)
(* bounds of the queue and of TCP's buffers.                               *)
(***************************************************************************)
EXTENDS Session, SequenceTheorems, FunctionTheorems, FiniteSetTheorems,
        TLAPS

----------------------------------------------------------------------------
(* The server's end                                                        *)

\* A PDU that is about the request whose invokeID it has.
Own == {p \in Pdu : p.about = p.id}

OwnConn == [serving : Stages, request : Own \cup {None}, listed : BOOLEAN,
            closed : BOOLEAN, dropping : BOOLEAN, clearing : BOOLEAN,
            queue : Seq(Own), queued : Int, sending : Own \cup {None},
            served : Nat]

\* The stages of a connection that is in server.connections.
Listed == {"associating", "reading", "handling", "after", "stuck",
           "ending"}

\* What is neither listed nor closed has nothing to send.
Blank(c) == c.queue = <<>> /\ c.sending = None /\ ~c.dropping

ConnSound(c) ==
    /\ c \in OwnConn
    /\ c.serving = "handling" => c.request \in Own
    /\ c.listed <=> c.serving \in Listed
    /\ c.serving \in {"none", "accepted"} => ~c.closed
    /\ ~c.listed /\ ~c.closed => Blank(c)

ServerSound == ConnSound(conn) /\ listening \in BOOLEAN /\ sent \in Nat
NetSound == toServer \in Seq(Own) /\ toClient \in Seq(Own) /\ up \subseteq Both

\* The state that Connection is given.
State(c) == IF c.listed THEN IF c.closed THEN "lost" ELSE "open"
            ELSE IF c.serving = "gone" /\ c.closed THEN "gone" ELSE "new"

\* A step of Connection, or none.
StateStep(c, d) ==
    \/ State(d) = State(c) /\ d.served = c.served
    \/ State(c) = "new" /\ State(d) = "open" /\ d.served = c.served
    \/ State(c) = "open" /\ State(d) = "lost" /\ d.served = c.served
    \/ State(c) = "lost" /\ State(d) = "gone" /\ d.served = c.served
    \/ State(c) \in {"open", "lost"} /\ d.served = c.served + 1
       /\ State(d) = State(c)

(***************************************************************************)
(* The PDUs that the server makes are about what they answer.              *)
(***************************************************************************)
LEMMA OwnPdus ==
  /\ Report \in Own /\ Accepted \in Own
  /\ \A kind \in {"response", "reject", "concluded"}, r \in Own :
        Response(kind, r) \in Own
<1>1. \A kind \in Kinds, n \in Nat : [kind |-> kind, id |-> n, about |-> n] \in Own
  BY DEF Own, Pdu
<1>2. /\ Report \in Own /\ Accepted \in Own
  BY <1>1 DEF Report, Accepted, Kinds
<1>3. \A kind \in {"response", "reject", "concluded"}, r \in Own :
        Response(kind, r) \in Own
  <2> SUFFICES ASSUME NEW kind \in {"response", "reject", "concluded"},
                      NEW r \in Own
               PROVE  Response(kind, r) \in Own
    OBVIOUS
  <2>1. kind \in Kinds /\ r.id \in Nat /\ r.about = r.id
    BY DEF Kinds, Own, Pdu
  <2> QED
    BY <1>1, <2>1 DEF Response
<1> QED
  BY <1>2, <1>3

(***************************************************************************)
(* send() queues a PDU, or finds the connection closed or behind.          *)
(***************************************************************************)
LEMMA EnqueueSound ==
  ASSUME NEW c \in OwnConn, NEW p \in Own, NEW late
  PROVE  /\ Enqueue(c, p, late) \in OwnConn
         /\ Enqueue(c, p, late).serving = c.serving
         /\ Enqueue(c, p, late).request = c.request
         /\ Enqueue(c, p, late).listed = c.listed
         /\ Enqueue(c, p, late).closed = c.closed
         /\ Enqueue(c, p, late).served = c.served
<1>1. Append(c.queue, p) \in Seq(Own) /\ c.queued + Bytes(p) \in Int
  BY AppendProperties DEF OwnConn, Bytes
<1>2. LET d == [c EXCEPT !.dropping = TRUE]
      IN  /\ d \in OwnConn /\ d.serving = c.serving /\ d.request = c.request
          /\ d.listed = c.listed /\ d.closed = c.closed
          /\ d.served = c.served
  BY DEF OwnConn
<1>3. \/ Enqueue(c, p, late) = c
      \/ Enqueue(c, p, late) = [c EXCEPT !.dropping = TRUE]
      \/ Enqueue(c, p, late) = [c EXCEPT !.queue = Append(c.queue, p),
                                         !.queued = c.queued + Bytes(p)]
  BY DEF Enqueue
<1>4. \A q \in Seq(Own), n \in Int :
        LET d == [c EXCEPT !.queue = q, !.queued = n]
        IN  /\ d \in OwnConn /\ d.serving = c.serving /\ d.request = c.request
            /\ d.listed = c.listed /\ d.closed = c.closed
            /\ d.served = c.served
  BY DEF OwnConn
<1> QED
  BY <1>1, <1>2, <1>3, <1>4

(***************************************************************************)
(* close() closes a connection that is listed, or closed already.          *)
(***************************************************************************)
LEMMA CloseSound ==
  ASSUME NEW c, ConnSound(c), ~Blank(c) \/ c.closed \/ c.listed
  PROVE  ConnSound(SetClosed(c)) /\ StateStep(c, SetClosed(c))
<1> DEFINE d == SetClosed(c)
<1>1. /\ c \in OwnConn /\ d \in OwnConn
      /\ d.closed /\ d.served = c.served
      /\ d.serving = c.serving /\ d.request = c.request
      /\ d.listed = c.listed
  BY DEF SetClosed, ConnSound, OwnConn
<1> HIDE DEF d
<1>2. c.closed \/ c.listed
  BY DEF ConnSound
<1>3. ConnSound(d)
  BY <1>1, <1>2 DEF ConnSound, Listed
<1>4. StateStep(c, d)
  BY <1>1, <1>2 DEF StateStep, State
<1> QED
  BY <1>3, <1>4 DEF d

(***************************************************************************)
(* close() then clears the queue, and nothing else.                        *)
(***************************************************************************)
LEMMA ClearedType ==
  ASSUME NEW c \in OwnConn
  PROVE  LET d == [c EXCEPT !.clearing = FALSE, !.queue = <<>>, !.queued = 0]
         IN  /\ d \in OwnConn /\ d.serving = c.serving
             /\ d.request = c.request /\ d.listed = c.listed
             /\ d.closed = c.closed /\ d.served = c.served
             /\ d.sending = c.sending /\ d.dropping = c.dropping
             /\ d.queue = <<>>
<1> DEFINE Cleared(q) == [c EXCEPT !.clearing = FALSE, !.queue = q, !.queued = 0]
<1>1. \A q \in Seq(Own) : Cleared(q) \in OwnConn
  <2>1. \A e \in OwnConn, q \in Seq(Own), n \in Int :
          LET d == [e EXCEPT !.queue = q, !.queued = n]
          IN  d \in OwnConn /\ d.queue = q
    BY DEF OwnConn
  <2>2. [c EXCEPT !.clearing = FALSE] \in OwnConn
    BY DEF OwnConn
  <2> QED
    <3>1. 0 \in Int
      OBVIOUS
    <3> QED
      BY <2>1, <2>2, <3>1, Zenon
<1>2. \A q \in Seq(Own) :
        /\ Cleared(q).serving = c.serving /\ Cleared(q).request = c.request
        /\ Cleared(q).listed = c.listed /\ Cleared(q).closed = c.closed
        /\ Cleared(q).served = c.served
  BY DEF OwnConn
<1>3. \A q \in Seq(Own) :
        /\ Cleared(q).queue = q
        /\ Cleared(q).sending = c.sending /\ Cleared(q).dropping = c.dropping
  BY DEF OwnConn
<1>4. <<>> \in Seq(Own)
  BY EmptySeq
<1> HIDE DEF OwnConn
<1> QED
  BY <1>1, <1>2, <1>3, <1>4, Zenon

(***************************************************************************)
(* The thread that serves: it accepts, lists, reads, handles, ends.        *)
(***************************************************************************)
LEMMA ServingStep ==
  ASSUME ServerSound, NetSound, Accept \/ ServingThread
  PROVE  ServerSound' /\ NetSound' /\ StateStep(conn, conn')
<1>1. conn \in OwnConn /\ ConnSound(conn) /\ listening \in BOOLEAN
      /\ sent \in Nat
  BY DEF ServerSound, ConnSound
<1>2. CASE Accept
  <2>1. UNCHANGED <<toServer, toClient, up, listening, sent>>
    BY <1>2 DEF Accept, Quiet, net
  <2>2. ConnSound(conn') /\ StateStep(conn, conn')
    BY <1>1, <1>2 DEF Accept, ConnSound, OwnConn, Blank, Stages, Listed,
                      StateStep, State
  <2> QED
    BY <1>1, <2>1, <2>2 DEF ServerSound, NetSound
<1>3. CASE AcceptFails
  <2>1. UNCHANGED <<toServer, toClient, listening, sent>> /\ up' \subseteq up
    BY <1>3 DEF AcceptFails, Hangs
  <2>2. ConnSound(conn') /\ StateStep(conn, conn')
    BY <1>1, <1>3 DEF AcceptFails, ConnSound, OwnConn, Blank, Stages, Listed,
                      StateStep, State
  <2> QED
    BY <1>1, <2>1, <2>2 DEF ServerSound, NetSound
<1>4. CASE List
  <2>1. UNCHANGED <<toServer, toClient, up, listening, sent>>
    BY <1>4 DEF List, Quiet, net
  <2>2. ConnSound(conn') /\ StateStep(conn, conn')
    BY <1>1, <1>4 DEF List, ConnSound, OwnConn, Stages, Listed, StateStep,
                      State
  <2> QED
    BY <1>1, <2>1, <2>2 DEF ServerSound, NetSound
<1>5. CASE Associate
  <2>1. /\ UNCHANGED <<toServer, up, listening, sent>>
        /\ toClient' \in Seq(Own)
    BY <1>5, OwnPdus, AppendProperties DEF Associate, Quiet, net, NetSound
  <2>2. ConnSound(conn') /\ StateStep(conn, conn')
    BY <1>1, <1>5 DEF Associate, ConnSound, OwnConn, Stages, Listed,
                      StateStep, State
  <2> QED
    BY <1>1, <2>1, <2>2 DEF ServerSound, NetSound
<1>6. CASE Read
  <2>1. /\ UNCHANGED <<toClient, up, listening, sent>>
        /\ toServer' \in Seq(Own)
    BY <1>6, HeadTailProperties DEF Read, Quiet, net, NetSound
  <2>2. CASE conn' = [conn EXCEPT !.serving = "ending"]
    <3>1. conn.serving = "reading"
      BY <1>6 DEF Read
    <3>2. ConnSound(conn') /\ StateStep(conn, conn')
      BY <1>1, <2>2, <3>1 DEF ConnSound, OwnConn, Stages, Listed, StateStep,
                              State
    <3> QED
      BY <1>1, <2>1, <3>2 DEF ServerSound, NetSound
  <2>3. CASE /\ toServer # <<>>
             /\ conn' = [conn EXCEPT !.serving = "handling",
                                     !.request = Head(toServer)]
    <3>1. conn.serving = "reading"
      BY <1>6 DEF Read
    <3>2. Head(toServer) \in Own
      BY <2>3, HeadTailProperties DEF NetSound
    <3>3. ConnSound(conn') /\ StateStep(conn, conn')
      BY <1>1, <2>3, <3>1, <3>2 DEF ConnSound, OwnConn, Stages, Listed,
                                    StateStep, State
    <3> QED
      BY <1>1, <2>1, <3>3 DEF ServerSound, NetSound
  <2> QED
    BY <1>6, <2>2, <2>3 DEF Read
<1>7. CASE \E late \in BOOLEAN : Handle(late) \/ Conclude(late)
  <2>1. PICK late \in BOOLEAN : Handle(late) \/ Conclude(late)
    BY <1>7
  <2>2. /\ UNCHANGED <<toServer, toClient, up, listening, sent>>
        /\ conn.serving = "handling" /\ conn.request \in Own
    BY <1>1, <2>1 DEF Handle, Conclude, Quiet, net, ConnSound
  <2>3. CASE Handle(late)
    <3> DEFINE c == [conn EXCEPT !.serving = "after", !.served = @ + 1]
               kind == IF conn.request.kind = "request" THEN "response"
                       ELSE "reject"
               p == Response(kind, conn.request)
    <3>1. /\ c \in OwnConn /\ c.serving = "after" /\ c.listed = conn.listed
          /\ c.closed = conn.closed /\ c.served = conn.served + 1
      <4>1. \A n \in Nat :
              LET d == [conn EXCEPT !.serving = "after", !.served = n]
              IN  /\ d \in OwnConn /\ d.serving = "after" /\ d.served = n
                  /\ d.listed = conn.listed /\ d.closed = conn.closed
        BY <1>1 DEF OwnConn, Stages
      <4>2. conn.served + 1 \in Nat
        BY <1>1 DEF OwnConn
      <4> QED
        BY <4>1, <4>2
    <3>2. p \in Own
      BY <2>2, OwnPdus
    <3>3. conn' = Enqueue(c, p, late)
      BY <2>3 DEF Handle
    <3> HIDE DEF c, p
    <3>4. /\ conn' \in OwnConn /\ conn'.serving = "after"
          /\ conn'.listed = conn.listed /\ conn'.closed = conn.closed
          /\ conn'.served = conn.served + 1
      BY <3>1, <3>2, <3>3, EnqueueSound
    <3>5. ConnSound(conn') /\ StateStep(conn, conn')
      BY <1>1, <2>2, <3>4 DEF ConnSound, Listed, StateStep, State
    <3> QED
      BY <1>1, <2>2, <3>5 DEF ServerSound, NetSound
  <2>4. CASE Conclude(late)
    <3> DEFINE c == [conn EXCEPT !.serving = "ending", !.request = None,
                                 !.served = @ + 1]
               p == Response("concluded", conn.request)
    <3>1. /\ c \in OwnConn /\ c.serving = "ending" /\ c.listed = conn.listed
          /\ c.closed = conn.closed /\ c.served = conn.served + 1
      <4>1. \A n \in Nat :
              LET d == [conn EXCEPT !.serving = "ending", !.request = None, !.served = n]
              IN  /\ d \in OwnConn /\ d.serving = "ending" /\ d.served = n
                  /\ d.listed = conn.listed /\ d.closed = conn.closed
        BY <1>1 DEF OwnConn, Stages
      <4>2. conn.served + 1 \in Nat
        BY <1>1 DEF OwnConn
      <4> QED
        BY <4>1, <4>2
    <3>2. p \in Own
      BY <2>2, OwnPdus
    <3>3. conn' = Enqueue(c, p, late)
      BY <2>4 DEF Conclude
    <3> HIDE DEF c, p
    <3>4. /\ conn' \in OwnConn /\ conn'.serving = "ending"
          /\ conn'.listed = conn.listed /\ conn'.closed = conn.closed
          /\ conn'.served = conn.served + 1
      BY <3>1, <3>2, <3>3, EnqueueSound
    <3>5. ConnSound(conn') /\ StateStep(conn, conn')
      BY <1>1, <2>2, <3>4 DEF ConnSound, Listed, StateStep, State
    <3> QED
      BY <1>1, <2>2, <3>5 DEF ServerSound, NetSound
  <2> QED
    BY <2>1, <2>3, <2>4
<1>8. CASE AfterResponse \/ Forget
  <2>1. UNCHANGED <<toServer, toClient, up, listening, sent>>
    BY <1>8 DEF AfterResponse, Forget, Quiet, net
  <2>2. /\ conn' \in OwnConn /\ conn'.closed = conn.closed
        /\ conn'.served = conn.served
    BY <1>1, <1>8 DEF AfterResponse, Forget, OwnConn, Stages
  <2>3. ASSUME AfterResponse PROVE ConnSound(conn') /\ StateStep(conn, conn')
    <3>1. /\ conn.serving = "after" /\ conn'.serving = "reading"
          /\ conn'.listed = conn.listed
      BY <1>1, <2>3 DEF AfterResponse, OwnConn
    <3> QED
      BY <1>1, <2>2, <3>1 DEF ConnSound, Listed, StateStep, State
  <2>4. ASSUME Forget PROVE ConnSound(conn') /\ StateStep(conn, conn')
    <3>1. /\ conn.serving = "ending" /\ conn.closed
          /\ conn'.serving = "gone" /\ ~conn'.listed
      BY <1>1, <2>4 DEF Forget, OwnConn
    <3> QED
      BY <1>1, <2>2, <3>1 DEF ConnSound, Listed, StateStep, State
  <2>5. ConnSound(conn') /\ StateStep(conn, conn')
    BY <1>8, <2>3, <2>4
  <2> QED
    BY <1>1, <2>1, <2>5 DEF ServerSound, NetSound
<1>9. CASE End
  <2>1. /\ UNCHANGED <<toServer, toClient, up, listening, sent>>
        /\ conn.serving = "ending" /\ conn' = SetClosed(conn)
    BY <1>9 DEF End, Quiet, net
  <2>2. ConnSound(conn') /\ StateStep(conn, conn')
    BY <1>1, <2>1, CloseSound DEF ConnSound, Listed
  <2> QED
    BY <1>1, <2>1, <2>2 DEF ServerSound, NetSound
<1> QED
  BY <1>2, <1>3, <1>4, <1>5, <1>6, <1>7, <1>8, <1>9 DEF ServingThread

(***************************************************************************)
(* The writer thread, the senders, the closers.                            *)
(***************************************************************************)
LEMMA OtherThreadsStep ==
  ASSUME ServerSound, NetSound,
         \/ WriterThread \/ Closer \/ Stop \/ Hang
         \/ \E late \in BOOLEAN : SendReport(late)
  PROVE  ServerSound' /\ NetSound' /\ StateStep(conn, conn')
<1>1. conn \in OwnConn /\ ConnSound(conn) /\ listening \in BOOLEAN
      /\ sent \in Nat
  BY DEF ServerSound, ConnSound
<1>2. CASE Take
  <2>1. /\ UNCHANGED <<toServer, toClient, up, listening, sent>>
        /\ conn.queue # <<>>
    BY <1>2 DEF Take, Quiet, net
  <2>2. /\ Head(conn.queue) \in Own /\ Tail(conn.queue) \in Seq(Own)
        /\ conn.queued - Bytes(Head(conn.queue)) \in Int
    BY <1>1, <2>1, HeadTailProperties DEF OwnConn, Bytes
  <2>3. ConnSound(conn') /\ StateStep(conn, conn')
    BY <1>1, <1>2, <2>1, <2>2 DEF Take, ConnSound, OwnConn, Blank, StateStep,
                                  State
  <2> QED
    BY <1>1, <2>1, <2>3 DEF ServerSound, NetSound
<1>3. CASE Write
  <2>1. conn.sending \in Own
    BY <1>1, <1>3 DEF Write, OwnConn
  <2>2. /\ UNCHANGED <<toServer, up, listening, sent>>
        /\ toClient' \in Seq(Own)
    BY <1>3, <2>1, AppendProperties DEF Write, NetSound
  <2>3. ConnSound(conn') /\ StateStep(conn, conn')
    BY <1>1, <1>3 DEF Write, ConnSound, OwnConn, Blank, StateStep, State
  <2> QED
    BY <1>1, <2>2, <2>3 DEF ServerSound, NetSound
<1>4. CASE WriteFails
  <2>1. /\ UNCHANGED <<toServer, toClient, up, listening, sent>>
        /\ conn.sending # None /\ conn' = SetClosed(conn)
    BY <1>4 DEF WriteFails, Quiet, net
  <2>2. ConnSound(conn') /\ StateStep(conn, conn')
    BY <1>1, <2>1, CloseSound DEF Blank
  <2> QED
    BY <1>1, <2>1, <2>2 DEF ServerSound, NetSound
<1>5. CASE Drop
  <2> DEFINE c == [conn EXCEPT !.dropping = FALSE]
  <2>1. /\ UNCHANGED <<toServer, toClient, up, listening, sent>>
        /\ conn.dropping /\ conn' = SetClosed(c)
    BY <1>5 DEF Drop, Quiet, net
  <2>2. conn.closed \/ conn.listed
    BY <1>1, <2>1 DEF ConnSound, Blank
  <2>3. ConnSound(c) /\ State(c) = State(conn) /\ c.served = conn.served
        /\ c.closed = conn.closed /\ c.listed = conn.listed
    BY <1>1, <2>2 DEF ConnSound, OwnConn, Blank, State
  <2> HIDE DEF c
  <2>4. ConnSound(conn') /\ StateStep(conn, conn')
    BY <2>1, <2>2, <2>3, CloseSound DEF StateStep
  <2> QED
    BY <1>1, <2>1, <2>4 DEF ServerSound, NetSound
<1>6. CASE Clear
  <2>1. UNCHANGED <<toServer, toClient, listening, sent>> /\ up' \subseteq up
    BY <1>6 DEF Clear, Hangs
  <2>2. <<>> \in Seq(Own)
    BY EmptySeq
  <2>3. /\ conn' \in OwnConn /\ conn'.serving = conn.serving
        /\ conn'.request = conn.request /\ conn'.listed = conn.listed
        /\ conn'.closed = conn.closed /\ conn'.served = conn.served
        /\ conn'.sending = conn.sending /\ conn'.dropping = conn.dropping
        /\ conn'.queue = <<>>
    BY <1>1, <1>6, ClearedType DEF Clear
  <2>4. ConnSound(conn') /\ StateStep(conn, conn')
    BY <1>1, <2>3 DEF ConnSound, Blank, StateStep, State
  <2> QED
    BY <1>1, <2>1, <2>4 DEF ServerSound, NetSound
<1>7. CASE Stop
  <2>1. /\ UNCHANGED <<toServer, toClient, up, sent>>
        /\ listening' \in BOOLEAN
    BY <1>7 DEF Stop, Quiet, net
  <2>2. ConnSound(conn') /\ StateStep(conn, conn')
    BY <1>1, <1>7, CloseSound DEF Stop, StateStep
  <2> QED
    BY <1>1, <2>1, <2>2 DEF ServerSound, NetSound
<1>8. ASSUME NEW late \in BOOLEAN, SendReport(late)
      PROVE  ServerSound' /\ NetSound' /\ StateStep(conn, conn')
  <2>1. /\ UNCHANGED <<toServer, toClient, up, listening>>
        /\ sent' \in Nat /\ conn.listed
        /\ conn' = Enqueue(conn, Report, late)
    BY <1>1, <1>8 DEF SendReport, Quiet, net
  <2>2. /\ conn' \in OwnConn /\ conn'.serving = conn.serving
        /\ conn'.request = conn.request /\ conn'.listed = conn.listed
        /\ conn'.closed = conn.closed /\ conn'.served = conn.served
    <3>1. Report \in Own
      BY OwnPdus
    <3> HIDE DEF OwnConn
    <3> QED
      BY <1>1, <2>1, <3>1, EnqueueSound
  <2>3. ConnSound(conn') /\ StateStep(conn, conn')
    BY <1>1, <2>1, <2>2 DEF ConnSound, StateStep, State
  <2> QED
    BY <1>1, <2>1, <2>3 DEF ServerSound, NetSound
<1>9. CASE Hang
  <2>1. UNCHANGED <<toServer, toClient, up, listening, sent>>
    BY <1>9 DEF Hang, Quiet, net
  <2>2. ConnSound(conn') /\ StateStep(conn, conn')
    BY <1>1, <1>9 DEF Hang, ConnSound, OwnConn, Stages, Listed, Blank,
                      StateStep, State
  <2> QED
    BY <1>1, <2>1, <2>2 DEF ServerSound, NetSound
<1> QED
  BY <1>2, <1>3, <1>4, <1>5, <1>6, <1>7, <1>8, <1>9 DEF WriterThread, Closer

(***************************************************************************)
(* The first state.                                                        *)
(***************************************************************************)
LEMMA ServerStarts ==
  ASSUME TcpInit, ServerInit
  PROVE  ServerSound /\ NetSound /\ State(conn) = "new" /\ conn.served = 0
<1>1. <<>> \in Seq(Own)
  BY EmptySeq
<1>2. \A q \in Seq(Own) :
        LET c == [serving |-> "none", request |-> None, listed |-> FALSE,
                  closed |-> FALSE, dropping |-> FALSE, clearing |-> FALSE,
                  queue |-> q, queued |-> 0, sending |-> None, served |-> 0]
        IN  /\ c \in OwnConn /\ c.serving = "none" /\ ~c.listed /\ ~c.closed
            /\ c.queue = q /\ c.sending = None /\ ~c.dropping
            /\ c.served = 0
  BY DEF OwnConn, Stages
<1>3. /\ conn \in OwnConn /\ conn.serving = "none" /\ ~conn.listed
      /\ ~conn.closed /\ Blank(conn) /\ conn.served = 0
  BY <1>1, <1>2 DEF ServerInit, Blank
<1>4. ConnSound(conn) /\ State(conn) = "new"
  BY <1>3 DEF ConnSound, Listed, State
<1>5. NetSound
  BY <1>1 DEF TcpInit, NetSound
<1> QED
  BY <1>3, <1>4, <1>5 DEF ServerInit, ServerSound

----------------------------------------------------------------------------
(* The client                                                              *)

\* A call agrees with what is pending.
CallSound(call, pending, nextId) ==
    /\ IF call.at \in {"idle", "called"}
       THEN call.id = 0 /\ call.got = "nothing"
       ELSE /\ call.id \in 1 .. nextId - 1
            /\ call.got = "nothing" <=> call.id \in pending
    /\ call.got = "answer" => call.about = call.id
    /\ call.done => call.got # "nothing"

Taken(c) == {t \in Threads : c.calls[t].at # "idle"}

ClientSound(c) ==
    /\ c \in Client
    /\ \A t \in Threads : CallSound(c.calls[t], c.pending, c.nextId)
    /\ \A t, u \in Threads : t # u /\ c.calls[t].id = c.calls[u].id
                                => c.calls[t].id = 0
    /\ \A id \in c.pending : id # 0 /\ \E t \in Threads : c.calls[t].id = id
    /\ c.finished => c.pending = {}
    /\ c.free + Cardinality(Taken(c)) = Slots
    /\ c.receiver = "waiting" => Taken(c) = {}

(***************************************************************************)
(* The slots taken when one call goes on.                                  *)
(***************************************************************************)
LEMMA TakenAfter ==
  ASSUME NEW c \in Client, NEW d \in Client, NEW t \in Threads, NEW call \in Call,
         d.calls = [c.calls EXCEPT ![t] = call]
  PROVE  /\ Cardinality(Taken(c)) \in Nat
         /\ Cardinality(Taken(d)) \in Nat
         /\ Cardinality(Taken(d)) =
              IF call.at = "idle"
              THEN IF c.calls[t].at = "idle" THEN Cardinality(Taken(c))
                   ELSE Cardinality(Taken(c)) - 1
              ELSE IF c.calls[t].at = "idle" THEN Cardinality(Taken(c)) + 1
                   ELSE Cardinality(Taken(c))
<1>1. IsFiniteSet(Taken(c)) /\ Cardinality(Taken(c)) \in Nat
  BY SlotsAssumption, FS_Subset, FS_CardinalityType DEF Taken
<1>2. /\ t \in Taken(c) <=> c.calls[t].at # "idle"
      /\ Taken(d) = IF call.at = "idle" THEN Taken(c) \ {t}
                    ELSE Taken(c) \cup {t}
  BY DEF Taken, Client
<1>3. /\ IsFiniteSet(Taken(d))
      /\ Cardinality(Taken(d)) =
           IF call.at = "idle"
           THEN IF t \in Taken(c) THEN Cardinality(Taken(c)) - 1
                ELSE Cardinality(Taken(c))
           ELSE IF t \in Taken(c) THEN Cardinality(Taken(c))
                ELSE Cardinality(Taken(c)) + 1
  <2> DEFINE S == Taken(c)
  <2>1. IsFiniteSet(S)
    BY <1>1
  <2> HIDE DEF S
  <2>2. /\ IsFiniteSet(S \ {t})
        /\ Cardinality(S \ {t}) = IF t \in S THEN Cardinality(S) - 1
                                  ELSE Cardinality(S)
    BY <2>1, FS_RemoveElement
  <2>3. /\ IsFiniteSet(S \cup {t})
        /\ Cardinality(S \cup {t}) = IF t \in S THEN Cardinality(S)
                                     ELSE Cardinality(S) + 1
    BY <2>1, FS_AddElement
  <2> QED
    BY <1>2, <2>2, <2>3 DEF S
<1> QED
  BY <1>1, <1>2, <1>3, FS_CardinalityType

(***************************************************************************)
(* A call goes on: what it does to the pending requests is its own.        *)
(***************************************************************************)
Goes(c, d, t, call) ==
    /\ d.calls = [c.calls EXCEPT ![t] = call]
    /\ CallSound(call, d.pending, d.nextId)
    /\ d.nextId >= c.nextId
    /\ call.id = c.calls[t].id \/ call.id = 0 \/ call.id = c.nextId
    /\ \A id \in Nat : id # c.calls[t].id /\ id # call.id
                        => (id \in d.pending <=> id \in c.pending)
    /\ call.id # c.calls[t].id => c.calls[t].id \notin d.pending
    /\ 0 \notin d.pending
    /\ d.finished => d.pending = {}
    /\ d.free = c.free + (IF call.at = "idle" THEN 1 ELSE 0)
                       - (IF c.calls[t].at = "idle" THEN 1 ELSE 0)
    /\ d.receiver = c.receiver
    /\ c.calls[t].at = "idle" => c.receiver # "waiting"

LEMMA CallStep ==
  ASSUME NEW c, NEW d, NEW t \in Threads, NEW call \in Call,
         ClientSound(c), d \in Client, Goes(c, d, t, call)
  PROVE  ClientSound(d)
<1> USE DEF Goes
<1>1. /\ c \in Client /\ c.free \in Int /\ c.nextId \in Nat \ {0}
      /\ d.nextId \in Nat \ {0} /\ c.pending \subseteq Nat
      /\ d.pending \subseteq Nat
      /\ c.calls \in [Threads -> Call] /\ d.calls[t] = call
      /\ \A u \in Threads : u # t => d.calls[u] = c.calls[u]
      /\ \A u \in Threads : c.calls[u] \in Call /\ c.calls[u].id \in Nat
      /\ call.id \in Nat
  BY DEF ClientSound, Client, Call
<1>2. \A u \in Threads : c.calls[u].id < c.nextId
  BY <1>1 DEF ClientSound, CallSound
<1>3. \A u \in Threads : u # t /\ c.calls[u].id = c.calls[t].id
                          => c.calls[u].id = 0
  BY DEF ClientSound
<1>4. \A u \in Threads : u # t /\ c.calls[u].id = call.id => c.calls[u].id = 0
  BY <1>1, <1>2, <1>3
<1>5. \A u \in Threads : CallSound(d.calls[u], d.pending, d.nextId)
  <2> SUFFICES ASSUME NEW u \in Threads, u # t
               PROVE  CallSound(c.calls[u], d.pending, d.nextId)
    BY <1>1
  <2>1. CallSound(c.calls[u], c.pending, c.nextId)
    BY DEF ClientSound
  <2>2. c.calls[u].id # 0
          => (c.calls[u].id \in d.pending <=> c.calls[u].id \in c.pending)
    BY <1>1, <1>3, <1>4
  <2>3. c.calls[u].id \in 1 .. c.nextId - 1 => c.calls[u].id \in 1 .. d.nextId - 1
    BY <1>1
  <2> QED
    BY <1>1, <2>1, <2>2, <2>3 DEF CallSound
<1>6. \A u, v \in Threads : u # v /\ d.calls[u].id = d.calls[v].id
                             => d.calls[u].id = 0
  BY <1>1, <1>4 DEF ClientSound
<1>7. \A id \in d.pending : id # 0 /\ \E u \in Threads : d.calls[u].id = id
  <2> SUFFICES ASSUME NEW id \in d.pending
               PROVE  id # 0 /\ \E u \in Threads : d.calls[u].id = id
    OBVIOUS
  <2>1. CASE id = call.id
    BY <1>1, <2>1
  <2>2. CASE id # call.id
    <3>1. id # c.calls[t].id
      BY <2>2, <1>1
    <3>2. id \in c.pending
      BY <1>1, <2>2, <3>1
    <3> QED
      BY <1>1, <3>1, <3>2 DEF ClientSound
  <2> QED
    BY <2>1, <2>2
<1>8. d.free + Cardinality(Taken(d)) = Slots
  <2>1. c.free + Cardinality(Taken(c)) = Slots
    BY DEF ClientSound
  <2> QED
    BY <1>1, <2>1, TakenAfter
<1>9. d.receiver # "waiting"
  BY DEF ClientSound, Taken
<1> QED
  BY <1>5, <1>6, <1>7, <1>8, <1>9 DEF ClientSound

(***************************************************************************)
(* A call ends: its slot is free again, its request no longer pending.     *)
(***************************************************************************)
LEMMA ReturnSound ==
  ASSUME ClientSound(client), NEW t \in Threads,
         client.calls[t].at # "idle",
         \/ client' = Return(t) /\ client.calls[t].id \notin client.pending
         \/ client' = [Return(t) EXCEPT !.pending = @ \ {client.calls[t].id}]
  PROVE  ClientSound(client')
<1>1. /\ client \in Client /\ client.calls \in [Threads -> Call]
      /\ client.calls[t] \in Call /\ client.free \in 0 .. Slots
      /\ client.free + Cardinality(Taken(client)) = Slots
      /\ client.pending \subseteq Nat /\ 0 \notin client.pending
      /\ client.finished => client.pending = {}
  BY DEF ClientSound, Client
<1>2. /\ Idle \in Call /\ Idle.at = "idle" /\ Idle.id = 0
      /\ Idle.got = "nothing" /\ ~Idle.done
  BY DEF Idle, Call
<1>3. client.free + 1 \in 0 .. Slots
  <2>1. IsFiniteSet(Taken(client)) /\ t \in Taken(client)
    BY SlotsAssumption, FS_Subset DEF Taken
  <2>2. Cardinality(Taken(client)) \in Nat \ {0}
    BY <2>1, FS_CardinalityType, FS_EmptySet
  <2> QED
    BY <1>1, <2>2, SlotsAssumption
<1> HIDE DEF Idle
<1>4. /\ client' \in Client
      /\ client'.calls = [client.calls EXCEPT ![t] = Idle]
      /\ client'.free = client.free + 1
      /\ client'.pending = client.pending \ {client.calls[t].id}
  <2>1. [client.calls EXCEPT ![t] = Idle] \in [Threads -> Call]
    BY <1>1, <1>2
  <2>2. CASE client' = Return(t) /\ client.calls[t].id \notin client.pending
    <3>1. client.pending = client.pending \ {client.calls[t].id}
      BY <2>2
    <3>2. /\ client' \in Client
          /\ client'.calls = [client.calls EXCEPT ![t] = Idle]
          /\ client'.free = client.free + 1
          /\ client'.pending = client.pending
      BY <1>1, <1>3, <2>1, <2>2 DEF Return, Client
    <3> QED
      BY <3>1, <3>2
  <2>3. CASE client' = [Return(t) EXCEPT !.pending =
                            @ \ {client.calls[t].id}]
    BY <1>1, <1>3, <2>1, <2>3 DEF Return, Client
  <2> QED
    BY <2>2, <2>3
<1>5. client'.nextId = client.nextId /\ client'.finished = client.finished
      /\ client.nextId \in Nat /\ client'.receiver = client.receiver
  BY <1>1 DEF Return, Client
<1>6. CallSound(Idle, client'.pending, client'.nextId)
  BY <1>2 DEF CallSound
<1>7. /\ \A id \in Nat : id # client.calls[t].id /\ id # Idle.id
                          => (id \in client'.pending <=> id \in client.pending)
      /\ client.calls[t].id \notin client'.pending /\ 0 \notin client'.pending
      /\ client'.finished => client'.pending = {}
  BY <1>1, <1>4, <1>5
<1>8. client'.free = client.free + (IF Idle.at = "idle" THEN 1 ELSE 0)
                                 - (IF client.calls[t].at = "idle" THEN 1 ELSE 0)
  BY <1>1, <1>2, <1>4
<1>9. client'.nextId >= client.nextId
  BY <1>5
<1>10. Goes(client, client', t, Idle)
  BY <1>2, <1>4, <1>5, <1>6, <1>7, <1>8, <1>9 DEF Goes
<1> QED
  BY <1>2, <1>4, <1>10, CallStep

(***************************************************************************)
(* Events are set, and only those of the requests that were pending.       *)
(***************************************************************************)
LEMMA TellSound ==
  ASSUME NEW c, ClientSound(c), NEW ids \in SUBSET c.pending,
         NEW got \in {"answer", "error"}, NEW about \in Nat,
         got = "answer" => \A id \in ids : about = id
  PROVE  /\ ClientSound(Tell(c, ids, got, about))
         /\ Tell(c, ids, got, about).pending = c.pending \ ids
<1> DEFINE d == Tell(c, ids, got, about)
           told(t) == [c.calls[t] EXCEPT !.got = got, !.about = about]
<1>1. /\ c \in Client /\ c.calls \in [Threads -> Call]
      /\ c.pending \subseteq Nat /\ 0 \notin c.pending /\ c.nextId \in Nat
      /\ c.finished => c.pending = {}
  BY DEF ClientSound, Client
<1>2. \A t \in Threads :
        /\ c.calls[t] \in Call /\ told(t) \in Call
        /\ told(t).at = c.calls[t].at /\ told(t).id = c.calls[t].id
        /\ told(t).got = got /\ told(t).about = about
  BY <1>1 DEF Call
<1> HIDE DEF told
<1> DEFINE calls == [t \in Threads |->
                       IF c.calls[t].at # "idle" /\ c.calls[t].id \in ids
                       THEN told(t) ELSE c.calls[t]]
<1>3. calls \in [Threads -> Call]
  BY <1>2
<1>4. d = [c EXCEPT !.pending = c.pending \ ids, !.calls = calls]
  BY <1>1 DEF Tell, told, Client
<1>5. \A t \in Threads :
        calls[t] = IF c.calls[t].id \in ids THEN told(t) ELSE c.calls[t]
  BY <1>1 DEF ClientSound, CallSound
<1> HIDE DEF calls, d
<1>6. /\ d \in Client /\ d.pending = c.pending \ ids
      /\ d.calls = calls /\ d.free = c.free /\ d.nextId = c.nextId
      /\ d.finished = c.finished /\ d.receiver = c.receiver
  BY <1>1, <1>3, <1>4 DEF Client
<1>7. \A t \in Threads : /\ calls[t].id = c.calls[t].id
                         /\ calls[t].at = c.calls[t].at
  BY <1>2, <1>5
<1>8. \A t \in Threads : CallSound(calls[t], d.pending, d.nextId)
  <2> SUFFICES ASSUME NEW t \in Threads
               PROVE  CallSound(calls[t], d.pending, d.nextId)
    OBVIOUS
  <2>1. CallSound(c.calls[t], c.pending, c.nextId)
    BY DEF ClientSound
  <2>2. CASE c.calls[t].id \in ids
    BY <1>1, <1>2, <1>5, <1>6, <2>1, <2>2 DEF CallSound
  <2>3. CASE c.calls[t].id \notin ids
    BY <1>5, <1>6, <2>1, <2>3 DEF CallSound
  <2> QED
    BY <2>2, <2>3
<1>9. Taken(d) = Taken(c)
  BY <1>6, <1>7 DEF Taken
<1>10. ClientSound(d)
  <2>1. \A t, u \in Threads : t # u /\ d.calls[t].id = d.calls[u].id
                                => d.calls[t].id = 0
    BY <1>6, <1>7 DEF ClientSound
  <2>2. \A id \in d.pending : id # 0 /\ \E t \in Threads : d.calls[t].id = id
    BY <1>6, <1>7 DEF ClientSound
  <2>3. d.finished => d.pending = {}
    BY <1>1, <1>6
  <2>4. d.free + Cardinality(Taken(d)) = Slots
    BY <1>6, <1>9 DEF ClientSound
  <2>5. d.receiver = "waiting" => Taken(d) = {}
    BY <1>6, <1>9 DEF ClientSound
  <2> QED
    BY <1>6, <1>8, <2>1, <2>2, <2>3, <2>4, <2>5 DEF ClientSound
<1> QED
  BY <1>6, <1>10 DEF d

(***************************************************************************)
(* The threads that call request().                                        *)
(***************************************************************************)
LEMMA CallerStep ==
  ASSUME NetSound, ClientSound(client), NEW t \in Threads,
         Acquire(t) \/ Caller(t)
  PROVE  NetSound' /\ ClientSound(client')
<1> DEFINE call == client.calls[t]
<1>1. /\ client \in Client /\ client.calls \in [Threads -> Call]
      /\ call \in Call /\ client.free \in 0 .. Slots
      /\ client.pending \subseteq Nat /\ 0 \notin client.pending
      /\ client.nextId \in Nat \ {0}
      /\ client.finished => client.pending = {}
      /\ CallSound(call, client.pending, client.nextId)
  BY DEF ClientSound, Client
<1>2. CASE Acquire(t)
  <2> DEFINE new == [Idle EXCEPT !.at = "called"]
  <2>1. /\ new \in Call /\ new.at = "called" /\ new.id = 0
        /\ new.got = "nothing" /\ ~new.done
    BY DEF Idle, Call
  <2>2. /\ call.at = "idle" /\ call.id = 0 /\ client.free - 1 \in 0 .. Slots
        /\ client.receiver # "waiting"
        /\ client' = [client EXCEPT !.free = client.free - 1,
                                    !.calls = [client.calls EXCEPT ![t] = new]]
        /\ NetSound'
    BY <1>1, <1>2, SlotsAssumption DEF Acquire, Quiet, net, NetSound, CallSound
  <2> HIDE DEF new
  <2>3. [client.calls EXCEPT ![t] = new] \in [Threads -> Call]
    BY <1>1, <2>1
  <2>4. /\ client' \in Client
        /\ client'.calls = [client.calls EXCEPT ![t] = new]
        /\ client'.free = client.free - 1 /\ client'.pending = client.pending
        /\ client'.nextId = client.nextId /\ client'.finished = client.finished
        /\ client'.receiver = client.receiver
    BY <1>1, <2>2, <2>3 DEF Client
  <2>5. CallSound(new, client'.pending, client'.nextId)
    BY <2>1 DEF CallSound
  <2>6. client'.free = client.free + (IF new.at = "idle" THEN 1 ELSE 0)
                                   - (IF call.at = "idle" THEN 1 ELSE 0)
    BY <1>1, <2>1, <2>2, <2>4
  <2>7. new.id = call.id /\ client'.nextId >= client.nextId
    BY <1>1, <2>1, <2>2, <2>4
  <2>8. Goes(client, client', t, new)
    BY <1>1, <2>1, <2>2, <2>4, <2>5, <2>6, <2>7 DEF Goes
  <2>9. ClientSound(client')
    BY <2>1, <2>4, <2>8, CallStep
  <2> QED
    BY <2>2, <2>9
<1>3. CASE Register(t)
  <2> DEFINE id == client.nextId
             new == [call EXCEPT !.at = "registered", !.id = id]
  <2>1. /\ call.at = "called" /\ call.id = 0 /\ call.got = "nothing"
        /\ ~call.done /\ ~client.finished /\ id \in Nat \ {0} /\ id + 1 \in Nat \ {0}
    BY <1>1, <1>3 DEF Register, CallSound
  <2>2. /\ new \in Call /\ new.at = "registered" /\ new.id = id
        /\ new.got = "nothing" /\ new.done = call.done
    BY <1>1, <2>1 DEF Call
  <2>3. /\ client' = [client EXCEPT !.calls = [client.calls EXCEPT ![t] = new],
                                    !.pending = client.pending \cup {id},
                                    !.nextId = id + 1]
        /\ NetSound'
    BY <1>1, <1>3 DEF Register, Quiet, net, NetSound, Client
  <2> HIDE DEF new
  <2>4. [client.calls EXCEPT ![t] = new] \in [Threads -> Call]
    BY <1>1, <2>2
  <2>5. /\ client' \in Client
        /\ client'.calls = [client.calls EXCEPT ![t] = new]
        /\ client'.free = client.free
        /\ client'.pending = client.pending \cup {id}
        /\ client'.nextId = id + 1 /\ client'.finished = client.finished
        /\ client'.receiver = client.receiver
    BY <1>1, <2>1, <2>3, <2>4 DEF Client
  <2>6. CallSound(new, client'.pending, client'.nextId)
    BY <2>1, <2>2, <2>5 DEF CallSound
  <2>7. client'.free = client.free + (IF new.at = "idle" THEN 1 ELSE 0)
                                   - (IF call.at = "idle" THEN 1 ELSE 0)
    BY <1>1, <2>1, <2>2, <2>5
  <2>8. /\ client'.nextId >= client.nextId /\ 0 \notin client'.pending
        /\ call.id \notin client'.pending
        /\ \A n \in Nat : n # call.id /\ n # new.id
                          => (n \in client'.pending <=> n \in client.pending)
        /\ client'.finished => client'.pending = {}
    BY <1>1, <2>1, <2>2, <2>5
  <2>9. Goes(client, client', t, new)
    BY <2>1, <2>2, <2>5, <2>6, <2>7, <2>8 DEF Goes
  <2>10. ClientSound(client')
    BY <2>2, <2>5, <2>9, CallStep
  <2> QED
    BY <2>3, <2>10
<1>4. CASE NotConnected(t)
  <2>1. call.at = "called" /\ client' = Return(t) /\ NetSound'
    BY <1>4 DEF NotConnected, Quiet, net, NetSound
  <2>2. call.id \notin client.pending
    BY <1>1, <2>1 DEF CallSound
  <2> QED
    BY <2>1, <2>2, ReturnSound
<1>5. CASE LockSend(t) \/ Send(t) \/ TimeOut(t)
  <2>1. PICK at \in {"sending", "waiting", "late"} :
          /\ client' = [client EXCEPT !.calls[t].at = at]
          /\ call.at \in {"registered", "sending", "waiting"}
    BY <1>5 DEF LockSend, Send, TimeOut
  <2> DEFINE new == [call EXCEPT !.at = at]
  <2>2. /\ new \in Call /\ new.at = at /\ new.id = call.id
        /\ new.got = call.got /\ new.about = call.about
        /\ new.done = call.done
    BY <1>1 DEF Call
  <2>3. client' = [client EXCEPT !.calls = [client.calls EXCEPT ![t] = new]]
    BY <1>1, <2>1 DEF Client
  <2> HIDE DEF new
  <2>4. [client.calls EXCEPT ![t] = new] \in [Threads -> Call]
    BY <1>1, <2>2
  <2>5. /\ client' \in Client
        /\ client'.calls = [client.calls EXCEPT ![t] = new]
        /\ client'.free = client.free /\ client'.pending = client.pending
        /\ client'.nextId = client.nextId /\ client'.finished = client.finished
        /\ client'.receiver = client.receiver
    BY <1>1, <2>3, <2>4 DEF Client
  <2>6. CallSound(new, client'.pending, client'.nextId)
    BY <1>1, <2>1, <2>2, <2>5 DEF CallSound
  <2>7. client'.free = client.free + (IF new.at = "idle" THEN 1 ELSE 0)
                                   - (IF call.at = "idle" THEN 1 ELSE 0)
    BY <1>1, <2>1, <2>2, <2>5
  <2>8. client'.nextId >= client.nextId
    BY <1>1, <2>5
  <2>9. ClientSound(client')
    <3>1. Goes(client, client', t, new)
      BY <1>1, <2>1, <2>2, <2>5, <2>6, <2>7, <2>8 DEF Goes
    <3> QED
      BY <2>2, <2>5, <3>1, CallStep
  <2>10. NetSound'
    <3>1. CASE LockSend(t) \/ TimeOut(t)
      BY <3>1 DEF LockSend, TimeOut, Quiet, net, NetSound
    <3>2. CASE Send(t)
      <4> DEFINE p == [kind |-> "request", id |-> call.id, about |-> call.id]
      <4>1. p \in Own
        BY <1>1 DEF Own, Pdu, Kinds, Call
      <4>2. /\ toServer' = Append(toServer, p)
            /\ UNCHANGED <<toClient, up>>
        BY <3>2 DEF Send
      <4> HIDE DEF p
      <4> QED
        BY <4>1, <4>2, AppendProperties DEF NetSound
    <3> QED
      BY <1>5, <3>1, <3>2
  <2> QED
    BY <2>9, <2>10
<1>6. CASE SendFails(t) \/ GiveUp(t)
  <2>1. /\ call.at # "idle" /\ NetSound'
        /\ client' = [Return(t) EXCEPT !.pending = @ \ {call.id}]
    BY <1>6 DEF SendFails, GiveUp, Quiet, net, NetSound
  <2> QED
    BY <2>1, ReturnSound
<1>7. CASE Awake(t)
  <2>1. /\ call.at = "waiting" /\ call.got # "nothing"
        /\ client' = Return(t) /\ NetSound'
    BY <1>1, <1>7 DEF Awake, Quiet, net, NetSound, CallSound
  <2>2. call.id \notin client.pending
    BY <1>1, <2>1 DEF CallSound
  <2> QED
    BY <2>1, <2>2, ReturnSound
<1> QED
  BY <1>2, <1>3, <1>4, <1>5, <1>6, <1>7 DEF Caller

(***************************************************************************)
(* The event of a request that was popped is set.                          *)
(***************************************************************************)
LEMMA SetDoneStep ==
  ASSUME NetSound, ClientSound(client), NEW t \in Threads, SetDone(t)
  PROVE  NetSound' /\ ClientSound(client')
<1> DEFINE call == client.calls[t]
           new == [call EXCEPT !.done = TRUE]
<1>1. /\ client \in Client /\ client.calls \in [Threads -> Call] /\ call \in Call
      /\ CallSound(call, client.pending, client.nextId)
      /\ client.nextId \in Nat \ {0} /\ client.free \in Int
      /\ client.pending \subseteq Nat /\ 0 \notin client.pending
      /\ client.finished => client.pending = {}
      /\ call.at = "idle" => call.got = "nothing"
      /\ call.got # "nothing"
  BY DEF ClientSound, Client, CallSound, SetDone
<1>2. client.receiver # "waiting"
  BY <1>1 DEF ClientSound, Taken
<1>3. /\ new \in Call /\ new.at = call.at /\ new.id = call.id
      /\ new.got = call.got /\ new.about = call.about
  BY <1>1 DEF Call
<1>4. client' = [client EXCEPT !.calls = [client.calls EXCEPT ![t] = new]]
  BY <1>1 DEF SetDone, Client
<1>5. CallSound(new, client.pending, client.nextId)
  BY <1>1, <1>3 DEF CallSound
<1> HIDE DEF new
<1>6. [client.calls EXCEPT ![t] = new] \in [Threads -> Call]
  BY <1>1, <1>3
<1>7. /\ client' \in Client
      /\ client'.calls = [client.calls EXCEPT ![t] = new]
      /\ client'.free = client.free /\ client'.pending = client.pending
      /\ client'.nextId = client.nextId /\ client'.finished = client.finished
      /\ client'.receiver = client.receiver
  BY <1>1, <1>4, <1>6 DEF Client
<1>8. client'.free = client.free + (IF new.at = "idle" THEN 1 ELSE 0)
                                 - (IF call.at = "idle" THEN 1 ELSE 0)
  BY <1>1, <1>3, <1>7
<1>9. client'.nextId >= client.nextId
  BY <1>1, <1>7
<1>10. Goes(client, client', t, new)
  BY <1>1, <1>2, <1>3, <1>5, <1>7, <1>8, <1>9 DEF Goes
<1> QED
  BY <1>3, <1>7, <1>10, CallStep DEF SetDone, Quiet, net, NetSound

(***************************************************************************)
(* The receive thread comes and goes, _fail_all runs.                      *)
(***************************************************************************)
LEMMA EndSound ==
  ASSUME NEW c, ClientSound(c)
  PROVE  /\ ClientSound([c EXCEPT !.receiver = "ended"])
         /\ ClientSound([c EXCEPT !.receiver = "running"])
         /\ c.pending = {} => ClientSound([c EXCEPT !.finished = TRUE])
         /\ ClientSound(FailAll(c))
<1>1. ASSUME NEW e, ClientSound(e)
      PROVE  \A r \in {"ended", "running"} :
                ClientSound([e EXCEPT !.receiver = r])
  <2> SUFFICES ASSUME NEW r \in {"ended", "running"}
               PROVE  ClientSound([e EXCEPT !.receiver = r])
    OBVIOUS
  <2> DEFINE d == [e EXCEPT !.receiver = r]
  <2>1. /\ d \in Client /\ d.calls = e.calls /\ d.pending = e.pending
        /\ d.nextId = e.nextId /\ d.finished = e.finished
        /\ d.free = e.free /\ d.receiver # "waiting"
    BY <1>1 DEF ClientSound, Client
  <2> HIDE DEF d
  <2>2. Taken(d) = Taken(e)
    BY <2>1 DEF Taken
  <2>3. ClientSound(d)
    BY <1>1, <2>1, <2>2 DEF ClientSound
  <2> QED
    BY <2>3 DEF d
<1>2. ASSUME NEW e, ClientSound(e), e.pending = {}
      PROVE  ClientSound([e EXCEPT !.finished = TRUE])
  <2> DEFINE d == [e EXCEPT !.finished = TRUE]
  <2>1. /\ d \in Client /\ d.calls = e.calls /\ d.pending = e.pending
        /\ d.nextId = e.nextId /\ d.receiver = e.receiver
        /\ d.free = e.free
    BY <1>2 DEF ClientSound, Client
  <2> HIDE DEF d
  <2>2. Taken(d) = Taken(e)
    BY <2>1 DEF Taken
  <2>3. ClientSound(d)
    BY <1>2, <2>1, <2>2 DEF ClientSound
  <2> QED
    BY <2>3 DEF d
<1>3. ClientSound(FailAll(c))
  <2> DEFINE e == Tell(c, c.pending, "error", 0)
  <2>1. ClientSound(e) /\ e.pending = {}
    <3>1. ClientSound(e) /\ e.pending = c.pending \ c.pending
      BY TellSound
    <3> QED
      BY <3>1
  <2>2. FailAll(c) = IF c.finished THEN c ELSE [e EXCEPT !.finished = TRUE]
    BY DEF FailAll
  <2> HIDE DEF e
  <2> QED
    BY <1>2, <2>1, <2>2
<1> QED
  BY <1>1, <1>2, <1>3

LEMMA ReceiverStep ==
  ASSUME NetSound, ClientSound(client), Receiver \/ ConnectFails \/ Close
  PROVE  NetSound' /\ ClientSound(client')
<1>1. CASE Start \/ Dispatch \/ ListenerRaises
  <2>1. /\ toClient # <<>>
        /\ toClient' = Tail(toClient) /\ UNCHANGED <<toServer, up>>
    BY <1>1 DEF Start, Dispatch, ListenerRaises, Receives
  <2>2. /\ NetSound' /\ Head(toClient) \in Own
    BY <2>1, HeadTailProperties DEF NetSound
  <2>3. ASSUME Dispatch PROVE ClientSound(client')
    <3> DEFINE p == Head(toClient)
               ids == {p.id} \cap client.pending
    <3>1. p.about \in Nat /\ \A id \in ids : p.about = id
      BY <2>2 DEF Own, Pdu
    <3>2. ids \in SUBSET client.pending
      OBVIOUS
    <3>3. client' = Tell(client, ids, "answer", p.about)
      BY <2>3 DEF Dispatch
    <3> HIDE DEF p, ids
    <3> QED
      BY <3>1, <3>2, <3>3, TellSound
  <2>4. ASSUME Start \/ ListenerRaises PROVE ClientSound(client')
    BY <2>4, EndSound DEF Start, ListenerRaises
  <2> QED
    BY <1>1, <2>2, <2>3, <2>4
<1>2. CASE ConnectFails
  <2>1. NetSound'
    BY <1>2 DEF ConnectFails, Hangs, NetSound
  <2>2. client.pending = {}
    <3>1. client.receiver = "waiting"
      BY <1>2 DEF ConnectFails
    <3>2. \A t \in Threads : client.calls[t].id = 0
      BY <3>1 DEF ClientSound, Taken, CallSound
    <3> QED
      BY <3>2 DEF ClientSound
  <2> DEFINE e == [client EXCEPT !.receiver = "ended"]
  <2>3. ClientSound(e) /\ e.pending = {}
    <3>1. e.pending = client.pending
      BY DEF ClientSound, Client
    <3> QED
      BY <2>2, <3>1, EndSound
  <2>4. client' = [e EXCEPT !.finished = TRUE]
    BY <1>2 DEF ConnectFails
  <2> HIDE DEF e
  <2>5. ClientSound(client')
    BY <2>3, <2>4, EndSound
  <2> QED
    BY <2>1, <2>5
<1>3. CASE ConnectionLost \/ Close
  <2>1. NetSound'
    BY <1>3 DEF ConnectionLost, Close, Hangs, NetSound
  <2>2. ClientSound(FailAll(client))
    BY EndSound
  <2>3. ClientSound(client')
    BY <1>3, <2>2, EndSound DEF ConnectionLost, Close
  <2> QED
    BY <2>1, <2>3
<1> QED
  BY <1>1, <1>2, <1>3 DEF Receiver

LEMMA ClientStarts ==
  ASSUME ClientInit
  PROVE  ClientSound(client)
<1>1. /\ Idle \in Call /\ Idle.at = "idle" /\ Idle.id = 0
      /\ Idle.got = "nothing" /\ ~Idle.done
  BY DEF Idle, Call
<1> HIDE DEF Idle
<1>2. /\ client.calls = [t \in Threads |-> Idle] /\ client.pending = {}
      /\ client.free = Slots /\ client \in Client
      /\ client.receiver = "waiting"
  BY <1>1, SlotsAssumption DEF ClientInit, Client
<1>3. Taken(client) = {}
  BY <1>1, <1>2 DEF Taken
<1>4. \A t \in Threads : CallSound(client.calls[t], client.pending, client.nextId)
  BY <1>1, <1>2 DEF CallSound
<1>5. Slots + Cardinality({}) = Slots
  BY SlotsAssumption, FS_EmptySet
<1> QED
  BY <1>1, <1>2, <1>3, <1>4, <1>5 DEF ClientSound

----------------------------------------------------------------------------
(* The session                                                             *)

SessionInv == ServerSound /\ NetSound /\ ClientSound(client)

LEMMA SessionStarts == Init => SessionInv
BY ServerStarts, ClientStarts DEF Init, SessionInv

LEMMA SessionStep ==
  ASSUME SessionInv, [Next]_vars
  PROVE  SessionInv' /\ StateStep(conn, conn')
<1> USE DEF SessionInv
<1>1. CASE ServerNext /\ UNCHANGED client
  <2>1. ServerSound' /\ NetSound' /\ StateStep(conn, conn')
    BY <1>1, ServingStep, OtherThreadsStep DEF ServerNext
  <2> QED
    BY <1>1, <2>1
<1>2. ASSUME UNCHANGED server
      PROVE  ServerSound' /\ StateStep(conn, conn')
  BY <1>2 DEF server, ServerSound, StateStep
<1>3. CASE ClientNext /\ UNCHANGED server
  <2>1. NetSound' /\ ClientSound(client')
    BY <1>3, CallerStep, ReceiverStep, SetDoneStep DEF ClientNext
  <2> QED
    BY <1>2, <1>3, <2>1
<1>4. CASE Break /\ UNCHANGED <<server, client>>
  <2>1. <<>> \in Seq(Own)
    BY EmptySeq
  <2>2. NetSound'
    BY <1>4, <2>1 DEF Break, NetSound
  <2> QED
    BY <1>2, <1>4, <2>2
<1>5. CASE OtherPdu
  <2>1. PICK kind \in {"conclude", "unknown"} :
          toServer' = Append(toServer, [kind |-> kind, id |-> 0, about |-> 0])
    BY <1>5 DEF OtherPdu
  <2>2. [kind |-> kind, id |-> 0, about |-> 0] \in Own
    BY DEF Own, Pdu, Kinds
  <2>3. NetSound'
    BY <1>5, <2>1, <2>2, AppendProperties DEF OtherPdu, NetSound
  <2>4. ServerSound' /\ StateStep(conn, conn') /\ UNCHANGED client
    BY <1>5 DEF OtherPdu, ServerSound, StateStep
  <2> QED
    BY <2>3, <2>4
<1>6. CASE UNCHANGED vars
  BY <1>2, <1>6 DEF vars, server, net, NetSound
<1> QED
  BY <1>1, <1>3, <1>4, <1>5, <1>6 DEF Next

(***************************************************************************)
(* What the proofs rest on: every PDU on its way is about the request      *)
(* whose invokeID it has, the connection is in server.connections exactly  *)
(* while serve() runs, and the calls of the client's threads, its pending  *)
(* invokeIDs and its slots agree, whatever breaks and whoever closes.      *)
(***************************************************************************)
THEOREM Invariance == Spec => []SessionInv
<1>1. Init => SessionInv
  BY SessionStarts
<1>2. SessionInv /\ [Next]_vars => SessionInv'
  BY SessionStep
<1> QED
  BY <1>1, <1>2, PTL DEF Spec

(***************************************************************************)
(* ServerConnection promises its engines what Connection says: a           *)
(* connection that is listed is served, closed by whoever comes first and  *)
(* forgotten once, after which no request of it is served.                 *)
(***************************************************************************)
THEOREM ConnectionIsImplemented == Spec => ImplementsConnection
<1> USE DEF State
<1>1. Init => C!ConnectionInit
  BY ServerStarts DEF Init, C!ConnectionInit
<1>2. SessionInv /\ [Next]_vars
        => [C!ConnectionNext]_<<State(conn), conn.served>>
  <2> SUFFICES ASSUME SessionInv, [Next]_vars
               PROVE  [C!ConnectionNext]_<<State(conn), conn.served>>
    OBVIOUS
  <2>1. StateStep(conn, conn')
    BY SessionStep
  <2> QED
    BY <2>1 DEF StateStep, C!ConnectionNext, C!Open, C!Lose, C!Forget, C!Serve
<1> QED
  BY <1>1, <1>2, Invariance, PTL DEF Spec, ImplementsConnection, C!ConnectionSpec

(***************************************************************************)
(* request() returns the response to its own request, whatever timed out   *)
(* before and however late its answer comes, for any number of threads.    *)
(***************************************************************************)
THEOREM AnswersAreOwn == Spec => []OwnAnswer
<1>1. SessionInv => OwnAnswer
  BY DEF SessionInv, ClientSound, CallSound, OwnAnswer
<1> QED
  BY <1>1, Invariance, PTL

(***************************************************************************)
(* _request, _dispatch and _fail_all agree on the requests and the slots:  *)
(* whoever waits and has not been told is in _pending, an invokeID in      *)
(* _pending is one thread's, each slot is taken once and given back once.  *)
(***************************************************************************)
THEOREM CallsAreExact == Spec => []CallsExact
<1>1. SessionInv => TypeOK
  <2> SUFFICES ASSUME SessionInv PROVE TypeOK
    OBVIOUS
  <2>1. Own \subseteq Pdu
    BY DEF Own
  <2>2. Seq(Own) \subseteq Seq(Pdu)
    BY <2>1, SeqMonotonic
  <2>3. conn \in OwnConn /\ listening \in BOOLEAN /\ sent \in Nat
    BY DEF SessionInv, ServerSound, ConnSound
  <2>4. conn \in Conn
    BY <2>1, <2>2, <2>3 DEF OwnConn, Conn
  <2> QED
    BY <2>2, <2>3, <2>4 DEF TypeOK, SessionInv, NetSound, ClientSound
<1>2. SessionInv => SlotsExact
  BY DEF SessionInv, ClientSound, SlotsExact, Taken
<1>3. SessionInv => WaiterIsPending
  <2> SUFFICES ASSUME ClientSound(client) PROVE WaiterIsPending
    BY DEF SessionInv
  <2>1. \A t \in Threads :
          CallSound(client.calls[t], client.pending, client.nextId)
    BY DEF ClientSound
  <2>2. ASSUME NEW id \in client.pending
        PROVE  \E t \in Threads : \A u \in Threads :
                  client.calls[u].id = id /\ client.calls[u].got = "nothing"
                     <=> u = t
    <3>1. PICK t \in Threads : client.calls[t].id = id /\ id # 0
      BY DEF ClientSound
    <3>2. client.calls[t].got = "nothing"
      BY <2>1, <3>1 DEF CallSound
    <3>3. \A u \in Threads : client.calls[u].id = id => u = t
      BY <3>1 DEF ClientSound
    <3> QED
      BY <3>1, <3>2, <3>3
  <2>3. \A t \in Threads :
          LET c == client.calls[t]
          IN  c.at \in {"registered", "sending", "waiting"} /\ c.got = "nothing"
                 => c.id \in client.pending
    BY <2>1 DEF CallSound
  <2> QED
    BY <2>2, <2>3 DEF ClientSound, WaiterIsPending
<1> QED
  BY <1>1, <1>2, <1>3, Invariance, PTL DEF CallsExact

----------------------------------------------------------------------------
(* The size of the send queue                                              *)

(***************************************************************************)
(* What SizeOf counts: the bytes of the PDUs of a sequence.                *)
(***************************************************************************)
Octets(q) == {kb \in (DOMAIN q) \X (1 .. 2) : kb[2] <= Bytes(q[kb[1]])}

(***************************************************************************)
(* They are finitely many.                                                 *)
(***************************************************************************)
LEMMA OctetsFinite ==
  ASSUME NEW q \in Seq(Own)
  PROVE  IsFiniteSet(Octets(q)) /\ SizeOf(q) = Cardinality(Octets(q))
<1>1. Len(q) \in Nat /\ DOMAIN q = 1 .. Len(q)
  BY LenProperties
<1>2. IsFiniteSet(DOMAIN q)
  BY <1>1, FS_Interval
<1>3. IsFiniteSet((DOMAIN q) \X (1 .. 2))
  <2>1. \A n \in Nat : IsFiniteSet(1 .. n)
    BY FS_Interval
  <2>2. IsFiniteSet(1 .. 2)
    BY <2>1
  <2> QED
    BY <1>2, <2>2, FS_Product
<1>4. Octets(q) \in SUBSET ((DOMAIN q) \X (1 .. 2))
  BY DEF Octets
<1>5. IsFiniteSet(Octets(q))
  BY <1>3, <1>4, FS_Subset
<1> QED
  BY <1>5 DEF Octets, SizeOf

(***************************************************************************)
(* The bytes of one PDU of a sequence.                                     *)
(***************************************************************************)
LEMMA OctetsOf ==
  ASSUME NEW q \in Seq(Own), NEW k \in DOMAIN q
  PROVE  LET One == {kb \in Octets(q) : kb[1] = k}
         IN  IsFiniteSet(One) /\ Cardinality(One) = Bytes(q[k])
<1> DEFINE One == {kb \in Octets(q) : kb[1] = k}
           n == Bytes(q[k])
           f == [b \in 1 .. n |-> <<k, b>>]
<1>1. n \in {1, 2}
  BY DEF Bytes
<1>2. f \in Bijection(1 .. n, One)
  <2>1. ASSUME NEW b \in 1 .. n PROVE f[b] \in One
    <3>1. b \in 1 .. 2 /\ b <= n
      BY <1>1
    <3>2. <<k, b>> \in (DOMAIN q) \X (1 .. 2)
      BY <3>1
    <3>3. <<k, b>> \in One
      BY <3>1, <3>2 DEF Octets
    <3> QED
      BY <3>3
  <2>2. ASSUME NEW x \in 1 .. n, NEW y \in 1 .. n, f[x] = f[y] PROVE x = y
    BY <2>2
  <2>3. ASSUME NEW kb \in One PROVE \E b \in 1 .. n : f[b] = kb
    <3>1. kb[1] = k /\ kb[2] \in 1 .. 2 /\ kb[2] <= n /\ kb = <<kb[1], kb[2]>>
      BY <2>3 DEF Octets
    <3> HIDE DEF n
    <3>2. kb[2] \in 1 .. n
      BY <3>1, <1>1
    <3>3. f[kb[2]] = kb
      BY <3>1, <3>2
    <3> QED
      BY <3>2, <3>3
  <2> HIDE DEF One, n
  <2>4. f \in [1 .. n -> One]
    BY <2>1
  <2> HIDE DEF f
  <2> QED
    BY <2>2, <2>3, <2>4, Fun_IsBij
<1>3. IsFiniteSet(1 .. n) /\ Cardinality(1 .. n) = n
  <2> HIDE DEF n
  <2> QED
    BY <1>1, FS_Interval
<1>4. ExistsBijection(1 .. n, One)
  BY <1>2 DEF ExistsBijection
<1> QED
  BY <1>3, <1>4, FS_Bijection

(***************************************************************************)
(* A PDU appended adds its bytes.                                          *)
(***************************************************************************)
LEMMA SizeOfAppend ==
  ASSUME NEW q \in Seq(Own), NEW p \in Own
  PROVE  SizeOf(Append(q, p)) = SizeOf(q) + Bytes(p)
<1> DEFINE t == Append(q, p)
           n == Len(q) + 1
           New == {kb \in Octets(t) : kb[1] = n}
           Old == {kb \in Octets(t) : kb[1] # n}
<1>1. /\ Len(q) \in Nat /\ DOMAIN q = 1 .. Len(q) /\ n \in Nat
      /\ n \notin 1 .. Len(q) /\ 1 .. n = (1 .. Len(q)) \cup {n}
  BY LenProperties
<1>2. /\ t \in Seq(Own) /\ Len(t) = n /\ t[n] = p
      /\ \A k \in 1 .. Len(q) : t[k] = q[k]
  BY AppendProperties
<1> HIDE DEF t
<1>3. DOMAIN t = (1 .. Len(q)) \cup {n}
  BY <1>1, <1>2, LenProperties
<1> HIDE DEF n
<1>4. Old = Octets(q)
  <2>1. ASSUME NEW kb PROVE kb \in Old <=> kb \in Octets(q)
    <3>1. kb \in Old <=> /\ kb \in (1 .. Len(q)) \X (1 .. 2)
                         /\ kb[2] <= Bytes(t[kb[1]])
      BY <1>1, <1>3 DEF Octets
    <3>2. kb \in Octets(q) <=> /\ kb \in (1 .. Len(q)) \X (1 .. 2)
                               /\ kb[2] <= Bytes(q[kb[1]])
      BY <1>1 DEF Octets
    <3>3. kb \in (1 .. Len(q)) \X (1 .. 2) => t[kb[1]] = q[kb[1]]
      BY <1>2
    <3> HIDE DEF Old
    <3> QED
      BY <3>1, <3>2, <3>3
  <2> HIDE DEF Old
  <2> QED
    BY <2>1
<1>5. IsFiniteSet(New) /\ Cardinality(New) = Bytes(p)
  BY <1>2, <1>3, OctetsOf
<1>6. IsFiniteSet(Octets(q)) /\ Cardinality(Octets(q)) = SizeOf(q)
      /\ Cardinality(Octets(t)) = SizeOf(t)
  BY <1>2, OctetsFinite
<1>7. Old \cup New = Octets(t) /\ Old \cap New = {}
  OBVIOUS
<1> HIDE DEF New, Old
<1>8. Cardinality(Old \cup New)
        = Cardinality(Old) + Cardinality(New) - Cardinality(Old \cap New)
  BY <1>4, <1>5, <1>6, FS_Union
<1>9. /\ Cardinality(Old \cap New) = 0
      /\ Cardinality(Old) \in Nat /\ Cardinality(New) \in Nat
  BY <1>4, <1>5, <1>6, <1>7, FS_EmptySet, FS_CardinalityType
<1>10. Cardinality(Old \cup New) = Cardinality(Old) + Cardinality(New)
  BY <1>8, <1>9
<1>11. SizeOf(t) = SizeOf(q) + Bytes(p)
  BY <1>4, <1>5, <1>6, <1>7, <1>10
<1> QED
  BY <1>11 DEF t

(***************************************************************************)
(* The first PDU taken away takes its bytes along.                         *)
(***************************************************************************)
LEMMA SizeOfTail ==
  ASSUME NEW q \in Seq(Own), q # <<>>
  PROVE  /\ Tail(q) \in Seq(Own) /\ Bytes(Head(q)) \in Nat
         /\ SizeOf(Tail(q)) \in Nat
         /\ SizeOf(q) = Bytes(Head(q)) + SizeOf(Tail(q))
<1> DEFINE t == Tail(q)
           First == {kb \in Octets(q) : kb[1] = 1}
           Rest == {kb \in Octets(q) : kb[1] # 1}
           f == [kb \in Octets(t) |-> <<kb[1] + 1, kb[2]>>]
<1>1. /\ Len(q) \in Nat \ {0} /\ DOMAIN q = 1 .. Len(q)
      /\ Head(q) = q[1] /\ q[1] \in Own
  BY LenProperties, EmptySeq, HeadTailProperties
<1>2. /\ t \in Seq(Own) /\ DOMAIN t = 1 .. Len(q) - 1
      /\ \A k \in 1 .. Len(q) - 1 : t[k] = q[k + 1]
  <2>1. /\ t \in Seq(Own) /\ Len(t) = Len(q) - 1
        /\ \A k \in 1 .. Len(t) : t[k] = q[k + 1]
    BY HeadTailProperties
  <2>2. DOMAIN t = 1 .. Len(t)
    BY <2>1, LenProperties
  <2> HIDE DEF t
  <2> QED
    BY <2>1, <2>2
<1> HIDE DEF t
<1>3. f \in Bijection(Octets(t), Rest)
  <2>1. ASSUME NEW kb \in Octets(t) PROVE f[kb] \in Rest
    <3>1. /\ kb[1] \in 1 .. Len(q) - 1 /\ kb[2] \in 1 .. 2
          /\ kb[2] <= Bytes(t[kb[1]])
      BY <2>1, <1>2 DEF Octets
    <3>2. kb[1] + 1 \in 1 .. Len(q) /\ kb[1] + 1 # 1
      BY <1>1, <3>1
    <3>3. t[kb[1]] = q[kb[1] + 1]
      BY <1>2, <3>1
    <3>4. <<kb[1] + 1, kb[2]>> \in Octets(q)
      BY <1>1, <3>1, <3>2, <3>3 DEF Octets
    <3> QED
      BY <3>2, <3>4
  <2>2. ASSUME NEW x \in Octets(t), NEW y \in Octets(t), f[x] = f[y]
        PROVE  x = y
    <3>1. /\ x = <<x[1], x[2]>> /\ y = <<y[1], y[2]>>
          /\ x[1] \in Int /\ y[1] \in Int
      BY <1>1, <1>2 DEF Octets
    <3>2. x[1] + 1 = y[1] + 1 /\ x[2] = y[2]
      BY <2>2
    <3>3. x[1] = y[1]
      BY <3>1, <3>2
    <3> QED
      BY <3>1, <3>2, <3>3
  <2>3. ASSUME NEW kb \in Rest PROVE \E x \in Octets(t) : f[x] = kb
    <3>1. /\ kb[1] \in 1 .. Len(q) /\ kb[2] \in 1 .. 2 /\ kb[1] # 1
          /\ kb = <<kb[1], kb[2]>> /\ kb[2] <= Bytes(q[kb[1]])
      BY <1>1, <2>3 DEF Octets
    <3> DEFINE k == kb[1] - 1
    <3>2. k \in 1 .. Len(q) - 1 /\ k + 1 = kb[1]
      BY <1>1, <3>1
    <3> HIDE DEF k
    <3>3. t[k] = q[kb[1]]
      BY <1>2, <3>2
    <3>4. <<k, kb[2]>> \in Octets(t)
      BY <1>2, <3>1, <3>2, <3>3 DEF Octets
    <3>5. f[<<k, kb[2]>>] = kb
      BY <3>1, <3>2, <3>4
    <3> QED
      BY <3>4, <3>5
  <2> HIDE DEF Rest
  <2>4. f \in [Octets(t) -> Rest]
    BY <2>1
  <2> HIDE DEF f
  <2> QED
    BY <2>2, <2>3, <2>4, Fun_IsBij
<1>4. IsFiniteSet(First) /\ Cardinality(First) = Bytes(Head(q))
  BY <1>1, OctetsOf
<1>5. /\ IsFiniteSet(Octets(t)) /\ Cardinality(Octets(t)) = SizeOf(t)
      /\ Cardinality(Octets(q)) = SizeOf(q)
  BY <1>2, OctetsFinite
<1>6. IsFiniteSet(Rest) /\ Cardinality(Rest) = SizeOf(t)
  <2>1. ExistsBijection(Octets(t), Rest)
    BY <1>3 DEF ExistsBijection
  <2> QED
    BY <1>5, <2>1, FS_Bijection
<1>7. First \cup Rest = Octets(q) /\ First \cap Rest = {}
  OBVIOUS
<1> HIDE DEF First, Rest, f
<1>8. Cardinality(First \cup Rest)
        = Cardinality(First) + Cardinality(Rest) - Cardinality(First \cap Rest)
  BY <1>4, <1>6, FS_Union
<1>9. /\ Cardinality(First \cap Rest) = 0
      /\ Cardinality(First) \in Nat /\ Cardinality(Rest) \in Nat
  BY <1>4, <1>6, <1>7, FS_EmptySet, FS_CardinalityType
<1>10. Cardinality(First \cup Rest) = Cardinality(First) + Cardinality(Rest)
  BY <1>8, <1>9
<1>11. SizeOf(q) = Bytes(Head(q)) + SizeOf(t)
  BY <1>4, <1>5, <1>6, <1>7, <1>10
<1> QED
  BY <1>2, <1>4, <1>6, <1>9, <1>11 DEF t

(***************************************************************************)
(* An empty queue has no size.                                             *)
(***************************************************************************)
LEMMA SizeOfEmpty == SizeOf(<<>>) = 0
<1>1. {kb \in (DOMAIN <<>>) \X (1 .. 2) : kb[2] <= Bytes(<<>>[kb[1]])} = {}
  OBVIOUS
<1> QED
  BY <1>1, FS_EmptySet DEF SizeOf

----------------------------------------------------------------------------
(* The connection, whose byte count is the size of its queue               *)

(***************************************************************************)
(* QueueExact, said of any value of the connection.                        *)
(***************************************************************************)
QueueSound(c) ==
    /\ c.queued = SizeOf(c.queue)
    /\ c.queued <= MaxQueued
    /\ c.closed /\ ~c.clearing => c.queue = <<>>

(***************************************************************************)
(* What leaves the queue alone and ends no closing.                        *)
(***************************************************************************)
SameQueue(c, d) ==
    /\ d.queue = c.queue
    /\ d.queued = c.queued
    /\ d.closed /\ ~d.clearing => c.closed /\ ~c.clearing

(***************************************************************************)
(* It does not disturb the invariant.                                      *)
(***************************************************************************)
LEMMA SameQueueSound ==
  ASSUME NEW c, NEW d, QueueSound(c), SameQueue(c, d)
  PROVE  QueueSound(d)
BY DEF QueueSound, SameQueue

(***************************************************************************)
(* send() adds a PDU when there is room for it, to a connection that is    *)
(* not closed.                                                             *)
(***************************************************************************)
LEMMA EnqueueQueue ==
  ASSUME NEW c \in OwnConn, NEW p \in Own, NEW late, QueueSound(c)
  PROVE  QueueSound(Enqueue(c, p, late))
<1> DEFINE d == Enqueue(c, p, late)
           q == Append(c.queue, p)
           n == c.queued + Bytes(p)
<1>1. CASE c.closed
  BY <1>1 DEF Enqueue
<1>2. CASE ~c.closed /\ Behind(c, p, late)
  <2>1. d = [c EXCEPT !.dropping = TRUE]
    BY <1>2 DEF Enqueue
  <2>2. SameQueue(c, d)
    BY <2>1 DEF OwnConn, SameQueue
  <2> QED
    BY <2>2, SameQueueSound
<1>3. CASE ~c.closed /\ ~Behind(c, p, late)
  <2>1. c.queue \in Seq(Own) /\ c.queued \in Int /\ Bytes(p) \in {1, 2}
    BY DEF OwnConn, Bytes
  <2>2. n <= MaxQueued
    BY <1>3, <2>1, RoomAssumption DEF Behind
  <2>3. SizeOf(q) = n
    BY <2>1, SizeOfAppend DEF QueueSound
  <2>4. d = [c EXCEPT !.queue = q, !.queued = n]
    BY <1>3 DEF Enqueue, OwnConn
  <2> HIDE DEF d, q, n
  <2>5. d.queue = q /\ d.queued = n /\ d.closed = c.closed
    BY <2>4 DEF OwnConn
  <2> QED
    BY <1>3, <2>2, <2>3, <2>5 DEF QueueSound, d
<1> QED
  BY <1>1, <1>2, <1>3

(***************************************************************************)
(* The writer thread takes the first PDU.                                  *)
(***************************************************************************)
LEMMA TakeQueue ==
  ASSUME conn \in OwnConn, QueueSound(conn), Take
  PROVE  QueueSound(conn')
<1> DEFINE q == Tail(conn.queue)
           b == Bytes(Head(conn.queue))
<1>1. conn.queue \in Seq(Own) /\ conn.queued \in Int /\ conn.queue # <<>>
  BY DEF OwnConn, Take
<1>2. /\ b \in Nat /\ SizeOf(q) \in Nat
      /\ SizeOf(conn.queue) = b + SizeOf(q)
  BY <1>1, SizeOfTail
<1> HIDE DEF q, b
<1>3. /\ conn'.queue = q /\ conn'.queued = conn.queued - b
      /\ conn'.closed = conn.closed /\ ~conn.closed
  BY DEF Take, OwnConn, q, b
<1>4. /\ conn.queued = b + SizeOf(q) /\ conn.queued <= MaxQueued
  BY <1>2 DEF QueueSound
<1>5. conn'.queued = SizeOf(q) /\ conn'.queued <= MaxQueued
  BY <1>1, <1>2, <1>3, <1>4, RoomAssumption
<1> QED
  BY <1>3, <1>5 DEF QueueSound

(***************************************************************************)
(* close() marks the connection, then empties its queue.                   *)
(***************************************************************************)
LEMMA CloseQueue ==
  ASSUME NEW c \in OwnConn, QueueSound(c) PROVE QueueSound(SetClosed(c))
<1>1. SameQueue(c, SetClosed(c))
  BY DEF SetClosed, SameQueue, OwnConn
<1> QED
  BY <1>1, SameQueueSound

(***************************************************************************)
(* A step of the server.                                                   *)
(***************************************************************************)
LEMMA ServerQueue ==
  ASSUME ServerSound, QueueSound(conn), ServerNext
  PROVE  QueueSound(conn')
<1>1. conn \in OwnConn /\ (conn.serving = "handling" => conn.request \in Own)
  BY DEF ServerSound, ConnSound
<1>2. CASE \/ Accept \/ AcceptFails \/ List \/ Associate \/ Read
           \/ AfterResponse \/ Forget \/ Write \/ Hang
  <2>1. SameQueue(conn, conn')
    BY <1>1, <1>2
    DEF Accept, AcceptFails, List, Associate, Read, AfterResponse, Forget,
        Write, Hang, SameQueue, OwnConn
  <2> QED
    BY <2>1, SameQueueSound
<1>3. CASE End \/ WriteFails \/ Stop
  <2>1. conn' = SetClosed(conn) \/ conn' = conn
    BY <1>3 DEF End, WriteFails, Stop
  <2> QED
    BY <1>1, <2>1, CloseQueue
<1>4. CASE Drop
  <2> DEFINE c == [conn EXCEPT !.dropping = FALSE]
  <2>1. c \in OwnConn /\ SameQueue(conn, c)
    BY <1>1 DEF OwnConn, SameQueue
  <2>2. conn' = SetClosed(c)
    BY <1>4 DEF Drop
  <2> HIDE DEF c
  <2> QED
    BY <2>1, <2>2, SameQueueSound, CloseQueue
<1>5. CASE Clear
  <2>1. conn'.queue = <<>> /\ conn'.queued = 0
    BY <1>1, <1>5 DEF Clear, OwnConn
  <2> QED
    BY <2>1, SizeOfEmpty, RoomAssumption DEF QueueSound
<1>6. ASSUME NEW late \in BOOLEAN, Handle(late) PROVE QueueSound(conn')
  <2> DEFINE c == [conn EXCEPT !.serving = "after", !.served = @ + 1]
             kind == IF conn.request.kind = "request" THEN "response"
                     ELSE "reject"
             p == Response(kind, conn.request)
  <2>1. conn.request \in Own /\ conn.served + 1 \in Nat
    BY <1>1, <1>6 DEF Handle, OwnConn
  <2>2. p \in Own
    BY <2>1, OwnPdus
  <2>3. c \in OwnConn /\ SameQueue(conn, c)
    BY <1>1, <2>1 DEF OwnConn, SameQueue, Stages
  <2>4. conn' = Enqueue(c, p, late)
    BY <1>6 DEF Handle
  <2> HIDE DEF c, p
  <2> QED
    BY <2>2, <2>3, <2>4, SameQueueSound, EnqueueQueue
<1>7. ASSUME NEW late \in BOOLEAN, Conclude(late) PROVE QueueSound(conn')
  <2> DEFINE c == [conn EXCEPT !.serving = "ending", !.request = None,
                               !.served = @ + 1]
             p == Response("concluded", conn.request)
  <2>1. conn.request \in Own /\ conn.served + 1 \in Nat
    BY <1>1, <1>7 DEF Conclude, OwnConn
  <2>2. p \in Own
    BY <2>1, OwnPdus
  <2>3. c \in OwnConn /\ SameQueue(conn, c)
    BY <1>1, <2>1 DEF OwnConn, SameQueue, Stages
  <2>4. conn' = Enqueue(c, p, late)
    BY <1>7 DEF Conclude
  <2> HIDE DEF c, p
  <2> QED
    BY <2>2, <2>3, <2>4, SameQueueSound, EnqueueQueue
<1>8. ASSUME NEW late \in BOOLEAN, SendReport(late) PROVE QueueSound(conn')
  BY <1>1, <1>8, OwnPdus, EnqueueQueue DEF SendReport
<1>9. CASE Take
  BY <1>1, <1>9, TakeQueue
<1> QED
  BY <1>2, <1>3, <1>4, <1>5, <1>6, <1>7, <1>8, <1>9
  DEF ServerNext, ServingThread, WriterThread, Closer

(***************************************************************************)
(* _queued is the size of the send queue and within send_queue_bytes, and  *)
(* a closed connection holds nothing, for every bound and however senders, *)
(* the writer thread and those who close the connection interleave.        *)
(***************************************************************************)
THEOREM QueueIsExact == Spec => []QueueExact
<1>1. Init => QueueSound(conn)
  <2> SUFFICES ASSUME Init PROVE QueueSound(conn)
    OBVIOUS
  <2>1. conn.queue = <<>> /\ conn.queued = 0
    BY DEF Init, ServerInit
  <2> QED
    BY <2>1, SizeOfEmpty, RoomAssumption DEF QueueSound
<1>2. SessionInv /\ QueueSound(conn) /\ [Next]_vars => QueueSound(conn)'
  <2> SUFFICES ASSUME SessionInv, QueueSound(conn), [Next]_vars
               PROVE  QueueSound(conn')
    BY DEF QueueSound
  <2>1. CASE ServerNext
    BY <2>1, ServerQueue DEF SessionInv
  <2>2. CASE ~ServerNext
    <3>1. conn' = conn
      BY <2>2 DEF Next, OtherPdu, vars, server
    <3> QED
      BY <3>1
  <2> QED
    BY <2>1, <2>2
<1>3. QueueSound(conn) => QueueExact
  BY DEF QueueSound, QueueExact
<1> QED
  BY <1>1, <1>2, <1>3, Invariance, PTL DEF Spec

=============================================================================
