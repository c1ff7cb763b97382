------------------------ MODULE ControlClientProofs ------------------------
(***************************************************************************)
(* Proofs about ControlClient, for every number of clients, of calls and   *)
(* of commands.                                                            *)
(***************************************************************************)
EXTENDS ControlClient, ControlProofs

----------------------------------------------------------------------------
(* What a queue holds                                                      *)

Holds(s, P) == \E i \in DOMAIN s : s[i] \in P

AtMostOne(s, P) ==
    \A i, j \in DOMAIN s : s[i] \in P /\ s[j] \in P => i = j

(***************************************************************************)
(* An element joins the end of a queue.                                    *)
(***************************************************************************)
LEMMA Joins ==
  ASSUME NEW S, NEW s \in Seq(S), NEW e \in S
  PROVE  /\ Append(s, e) \in Seq(S)
         /\ \A P : Holds(Append(s, e), P) <=> Holds(s, P) \/ e \in P
         /\ \A P : AtMostOne(s, P) /\ (e \in P => ~Holds(s, P))
                     => AtMostOne(Append(s, e), P)
<1> DEFINE s2 == Append(s, e)
           last == Len(s) + 1
<1>1. /\ s2 \in Seq(S) /\ DOMAIN s2 = DOMAIN s \cup {last}
      /\ last \notin DOMAIN s /\ s2[last] = e
      /\ \A i \in DOMAIN s : s2[i] = s[i]
  <2>1. /\ s2 \in Seq(S) /\ Len(s2) = Len(s) + 1
        /\ \A i \in 1 .. Len(s) : s2[i] = s[i]
        /\ s2[Len(s) + 1] = e
    BY AppendProperties
  <2>2. Len(s) \in Nat /\ DOMAIN s = 1 .. Len(s) /\ DOMAIN s2 = 1 .. Len(s2)
    BY <2>1, LenProperties
  <2> QED
    BY <2>1, <2>2
<1> HIDE DEF s2, last
<1>2. \A P : Holds(s2, P) <=> Holds(s, P) \/ e \in P
  BY <1>1 DEF Holds
<1>3. \A P : AtMostOne(s, P) /\ (e \in P => ~Holds(s, P)) => AtMostOne(s2, P)
  BY <1>1 DEF Holds, AtMostOne
<1> QED
  BY <1>1, <1>2, <1>3 DEF s2

(***************************************************************************)
(* The first element leaves a queue.                                       *)
(***************************************************************************)
LEMMA Goes ==
  ASSUME NEW S, NEW s \in Seq(S), s # <<>>
  PROVE  /\ Head(s) \in S /\ Tail(s) \in Seq(S)
         /\ \A P : Holds(s, P) <=> Head(s) \in P \/ Holds(Tail(s), P)
         /\ \A P : AtMostOne(s, P) =>
               /\ AtMostOne(Tail(s), P)
               /\ Head(s) \in P => ~Holds(Tail(s), P)
<1> DEFINE s2 == Tail(s)
<1>1. /\ Head(s) \in S /\ Head(s) = s[1] /\ 1 \in DOMAIN s
      /\ s2 \in Seq(S)
      /\ \A i \in DOMAIN s2 : i + 1 \in DOMAIN s /\ s2[i] = s[i + 1]
                              /\ i + 1 # 1 /\ i \in Nat
      /\ \A j \in DOMAIN s : j # 1 =>
            j - 1 \in DOMAIN s2 /\ s2[j - 1] = s[j]
  <2>1. /\ s2 \in Seq(S) /\ Len(s2) = Len(s) - 1
        /\ \A i \in 1 .. Len(s2) : s2[i] = s[i + 1]
    BY HeadTailProperties
  <2>2. /\ Len(s) \in Nat /\ DOMAIN s = 1 .. Len(s)
        /\ Len(s2) \in Nat /\ DOMAIN s2 = 1 .. Len(s2)
    BY <2>1, LenProperties
  <2>3. Len(s) # 0
    BY EmptySeq
  <2>4. Head(s) = s[1] /\ 1 \in DOMAIN s
    BY <2>2, <2>3
  <2>5. Head(s) \in S
    BY <2>4, ElementOfSeq, <2>2
  <2>6. \A i \in DOMAIN s2 : /\ i + 1 \in DOMAIN s /\ s2[i] = s[i + 1]
                             /\ i + 1 # 1 /\ i \in Nat
    BY <2>1, <2>2, <2>3
  <2>7. \A j \in DOMAIN s : j # 1 => j - 1 \in DOMAIN s2 /\ s2[j - 1] = s[j]
    BY <2>1, <2>2, <2>3
  <2> QED
    BY <2>1, <2>4, <2>5, <2>6, <2>7
<1> HIDE DEF s2
<1>2. \A P : Holds(s, P) <=> Head(s) \in P \/ Holds(s2, P)
  <2>1. ASSUME NEW P, Holds(s, P) PROVE Head(s) \in P \/ Holds(s2, P)
    BY <1>1, <2>1 DEF Holds
  <2>2. ASSUME NEW P, Head(s) \in P \/ Holds(s2, P) PROVE Holds(s, P)
    BY <1>1, <2>2 DEF Holds
  <2> QED
    BY <2>1, <2>2
<1>3. ASSUME NEW P, AtMostOne(s, P)
      PROVE  /\ AtMostOne(s2, P)
             /\ Head(s) \in P => ~Holds(s2, P)
  <2>1. ASSUME NEW i \in DOMAIN s2, NEW j \in DOMAIN s2, s2[i] \in P, s2[j] \in P
        PROVE  i = j
    <3>1. i + 1 = j + 1
      BY <1>1, <1>3, <2>1 DEF AtMostOne
    <3> QED
      BY <1>1, <3>1
  <2>2. ASSUME NEW i \in DOMAIN s2, s2[i] \in P, Head(s) \in P
        PROVE  FALSE
    BY <1>1, <1>3, <2>2 DEF AtMostOne
  <2> QED
    BY <2>1, <2>2 DEF AtMostOne, Holds
<1> QED
  BY <1>1, <1>2, <1>3 DEF s2

(***************************************************************************)
(* An empty queue holds nothing.                                           *)
(***************************************************************************)
LEMMA Emptied == \A S, P : <<>> \in Seq(S) /\ ~Holds(<<>>, P) /\ AtMostOne(<<>>, P)
<1>1. \A S : <<>> \in Seq(S)
  BY EmptySeq
<1>2. DOMAIN <<>> = {}
  BY EmptySeq
<1> QED
  BY <1>1, <1>2 DEF Holds, AtMostOne

----------------------------------------------------------------------------
(* Clients that call operate() are clients of the object                   *)

Kinds == {"select", "operate", "cancel"}

Request0 == [kind : Kinds, n : Nat, delayed : BOOLEAN]
Response == [kind : {"accepted", "refused"}, to : [kind : Kinds, n : Nat]]
Termination == [kind : {"termination"}, cmd : Nat]

ClientTyped ==
    /\ call \in [Conns -> Call]
    /\ requests \in [Conns -> Seq(Request0)]
    /\ answers \in [Conns -> Seq(Response \cup Termination)]
    /\ issued \in Seq(Nat) /\ Len(issued) = Len(cmds)

(***************************************************************************)
(* What the server does for the request at the head of a queue.            *)
(***************************************************************************)
LEMMA Serves ==
  ASSUME ClientTyped, NEW c \in Conns, Serve(c)
  PROVE  LET request == Head(requests[c])
         IN  /\ requests[c] # <<>> /\ request \in Request0
             /\ requests' = [requests EXCEPT ![c] = Tail(@)]
             /\ call' = call
             /\ \/ /\ request.kind = "select"
                   /\ SelectBySBO(c) \/ SelectBySBOw(c)
                   /\ Reply(c, "accepted") /\ UNCHANGED issued
                \/ request.kind \in {"select", "operate"} /\ Refused(c)
                \/ request.kind = "operate" /\ Operated(c, request.delayed)
                \/ /\ request.kind = "cancel"
                   /\ Cancel(c) \/ (Serving(c) /\ selection # c /\ UNCHANGED vars)
                   /\ Reply(c, "accepted") /\ UNCHANGED issued
<1> DEFINE request == Head(requests[c])
<1>1. /\ requests[c] # <<>> /\ requests[c] \in Seq(Request0)
      /\ requests' = [requests EXCEPT ![c] = Tail(@)] /\ call' = call
  BY DEF Serve, ClientTyped
<1>2. request \in Request0
  BY <1>1, Goes
<1>3. request.kind \in Kinds
  BY <1>2 DEF Request0
<1>4. CASE request.kind = "select"
  BY <1>1, <1>2, <1>4 DEF Serve
<1>5. CASE request.kind = "operate"
  BY <1>1, <1>2, <1>5 DEF Serve
<1>6. CASE request.kind = "cancel"
  BY <1>1, <1>2, <1>6 DEF Serve
<1> QED
  BY <1>3, <1>4, <1>5, <1>6 DEF Kinds

(***************************************************************************)
(* What a client or the server does is a step of the object, or none of    *)
(* its own; no write of ctlModel is among them.                            *)
(***************************************************************************)
LEMMA CallsStep ==
  ASSUME ClientTyped, [ClientNext]_cvars
  PROVE  [Next]_vars /\ ctlModel' = ctlModel
<1>0. UNCHANGED vars => ctlModel' = ctlModel
  BY DEF vars
<1>1. ASSUME NEW c \in Conns, Serve(c)
      PROVE  [Next]_vars /\ ctlModel' = ctlModel
  <2>1. ASSUME SelectBySBO(c) \/ SelectBySBOw(c)
        PROVE  Request(c) /\ ctlModel' = ctlModel
    BY <2>1 DEF Request, SelectBySBO, SelectBySBOw
  <2>2. ASSUME Cancel(c)
        PROVE  Request(c) /\ ctlModel' = ctlModel
    BY <2>2 DEF Request, Cancel
  <2>3. ASSUME NEW delayed \in BOOLEAN, Operated(c, delayed)
        PROVE  Request(c) /\ ctlModel' = ctlModel
    BY <2>3 DEF Operated, Request, OperLater, OperNow
  <2>4. Head(requests[c]) \in Request0 => Head(requests[c]).delayed \in BOOLEAN
    BY DEF Request0
  <2>5. Refused(c) => UNCHANGED vars
    BY DEF Refused
  <2> QED
    BY <1>0, <1>1, <2>1, <2>2, <2>3, <2>4, <2>5, Serves DEF Next
<1>2. ASSUME NEW c \in Conns, NEW delayed \in BOOLEAN,
             Operate(c, delayed) \/ Answer(c, delayed)
      PROVE  UNCHANGED vars
  BY <1>2 DEF Operate, Answer
<1>3. ASSUME NEW c \in Conns, Watch(c) \/ Terminated(c) \/ GivesUp(c)
      PROVE  UNCHANGED vars
  BY <1>3 DEF Watch, Terminated, GivesUp
<1>4. ASSUME NEW c \in Conns, Leaves(c)
      PROVE  [Next]_vars /\ ctlModel' = ctlModel
  BY <1>4 DEF Leaves, Next, Lose, Forget
<1>5. ASSUME Engine PROVE Next /\ ctlModel' = ctlModel
  <2>1. ASSUME NEW id \in DOMAIN cmds, Follow(id)
        PROVE  Next /\ ctlModel' = ctlModel
    BY <2>1 DEF Next, Follow, Respond, RunRefused, Run, Tell
  <2>2. Finish \/ FinishEnds => Next /\ ctlModel' = ctlModel
    BY DEF Next, Finish, FinishEnds
  <2> QED
    BY <1>5, <2>1, <2>2 DEF Engine
<1>6. Lapse => Next /\ ctlModel' = ctlModel
  BY DEF Lapse, Next, SelectionLapses
<1>7. UNCHANGED cvars => UNCHANGED vars
  BY DEF cvars
<1> QED
  BY <1>0, <1>1, <1>2, <1>3, <1>4, <1>5, <1>6, <1>7 DEF ClientNext

----------------------------------------------------------------------------
(* What a step does to one client: its call goes from t to t2, its         *)
(* requests from rs to rs2, and its answers from as to as2; link tells     *)
(* whether its connection is up, and model is ctlModel.                    *)

\* The request that the call waits for joins the others.
Sends(link, rs, rs2, t) ==
    IF link = "open"
    THEN \E delayed \in BOOLEAN :
            rs2 = Append(rs, [kind |-> t.at, n |-> t.n, delayed |-> delayed])
    ELSE rs2 = rs

\* The answers to it.
For(t) == {a \in Response : a.to = [kind |-> t.at, n |-> t.n]}

Starts(t, rs, as, t2, rs2, as2, link, model) ==
    /\ t.at = "idle"
    /\ t2.at = IF model \in Sbo THEN "select" ELSE "operate"
    /\ t2.n = t.n + 1 /\ t2.seen = <<>> /\ t2.result = "none"
    /\ t2.late = t.late
    /\ Sends(link, rs, rs2, t2)
    /\ as2 = as

Continues(t, t2) == t2.n = t.n /\ t2.seen = t.seen

GoesOn(t, rs, t2, rs2, link, model) ==
    /\ t2.late = t.late
    /\ \/ /\ t.at = "select" /\ t2.at = "operate"
          /\ Sends(link, rs, rs2, t2)
       \/ /\ t.at = "operate" /\ model \in Enhanced /\ t2.at = "termination"
          /\ rs2 = rs
       \/ /\ t.at = "operate" /\ model \notin Enhanced
          /\ t2.at = "idle" /\ t2.result = "done" /\ rs2 = rs
       \/ /\ t.at = "cancel" /\ t2.at = "idle" /\ t2.result = "error"
          /\ rs2 = rs

Undoes(t, rs, t2, rs2, link, model) ==
    \/ /\ t.at = "operate" /\ model \in Sbo /\ t2.at = "cancel"
       /\ Sends(link, rs, rs2, t2)
    \/ /\ t.at = "operate" => model \notin Sbo
       /\ t2.at = "idle" /\ t2.result = "error" /\ rs2 = rs

Hears(t, rs, as, t2, rs2, as2, link, model) ==
    /\ as # <<>> /\ as2 = Tail(as)
    /\ \/ Head(as) \in Response \ For(t) /\ t2 = t /\ rs2 = rs
       \/ /\ Head(as) \in For(t) /\ t.at \in Kinds /\ Continues(t, t2)
          /\ \/ Head(as).kind = "accepted" /\ GoesOn(t, rs, t2, rs2, link, model)
             \/ /\ Head(as).kind = "refused" /\ t2.late = t.late
                /\ Undoes(t, rs, t2, rs2, link, model)

Gives(t, rs, as, t2, rs2, as2, link, model) ==
    /\ Continues(t, t2) /\ as2 = as /\ t2.late = t.late \cup {t.at}
    /\ \/ t.at \in Kinds /\ Undoes(t, rs, t2, rs2, link, model)
       \/ /\ t.at = "termination" /\ t2.at = "idle" /\ t2.result = "error"
          /\ rs2 = rs

Collects(t, rs, as, t2, rs2, as2) ==
    /\ as # <<>> /\ Head(as) \in Termination /\ as2 = Tail(as) /\ rs2 = rs
    /\ t2.at = t.at /\ t2.n = t.n /\ t2.result = t.result /\ t2.late = t.late
    /\ t2.seen = IF t.at = "idle" THEN t.seen ELSE Append(t.seen, Head(as).cmd)

Ends(t, rs, as, t2, rs2, as2) ==
    /\ t.at = "termination" /\ t.seen # <<>>
    /\ t2.at = "idle" /\ t2.result \in {"done", "error"}
    /\ Continues(t, t2) /\ t2.late = t.late /\ rs2 = rs /\ as2 = as

\* A step of the client.
Moves(t, rs, as, t2, rs2, as2, link, model) ==
    \/ Starts(t, rs, as, t2, rs2, as2, link, model)
    \/ Hears(t, rs, as, t2, rs2, as2, link, model)
    \/ Gives(t, rs, as, t2, rs2, as2, link, model)
    \/ Collects(t, rs, as, t2, rs2, as2)
    \/ Ends(t, rs, as, t2, rs2, as2)

\* The server's answer to the first request.
Replies(rs, as, rs2, as2, link, verdict) ==
    /\ rs # <<>> /\ Head(rs) \in Request0 /\ rs2 = Tail(rs)
    /\ as2 = IF link = "open"
             THEN Append(as, [kind |-> verdict,
                              to |-> [kind |-> Head(rs).kind, n |-> Head(rs).n]])
             ELSE as

\* The types of a client, and of what it is to become.
Typed(t, rs, as) ==
    /\ t \in Call /\ rs \in Seq(Request0)
    /\ as \in Seq(Response \cup Termination)

Others(c) ==
    \A d \in Conns \ {c} :
        /\ call'[d] = call[d] /\ requests'[d] = requests[d]
        /\ answers'[d] = answers[d]

(***************************************************************************)
(* The types of a call in each place.                                      *)
(***************************************************************************)
LEMMA CallType ==
  ASSUME NEW t \in Call
  PROVE  /\ t.at \in Kinds \cup {"termination", "idle"} /\ t.n \in Nat
         /\ t.seen \in Seq(Nat) /\ t.late \subseteq Kinds \cup {"termination"}
         /\ t.result \in {"none", "done", "error"}
BY DEF Call, Waits, Kinds

(***************************************************************************)
(* A request keeps the types of the queue.                                 *)
(***************************************************************************)
LEMMA SendsType ==
  ASSUME NEW link, NEW rs \in Seq(Request0), NEW rs2, NEW t,
         t.at \in Kinds, t.n \in Nat, Sends(link, rs, rs2, t)
  PROVE  rs2 \in Seq(Request0)
<1>1. CASE link # "open"
  BY <1>1 DEF Sends
<1>2. CASE link = "open"
  <2>1. PICK delayed \in BOOLEAN :
           rs2 = Append(rs, [kind |-> t.at, n |-> t.n, delayed |-> delayed])
    BY <1>2 DEF Sends
  <2>2. [kind |-> t.at, n |-> t.n, delayed |-> delayed] \in Request0
    BY DEF Request0
  <2> QED
    BY <2>1, <2>2, Joins
<1> QED
  BY <1>1, <1>2

(***************************************************************************)
(* Every step of a client keeps the types of its queues.                   *)
(***************************************************************************)
LEMMA MovesType ==
  ASSUME NEW t, NEW rs, NEW as, NEW t2 \in Call, NEW rs2, NEW as2, NEW link,
         NEW model, Typed(t, rs, as), Moves(t, rs, as, t2, rs2, as2, link, model)
  PROVE  Typed(t2, rs2, as2)
<1>1. /\ t \in Call /\ rs \in Seq(Request0)
      /\ as \in Seq(Response \cup Termination)
      /\ t2.n \in Nat
  BY CallType DEF Typed
<1>2. as # <<>> => Tail(as) \in Seq(Response \cup Termination)
  BY <1>1, Goes
<1>3. ASSUME t2.at \in Kinds, Sends(link, rs, rs2, t2) PROVE rs2 \in Seq(Request0)
  BY <1>1, <1>3, SendsType
<1>4. "select" \in Kinds /\ "operate" \in Kinds /\ "cancel" \in Kinds
  BY DEF Kinds
<1>5. CASE Starts(t, rs, as, t2, rs2, as2, link, model)
  BY <1>1, <1>3, <1>4, <1>5 DEF Starts, Typed
<1>6. CASE Hears(t, rs, as, t2, rs2, as2, link, model)
  BY <1>1, <1>2, <1>3, <1>4, <1>6 DEF Hears, GoesOn, Undoes, Typed
<1>7. CASE Gives(t, rs, as, t2, rs2, as2, link, model)
  BY <1>1, <1>3, <1>4, <1>7 DEF Gives, Undoes, Typed
<1>8. CASE Collects(t, rs, as, t2, rs2, as2)
  BY <1>1, <1>2, <1>8 DEF Collects, Typed
<1>9. CASE Ends(t, rs, as, t2, rs2, as2)
  BY <1>1, <1>9 DEF Ends, Typed
<1> QED
  BY <1>5, <1>6, <1>7, <1>8, <1>9 DEF Moves

(***************************************************************************)
(* What the server appends keeps the types of a queue.                     *)
(***************************************************************************)
LEMMA RepliesType ==
  ASSUME NEW rs \in Seq(Request0), NEW as \in Seq(Response \cup Termination),
         NEW rs2, NEW as2, NEW link, NEW verdict,
         verdict \in {"accepted", "refused"},
         Replies(rs, as, rs2, as2, link, verdict)
  PROVE  rs2 \in Seq(Request0) /\ as2 \in Seq(Response \cup Termination)
<1>1. rs # <<>> /\ rs2 = Tail(rs) /\ Head(rs) \in Request0
  BY DEF Replies
<1>2. rs2 \in Seq(Request0)
  BY <1>1, Goes
<1> DEFINE reply == [kind |-> verdict,
                     to |-> [kind |-> Head(rs).kind, n |-> Head(rs).n]]
<1>3. reply \in Response
  BY <1>1 DEF Request0, Response
<1>4. as2 = IF link = "open" THEN Append(as, reply) ELSE as
  BY DEF Replies
<1> HIDE DEF reply
<1>5. Append(as, reply) \in Seq(Response \cup Termination)
  BY <1>3, Joins
<1> QED
  BY <1>2, <1>4, <1>5

\* Only the client c changes.
Only(c) ==
    /\ call' = [call EXCEPT ![c] = call'[c]] /\ call'[c] \in Call
    /\ requests' = [requests EXCEPT ![c] = requests'[c]]
    /\ answers' = [answers EXCEPT ![c] = answers'[c]]

Move(c) ==
    Moves(call[c], requests[c], answers[c], call'[c], requests'[c], answers'[c],
          conn[c], ctlModel)

(***************************************************************************)
(* write or read.                                                          *)
(***************************************************************************)
LEMMA AskSends ==
  ASSUME ClientTyped, NEW c \in Conns, NEW delayed \in BOOLEAN,
         NEW kind, Ask(c, kind, delayed), call'[c].at = kind
  PROVE  /\ requests' = [requests EXCEPT ![c] = requests'[c]]
         /\ Sends(conn[c], requests[c], requests'[c], call'[c])
<1>1. requests \in [Conns -> Seq(Request0)]
  BY DEF ClientTyped
<1>2. requests'[c] =
         IF conn[c] = "open"
         THEN Append(requests[c], [kind |-> call'[c].at, n |-> call'[c].n,
                                   delayed |-> delayed])
         ELSE requests[c]
  BY <1>1 DEF Ask
<1>3. requests' = [requests EXCEPT ![c] = requests'[c]]
  BY <1>1 DEF Ask
<1> QED
  BY <1>2, <1>3 DEF Sends

(***************************************************************************)
(* operate() begins a call.                                                *)
(***************************************************************************)
LEMMA OperateMoves ==
  ASSUME ClientTyped, NEW c \in Conns, NEW delayed \in BOOLEAN,
         Operate(c, delayed)
  PROVE  Only(c) /\ Move(c) /\ UNCHANGED <<vars, issued>>
<1> DEFINE first == IF ctlModel \in Sbo THEN "select" ELSE "operate"
           t2 == [at |-> first, n |-> call[c].n + 1, seen |-> <<>>,
                  result |-> "none", late |-> call[c].late]
<1>1. /\ call[c].at = "idle" /\ call' = [call EXCEPT ![c] = t2]
      /\ Ask(c, first, delayed) /\ UNCHANGED <<vars, answers, issued>>
  BY DEF Operate
<1>2. call \in [Conns -> Call] /\ answers \in [Conns -> Seq(Response \cup Termination)]
  BY DEF ClientTyped
<1>3. t2 \in Call
  <2>1. call[c].n + 1 \in Nat /\ call[c].late \in SUBSET Waits
    BY <1>2 DEF Call
  <2>2. first \in Waits /\ <<>> \in Seq(Nat)
    BY Emptied DEF Waits
  <2> HIDE DEF first
  <2> QED
    BY <2>1, <2>2 DEF Call
<1>4. /\ t2.at = first /\ t2.n = call[c].n + 1 /\ t2.seen = <<>>
      /\ t2.result = "none" /\ t2.late = call[c].late
  OBVIOUS
<1> HIDE DEF t2
<1>5. call'[c] = t2 /\ call' = [call EXCEPT ![c] = call'[c]]
  BY <1>1, <1>2
<1>6. /\ requests' = [requests EXCEPT ![c] = requests'[c]]
      /\ Sends(conn[c], requests[c], requests'[c], call'[c])
  BY <1>1, <1>4, <1>5, AskSends
<1>7. answers' = [answers EXCEPT ![c] = answers'[c]] /\ answers'[c] = answers[c]
  BY <1>1, <1>2
<1>8. Starts(call[c], requests[c], answers[c], call'[c], requests'[c],
             answers'[c], conn[c], ctlModel)
  BY <1>1, <1>4, <1>5, <1>6, <1>7 DEF Starts
<1> QED
  BY <1>1, <1>3, <1>5, <1>6, <1>7, <1>8 DEF Only, Move, Moves

(***************************************************************************)
(* A call that ends, and one that goes on to another request.              *)
(***************************************************************************)
LEMMA ReturnMoves ==
  ASSUME ClientTyped, NEW c \in Conns, NEW result \in {"done", "error"},
         NEW late \in SUBSET Waits,
         call' = [call EXCEPT ![c].at = "idle", ![c].result = result,
                              ![c].late = @ \cup late],
         UNCHANGED requests
  PROVE  /\ call' = [call EXCEPT ![c] = call'[c]] /\ call'[c] \in Call
         /\ requests' = [requests EXCEPT ![c] = requests'[c]]
         /\ requests'[c] = requests[c]
         /\ call'[c].at = "idle" /\ call'[c].result = result
         /\ call'[c].late = call[c].late \cup late
         /\ Continues(call[c], call'[c])
<1>1. /\ call \in [Conns -> Call] /\ call[c] \in Call
      /\ requests \in [Conns -> Seq(Request0)]
  BY DEF ClientTyped
<1> DEFINE t2 == [call[c] EXCEPT !.at = "idle", !.result = result,
                                 !.late = @ \cup late]
<1>2. /\ t2 \in Call /\ t2.at = "idle" /\ t2.result = result
      /\ t2.late = call[c].late \cup late
      /\ t2.n = call[c].n /\ t2.seen = call[c].seen
  BY <1>1 DEF Call
<1>3. call' = [call EXCEPT ![c] = t2]
  BY <1>1
<1> HIDE DEF t2
<1>4. call'[c] = t2 /\ call' = [call EXCEPT ![c] = call'[c]]
  BY <1>1, <1>3
<1>5. requests' = [requests EXCEPT ![c] = requests'[c]]
      /\ requests'[c] = requests[c]
  BY <1>1
<1> QED
  BY <1>2, <1>4, <1>5 DEF Continues

(***************************************************************************)
(* A positive answer.                                                      *)
(***************************************************************************)
LEMMA AcceptedMoves ==
  ASSUME ClientTyped, NEW c \in Conns, NEW delayed \in BOOLEAN,
         Asked(c), Accepted(c, delayed)
  PROVE  /\ call' = [call EXCEPT ![c] = call'[c]] /\ call'[c] \in Call
         /\ requests' = [requests EXCEPT ![c] = requests'[c]]
         /\ Continues(call[c], call'[c])
         /\ GoesOn(call[c], requests[c], call'[c], requests'[c],
                   conn[c], ctlModel)
<1>1. /\ call \in [Conns -> Call] /\ call[c] \in Call
      /\ requests \in [Conns -> Seq(Request0)]
  BY DEF ClientTyped
<1>2. ASSUME NEW at \in {"operate", "termination"},
             call' = [call EXCEPT ![c].at = at]
      PROVE  /\ call' = [call EXCEPT ![c] = call'[c]] /\ call'[c] \in Call
             /\ Continues(call[c], call'[c]) /\ call'[c].late = call[c].late
             /\ call'[c].at = at
  <2> DEFINE t2 == [call[c] EXCEPT !.at = at]
  <2>1. /\ t2 \in Call /\ t2.at = at /\ t2.late = call[c].late
        /\ t2.n = call[c].n /\ t2.seen = call[c].seen
    BY <1>1 DEF Call, Waits
  <2>2. call' = [call EXCEPT ![c] = t2]
    BY <1>1, <1>2
  <2> HIDE DEF t2
  <2>3. call'[c] = t2 /\ call' = [call EXCEPT ![c] = call'[c]]
    BY <1>1, <2>2
  <2> QED
    BY <2>1, <2>3 DEF Continues
<1>3. ASSUME UNCHANGED requests
      PROVE  /\ requests' = [requests EXCEPT ![c] = requests'[c]]
             /\ requests'[c] = requests[c]
  BY <1>1, <1>3
<1>4. CASE call[c].at = "select"
  <2>1. call' = [call EXCEPT ![c].at = "operate"] /\ Ask(c, "operate", delayed)
    BY <1>4 DEF Accepted, Go
  <2>2. /\ call' = [call EXCEPT ![c] = call'[c]] /\ call'[c] \in Call
        /\ Continues(call[c], call'[c]) /\ call'[c].late = call[c].late
        /\ call'[c].at = "operate"
    BY <1>2, <2>1
  <2> QED
    BY <1>4, <2>1, <2>2, AskSends DEF GoesOn
<1>5. CASE call[c].at = "operate" /\ ctlModel \in Enhanced
  <2>1. call' = [call EXCEPT ![c].at = "termination"] /\ UNCHANGED requests
    BY <1>5 DEF Accepted
  <2> QED
    BY <1>2, <1>3, <1>5, <2>1 DEF GoesOn
<1>6. ASSUME NEW result \in {"done", "error"}, Return(c, result)
      PROVE  /\ call' = [call EXCEPT ![c] = call'[c]] /\ call'[c] \in Call
             /\ Continues(call[c], call'[c]) /\ call'[c].late = call[c].late
             /\ call'[c].at = "idle" /\ call'[c].result = result
  <2> DEFINE t2 == [call[c] EXCEPT !.at = "idle", !.result = result]
  <2>1. /\ t2 \in Call /\ t2.at = "idle" /\ t2.result = result
        /\ t2.late = call[c].late
        /\ t2.n = call[c].n /\ t2.seen = call[c].seen
    BY <1>1 DEF Call
  <2>2. call' = [call EXCEPT ![c] = t2]
    BY <1>1, <1>6 DEF Return
  <2> HIDE DEF t2
  <2>3. call'[c] = t2 /\ call' = [call EXCEPT ![c] = call'[c]]
    BY <1>1, <2>2
  <2> QED
    BY <2>1, <2>3 DEF Continues
<1>7. CASE call[c].at = "operate" /\ ctlModel \notin Enhanced
  <2>1. Return(c, "done")
    BY <1>7 DEF Accepted
  <2>2. UNCHANGED requests
    BY <2>1 DEF Return
  <2> QED
    BY <1>3, <1>6, <1>7, <2>1, <2>2 DEF GoesOn
<1>8. CASE call[c].at = "cancel"
  <2>1. Return(c, "error")
    BY <1>8 DEF Accepted
  <2>2. UNCHANGED requests
    BY <2>1 DEF Return
  <2> QED
    BY <1>3, <1>6, <1>8, <2>1, <2>2 DEF GoesOn
<1> QED
  BY <1>4, <1>5, <1>7, <1>8 DEF Asked

(***************************************************************************)
(* A negative one, or none.                                                *)
(***************************************************************************)
LEMMA NotAcceptedMoves ==
  ASSUME ClientTyped, NEW c \in Conns, NEW late \in SUBSET Waits,
         NotAccepted(c, late)
  PROVE  /\ call' = [call EXCEPT ![c] = call'[c]] /\ call'[c] \in Call
         /\ requests' = [requests EXCEPT ![c] = requests'[c]]
         /\ Continues(call[c], call'[c])
         /\ call'[c].late = call[c].late \cup late
         /\ Undoes(call[c], requests[c], call'[c], requests'[c],
                   conn[c], ctlModel)
<1>1. /\ call \in [Conns -> Call] /\ call[c] \in Call
      /\ requests \in [Conns -> Seq(Request0)]
  BY DEF ClientTyped
<1>2. CASE call[c].at = "operate" /\ ctlModel \in Sbo
  <2> DEFINE t2 == [call[c] EXCEPT !.at = "cancel", !.late = @ \cup late]
  <2>1. /\ t2 \in Call /\ t2.at = "cancel" /\ t2.late = call[c].late \cup late
        /\ t2.n = call[c].n /\ t2.seen = call[c].seen
    BY <1>1 DEF Call, Waits
  <2>2. call' = [call EXCEPT ![c] = t2] /\ Ask(c, "cancel", FALSE)
    BY <1>1, <1>2 DEF NotAccepted
  <2> HIDE DEF t2
  <2>3. call'[c] = t2 /\ call' = [call EXCEPT ![c] = call'[c]]
    BY <1>1, <2>2
  <2>4. /\ requests' = [requests EXCEPT ![c] = requests'[c]]
        /\ Sends(conn[c], requests[c], requests'[c], call'[c])
    BY <2>1, <2>2, <2>3, AskSends
  <2> QED
    BY <1>2, <2>1, <2>3, <2>4 DEF Continues, Undoes
<1>3. CASE ~(call[c].at = "operate" /\ ctlModel \in Sbo)
  <2>1. /\ call' = [call EXCEPT ![c].at = "idle", ![c].result = "error",
                                ![c].late = @ \cup late]
        /\ UNCHANGED requests
    BY <1>3 DEF NotAccepted
  <2> QED
    BY <1>3, <2>1, ReturnMoves DEF Undoes
<1> QED
  BY <1>2, <1>3

(***************************************************************************)
(* An answer is heard, or found to be no one's.                            *)
(***************************************************************************)
LEMMA AnswerMoves ==
  ASSUME ClientTyped, NEW c \in Conns, NEW delayed \in BOOLEAN,
         Answer(c, delayed)
  PROVE  Only(c) /\ Move(c) /\ UNCHANGED <<vars, issued>>
<1> DEFINE t == call[c]
           answer == Head(answers[c])
<1>1. /\ call \in [Conns -> Call] /\ t \in Call
      /\ requests \in [Conns -> Seq(Request0)]
      /\ answers \in [Conns -> Seq(Response \cup Termination)]
  BY DEF ClientTyped
<1>2. /\ answers[c] # <<>> /\ answer.kind # "termination"
      /\ answers' = [answers EXCEPT ![c] = Tail(@)]
      /\ UNCHANGED <<vars, issued>>
  BY DEF Answer
<1>3. /\ answers' = [answers EXCEPT ![c] = answers'[c]]
      /\ answers'[c] = Tail(answers[c])
  BY <1>1, <1>2
<1>4. answer \in Response /\ answer.kind \in {"accepted", "refused"}
      /\ answer.to.kind \in Kinds
  <2>1. answer \in Response \cup Termination
    BY <1>1, <1>2, Goes
  <2>2. answer \notin Termination
    BY <1>2 DEF Termination
  <2>3. answer \in Response
    BY <2>1, <2>2
  <2> QED
    BY <2>3 DEF Response
<1>5. CASE ~Asked(c) \/ answer.to # [kind |-> t.at, n |-> t.n]
  <2>1. UNCHANGED <<call, requests>>
    BY <1>5 DEF Answer
  <2>2. answer \notin For(t)
    <3>1. ASSUME answer.to = [kind |-> t.at, n |-> t.n] PROVE Asked(c)
      <4>1. answer.to.kind = t.at
        BY <3>1
      <4> QED
        BY <1>4, <4>1 DEF Asked, Kinds
    <3> QED
      BY <1>5, <3>1 DEF For
  <2>3. /\ call' = [call EXCEPT ![c] = call'[c]] /\ call'[c] = t
        /\ requests' = [requests EXCEPT ![c] = requests'[c]]
        /\ requests'[c] = requests[c]
    BY <1>1, <2>1
  <2>4. Hears(call[c], requests[c], answers[c], call'[c], requests'[c],
              answers'[c], conn[c], ctlModel)
    BY <1>2, <1>3, <1>4, <2>2, <2>3 DEF Hears
  <2> QED
    BY <1>1, <1>2, <1>3, <2>3, <2>4 DEF Only, Move, Moves
<1>6. CASE Asked(c) /\ answer.to = [kind |-> t.at, n |-> t.n]
  <2>1. answer \in For(t) /\ t.at \in Kinds
    BY <1>4, <1>6 DEF For, Asked, Kinds
  <2>2. /\ call' = [call EXCEPT ![c] = call'[c]] /\ call'[c] \in Call
        /\ requests' = [requests EXCEPT ![c] = requests'[c]]
        /\ Continues(t, call'[c])
        /\ \/ /\ answer.kind = "accepted"
              /\ GoesOn(t, requests[c], call'[c], requests'[c],
                        conn[c], ctlModel)
           \/ /\ answer.kind = "refused" /\ call'[c].late = t.late
              /\ Undoes(t, requests[c], call'[c], requests'[c],
                        conn[c], ctlModel)
    <3>1. CASE answer.kind = "accepted"
      <4>1. Accepted(c, delayed)
        BY <1>6, <3>1 DEF Answer
      <4> QED
        BY <1>6, <3>1, <4>1, AcceptedMoves
    <3>2. CASE answer.kind = "refused"
      <4>1. NotAccepted(c, {})
        BY <1>6, <3>2 DEF Answer
      <4>2. t.late \cup {} = t.late /\ {} \in SUBSET Waits
        OBVIOUS
      <4> QED
        BY <3>2, <4>1, <4>2, NotAcceptedMoves
    <3> QED
      BY <1>4, <3>1, <3>2
  <2>3. Hears(call[c], requests[c], answers[c], call'[c], requests'[c],
              answers'[c], conn[c], ctlModel)
    BY <1>2, <1>3, <2>1, <2>2 DEF Hears
  <2> QED
    BY <1>2, <1>3, <2>2, <2>3 DEF Only, Move, Moves
<1> QED
  BY <1>5, <1>6

(***************************************************************************)
(* _Watch collects a CommandTermination.                                   *)
(***************************************************************************)
LEMMA WatchMoves ==
  ASSUME ClientTyped, NEW c \in Conns, Watch(c)
  PROVE  Only(c) /\ Move(c) /\ UNCHANGED <<vars, issued>>
<1> DEFINE t == call[c]
           e == Head(answers[c])
           t2 == [t EXCEPT !.seen = IF t.at = "idle" THEN @ ELSE Append(@, e.cmd)]
<1>1. /\ call \in [Conns -> Call] /\ t \in Call
      /\ requests \in [Conns -> Seq(Request0)]
      /\ answers \in [Conns -> Seq(Response \cup Termination)]
  BY DEF ClientTyped
<1>2. /\ answers[c] # <<>> /\ e.kind = "termination"
      /\ answers' = [answers EXCEPT ![c] = Tail(@)]
      /\ UNCHANGED <<vars, requests, issued>>
      /\ call' = [call EXCEPT ![c].seen =
                    IF t.at = "idle" THEN @ ELSE Append(@, e.cmd)]
  BY DEF Watch
<1>3. e \in Termination /\ e.cmd \in Nat
  <2>1. e \in Response \cup Termination
    BY <1>1, <1>2, Goes
  <2>2. e \notin Response
    BY <1>2 DEF Response
  <2>3. e \in Termination
    BY <2>1, <2>2
  <2> QED
    BY <2>3 DEF Termination
<1>4. /\ t2 \in Call /\ t2.at = t.at /\ t2.n = t.n /\ t2.result = t.result
      /\ t2.late = t.late
      /\ t2.seen = IF t.at = "idle" THEN t.seen ELSE Append(t.seen, e.cmd)
  <2>1. t.seen \in Seq(Nat)
    BY <1>1 DEF Call
  <2>2. Append(t.seen, e.cmd) \in Seq(Nat)
    BY <1>3, <2>1, Joins
  <2> QED
    BY <1>1, <2>1, <2>2 DEF Call
<1>5. call' = [call EXCEPT ![c] = t2]
  BY <1>1, <1>2
<1> HIDE DEF t2
<1>6. call'[c] = t2 /\ call' = [call EXCEPT ![c] = call'[c]]
  BY <1>1, <1>5
<1>7. /\ answers' = [answers EXCEPT ![c] = answers'[c]]
      /\ answers'[c] = Tail(answers[c])
      /\ requests' = [requests EXCEPT ![c] = requests'[c]]
      /\ requests'[c] = requests[c]
  BY <1>1, <1>2
<1>8. Collects(call[c], requests[c], answers[c], call'[c], requests'[c],
               answers'[c])
  BY <1>2, <1>3, <1>4, <1>6, <1>7 DEF Collects
<1> QED
  BY <1>2, <1>4, <1>6, <1>7, <1>8 DEF Only, Move, Moves

(***************************************************************************)
(* A call ends with the termination it has collected.                      *)
(***************************************************************************)
LEMMA TerminatedMoves ==
  ASSUME ClientTyped, NEW c \in Conns, Terminated(c)
  PROVE  Only(c) /\ Move(c) /\ UNCHANGED <<vars, issued>>
<1>1. /\ call \in [Conns -> Call] /\ call[c] \in Call
      /\ answers \in [Conns -> Seq(Response \cup Termination)]
  BY DEF ClientTyped
<1>2. PICK result \in {"done", "error"} : Return(c, result)
  BY DEF Terminated
<1>3. /\ call[c].at = "termination" /\ call[c].seen # <<>>
      /\ UNCHANGED <<vars, answers, issued>>
  BY DEF Terminated
<1>4. /\ call' = [call EXCEPT ![c].at = "idle", ![c].result = result]
      /\ UNCHANGED requests
  BY <1>2 DEF Return
<1>5. call' = [call EXCEPT ![c].at = "idle", ![c].result = result,
                           ![c].late = @ \cup {}]
  <2> DEFINE t2 == [call[c] EXCEPT !.at = "idle", !.result = result]
             t3 == [call[c] EXCEPT !.at = "idle", !.result = result,
                                   !.late = @ \cup {}]
  <2>1. t2 = t3
    BY <1>1 DEF Call
  <2>2. call' = [call EXCEPT ![c] = t2]
    BY <1>1, <1>4
  <2> HIDE DEF t2, t3
  <2>3. call' = [call EXCEPT ![c] = t3]
    BY <2>1, <2>2
  <2> QED
    BY <1>1, <2>3 DEF t3
<1>6. {} \in SUBSET Waits /\ call[c].late \cup {} = call[c].late
  OBVIOUS
<1>7. /\ call' = [call EXCEPT ![c] = call'[c]] /\ call'[c] \in Call
      /\ requests' = [requests EXCEPT ![c] = requests'[c]]
      /\ requests'[c] = requests[c]
      /\ call'[c].at = "idle" /\ call'[c].result = result
      /\ call'[c].late = call[c].late
      /\ Continues(call[c], call'[c])
  BY <1>4, <1>5, <1>6, ReturnMoves
<1>8. answers' = [answers EXCEPT ![c] = answers'[c]] /\ answers'[c] = answers[c]
  BY <1>1, <1>3
<1>9. Ends(call[c], requests[c], answers[c], call'[c], requests'[c], answers'[c])
  BY <1>3, <1>7, <1>8 DEF Ends
<1> QED
  BY <1>3, <1>7, <1>8, <1>9 DEF Only, Move, Moves

(***************************************************************************)
(* A call gives up waiting.                                                *)
(***************************************************************************)
LEMMA GivesUpMoves ==
  ASSUME ClientTyped, NEW c \in Conns, GivesUp(c)
  PROVE  Only(c) /\ Move(c) /\ UNCHANGED <<vars, issued>>
<1>1. /\ call \in [Conns -> Call] /\ call[c] \in Call
      /\ answers \in [Conns -> Seq(Response \cup Termination)]
  BY DEF ClientTyped
<1>2. /\ UNCHANGED <<vars, answers, issued>>
      /\ answers' = [answers EXCEPT ![c] = answers'[c]]
      /\ answers'[c] = answers[c]
  BY <1>1 DEF GivesUp
<1>3. CASE Asked(c)
  <2>1. NotAccepted(c, {call[c].at}) /\ {call[c].at} \in SUBSET Waits
        /\ call[c].at \in Kinds
    BY <1>3 DEF GivesUp, Asked, Waits, Kinds
  <2> QED
    BY <1>2, <2>1, NotAcceptedMoves DEF Only, Move, Moves, Gives
<1>4. CASE ~Asked(c)
  <2>1. /\ call[c].at = "termination"
        /\ call' = [call EXCEPT ![c].at = "idle", ![c].result = "error",
                                ![c].late = @ \cup {"termination"}]
        /\ UNCHANGED requests
    BY <1>4 DEF GivesUp
  <2>2. {"termination"} \in SUBSET Waits
    BY DEF Waits
  <2> QED
    BY <1>2, <2>1, <2>2, ReturnMoves DEF Only, Move, Moves, Gives
<1> QED
  BY <1>3, <1>4

(***************************************************************************)
(* The server answers the first request of c.                              *)
(***************************************************************************)
LEMMA ReplyReplies ==
  ASSUME ClientTyped, NEW c \in Conns, requests[c] # <<>>,
         requests' = [requests EXCEPT ![c] = Tail(@)], call' = call,
         NEW verdict \in {"accepted", "refused"}, Reply(c, verdict)
  PROVE  /\ Only(c) /\ call'[c] = call[c]
         /\ Replies(requests[c], answers[c], requests'[c], answers'[c],
                    conn[c], verdict)
<1>1. /\ call \in [Conns -> Call] /\ requests \in [Conns -> Seq(Request0)]
      /\ answers \in [Conns -> Seq(Response \cup Termination)]
  BY DEF ClientTyped
<1>2. /\ requests'[c] = Tail(requests[c])
      /\ requests' = [requests EXCEPT ![c] = requests'[c]]
      /\ Head(requests[c]) \in Request0
  BY <1>1, Goes
<1>3. /\ answers' = [answers EXCEPT ![c] = answers'[c]]
      /\ answers'[c] = IF conn[c] = "open"
                       THEN Append(answers[c],
                                   [kind |-> verdict,
                                    to |-> [kind |-> Head(requests[c]).kind,
                                            n |-> Head(requests[c]).n]])
                       ELSE answers[c]
  BY <1>1 DEF Reply
<1>4. call' = [call EXCEPT ![c] = call'[c]] /\ call'[c] = call[c]
      /\ call'[c] \in Call
  BY <1>1
<1> QED
  BY <1>2, <1>3, <1>4 DEF Only, Replies

(***************************************************************************)
(* One step at most of each command tells its client that it has ended.    *)
(***************************************************************************)
LEMMA TellsOne ==
  ASSUME ClientTyped, Tells, NEW c \in Conns
  PROVE  \/ answers'[c] = answers[c]
         \/ \E id \in DOMAIN cmds :
               /\ cmds[id].client = c /\ cmds'[id].terms > cmds[id].terms
               /\ answers'[c] = Append(answers[c], [kind |-> "termination",
                                                    cmd |-> id])
<1> DEFINE told == {id \in DOMAIN cmds : cmds[id].client = c /\ conn[c] = "open"
                                         /\ cmds'[id].terms > cmds[id].terms}
<1>1. answers'[c] = IF told = {} THEN answers[c]
                    ELSE Append(answers[c], [kind |-> "termination",
                                             cmd |-> CHOOSE id \in told : TRUE])
  BY DEF Tells
<1>2. CASE told = {}
  BY <1>1, <1>2
<1>3. CASE told # {}
  <2> DEFINE id == CHOOSE j \in told : TRUE
  <2>1. id \in told
    BY <1>3
  <2>2. answers'[c] = Append(answers[c], [kind |-> "termination", cmd |-> id])
    BY <1>1, <1>3
  <2> HIDE DEF id
  <2>3. /\ id \in DOMAIN cmds /\ cmds[id].client = c
        /\ cmds'[id].terms > cmds[id].terms
    BY <2>1
  <2> QED
    BY <2>2, <2>3
<1> QED
  BY <1>2, <1>3

(***************************************************************************)
(* What the server does of itself changes no command but those it has.     *)
(***************************************************************************)
LEMMA EngineDomain ==
  ASSUME Engine
  PROVE  DOMAIN cmds' = DOMAIN cmds /\ Tells /\ UNCHANGED <<call, requests, issued>>
<1>1. ASSUME NEW id \in DOMAIN cmds, Follow(id)
      PROVE  DOMAIN cmds' = DOMAIN cmds
  BY <1>1 DEF Follow, Respond, RunRefused, Run, Tell
<1>2. Finish \/ FinishEnds => DOMAIN cmds' = DOMAIN cmds
  BY DEF Finish, FinishEnds
<1> QED
  BY <1>1, <1>2 DEF Engine

(***************************************************************************)
(* Every command accepted comes from a call, and every step keeps types.   *)
(***************************************************************************)
LEMMA ClientTypeStep ==
  ASSUME ClientTyped, cmds \in Seq(Cmd), cmds' \in Seq(Cmd), [ClientNext]_cvars
  PROVE  ClientTyped'
<1>0. /\ call \in [Conns -> Call] /\ requests \in [Conns -> Seq(Request0)]
      /\ answers \in [Conns -> Seq(Response \cup Termination)]
      /\ issued \in Seq(Nat) /\ Len(issued) = Len(cmds)
  BY DEF ClientTyped
<1>1. ASSUME NEW c \in Conns, Only(c),
             Typed(call'[c], requests'[c], answers'[c]),
             issued' \in Seq(Nat), Len(issued') = Len(cmds')
      PROVE  ClientTyped'
  <2>1. /\ call' \in [Conns -> Call]
        /\ requests' \in [Conns -> Seq(Request0)]
        /\ answers' \in [Conns -> Seq(Response \cup Termination)]
    BY <1>0, <1>1 DEF Only, Typed
  <2> QED
    BY <1>1, <2>1 DEF ClientTyped
<1>2. \A c \in Conns : Typed(call[c], requests[c], answers[c])
  BY <1>0 DEF Typed
<1>3. UNCHANGED vars => cmds' = cmds
  BY DEF vars
<1>4. ASSUME NEW c \in Conns, Only(c), Move(c), UNCHANGED <<vars, issued>>
      PROVE  ClientTyped'
  <2> DEFINE t == call[c]
             rs == requests[c]
             as == answers[c]
             t2 == call'[c]
             rs2 == requests'[c]
             as2 == answers'[c]
             link == conn[c]
  <2>1. Moves(t, rs, as, t2, rs2, as2, link, ctlModel)
    BY <1>4 DEF Move
  <2>2. Typed(t, rs, as) /\ t2 \in Call
    BY <1>2, <1>4 DEF Only
  <2> HIDE DEF t, rs, as, t2, rs2, as2, link
  <2>3. Typed(t2, rs2, as2)
    BY <2>1, <2>2, MovesType
  <2> QED
    BY <1>0, <1>1, <1>3, <1>4, <2>3 DEF t2, rs2, as2
<1>5. ASSUME NEW c \in Conns, NEW delayed \in BOOLEAN,
             Operate(c, delayed) \/ Answer(c, delayed)
      PROVE  ClientTyped'
  BY <1>4, <1>5, OperateMoves, AnswerMoves
<1>6. ASSUME NEW c \in Conns, Watch(c) \/ Terminated(c) \/ GivesUp(c)
      PROVE  ClientTyped'
  BY <1>4, <1>6, WatchMoves, TerminatedMoves, GivesUpMoves
<1>7. ASSUME NEW c \in Conns, NEW verdict \in {"accepted", "refused"},
             Serve(c), Reply(c, verdict),
             issued' \in Seq(Nat), Len(issued') = Len(cmds')
      PROVE  ClientTyped'
  <2>1. /\ Only(c) /\ call'[c] = call[c]
        /\ Replies(requests[c], answers[c], requests'[c], answers'[c],
                   conn[c], verdict)
    BY <1>7, ReplyReplies DEF Serve
  <2>2. Typed(call'[c], requests'[c], answers'[c])
    <3> DEFINE rs == requests[c]
               as == answers[c]
               rs2 == requests'[c]
               as2 == answers'[c]
               link == conn[c]
    <3>1. Replies(rs, as, rs2, as2, link, verdict)
      BY <2>1
    <3>2. rs \in Seq(Request0) /\ as \in Seq(Response \cup Termination)
      BY <1>0
    <3> HIDE DEF rs, as, rs2, as2, link
    <3>3. rs2 \in Seq(Request0) /\ as2 \in Seq(Response \cup Termination)
      BY <3>1, <3>2, RepliesType
    <3> QED
      BY <1>0, <2>1, <3>3 DEF Typed, rs2, as2
  <2> QED
    BY <1>1, <1>7, <2>1, <2>2
<1>8. ASSUME NEW c \in Conns, Serve(c) PROVE ClientTyped'
  <2> DEFINE request == Head(requests[c])
  <2>1. ASSUME UNCHANGED issued, cmds' = cmds
        PROVE  issued' \in Seq(Nat) /\ Len(issued') = Len(cmds')
    BY <1>0, <2>1
  <2>2. ASSUME SelectBySBO(c) \/ SelectBySBOw(c) \/ Cancel(c) \/ UNCHANGED vars
        PROVE  cmds' = cmds
    BY <1>3, <2>2 DEF SelectBySBO, SelectBySBOw, Cancel
  <2>3. CASE /\ SelectBySBO(c) \/ SelectBySBOw(c) \/ Cancel(c) \/ UNCHANGED vars
             /\ Reply(c, "accepted") /\ UNCHANGED issued
    BY <1>7, <1>8, <2>1, <2>2, <2>3
  <2>4. CASE Refused(c)
    BY <1>7, <1>8, <2>1, <2>2, <2>4 DEF Refused
  <2>5. CASE Operated(c, request.delayed) /\ request \in Request0
    <3>1. request.n \in Nat /\ issued' = Append(issued, request.n)
      BY <2>5 DEF Operated, Request0
    <3>2. issued' \in Seq(Nat) /\ Len(issued') = Len(issued) + 1
      BY <1>0, <3>1, AppendProperties
    <3>3. PICK cmd : cmds' = Append(cmds, cmd)
      BY <2>5 DEF Operated, OperLater, OperNow
    <3>4. Len(cmds') = Len(cmds) + 1
      BY <3>3
    <3>5. PICK verdict \in {"accepted", "refused"} : Reply(c, verdict)
      BY <2>5 DEF Operated
    <3> QED
      BY <1>0, <1>7, <1>8, <3>2, <3>4, <3>5
  <2> QED
    BY <1>8, <2>3, <2>4, <2>5, Serves
<1>9. ASSUME NEW c \in Conns, Leaves(c) PROVE ClientTyped'
  <2>1. /\ answers' = [answers EXCEPT ![c] = <<>>] /\ cmds' = cmds
        /\ UNCHANGED <<call, requests, issued>>
    BY <1>9 DEF Leaves, Lose, Forget
  <2>2. <<>> \in Seq(Response \cup Termination)
    BY Emptied
  <2> QED
    BY <1>0, <2>1, <2>2 DEF ClientTyped
<1>10. ASSUME Engine PROVE ClientTyped'
  <2>1. /\ DOMAIN cmds' = DOMAIN cmds /\ Tells
        /\ UNCHANGED <<call, requests, issued>>
    BY <1>10, EngineDomain
  <2>2. Len(cmds') = Len(cmds)
    <3>1. /\ Len(cmds) \in Nat /\ DOMAIN cmds = 1 .. Len(cmds)
          /\ Len(cmds') \in Nat /\ DOMAIN cmds' = 1 .. Len(cmds')
      BY LenProperties
    <3> QED
      BY <2>1, <3>1
  <2>3. \A id \in DOMAIN cmds : [kind |-> "termination", cmd |-> id] \in Termination
    BY LenProperties DEF Termination
  <2>4. ASSUME NEW c \in Conns
        PROVE  answers'[c] \in Seq(Response \cup Termination)
    <3>1. \A e \in Response \cup Termination :
             Append(answers[c], e) \in Seq(Response \cup Termination)
      BY <1>0, Joins
    <3>2. ASSUME NEW id \in DOMAIN cmds,
                 answers'[c] = Append(answers[c], [kind |-> "termination",
                                                   cmd |-> id])
          PROVE  answers'[c] \in Seq(Response \cup Termination)
      <4> DEFINE e == [kind |-> "termination", cmd |-> id]
      <4>1. e \in Response \cup Termination
        BY <2>3
      <4> HIDE DEF e
      <4>2. Append(answers[c], e) \in Seq(Response \cup Termination)
        BY <3>1, <4>1
      <4> QED
        BY <3>2, <4>2 DEF e
    <3> QED
      BY <1>0, <2>1, <3>2, TellsOne
  <2>5. answers' \in [Conns -> Seq(Response \cup Termination)]
    <3>1. DOMAIN answers' = Conns /\ answers' = [c \in Conns |-> answers'[c]]
      BY <2>1 DEF Tells
    <3> QED
      BY <2>4, <3>1
  <2> QED
    BY <1>0, <2>1, <2>2, <2>5 DEF ClientTyped
<1>11. CASE Lapse
  BY <1>0, <1>11 DEF Lapse, SelectionLapses, client, ClientTyped
<1>12. CASE UNCHANGED cvars
  BY <1>0, <1>12 DEF cvars, vars, client, ClientTyped
<1> QED
  BY <1>5, <1>6, <1>8, <1>9, <1>10, <1>11, <1>12 DEF ClientNext

----------------------------------------------------------------------------
(* One request at a time, while none has timed out                         *)

AskedFor(K) == {r \in Request0 : r.kind \in K}
AnswersTo(K) == {a \in Response : a.to.kind \in K}

\* The request that the call t waits for the answer to.
To(t) == {r \in Request0 : r.kind = t.at /\ r.n = t.n}

(***************************************************************************)
(* A client none of whose requests of the kinds K has timed out has one of *)
(* them, or one answer, under way: that of its call.                       *)
(***************************************************************************)
Alone(t, rs, as, K) ==
    t.late \cap K = {} =>
        /\ AtMostOne(rs, AskedFor(K)) /\ AtMostOne(as, AnswersTo(K))
        /\ ~Holds(rs, AskedFor(K)) \/ ~Holds(as, AnswersTo(K))
        /\ ~Holds(rs, AskedFor(K) \ To(t))
        /\ ~Holds(as, AnswersTo(K) \ For(t))

Quiet(rs, as, K) == ~Holds(rs, AskedFor(K)) /\ ~Holds(as, AnswersTo(K))

(***************************************************************************)
(* A client that waits for none of them has none under way.                *)
(***************************************************************************)
LEMMA AloneIdle ==
  ASSUME NEW t, NEW rs, NEW as, NEW K, Alone(t, rs, as, K),
         t.late \cap K = {}, t.at \notin K
  PROVE  Quiet(rs, as, K)
<1>1. /\ ~Holds(rs, AskedFor(K) \ To(t))
      /\ ~Holds(as, AnswersTo(K) \ For(t))
  BY DEF Alone
<1>2. AskedFor(K) \ To(t) = AskedFor(K)
  BY DEF AskedFor, To
<1>3. AnswersTo(K) \ For(t) = AnswersTo(K)
  <2> SUFFICES ASSUME NEW a \in AnswersTo(K), a \in For(t) PROVE FALSE
    OBVIOUS
  <2>1. a.to = [kind |-> t.at, n |-> t.n] /\ a.to.kind \in K
    BY DEF AnswersTo, For
  <2> QED
    BY <2>1
<1> QED
  BY <1>1, <1>2, <1>3 DEF Quiet

(***************************************************************************)
(* Nor has one that has just heard what it waited for.                     *)
(***************************************************************************)
LEMMA AloneHeard ==
  ASSUME NEW t, NEW rs, NEW as \in Seq(Response \cup Termination), NEW K,
         Alone(t, rs, as, K), t.late \cap K = {},
         as # <<>>, Head(as) \in For(t)
  PROVE  Quiet(rs, Tail(as), K)
<1>1. /\ \A P : Holds(as, P) <=> Head(as) \in P \/ Holds(Tail(as), P)
      /\ \A P : AtMostOne(as, P) /\ Head(as) \in P => ~Holds(Tail(as), P)
  BY Goes
<1>2. CASE t.at \notin K
  BY <1>1, <1>2, AloneIdle DEF Quiet
<1>3. CASE t.at \in K
  <2>1. Head(as).to = [kind |-> t.at, n |-> t.n] /\ Head(as) \in Response
    BY DEF For
  <2>2. Head(as).to.kind = t.at
    <3>1. [kind |-> t.at, n |-> t.n].kind = t.at
      OBVIOUS
    <3> QED
      BY <2>1, <3>1, Zenon
  <2>3. Head(as) \in AnswersTo(K)
    BY <1>3, <2>1, <2>2 DEF AnswersTo
  <2> QED
    BY <1>1, <2>3 DEF Alone, Quiet
<1> QED
  BY <1>2, <1>3

(***************************************************************************)
(* And it may ask for one.                                                 *)
(***************************************************************************)
LEMMA AloneAsks ==
  ASSUME NEW t, NEW rs \in Seq(Request0), NEW as, NEW rs2, NEW K, NEW link,
         Quiet(rs, as, K), t.n \in Nat,
         rs2 = rs \/ (t.at \in Kinds /\ Sends(link, rs, rs2, t))
  PROVE  Alone(t, rs2, as, K)
<1>1. ASSUME NEW e \in To(t), rs2 = Append(rs, e)
      PROVE  Alone(t, rs2, as, K)
  <2>1. e \in Request0
    BY DEF To
  <2>2. /\ \A P : Holds(rs2, P) <=> Holds(rs, P) \/ e \in P
        /\ \A P : AtMostOne(rs, P) /\ (e \in P => ~Holds(rs, P))
                    => AtMostOne(rs2, P)
    BY <1>1, <2>1, Joins
  <2>3. AtMostOne(rs, AskedFor(K)) /\ AtMostOne(as, AnswersTo(K))
    BY DEF Quiet, Holds, AtMostOne
  <2>4. AtMostOne(rs2, AskedFor(K))
    BY <2>2, <2>3 DEF Quiet
  <2>5. ~Holds(rs2, AskedFor(K) \ To(t))
    <3>1. ~Holds(rs, AskedFor(K) \ To(t))
      BY DEF Quiet, Holds
    <3> QED
      BY <2>2, <3>1
  <2>6. ~Holds(as, AnswersTo(K) \ For(t))
    BY DEF Quiet, Holds
  <2> QED
    BY <2>3, <2>4, <2>5, <2>6 DEF Alone, Quiet
<1>2. CASE rs2 = rs
  BY <1>2 DEF Quiet, Alone, Holds, AtMostOne
<1>3. CASE t.at \in Kinds /\ Sends(link, rs, rs2, t) /\ link = "open"
  <2>1. PICK delayed \in BOOLEAN :
           rs2 = Append(rs, [kind |-> t.at, n |-> t.n, delayed |-> delayed])
    BY <1>3 DEF Sends
  <2>2. [kind |-> t.at, n |-> t.n, delayed |-> delayed] \in To(t)
    BY <1>3 DEF To, Request0
  <2> QED
    BY <1>1, <2>1, <2>2
<1>4. CASE Sends(link, rs, rs2, t) /\ link # "open"
  BY <1>2, <1>4 DEF Sends
<1> QED
  BY <1>2, <1>3, <1>4

(***************************************************************************)
(* Every step of a client keeps it so.                                     *)
(***************************************************************************)
LEMMA AloneMoves ==
  ASSUME NEW t, NEW rs, NEW as, NEW t2 \in Call, NEW rs2, NEW as2, NEW link,
         NEW model, NEW K \in SUBSET Kinds, Typed(t, rs, as),
         Moves(t, rs, as, t2, rs2, as2, link, model), Alone(t, rs, as, K)
  PROVE  Alone(t2, rs2, as2, K)
<1>1. /\ t \in Call /\ rs \in Seq(Request0)
      /\ as \in Seq(Response \cup Termination) /\ t2.n \in Nat
  BY CallType DEF Typed
<1> SUFFICES ASSUME t2.late \cap K = {}
             PROVE  Alone(t2, rs2, as2, K)
  BY DEF Alone
<1>2. "idle" \notin K /\ "termination" \notin K
  BY DEF Kinds
<1>3. ASSUME Quiet(rs, as2, K),
             rs2 = rs \/ (t2.at \in Kinds /\ Sends(link, rs, rs2, t2))
      PROVE  Alone(t2, rs2, as2, K)
  BY <1>1, <1>3, AloneAsks
<1>4. "select" \in Kinds /\ "operate" \in Kinds /\ "cancel" \in Kinds
  BY DEF Kinds
<1>5. ASSUME GoesOn(t, rs, t2, rs2, link, model) \/ Undoes(t, rs, t2, rs2, link, model)
      PROVE  rs2 = rs \/ (t2.at \in Kinds /\ Sends(link, rs, rs2, t2))
  BY <1>4, <1>5 DEF GoesOn, Undoes
<1>6. CASE Starts(t, rs, as, t2, rs2, as2, link, model)
  <2>1. t.at = "idle" /\ t2.late = t.late /\ as2 = as /\ t2.at \in Kinds
        /\ Sends(link, rs, rs2, t2)
    BY <1>4, <1>6 DEF Starts
  <2> QED
    BY <1>2, <1>3, <2>1, AloneIdle
<1>7. ASSUME as # <<>>, as2 = Tail(as), t2.at = t.at, t2.n = t.n, t2.late = t.late,
             rs2 = rs
      PROVE  Alone(t2, rs2, as2, K)
  <2>1. /\ \A P : Holds(as, P) <=> Head(as) \in P \/ Holds(as2, P)
        /\ \A P : AtMostOne(as, P) => AtMostOne(as2, P)
    BY <1>1, <1>7, Goes
  <2>2. To(t2) = To(t) /\ For(t2) = For(t)
    BY <1>7 DEF To, For
  <2> QED
    BY <1>7, <2>1, <2>2 DEF Alone
<1>8. CASE Hears(t, rs, as, t2, rs2, as2, link, model)
  <2>1. CASE t2 = t /\ rs2 = rs
    BY <1>7, <1>8, <2>1 DEF Hears
  <2>2. CASE /\ Head(as) \in For(t)
             /\ \/ GoesOn(t, rs, t2, rs2, link, model)
                \/ t2.late = t.late /\ Undoes(t, rs, t2, rs2, link, model)
    <3>1. t2.late = t.late /\ as # <<>> /\ as2 = Tail(as)
      BY <1>8, <2>2 DEF Hears, GoesOn
    <3>2. Quiet(rs, as2, K)
      BY <1>1, <2>2, <3>1, AloneHeard
    <3> QED
      BY <1>3, <1>5, <2>2, <3>2
  <2> QED
    BY <1>8, <2>1, <2>2 DEF Hears
<1>9. CASE Gives(t, rs, as, t2, rs2, as2, link, model)
  <2>1. t.at \notin K /\ t.late \cap K = {} /\ as2 = as
    BY <1>9 DEF Gives
  <2>2. Quiet(rs, as2, K)
    BY <2>1, AloneIdle
  <2>3. rs2 = rs \/ (t2.at \in Kinds /\ Sends(link, rs, rs2, t2))
    BY <1>5, <1>9 DEF Gives
  <2> QED
    BY <1>3, <2>2, <2>3
<1>10. CASE Collects(t, rs, as, t2, rs2, as2)
  BY <1>7, <1>10 DEF Collects
<1>11. CASE Ends(t, rs, as, t2, rs2, as2)
  <2>1. t.at \notin K /\ t.late \cap K = {} /\ as2 = as /\ rs2 = rs
    BY <1>2, <1>11 DEF Ends
  <2> QED
    BY <1>3, <2>1, AloneIdle
<1> QED
  BY <1>6, <1>8, <1>9, <1>10, <1>11 DEF Moves

(***************************************************************************)
(* The answer is to the request it is of.                                  *)
(***************************************************************************)
LEMMA ReplyOf ==
  ASSUME NEW r \in Request0, NEW verdict \in {"accepted", "refused"}
  PROVE  LET a == [kind |-> verdict, to |-> [kind |-> r.kind, n |-> r.n]]
         IN  /\ a \in Response /\ a.kind = verdict
             /\ a.to.kind = r.kind /\ a.to.n = r.n
             /\ \A K : a \in AnswersTo(K) <=> r \in AskedFor(K)
             /\ \A t : a \in For(t) <=> r \in To(t)
<1> DEFINE a == [kind |-> verdict, to |-> [kind |-> r.kind, n |-> r.n]]
<1>1. /\ a \in Response /\ a.kind = verdict
      /\ a.to = [kind |-> r.kind, n |-> r.n]
      /\ a.to.kind = r.kind /\ a.to.n = r.n
  BY DEF Response, Request0
<1> HIDE DEF a
<1>2. \A K : a \in AnswersTo(K) <=> r \in AskedFor(K)
  BY <1>1 DEF AnswersTo, AskedFor
<1>3. ASSUME NEW t PROVE a \in For(t) <=> r \in To(t)
  <2>1. [kind |-> t.at, n |-> t.n] = [kind |-> r.kind, n |-> r.n]
           <=> t.at = r.kind /\ t.n = r.n
    OBVIOUS
  <2> QED
    BY <1>1, <2>1 DEF For, To
<1> QED
  BY <1>1, <1>2, <1>3 DEF a

(***************************************************************************)
(* The answer takes the place of the request.                              *)
(***************************************************************************)
LEMMA AloneReplies ==
  ASSUME NEW t, NEW rs, NEW as, NEW rs2, NEW as2, NEW link,
         NEW verdict, NEW K, Typed(t, rs, as),
         verdict \in {"accepted", "refused"},
         Replies(rs, as, rs2, as2, link, verdict), Alone(t, rs, as, K)
  PROVE  Alone(t, rs2, as2, K)
<1> SUFFICES ASSUME t.late \cap K = {}
             PROVE  Alone(t, rs2, as2, K)
  BY DEF Alone
<1> DEFINE r == Head(rs)
           a == [kind |-> verdict, to |-> [kind |-> r.kind, n |-> r.n]]
<1>1. /\ r \in Request0 /\ rs2 = Tail(rs) /\ rs # <<>>
      /\ as2 = IF link = "open" THEN Append(as, a) ELSE as
      /\ rs \in Seq(Request0) /\ as \in Seq(Response \cup Termination)
  BY DEF Replies, Typed
<1> HIDE DEF r
<1>2. /\ a \in Response \cup Termination
      /\ \A L : a \in AnswersTo(L) <=> r \in AskedFor(L)
      /\ a \in For(t) <=> r \in To(t)
  BY <1>1, ReplyOf
<1> HIDE DEF a
<1>3. /\ \A P : Holds(rs, P) <=> r \in P \/ Holds(rs2, P)
      /\ \A P : AtMostOne(rs, P) =>
            AtMostOne(rs2, P) /\ (r \in P => ~Holds(rs2, P))
  BY <1>1, Goes DEF r
<1>4. /\ AtMostOne(rs, AskedFor(K)) /\ AtMostOne(as, AnswersTo(K))
      /\ ~Holds(rs, AskedFor(K)) \/ ~Holds(as, AnswersTo(K))
      /\ ~Holds(rs, AskedFor(K) \ To(t))
      /\ ~Holds(as, AnswersTo(K) \ For(t))
  BY DEF Alone
<1>5. CASE link # "open"
  BY <1>1, <1>3, <1>4, <1>5 DEF Alone
<1>6. CASE link = "open"
  <2>1. /\ \A P : Holds(as2, P) <=> Holds(as, P) \/ a \in P
        /\ \A P : AtMostOne(as, P) /\ (a \in P => ~Holds(as, P))
                    => AtMostOne(as2, P)
    BY <1>1, <1>2, <1>6, Joins
  <2>2. a \in AnswersTo(K) => ~Holds(as, AnswersTo(K)) /\ ~Holds(rs2, AskedFor(K))
    BY <1>2, <1>3, <1>4
  <2>3. a \notin AnswersTo(K) \ For(t)
    BY <1>2, <1>3, <1>4
  <2>4. AtMostOne(as2, AnswersTo(K)) /\ AtMostOne(rs2, AskedFor(K))
    BY <1>3, <1>4, <2>1, <2>2
  <2>5. ~Holds(rs2, AskedFor(K)) \/ ~Holds(as2, AnswersTo(K))
    BY <1>3, <1>4, <2>1, <2>2
  <2>6. ~Holds(rs2, AskedFor(K) \ To(t)) /\ ~Holds(as2, AnswersTo(K) \ For(t))
    BY <1>3, <1>4, <2>1, <2>3
  <2> QED
    BY <2>4, <2>5, <2>6 DEF Alone
<1> QED
  BY <1>5, <1>6

(***************************************************************************)
(* A CommandTermination is no answer, and answers may be lost.             *)
(***************************************************************************)
LEMMA AloneTold ==
  ASSUME NEW t, NEW rs, NEW as, NEW as2, NEW K, NEW e \in Termination,
         Typed(t, rs, as), as2 \in {as, <<>>, Append(as, e)},
         Alone(t, rs, as, K)
  PROVE  Alone(t, rs, as2, K)
<1>1. as \in Seq(Response \cup Termination)
  BY DEF Typed
<1>2. \A P : ~Holds(<<>>, P) /\ AtMostOne(<<>>, P)
  BY Emptied
<1>3. e \notin AnswersTo(K)
  BY DEF AnswersTo, Response, Termination
<1>4. /\ \A P : Holds(Append(as, e), P) <=> Holds(as, P) \/ e \in P
      /\ \A P : AtMostOne(as, P) /\ (e \in P => ~Holds(as, P))
                  => AtMostOne(Append(as, e), P)
  BY <1>1, Joins
<1>5. CASE as2 = as
  BY <1>5
<1>6. CASE as2 = <<>>
  BY <1>2, <1>6 DEF Alone
<1>7. CASE as2 = Append(as, e)
  BY <1>3, <1>4, <1>7 DEF Alone
<1> QED
  BY <1>5, <1>6, <1>7

----------------------------------------------------------------------------
(* What any step does to a client                                          *)

\* The server answers c, or tells it of an end; or c has left, or nothing.
Answered(c) ==
    \E verdict \in {"accepted", "refused"} :
        Replies(requests[c], answers[c], requests'[c], answers'[c],
                conn[c], verdict)

Informed(c) ==
    /\ requests'[c] = requests[c]
    /\ \E e \in Termination :
          answers'[c] \in {answers[c], <<>>, Append(answers[c], e)}

(***************************************************************************)
(* A client moves, or its call stays as it is.                             *)
(***************************************************************************)
LEMMA Steps ==
  ASSUME ClientTyped, cmds \in Seq(Cmd), [ClientNext]_cvars, NEW d \in Conns
  PROVE  /\ call'[d] \in Call
         /\ \/ Move(d)
            \/ call'[d] = call[d] /\ (Answered(d) \/ Informed(d))
<1>0. /\ call \in [Conns -> Call] /\ requests \in [Conns -> Seq(Request0)]
      /\ answers \in [Conns -> Seq(Response \cup Termination)]
  BY DEF ClientTyped
<1>1. [kind |-> "termination", cmd |-> 0] \in Termination
  BY DEF Termination
<1>2. ASSUME call'[d] = call[d], requests'[d] = requests[d],
             answers'[d] \in {answers[d], <<>>}
      PROVE  call'[d] \in Call /\ call'[d] = call[d] /\ Informed(d)
  BY <1>0, <1>1, <1>2 DEF Informed
<1>3. ASSUME NEW c \in Conns, Only(c), c # d
      PROVE  call'[d] \in Call /\ call'[d] = call[d] /\ Informed(d)
  <2>1. /\ call'[d] = call[d] /\ requests'[d] = requests[d]
        /\ answers'[d] = answers[d]
    BY <1>0, <1>3 DEF Only
  <2> QED
    BY <1>2, <2>1
<1>4. ASSUME NEW c \in Conns, NEW delayed \in BOOLEAN,
             Operate(c, delayed) \/ Answer(c, delayed)
      PROVE  Only(c) /\ Move(c)
  BY <1>4, OperateMoves, AnswerMoves
<1>5. ASSUME NEW c \in Conns, Watch(c) \/ Terminated(c) \/ GivesUp(c)
      PROVE  Only(c) /\ Move(c)
  BY <1>5, WatchMoves, TerminatedMoves, GivesUpMoves
<1>6. ASSUME NEW c \in Conns, Only(c), Move(c)
      PROVE  /\ call'[d] \in Call
             /\ \/ Move(d)
                \/ call'[d] = call[d] /\ (Answered(d) \/ Informed(d))
  BY <1>3, <1>6 DEF Only
<1>7. ASSUME NEW c \in Conns, Serve(c)
      PROVE  /\ call'[d] \in Call
             /\ call'[d] = call[d] /\ (Answered(d) \/ Informed(d))
  <2>1. PICK verdict \in {"accepted", "refused"} : Reply(c, verdict)
    BY <1>7, Serves DEF Refused, Operated
  <2>2. requests[c] # <<>> /\ requests' = [requests EXCEPT ![c] = Tail(@)]
        /\ call' = call
    BY <1>7 DEF Serve
  <2>3. /\ Only(c) /\ call'[c] = call[c]
        /\ Replies(requests[c], answers[c], requests'[c], answers'[c],
                   conn[c], verdict)
    BY <2>1, <2>2, ReplyReplies
  <2>4. CASE c = d
    BY <1>0, <2>3, <2>4 DEF Answered
  <2>5. CASE c # d
    BY <1>3, <2>3, <2>5
  <2> QED
    BY <2>4, <2>5
<1>8. ASSUME NEW c \in Conns, Leaves(c)
      PROVE  call'[d] \in Call /\ call'[d] = call[d] /\ Informed(d)
  <2>1. /\ call'[d] = call[d] /\ requests'[d] = requests[d]
        /\ answers'[d] \in {answers[d], <<>>}
    BY <1>0, <1>8 DEF Leaves
  <2> QED
    BY <1>2, <2>1
<1>9. ASSUME Engine
      PROVE  call'[d] \in Call /\ call'[d] = call[d] /\ Informed(d)
  <2>1. Tells /\ call' = call /\ requests' = requests
    BY <1>9, EngineDomain
  <2>2. CASE answers'[d] = answers[d]
    BY <1>2, <2>1, <2>2
  <2>3. CASE answers'[d] # answers[d]
    <3>1. PICK id \in DOMAIN cmds :
             answers'[d] = Append(answers[d], [kind |-> "termination",
                                               cmd |-> id])
      BY <2>1, <2>3, TellsOne
    <3>2. [kind |-> "termination", cmd |-> id] \in Termination
      BY LenProperties DEF Termination
    <3> QED
      BY <1>0, <2>1, <3>1, <3>2 DEF Informed
  <2> QED
    BY <2>2, <2>3
<1>10. CASE Lapse
  <2>1. call' = call /\ requests' = requests /\ answers' = answers
    BY <1>10 DEF Lapse, client
  <2> QED
    BY <1>2, <2>1
<1>11. CASE UNCHANGED cvars
  <2>1. call' = call /\ requests' = requests /\ answers' = answers
    BY <1>11 DEF cvars, client
  <2> QED
    BY <1>2, <2>1
<1> QED
  BY <1>4, <1>5, <1>6, <1>7, <1>8, <1>9, <1>10, <1>11 DEF ClientNext

AllAlone(K) ==
    \A c \in Conns : Alone(call[c], requests[c], answers[c], K)

(***************************************************************************)
(* Every step keeps the requests of a client alone.                        *)
(***************************************************************************)
LEMMA AloneStep ==
  ASSUME ClientTyped, cmds \in Seq(Cmd), [ClientNext]_cvars,
         NEW K \in SUBSET Kinds, AllAlone(K)
  PROVE  AllAlone(K)'
<1> SUFFICES ASSUME NEW c \in Conns
             PROVE  Alone(call'[c], requests'[c], answers'[c], K)
  BY DEF AllAlone
<1> DEFINE t == call[c]
           rs == requests[c]
           as == answers[c]
           t2 == call'[c]
           rs2 == requests'[c]
           as2 == answers'[c]
           link == conn[c]
<1>1. Typed(t, rs, as) /\ Alone(t, rs, as, K) /\ t2 \in Call
  BY Steps DEF ClientTyped, Typed, AllAlone
<1>2. Move(c) => Moves(t, rs, as, t2, rs2, as2, link, ctlModel)
  BY DEF Move
<1>3. Answered(c) => \E verdict \in {"accepted", "refused"} :
                        Replies(rs, as, rs2, as2, link, verdict)
  BY DEF Answered
<1>4. Informed(c) => rs2 = rs /\ \E e \in Termination :
                                    as2 \in {as, <<>>, Append(as, e)}
  BY DEF Informed
<1>5. Move(c) \/ (t2 = t /\ (Answered(c) \/ Informed(c)))
  BY Steps
<1> HIDE DEF t, rs, as, t2, rs2, as2, link
<1>6. CASE Move(c)
  <2>1. Alone(t2, rs2, as2, K)
    BY <1>1, <1>2, <1>6, AloneMoves
  <2> QED
    BY <2>1 DEF t2, rs2, as2
<1>7. CASE t2 = t /\ Answered(c)
  <2>1. ASSUME NEW verdict \in {"accepted", "refused"},
               Replies(rs, as, rs2, as2, link, verdict)
        PROVE  Alone(t, rs2, as2, K)
    <3>1. Typed(t, rs, as) /\ Alone(t, rs, as, K)
      BY <1>1
    <3> QED
      BY <2>1, <3>1, AloneReplies
  <2> QED
    BY <1>3, <1>7, <2>1 DEF t2, rs2, as2
<1>8. CASE t2 = t /\ Informed(c)
  <2>1. PICK e \in Termination : as2 \in {as, <<>>, Append(as, e)}
    BY <1>4, <1>8
  <2>2. Alone(t, rs, as2, K) /\ rs2 = rs
    BY <1>1, <1>4, <1>8, <2>1, AloneTold
  <2> QED
    BY <1>8, <2>2 DEF t2, rs2, as2
<1> QED
  BY <1>5, <1>6, <1>7, <1>8

----------------------------------------------------------------------------
(* What is under way comes from this call or from an earlier one           *)

\* What was sent for the call n: of the call t itself, once it has selected.
Past(n, kind, t) ==
    n <= t.n /\ (n = t.n /\ kind # "select" => t.at # "select")

PastRequests(t) == {r \in Request0 : Past(r.n, r.kind, t)}
PastAnswers(t) == {a \in Response : Past(a.to.n, a.to.kind, t)}

Numbered(t, rs, as) ==
    /\ ~Holds(rs, Request0 \ PastRequests(t))
    /\ ~Holds(as, Response \ PastAnswers(t))

(***************************************************************************)
(* A call never goes back to its selection.                                *)
(***************************************************************************)
LEMMA MovesOn ==
  ASSUME NEW t, NEW rs, NEW as, NEW t2, NEW rs2, NEW as2, NEW link, NEW model,
         t \in Call, t2 \in Call, Moves(t, rs, as, t2, rs2, as2, link, model)
  PROVE  /\ \/ t2.n = t.n /\ (t2.at = "select" => t.at = "select")
            \/ t2.n = t.n + 1
         /\ rs2 # rs => t2.at \in Kinds /\ Sends(link, rs, rs2, t2)
<1>1. CASE Starts(t, rs, as, t2, rs2, as2, link, model)
  BY <1>1 DEF Starts, Kinds
<1>2. CASE Hears(t, rs, as, t2, rs2, as2, link, model)
  BY <1>2 DEF Hears, GoesOn, Undoes, Continues, Kinds
<1>3. CASE Gives(t, rs, as, t2, rs2, as2, link, model)
  BY <1>3 DEF Gives, Undoes, Continues, Kinds
<1>4. CASE Collects(t, rs, as, t2, rs2, as2)
  BY <1>4 DEF Collects
<1>5. CASE Ends(t, rs, as, t2, rs2, as2)
  BY <1>5 DEF Ends, Continues
<1> QED
  BY <1>1, <1>2, <1>3, <1>4, <1>5 DEF Moves

(***************************************************************************)
(* What is past stays so.                                                  *)
(***************************************************************************)
LEMMA StaysPast ==
  ASSUME NEW t \in Call, NEW t2 \in Call,
         \/ t2.n = t.n /\ (t2.at = "select" => t.at = "select")
         \/ t2.n = t.n + 1,
         NEW n \in Nat, NEW kind, Past(n, kind, t)
  PROVE  Past(n, kind, t2)
<1> DEFINE m == t.n
           m2 == t2.n
<1>1. m \in Nat /\ m2 \in Nat
  BY CallType
<1> HIDE DEF m, m2
<1>2. /\ n <= m /\ (n = m /\ kind # "select" => t.at # "select")
      /\ \/ m2 = m /\ (t2.at = "select" => t.at = "select")
         \/ m2 = m + 1
  BY DEF Past, m, m2
<1>3. n <= m2 /\ (n = m2 /\ kind # "select" => t2.at # "select")
  BY <1>1, <1>2
<1> QED
  BY <1>3 DEF Past, m2

(***************************************************************************)
(* A client that moves on leaves what is under way in the past.            *)
(***************************************************************************)
LEMMA NumberedMoves ==
  ASSUME NEW t, NEW rs, NEW as, NEW t2 \in Call, NEW rs2, NEW as2, NEW link,
         NEW model, Typed(t, rs, as),
         Moves(t, rs, as, t2, rs2, as2, link, model), Numbered(t, rs, as)
  PROVE  Numbered(t2, rs2, as2)
<1>1. /\ t \in Call /\ rs \in Seq(Request0)
      /\ as \in Seq(Response \cup Termination)
  BY DEF Typed
<1>2. /\ \/ t2.n = t.n /\ (t2.at = "select" => t.at = "select")
         \/ t2.n = t.n + 1
      /\ rs2 # rs => t2.at \in Kinds /\ Sends(link, rs, rs2, t2)
  BY <1>1, MovesOn
<1>3. \A kind : \A n \in Nat : Past(n, kind, t) => Past(n, kind, t2)
  BY <1>1, <1>2, StaysPast
<1>4. /\ \A r \in Request0 : r.n \in Nat
      /\ \A a \in Response : a.to.n \in Nat
  BY DEF Request0, Response
<1>5. /\ Request0 \ PastRequests(t2) \subseteq Request0 \ PastRequests(t)
      /\ Response \ PastAnswers(t2) \subseteq Response \ PastAnswers(t)
  BY <1>3, <1>4 DEF PastRequests, PastAnswers
<1>6. /\ ~Holds(rs, Request0 \ PastRequests(t2))
      /\ ~Holds(as, Response \ PastAnswers(t2))
  BY <1>5 DEF Numbered, Holds
<1>7. ~Holds(rs2, Request0 \ PastRequests(t2))
  <2>1. CASE rs2 = rs
    BY <1>6, <2>1
  <2>2. CASE rs2 # rs
    <3>1. PICK delayed \in BOOLEAN :
             rs2 = Append(rs, [kind |-> t2.at, n |-> t2.n, delayed |-> delayed])
      BY <1>2, <2>2 DEF Sends
    <3> DEFINE r == [kind |-> t2.at, n |-> t2.n, delayed |-> delayed]
    <3>2. /\ r \in Request0 /\ r.n = t2.n /\ r.kind = t2.at /\ t2.n \in Nat
      BY <1>2, <2>2, CallType DEF Request0
    <3>3. rs2 = Append(rs, r)
      BY <3>1
    <3> HIDE DEF r
    <3>4. r \in PastRequests(t2)
      BY <3>2 DEF PastRequests, Past
    <3>5. \A P : Holds(rs2, P) <=> Holds(rs, P) \/ r \in P
      BY <1>1, <3>2, <3>3, Joins
    <3> QED
      BY <1>6, <3>4, <3>5
  <2> QED
    BY <2>1, <2>2
<1>8. ~Holds(as2, Response \ PastAnswers(t2))
  <2>1. CASE as2 = as
    BY <1>6, <2>1
  <2>2. CASE as # <<>> /\ as2 = Tail(as)
    BY <1>1, <1>6, <2>2, Goes
  <2>3. as2 = as \/ (as # <<>> /\ as2 = Tail(as))
    BY DEF Moves, Starts, Hears, Gives, Collects, Ends
  <2> QED
    BY <2>1, <2>2, <2>3
<1> QED
  BY <1>7, <1>8 DEF Numbered

(***************************************************************************)
(* An answer is of the call that its request is of.                        *)
(***************************************************************************)
LEMMA NumberedReplies ==
  ASSUME NEW t, NEW rs, NEW as, NEW rs2, NEW as2, NEW link,
         NEW verdict, Typed(t, rs, as),
         verdict \in {"accepted", "refused"},
         Replies(rs, as, rs2, as2, link, verdict), Numbered(t, rs, as)
  PROVE  Numbered(t, rs2, as2)
<1> DEFINE r == Head(rs)
           a == [kind |-> verdict, to |-> [kind |-> r.kind, n |-> r.n]]
<1>1. /\ r \in Request0 /\ rs2 = Tail(rs) /\ rs # <<>>
      /\ as2 = IF link = "open" THEN Append(as, a) ELSE as
      /\ rs \in Seq(Request0) /\ as \in Seq(Response \cup Termination)
  BY DEF Replies, Typed
<1> HIDE DEF r
<1>2. /\ a \in Response /\ a \in Response \cup Termination
      /\ a.to.kind = r.kind /\ a.to.n = r.n
  BY <1>1, ReplyOf
<1> HIDE DEF a
<1>3. \A P : Holds(rs, P) <=> r \in P \/ Holds(rs2, P)
  BY <1>1, Goes DEF r
<1>4. /\ ~Holds(rs2, Request0 \ PastRequests(t)) /\ r \in PastRequests(t)
  BY <1>1, <1>3 DEF Numbered
<1>5. a \in PastAnswers(t)
  BY <1>2, <1>4 DEF PastAnswers, PastRequests
<1>6. \A P : Holds(Append(as, a), P) <=> Holds(as, P) \/ a \in P
  BY <1>1, <1>2, Joins
<1>7. ~Holds(as2, Response \ PastAnswers(t))
  BY <1>1, <1>5, <1>6 DEF Numbered
<1> QED
  BY <1>4, <1>7 DEF Numbered

(***************************************************************************)
(* A CommandTermination has no number, and answers may be lost.            *)
(***************************************************************************)
LEMMA NumberedTold ==
  ASSUME NEW t, NEW rs, NEW as, NEW as2, NEW e \in Termination,
         Typed(t, rs, as), as2 \in {as, <<>>, Append(as, e)},
         Numbered(t, rs, as)
  PROVE  Numbered(t, rs, as2)
<1>1. as \in Seq(Response \cup Termination)
  BY DEF Typed
<1>2. \A P : ~Holds(<<>>, P)
  BY Emptied
<1>3. e \notin Response
  BY DEF Response, Termination
<1>4. \A P : Holds(Append(as, e), P) <=> Holds(as, P) \/ e \in P
  BY <1>1, Joins
<1>5. ~Holds(as2, Response \ PastAnswers(t))
  BY <1>2, <1>3, <1>4 DEF Numbered
<1> QED
  BY <1>5 DEF Numbered

AllNumbered == \A c \in Conns : Numbered(call[c], requests[c], answers[c])

(***************************************************************************)
(* Every step keeps what is under way in the past.                         *)
(***************************************************************************)
LEMMA NumberedStep ==
  ASSUME ClientTyped, cmds \in Seq(Cmd), [ClientNext]_cvars, AllNumbered
  PROVE  AllNumbered'
<1> SUFFICES ASSUME NEW c \in Conns
             PROVE  Numbered(call'[c], requests'[c], answers'[c])
  BY DEF AllNumbered
<1> DEFINE t == call[c]
           rs == requests[c]
           as == answers[c]
           t2 == call'[c]
           rs2 == requests'[c]
           as2 == answers'[c]
           link == conn[c]
<1>1. Typed(t, rs, as) /\ Numbered(t, rs, as) /\ t2 \in Call
  BY Steps DEF ClientTyped, Typed, AllNumbered
<1>2. Move(c) => Moves(t, rs, as, t2, rs2, as2, link, ctlModel)
  BY DEF Move
<1>3. Answered(c) => \E verdict \in {"accepted", "refused"} :
                        Replies(rs, as, rs2, as2, link, verdict)
  BY DEF Answered
<1>4. Informed(c) => rs2 = rs /\ \E e \in Termination :
                                    as2 \in {as, <<>>, Append(as, e)}
  BY DEF Informed
<1>5. Move(c) \/ (t2 = t /\ (Answered(c) \/ Informed(c)))
  BY Steps
<1> HIDE DEF t, rs, as, t2, rs2, as2, link
<1>6. CASE Move(c)
  <2>1. Numbered(t2, rs2, as2)
    BY <1>1, <1>2, <1>6, NumberedMoves
  <2> QED
    BY <2>1 DEF t2, rs2, as2
<1>7. CASE t2 = t /\ Answered(c)
  <2>1. ASSUME NEW verdict \in {"accepted", "refused"},
               Replies(rs, as, rs2, as2, link, verdict)
        PROVE  Numbered(t, rs2, as2)
    <3>1. Typed(t, rs, as) /\ Numbered(t, rs, as)
      BY <1>1
    <3> QED
      BY <2>1, <3>1, NumberedReplies
  <2> QED
    BY <1>3, <1>7, <2>1 DEF t2, rs2, as2
<1>8. CASE t2 = t /\ Informed(c)
  <2>1. PICK e \in Termination : as2 \in {as, <<>>, Append(as, e)}
    BY <1>4, <1>8
  <2>2. Numbered(t, rs, as2) /\ rs2 = rs
    BY <1>1, <1>4, <1>8, <2>1, NumberedTold
  <2> QED
    BY <1>8, <2>2 DEF t2, rs2, as2
<1> QED
  BY <1>5, <1>6, <1>7, <1>8

----------------------------------------------------------------------------
(* Who holds the selection                                                 *)

\* The positive answers the call t waits for.
Positive(t) == {a \in For(t) : a.kind = "accepted"}

(***************************************************************************)
(* What a client that holds the selection is about to do of it, unless its *)
(* request to select has timed out: a Cancel is on its way, or the client  *)
(* is to learn that it has selected, or not yet that it has operated.      *)
(***************************************************************************)
Held(t, rs, as) ==
    "select" \notin t.late =>
       \/ Holds(rs, AskedFor({"cancel"}))
       \/ t.at = "select" /\ Holds(as, Positive(t))
       \/ t.at = "operate" /\ ~Holds(as, Positive(t))

(***************************************************************************)
(* A client that holds the selection goes on to operate or to cancel.      *)
(***************************************************************************)
LEMMA HeldMoves ==
  ASSUME NEW t, NEW rs, NEW as, NEW t2 \in Call, NEW rs2, NEW as2,
         NEW model \in Sbo, Typed(t, rs, as),
         Moves(t, rs, as, t2, rs2, as2, "open", model),
         Alone(t, rs, as, {"select"}), Numbered(t, rs, as), Held(t, rs, as)
  PROVE  Held(t2, rs2, as2)
<1> SUFFICES ASSUME "select" \notin t2.late
             PROVE  Held(t2, rs2, as2)
  BY DEF Held
<1>1. /\ t \in Call /\ rs \in Seq(Request0)
      /\ as \in Seq(Response \cup Termination) /\ t2.n \in Nat
  BY CallType DEF Typed
<1>2. t2.at \in Kinds => \A delayed \in BOOLEAN :
        [kind |-> t2.at, n |-> t2.n, delayed |-> delayed] \in Request0
  BY <1>1 DEF Request0
<1>3. ASSUME t2.at \in Kinds, Sends("open", rs, rs2, t2)
      PROVE  /\ \A P : Holds(rs, P) => Holds(rs2, P)
             /\ t2.at = "cancel" => Holds(rs2, AskedFor({"cancel"}))
  <2>1. PICK delayed \in BOOLEAN :
           rs2 = Append(rs, [kind |-> t2.at, n |-> t2.n, delayed |-> delayed])
    BY <1>3 DEF Sends
  <2> DEFINE r == [kind |-> t2.at, n |-> t2.n, delayed |-> delayed]
  <2>2. r \in Request0 /\ r.kind = t2.at /\ rs2 = Append(rs, r)
    BY <1>2, <1>3, <2>1
  <2> HIDE DEF r
  <2>3. \A P : Holds(rs2, P) <=> Holds(rs, P) \/ r \in P
    BY <1>1, <2>2, Joins
  <2> QED
    BY <2>2, <2>3 DEF AskedFor
<1>4. Holds(rs, AskedFor({"cancel"})) => Holds(rs2, AskedFor({"cancel"}))
  <2>1. /\ \/ t2.n = t.n /\ (t2.at = "select" => t.at = "select")
           \/ t2.n = t.n + 1
        /\ rs2 # rs => t2.at \in Kinds /\ Sends("open", rs, rs2, t2)
    BY <1>1, MovesOn
  <2> QED
    BY <1>3, <2>1
<1>5. t2.late = t.late \/ t2.late = t.late \cup {t.at}
  BY DEF Moves, Starts, Hears, GoesOn, Gives, Collects, Ends
<1>6. CASE Holds(rs, AskedFor({"cancel"}))
  BY <1>4, <1>6 DEF Held
<1>7. CASE t.at = "select" /\ Holds(as, Positive(t))
  <2>1. CASE Hears(t, rs, as, t2, rs2, as2, "open", model) /\ Head(as) \in For(t)
    <3>1. Quiet(rs, Tail(as), {"select"})
      <4>1. t.late \cap {"select"} = {} /\ as # <<>>
        BY <1>5, <2>1 DEF Hears
      <4> QED
        BY <1>1, <2>1, <4>1, AloneHeard
    <3>2. \A P : Holds(as, P) <=> Head(as) \in P \/ Holds(Tail(as), P)
      BY <1>1, <2>1, Goes DEF Hears
    <3>3. For(t) \subseteq AnswersTo({"select"})
      <4> SUFFICES ASSUME NEW a \in For(t) PROVE a.to.kind = "select"
        BY DEF For, AnswersTo
      <4>1. a.to = [kind |-> t.at, n |-> t.n]
        BY DEF For
      <4> QED
        BY <1>7, <4>1
    <3>4. Head(as) \in Positive(t)
      BY <1>7, <3>1, <3>2, <3>3 DEF Quiet, Holds, Positive
    <3>5. t2.at = "operate" /\ t2.n = t.n /\ as2 = Tail(as)
      BY <1>7, <2>1, <3>4 DEF Hears, For, GoesOn, Positive, Continues
    <3>6. ASSUME NEW a \in Response, a \in For(t2) PROVE a \notin PastAnswers(t)
      <4>1. a.to = [kind |-> t2.at, n |-> t2.n]
        BY <3>6 DEF For
      <4>2. a.to.kind = "operate" /\ a.to.n = t.n
        BY <3>5, <4>1
      <4> QED
        BY <1>7, <4>2 DEF PastAnswers, Past
    <3>7. Positive(t2) \subseteq Response \ PastAnswers(t)
      BY <3>6 DEF Positive, For
    <3>8. ~Holds(as2, Positive(t2))
      BY <3>2, <3>5, <3>7 DEF Numbered, Holds
    <3> QED
      BY <3>5, <3>8 DEF Held
  <2>2. CASE as2 = as /\ t2.at = "select" /\ t2.n = t.n
    BY <1>7, <2>2 DEF Held, Positive, For
  <2>3. CASE as # <<>> /\ as2 = Tail(as) /\ t2.at = "select" /\ t2.n = t.n
             /\ Head(as) \notin For(t)
    <3>1. \A P : Holds(as, P) <=> Head(as) \in P \/ Holds(as2, P)
      BY <1>1, <2>3, Goes
    <3>2. Positive(t2) = Positive(t)
      BY <1>7, <2>3 DEF Positive, For
    <3> QED
      BY <1>7, <2>3, <3>1, <3>2 DEF Held, Positive
  <2>4. CASE Hears(t, rs, as, t2, rs2, as2, "open", model) /\ Head(as) \notin For(t)
    BY <1>7, <2>3, <2>4 DEF Hears
  <2>5. CASE Collects(t, rs, as, t2, rs2, as2)
    <3>1. Head(as) \notin For(t)
      BY <2>5 DEF Collects, For, Response, Termination
    <3> QED
      BY <1>7, <2>3, <2>5, <3>1 DEF Collects
  <2>6. ~Starts(t, rs, as, t2, rs2, as2, "open", model)
        /\ ~Gives(t, rs, as, t2, rs2, as2, "open", model)
        /\ ~Ends(t, rs, as, t2, rs2, as2)
    BY <1>7 DEF Starts, Gives, Ends
  <2> QED
    BY <2>1, <2>4, <2>5, <2>6 DEF Moves
<1>8. CASE t.at = "operate" /\ ~Holds(as, Positive(t))
  <2>1. as # <<>> =>
           \A P : Holds(as, P) <=> Head(as) \in P \/ Holds(Tail(as), P)
    BY <1>1, Goes
  <2>2. ASSUME Undoes(t, rs, t2, rs2, "open", model)
        PROVE  Held(t2, rs2, as2)
    <3>1. t2.at = "cancel" /\ Sends("open", rs, rs2, t2)
      BY <1>8, <2>2 DEF Undoes
    <3> QED
      BY <1>3, <3>1 DEF Held, Kinds
  <2>3. ASSUME as # <<>>, as2 = Tail(as), t2.at = t.at, t2.n = t.n
        PROVE  Held(t2, rs2, as2)
    <3>1. Positive(t2) = Positive(t)
      BY <2>3 DEF Positive, For
    <3> QED
      BY <1>8, <2>1, <2>3, <3>1 DEF Held
  <2>4. CASE Hears(t, rs, as, t2, rs2, as2, "open", model)
    <3>1. CASE t2 = t
      BY <2>3, <2>4, <3>1 DEF Hears
    <3>2. CASE Head(as) \in For(t) /\ Undoes(t, rs, t2, rs2, "open", model)
      BY <2>2, <3>2
    <3>3. CASE Head(as) \in For(t) /\ Head(as).kind = "accepted"
      BY <1>8, <2>1, <2>4, <3>3 DEF Hears, Positive
    <3> QED
      BY <2>4, <3>1, <3>2, <3>3 DEF Hears
  <2>5. CASE Gives(t, rs, as, t2, rs2, as2, "open", model)
    BY <1>8, <2>2, <2>5 DEF Gives
  <2>6. CASE Collects(t, rs, as, t2, rs2, as2)
    BY <2>3, <2>6 DEF Collects
  <2>7. ~Starts(t, rs, as, t2, rs2, as2, "open", model)
        /\ ~Ends(t, rs, as, t2, rs2, as2)
    BY <1>8 DEF Starts, Ends
  <2> QED
    BY <2>4, <2>5, <2>6, <2>7 DEF Moves
<1> QED
  BY <1>5, <1>6, <1>7, <1>8 DEF Held

(***************************************************************************)
(* A client that has selected is to learn it.                              *)
(***************************************************************************)
LEMMA HeldSelected ==
  ASSUME NEW t, NEW rs, NEW as, NEW rs2, NEW as2, Typed(t, rs, as),
         Replies(rs, as, rs2, as2, "open", "accepted"),
         Head(rs).kind = "select", Alone(t, rs, as, {"select"})
  PROVE  Held(t, rs2, as2)
<1> SUFFICES ASSUME "select" \notin t.late
             PROVE  Held(t, rs2, as2)
  BY DEF Held
<1> DEFINE r == Head(rs)
           a == [kind |-> "accepted", to |-> [kind |-> r.kind, n |-> r.n]]
<1>1. /\ r \in Request0 /\ rs # <<>> /\ as2 = Append(as, a)
      /\ rs \in Seq(Request0) /\ as \in Seq(Response \cup Termination)
  BY DEF Replies, Typed
<1>2. r.kind = "select"
  OBVIOUS
<1> HIDE DEF r
<1>3. /\ a \in Response /\ a \in Response \cup Termination
      /\ a.kind = "accepted" /\ (a \in For(t) <=> r \in To(t))
  BY <1>1, ReplyOf
<1> HIDE DEF a
<1>4. \A P : Holds(rs, P) <=> r \in P \/ Holds(Tail(rs), P)
  BY <1>1, Goes DEF r
<1>5. t.late \cap {"select"} = {}
  OBVIOUS
<1>6. r \in To(t)
  BY <1>1, <1>2, <1>4, <1>5 DEF Alone, AskedFor
<1>7. t.at = "select" /\ a \in Positive(t)
  BY <1>2, <1>3, <1>6 DEF To, Positive
<1>8. \A P : Holds(as2, P) <=> Holds(as, P) \/ a \in P
  BY <1>1, <1>3, Joins
<1> QED
  BY <1>7, <1>8 DEF Held

(***************************************************************************)
(* A refusal changes nothing for it.                                       *)
(***************************************************************************)
LEMMA HeldRefused ==
  ASSUME NEW t, NEW rs, NEW as, NEW rs2, NEW as2, NEW link, Typed(t, rs, as),
         Replies(rs, as, rs2, as2, link, "refused"),
         Head(rs).kind \in {"select", "operate"}, Held(t, rs, as)
  PROVE  Held(t, rs2, as2)
<1> DEFINE r == Head(rs)
           a == [kind |-> "refused", to |-> [kind |-> r.kind, n |-> r.n]]
<1>1. /\ r \in Request0 /\ rs # <<>> /\ rs2 = Tail(rs)
      /\ as2 = as \/ as2 = Append(as, a)
      /\ rs \in Seq(Request0) /\ as \in Seq(Response \cup Termination)
  BY DEF Replies, Typed
<1>2. r \notin AskedFor({"cancel"})
  BY DEF AskedFor
<1> HIDE DEF r
<1>3. a \in Response /\ a \in Response \cup Termination /\ a.kind = "refused"
  BY <1>1, ReplyOf
<1> HIDE DEF a
<1>4. \A P : Holds(rs, P) <=> r \in P \/ Holds(rs2, P)
  BY <1>1, Goes DEF r
<1>5. \A P : Holds(Append(as, a), P) <=> Holds(as, P) \/ a \in P
  BY <1>1, <1>3, Joins
<1>6. Holds(as2, Positive(t)) <=> Holds(as, Positive(t))
  BY <1>1, <1>3, <1>5 DEF Positive
<1> QED
  BY <1>2, <1>4, <1>6 DEF Held

(***************************************************************************)
(* A CommandTermination changes nothing for it.                            *)
(***************************************************************************)
LEMMA HeldTold ==
  ASSUME NEW t, NEW rs, NEW as, NEW as2, NEW e \in Termination,
         Typed(t, rs, as), as2 = Append(as, e), Held(t, rs, as)
  PROVE  Held(t, rs, as2)
<1>1. as \in Seq(Response \cup Termination)
  BY DEF Typed
<1>2. e \notin Positive(t)
  BY DEF Positive, For, Response, Termination
<1>3. \A P : Holds(Append(as, e), P) <=> Holds(as, P) \/ e \in P
  BY <1>1, Joins
<1> QED
  BY <1>2, <1>3 DEF Held

(***************************************************************************)
(* The invariant of the selection.                                         *)
(***************************************************************************)
Selected ==
    /\ ctlModel \notin Sbo => selection = None
    /\ \A c \in Conns :
          conn[c] = "open" /\ selection = c
             => Held(call[c], requests[c], answers[c])

(***************************************************************************)
(* Every step keeps the selection with a client that makes use of it.      *)
(***************************************************************************)
LEMMA SelectedStep ==
  ASSUME ClientTyped, cmds \in Seq(Cmd), conn \in [Conns -> {"open", "lost", "gone"}],
         [ClientNext]_cvars, AllAlone({"select"}), AllNumbered, Selected
  PROVE  Selected'
<1> USE ControlAssumption
<1>0. /\ call \in [Conns -> Call] /\ requests \in [Conns -> Seq(Request0)]
      /\ answers \in [Conns -> Seq(Response \cup Termination)]
      /\ \A c \in Conns : Typed(call[c], requests[c], answers[c])
  BY DEF ClientTyped, Typed
<1>1. ctlModel' = ctlModel
  BY CallsStep
<1>2. ASSUME NEW c \in Conns, UNCHANGED <<conn, selection>>, Only(c), Move(c)
      PROVE  Selected'
  <2> SUFFICES ASSUME NEW d \in Conns, conn[d] = "open", selection = d
               PROVE  Held(call'[d], requests'[d], answers'[d])
    BY <1>1, <1>2 DEF Selected
  <2>1. Held(call[d], requests[d], answers[d]) /\ ctlModel \in Sbo
    BY DEF Selected
  <2>2. CASE d # c
    BY <1>0, <1>2, <2>1, <2>2 DEF Only
  <2>3. CASE d = c
    <3>1. call'[c] \in Call
      BY <1>2 DEF Only
    <3>2. Moves(call[c], requests[c], answers[c], call'[c], requests'[c],
                answers'[c], "open", ctlModel)
      BY <1>2, <2>3 DEF Move
    <3>3. /\ Alone(call[c], requests[c], answers[c], {"select"})
          /\ Numbered(call[c], requests[c], answers[c])
      BY DEF AllAlone, AllNumbered
    <3> QED
      BY <1>0, <2>1, <2>3, <3>1, <3>2, <3>3, HeldMoves
  <2> QED
    BY <2>2, <2>3
<1>3. UNCHANGED vars => UNCHANGED <<conn, selection>>
  BY DEF vars
<1>4. ASSUME NEW c \in Conns, NEW delayed \in BOOLEAN,
             Operate(c, delayed) \/ Answer(c, delayed)
      PROVE  Selected'
  BY <1>2, <1>3, <1>4, OperateMoves, AnswerMoves
<1>5. ASSUME NEW c \in Conns, Watch(c) \/ Terminated(c) \/ GivesUp(c)
      PROVE  Selected'
  BY <1>2, <1>3, <1>5, WatchMoves, TerminatedMoves, GivesUpMoves
<1>6. ASSUME NEW c \in Conns, Only(c), conn' = conn,
             selection' # selection => selection' \in {None, c},
             ctlModel \notin Sbo => selection' = None,
             conn[c] = "open" /\ selection' = c
                => Held(call'[c], requests'[c], answers'[c])
      PROVE  Selected'
  <2> SUFFICES ASSUME NEW d \in Conns, conn[d] = "open", selection' = d
               PROVE  Held(call'[d], requests'[d], answers'[d])
    BY <1>1, <1>6 DEF Selected
  <2>1. CASE d = c
    BY <1>6, <2>1
  <2>2. CASE d # c
    <3>1. selection = d
      BY <1>6, <2>2
    <3>2. Held(call[d], requests[d], answers[d])
      BY <3>1 DEF Selected
    <3> QED
      BY <1>0, <1>6, <2>2, <3>2 DEF Only
  <2> QED
    BY <2>1, <2>2
<1>7. ASSUME NEW c \in Conns, Serve(c) PROVE Selected'
  <2> DEFINE request == Head(requests[c])
  <2>1. ASSUME NEW verdict \in {"accepted", "refused"}, Reply(c, verdict)
        PROVE  /\ Only(c) /\ call'[c] = call[c]
               /\ Replies(requests[c], answers[c], requests'[c], answers'[c],
                          conn[c], verdict)
    BY <1>7, <2>1, ReplyReplies DEF Serve
  <2>2. CASE /\ request.kind = "select"
             /\ SelectBySBO(c) \/ SelectBySBOw(c)
             /\ Reply(c, "accepted")
    <3>1. conn' = conn /\ selection' = c /\ ctlModel \in Sbo
      BY <2>2 DEF SelectBySBO, SelectBySBOw, Sbo
    <3>2. ASSUME conn[c] = "open"
          PROVE  Held(call'[c], requests'[c], answers'[c])
      <4>1. /\ call'[c] = call[c]
            /\ Replies(requests[c], answers[c], requests'[c], answers'[c],
                       "open", "accepted")
        BY <2>1, <2>2, <3>2
      <4>2. Alone(call[c], requests[c], answers[c], {"select"})
        BY DEF AllAlone
      <4>3. /\ Head(requests[c]).kind = "select"
            /\ Typed(call[c], requests[c], answers[c])
        BY <1>0, <2>2
      <4>4. Held(call[c], requests'[c], answers'[c])
        BY <4>1, <4>2, <4>3, HeldSelected
      <4> QED
        BY <4>1, <4>4
    <3> QED
      BY <1>6, <2>1, <2>2, <3>1, <3>2
  <2>3. CASE request.kind \in {"select", "operate"} /\ Refused(c)
    <3>1. conn' = conn /\ selection' = selection /\ Reply(c, "refused")
      BY <1>3, <2>3 DEF Refused
    <3>2. /\ Only(c) /\ call'[c] = call[c]
          /\ Replies(requests[c], answers[c], requests'[c], answers'[c],
                     conn[c], "refused")
      BY <2>1, <3>1
    <3>3. ASSUME conn[c] = "open", selection = c
          PROVE  Held(call'[c], requests'[c], answers'[c])
      <4>1. Held(call[c], requests[c], answers[c])
        BY <3>3 DEF Selected
      <4> QED
        BY <1>0, <2>3, <3>2, <4>1, HeldRefused
    <3>4. ctlModel \notin Sbo => selection = None
      BY DEF Selected
    <3> QED
      BY <1>6, <3>1, <3>2, <3>3, <3>4
  <2>4. CASE Operated(c, request.delayed)
    <3>1. conn' = conn /\ selection' = None
      BY <2>4 DEF Operated, OperLater, OperNow
    <3>2. PICK verdict \in {"accepted", "refused"} : Reply(c, verdict)
      BY <2>4 DEF Operated
    <3> QED
      BY <1>6, <2>1, <3>1, <3>2
  <2>5. CASE /\ Cancel(c) \/ (Serving(c) /\ selection # c /\ UNCHANGED vars)
             /\ Reply(c, "accepted")
    <3>1. /\ conn' = conn
          /\ selection' = None \/ (selection' = selection /\ selection # c)
      BY <1>3, <2>5 DEF Cancel
    <3>2. ctlModel \notin Sbo => selection = None
      BY DEF Selected
    <3> QED
      BY <1>6, <2>1, <2>5, <3>1, <3>2
  <2> QED
    BY <1>7, <2>2, <2>3, <2>4, <2>5, Serves
<1>8. ASSUME NEW c \in Conns, Leaves(c) PROVE Selected'
  <2>1. /\ \A d \in Conns \ {c} : conn'[d] = conn[d] /\ answers'[d] = answers[d]
        /\ conn'[c] # "open"
        /\ selection' \in {selection, None}
        /\ call' = call /\ requests' = requests
    BY <1>0, <1>8 DEF Leaves, Lose, Forget
  <2> QED
    BY <1>1, <2>1 DEF Selected
<1>9. ASSUME Engine PROVE Selected'
  <2>1. conn' = conn /\ selection' = selection
    <3>1. ASSUME NEW id \in DOMAIN cmds, Follow(id)
          PROVE  conn' = conn /\ selection' = selection
      BY <3>1 DEF Follow, Respond, RunRefused, Run, Tell
    <3>2. Finish \/ FinishEnds => conn' = conn /\ selection' = selection
      BY DEF Finish, FinishEnds
    <3> QED
      BY <1>9, <3>1, <3>2 DEF Engine
  <2>2. Tells /\ call' = call /\ requests' = requests
    BY <1>9, EngineDomain
  <2> SUFFICES ASSUME NEW d \in Conns, conn[d] = "open", selection = d
               PROVE  Held(call[d], requests[d], answers'[d])
    BY <1>1, <2>1, <2>2 DEF Selected
  <2>3. Held(call[d], requests[d], answers[d])
    BY DEF Selected
  <2>4. ASSUME NEW id \in DOMAIN cmds,
               answers'[d] = Append(answers[d], [kind |-> "termination",
                                                 cmd |-> id])
        PROVE  Held(call[d], requests[d], answers'[d])
    <3>1. [kind |-> "termination", cmd |-> id] \in Termination
      BY LenProperties DEF Termination
    <3> QED
      BY <1>0, <2>3, <2>4, <3>1, HeldTold
  <2> QED
    BY <2>2, <2>3, <2>4, TellsOne
<1>10. CASE Lapse
  BY <1>1, <1>10 DEF Lapse, SelectionLapses, Selected
<1>11. CASE UNCHANGED cvars
  BY <1>11 DEF cvars, vars, client, Selected
<1> QED
  BY <1>4, <1>5, <1>7, <1>8, <1>9, <1>10, <1>11 DEF ClientNext

(***************************************************************************)
(* The invariant of the clients, whatever the application does.            *)
(***************************************************************************)
ClientInv ==
    /\ ClientTyped
    /\ AllAlone({"select"}) /\ AllAlone(Kinds)
    /\ AllNumbered
    /\ Selected

(***************************************************************************)
(* At first there are no requests, and no one has selected.                *)
(***************************************************************************)
LEMMA ClientInvInit == ASSUME ClientInit PROVE ClientInv
<1>1. /\ selection = None /\ cmds = <<>> /\ issued = <<>>
      /\ call = [c \in Conns |-> [at |-> "idle", n |-> 0, seen |-> <<>>,
                                  result |-> "none", late |-> {}]]
      /\ requests = [c \in Conns |-> <<>>] /\ answers = [c \in Conns |-> <<>>]
  BY DEF ClientInit, Init
<1>2. \A S, P : <<>> \in Seq(S) /\ ~Holds(<<>>, P) /\ AtMostOne(<<>>, P)
  BY Emptied
<1>3. [at |-> "idle", n |-> 0, seen |-> <<>>, result |-> "none", late |-> {}]
         \in Call
  BY <1>2 DEF Call
<1>4. ClientTyped
  BY <1>1, <1>2, <1>3 DEF ClientTyped
<1>5. \A c \in Conns : requests[c] = <<>> /\ answers[c] = <<>>
  BY <1>1
<1>6. AllAlone({"select"}) /\ AllAlone(Kinds)
  BY <1>2, <1>5 DEF AllAlone, Alone
<1>7. AllNumbered
  BY <1>2, <1>5 DEF AllNumbered, Numbered
<1>8. Selected
  BY <1>1, ControlAssumption DEF Selected
<1> QED
  BY <1>4, <1>6, <1>7, <1>8 DEF ClientInv

(***************************************************************************)
(* Every step keeps the invariant of the clients and that of the object.   *)
(***************************************************************************)
LEMMA ClientInvNext ==
  ASSUME ClientInv, FreeInv, [ClientNext]_cvars
  PROVE  ClientInv' /\ FreeInv'
<1>1. FreeInv'
  BY CallsStep, FreeNext DEF ClientInv
<1>2. /\ cmds \in Seq(Cmd) /\ cmds' \in Seq(Cmd)
      /\ conn \in [Conns -> {"open", "lost", "gone"}]
  BY <1>1 DEF FreeInv, TypeOK
<1>3. ClientTyped'
  BY <1>2, ClientTypeStep DEF ClientInv
<1>4. {"select"} \in SUBSET Kinds /\ Kinds \in SUBSET Kinds
  BY DEF Kinds
<1>5. AllAlone({"select"})' /\ AllAlone(Kinds)'
  BY <1>2, <1>4, AloneStep DEF ClientInv
<1>6. AllNumbered'
  BY <1>2, NumberedStep DEF ClientInv
<1>7. Selected'
  BY <1>2, SelectedStep DEF ClientInv
<1> QED
  BY <1>1, <1>3, <1>5, <1>6, <1>7 DEF ClientInv

(***************************************************************************)
(* The clients and the object keep their invariants, whatever times out.   *)
(***************************************************************************)
THEOREM ClientInvariance == ClientSpec => [](ClientInv /\ FreeInv)
<1>1. ClientInit => ClientInv /\ FreeInv
  BY ClientInvInit, FreeInit DEF ClientInit
<1>2. (ClientInv /\ FreeInv) /\ [ClientNext]_cvars => (ClientInv /\ FreeInv)'
  BY ClientInvNext
<1> QED
  BY <1>1, <1>2, PTL DEF ClientSpec

(***************************************************************************)
(* The clients use the object as any clients do: what is proved of it      *)
(* holds while they call operate().                                        *)
(***************************************************************************)
THEOREM ClientsUseTheObject == ClientSpec => Spec
<1>1. ClientInit => Init
  BY DEF ClientInit
<1>2. ClientInv /\ [ClientNext]_cvars => [Next]_vars
  BY CallsStep DEF ClientInv
<1> QED
  BY <1>1, <1>2, ClientInvariance, PTL DEF ClientSpec, Spec

(***************************************************************************)
(* "a Cancel releases the selection at once": a client that has returned   *)
(* from its calls, and whose requests have been served, holds no selection *)
(* unless its request to select is what timed out.                         *)
(***************************************************************************)
THEOREM SelectionIsReleased == ClientSpec => []SelectionReleased
<1>1. ClientInv => SelectionReleased
  <2> SUFFICES ASSUME ClientInv, NEW c \in Conns, selection = c,
                      call[c].at = "idle", requests[c] = <<>>, conn[c] = "open"
               PROVE  "select" \in call[c].late
    BY DEF SelectionReleased
  <2>1. Held(call[c], requests[c], answers[c])
    BY DEF ClientInv, Selected
  <2>2. ~Holds(requests[c], AskedFor({"cancel"}))
    BY Emptied
  <2> QED
    BY <2>1, <2>2 DEF Held
<1> QED
  BY <1>1, ClientInvariance, PTL

----------------------------------------------------------------------------
(* What a call of which nothing has timed out knows of its command         *)

OperAnswers(verdict) == {a \in Response : a.kind = verdict /\ a.to.kind = "operate"}
Ending(ids) == {e \in Termination : e.cmd \in ids}
Returned(t, result) == t.at = "idle" /\ t.result = result

\* Oper has been accepted, or the call has returned as if it had.
Has(t, as) ==
    Holds(as, OperAnswers("accepted")) \/ t.at = "termination" \/ Returned(t, "done")

(***************************************************************************)
(* mine are the commands of the call, unended and told those of the client *)
(* that have not ended and whose end it has been told of.  A call has one  *)
(* command at most, and has it once Oper has been accepted; when it has    *)
(* been refused the call has none that may still be executed.              *)
(***************************************************************************)
Sound(t, rs, as, mine, unended) ==
    /\ \A x, y \in mine : x = y
    /\ Holds(rs, AskedFor({"operate"})) => mine = {}
    /\ Holds(as, OperAnswers("refused")) \/ t.at = "cancel" \/ Returned(t, "error")
          => mine \cap unended = {}
    /\ Has(t, as) => mine # {}

(***************************************************************************)
(* In enhanced security the client has no other command that has not       *)
(* ended, and every termination on its way, or collected, is that of the   *)
(* command of the call, which waits for it.                                *)
(***************************************************************************)
Followed(t, as, mine, unended, told) ==
    /\ unended \subseteq mine
    /\ unended # {} => t.at \in {"operate", "termination"}
    /\ Holds(as, OperAnswers("refused")) \/ t.at = "cancel" => mine = {}
    /\ AtMostOne(as, Termination)
    /\ ~Holds(as, Termination \ Ending(mine \cap told))
    /\ Holds(as, Termination) => t.seen = <<>> /\ t.at \in {"operate", "termination"}
    /\ t.seen # <<>> => t.seen[1] \in mine \cap told
    /\ Returned(t, "done") => mine \cap told # {}

Right(t, rs, as, mine, unended, told, model) ==
    /\ Sound(t, rs, as, mine, unended)
    /\ model \in Enhanced => Followed(t, as, mine, unended, told)
    /\ model \notin Enhanced => t.at # "termination"

(***************************************************************************)
(* A call begins.                                                          *)
(***************************************************************************)
LEMMA RightStarts ==
  ASSUME NEW t, NEW rs, NEW as, NEW t2, NEW rs2, NEW as2, NEW link, NEW model,
         NEW mine, NEW unended, NEW told,
         Starts(t, rs, as, t2, rs2, as2, link, model), t.late = {},
         Alone(t, rs, as, Kinds), Right(t, rs, as, mine, unended, told, model)
  PROVE  Right(t2, rs2, as2, {}, unended, told, model)
<1>1. /\ t.at = "idle" /\ t2.at \in {"select", "operate"} /\ t2.seen = <<>>
      /\ as2 = as
  BY DEF Starts
<1>2. Quiet(rs, as, Kinds)
  BY <1>1, AloneIdle DEF Kinds
<1>3. \A verdict : OperAnswers(verdict) \subseteq AnswersTo(Kinds)
  BY DEF OperAnswers, AnswersTo, Kinds
<1>4. \A verdict : ~Holds(as, OperAnswers(verdict))
  BY <1>2, <1>3 DEF Quiet, Holds
<1>5. Sound(t2, rs2, as2, {}, unended)
  BY <1>1, <1>4 DEF Sound, Has, Returned
<1>6. ASSUME model \in Enhanced
      PROVE  Followed(t2, as2, {}, unended, told)
  <2>1. Followed(t, as, mine, unended, told)
    BY <1>6 DEF Right
  <2>2. unended = {} /\ ~Holds(as, Termination)
    BY <1>1, <2>1 DEF Followed
  <2>3. ~Holds(as, Termination \ Ending({} \cap told)) /\ AtMostOne(as, Termination)
    BY <2>2 DEF Holds, AtMostOne
  <2> QED
    BY <1>1, <1>4, <2>2, <2>3 DEF Followed, Returned
<1> QED
  BY <1>1, <1>5, <1>6 DEF Right

(***************************************************************************)
(* What leaves a queue takes nothing away from this.                       *)
(***************************************************************************)
LEMMA RightFewer ==
  ASSUME NEW t, NEW rs, NEW as, NEW rs2, NEW as2, NEW model,
         NEW mine, NEW unended, NEW told,
         \A P : Holds(rs2, P) => Holds(rs, P),
         \A P : Holds(as2, P) => Holds(as, P),
         \A P : AtMostOne(as, P) => AtMostOne(as2, P),
         Right(t, rs, as, mine, unended, told, model)
  PROVE  Right(t, rs2, as2, mine, unended, told, model)
<1>1. Sound(t, rs, as, mine, unended) => Sound(t, rs2, as2, mine, unended)
  BY DEF Sound, Has
<1>2. Followed(t, as, mine, unended, told) => Followed(t, as2, mine, unended, told)
  BY DEF Followed
<1> QED
  BY <1>1, <1>2 DEF Right

(***************************************************************************)
(* A call that selects, or that undoes what it has done, asks for no       *)
(* command.                                                                *)
(***************************************************************************)
LEMMA SendsOther ==
  ASSUME NEW rs \in Seq(Request0), NEW rs2, NEW link, NEW t \in Call,
         t.at = "cancel", Sends(link, rs, rs2, t)
  PROVE  Holds(rs2, AskedFor({"operate"})) <=> Holds(rs, AskedFor({"operate"}))
<1>1. CASE link # "open"
  BY <1>1 DEF Sends
<1>2. CASE link = "open"
  <2>1. PICK delayed \in BOOLEAN :
           rs2 = Append(rs, [kind |-> t.at, n |-> t.n, delayed |-> delayed])
    BY <1>2 DEF Sends
  <2> DEFINE r == [kind |-> t.at, n |-> t.n, delayed |-> delayed]
  <2>2. r \in Request0 /\ r.kind = "cancel" /\ rs2 = Append(rs, r)
    BY <2>1, CallType DEF Request0, Kinds
  <2> HIDE DEF r
  <2>3. \A P : Holds(rs2, P) <=> Holds(rs, P) \/ r \in P
    BY <2>2, Joins
  <2> QED
    BY <2>2, <2>3 DEF AskedFor
<1> QED
  BY <1>1, <1>2

(***************************************************************************)
(* A call that undoes what it has done had no command, or one that ended.  *)
(***************************************************************************)
LEMMA RightUndoes ==
  ASSUME NEW t, NEW rs, NEW as, NEW t2, NEW rs2, NEW link, NEW model,
         NEW mine, NEW unended, NEW told,
         t2 \in Call, rs \in Seq(Request0), t.at \in Kinds, Continues(t, t2),
         t.at = "operate" => Holds(as, OperAnswers("refused")),
         t.at = "select" => mine = {},
         Undoes(t, rs, t2, rs2, link, model),
         Right(t, rs, as, mine, unended, told, model)
  PROVE  \A as2 : /\ \A P : Holds(as2, P) => Holds(as, P)
                  /\ \A P : AtMostOne(as, P) => AtMostOne(as2, P)
                  => Right(t2, rs2, as2, mine, unended, told, model)
<1> SUFFICES ASSUME NEW as2,
                    \A P : Holds(as2, P) => Holds(as, P),
                    \A P : AtMostOne(as, P) => AtMostOne(as2, P)
             PROVE  Right(t2, rs2, as2, mine, unended, told, model)
  OBVIOUS
<1>1. /\ t2.at = "cancel" \/ (t2.at = "idle" /\ t2.result = "error")
      /\ t2.seen = t.seen
      /\ Holds(rs2, AskedFor({"operate"})) <=> Holds(rs, AskedFor({"operate"}))
  BY SendsOther DEF Undoes, Continues
<1>2. Sound(t, rs, as, mine, unended)
  BY DEF Right
<1>3. mine \cap unended = {}
  BY <1>2 DEF Sound, Kinds
<1>4. Holds(as2, OperAnswers("accepted")) => mine # {}
  BY <1>2 DEF Sound, Has
<1>5. Sound(t2, rs2, as2, mine, unended)
  BY <1>1, <1>2, <1>3, <1>4 DEF Sound, Has, Returned
<1>6. ASSUME model \in Enhanced
      PROVE  Followed(t2, as2, mine, unended, told)
  <2>1. Followed(t, as, mine, unended, told)
    BY <1>6 DEF Right
  <2>2. mine = {} /\ unended = {}
    BY <2>1 DEF Followed, Kinds
  <2>3. Termination \ Ending(mine \cap told) = Termination
    BY <2>2 DEF Ending
  <2>4. ~Holds(as, Termination) /\ t.seen = <<>>
    BY <2>1, <2>2, <2>3 DEF Followed
  <2>5. /\ ~Holds(as2, Termination) /\ AtMostOne(as2, Termination)
        /\ ~Holds(as2, Termination \ Ending(mine \cap told))
    BY <2>1, <2>3, <2>4 DEF Followed
  <2> QED
    BY <1>1, <2>2, <2>4, <2>5 DEF Followed, Returned
<1> QED
  BY <1>1, <1>5, <1>6 DEF Right

(***************************************************************************)
(* A call hears an answer.                                                 *)
(***************************************************************************)
LEMMA RightHears ==
  ASSUME NEW t, NEW rs, NEW as, NEW t2, NEW rs2, NEW as2, NEW link, NEW model,
         NEW mine, NEW unended, NEW told,
         Typed(t, rs, as), t2 \in Call,
         Hears(t, rs, as, t2, rs2, as2, link, model),
         t.at = "select" => mine = {},
         Right(t, rs, as, mine, unended, told, model)
  PROVE  Right(t2, rs2, as2, mine, unended, told, model)
<1>1. /\ t \in Call /\ rs \in Seq(Request0)
      /\ as \in Seq(Response \cup Termination) /\ as # <<>> /\ as2 = Tail(as)
  BY DEF Typed, Hears
<1>2. /\ \A P : Holds(as, P) <=> Head(as) \in P \/ Holds(as2, P)
      /\ \A P : AtMostOne(as, P) => AtMostOne(as2, P)
  BY <1>1, Goes
<1>3. Right(t, rs, as2, mine, unended, told, model)
  BY <1>2, RightFewer
<1>4. Sound(t, rs, as, mine, unended) /\ Sound(t, rs, as2, mine, unended)
  BY <1>3 DEF Right
<1>5. CASE t2 = t /\ rs2 = rs
  BY <1>3, <1>5
<1>6. ASSUME Head(as) \in For(t), t.at = "operate"
      PROVE  Head(as).to.kind = "operate" /\ Head(as) \in Response
  <2>1. Head(as).to = [kind |-> t.at, n |-> t.n] /\ Head(as) \in Response
    BY <1>6 DEF For
  <2>2. [kind |-> t.at, n |-> t.n].kind = t.at
    OBVIOUS
  <2>3. Head(as).to.kind = t.at
    BY <2>1, <2>2, Zenon
  <2> QED
    BY <1>6, <2>1, <2>3
<1>7. CASE /\ Head(as) \in For(t) /\ t.at \in Kinds /\ Continues(t, t2)
           /\ Head(as).kind = "refused"
           /\ Undoes(t, rs, t2, rs2, link, model)
  <2>1. t.at = "operate" => Holds(as, OperAnswers("refused"))
    BY <1>2, <1>6, <1>7 DEF OperAnswers
  <2>2. \A P : Holds(as2, P) => Holds(as, P)
    BY <1>2
  <2> QED
    BY <1>1, <1>2, <1>7, <2>1, <2>2, RightUndoes
<1>8. CASE /\ Head(as) \in For(t) /\ t.at \in Kinds /\ Continues(t, t2)
           /\ Head(as).kind = "accepted"
           /\ GoesOn(t, rs, t2, rs2, link, model)
  <2>1. t2.seen = t.seen
    BY <1>8 DEF Continues
  <2>2. CASE t.at = "select"
    <3>1. t2.at = "operate" /\ mine = {}
      BY <1>8, <2>2 DEF GoesOn
    <3>2. Sound(t2, rs2, as2, mine, unended)
      BY <1>4, <3>1 DEF Sound, Has, Returned
    <3>3. Followed(t, as2, mine, unended, told) => Followed(t2, as2, mine, unended, told)
      BY <2>1, <3>1 DEF Followed, Returned
    <3> QED
      BY <1>3, <3>1, <3>2, <3>3 DEF Right
  <2>3. CASE t.at = "operate"
    <3>1. rs2 = rs /\ mine # {}
      BY <1>2, <1>4, <1>6, <1>8, <2>3 DEF GoesOn, OperAnswers, Sound, Has
    <3>2. CASE model \in Enhanced
      <4>1. t2.at = "termination"
        BY <1>8, <2>3, <3>2 DEF GoesOn
      <4>2. Sound(t2, rs2, as2, mine, unended)
        BY <1>4, <3>1, <4>1 DEF Sound, Has, Returned
      <4>3. Followed(t, as2, mine, unended, told) => Followed(t2, as2, mine, unended, told)
        BY <2>1, <4>1 DEF Followed, Returned
      <4> QED
        BY <1>3, <3>2, <4>2, <4>3 DEF Right
    <3>3. CASE model \notin Enhanced
      <4>1. t2.at = "idle" /\ t2.result = "done"
        BY <1>8, <2>3, <3>3 DEF GoesOn
      <4>2. Sound(t2, rs2, as2, mine, unended)
        BY <1>4, <3>1, <4>1 DEF Sound, Has, Returned
      <4> QED
        BY <3>3, <4>1, <4>2 DEF Right
    <3> QED
      BY <3>2, <3>3
  <2>4. CASE t.at = "cancel"
    <3>1. t2.at = "idle" /\ t2.result = "error" /\ rs2 = rs
      BY <1>8, <2>4 DEF GoesOn
    <3>2. Sound(t2, rs2, as2, mine, unended)
      BY <1>4, <2>4, <3>1 DEF Sound, Has, Returned
    <3>3. Followed(t, as2, mine, unended, told) => Followed(t2, as2, mine, unended, told)
      BY <2>1, <2>4, <3>1 DEF Followed, Returned
    <3> QED
      BY <1>3, <3>1, <3>2, <3>3 DEF Right
  <2> QED
    BY <1>8, <2>2, <2>3, <2>4 DEF Kinds
<1> QED
  BY <1>5, <1>7, <1>8 DEF Hears

(***************************************************************************)
(* A call collects a termination.                                          *)
(***************************************************************************)
LEMMA RightCollects ==
  ASSUME NEW t, NEW rs, NEW as, NEW t2, NEW rs2, NEW as2, NEW model,
         NEW mine, NEW unended, NEW told,
         Typed(t, rs, as), t2 \in Call, Collects(t, rs, as, t2, rs2, as2),
         Right(t, rs, as, mine, unended, told, model)
  PROVE  Right(t2, rs2, as2, mine, unended, told, model)
<1> DEFINE e == Head(as)
<1>1. /\ t \in Call /\ t.seen \in Seq(Nat)
      /\ as \in Seq(Response \cup Termination) /\ as # <<>> /\ as2 = Tail(as)
      /\ e \in Termination /\ rs2 = rs
      /\ t2.at = t.at /\ t2.result = t.result
      /\ t2.seen = IF t.at = "idle" THEN t.seen ELSE Append(t.seen, e.cmd)
  BY CallType DEF Typed, Collects
<1>2. /\ \A P : Holds(as, P) <=> e \in P \/ Holds(as2, P)
      /\ \A P : AtMostOne(as, P) => AtMostOne(as2, P) /\ (e \in P => ~Holds(as2, P))
  BY <1>1, Goes
<1>3. Right(t, rs, as2, mine, unended, told, model)
  BY <1>2, RightFewer
<1>4. Sound(t2, rs2, as2, mine, unended)
  BY <1>1, <1>3 DEF Right, Sound, Has, Returned
<1>5. ASSUME model \in Enhanced
      PROVE  Followed(t2, as2, mine, unended, told)
  <2>1. Followed(t, as, mine, unended, told) /\ Followed(t, as2, mine, unended, told)
    BY <1>3, <1>5 DEF Right
  <2>2. Holds(as, Termination) /\ ~Holds(as2, Termination)
    BY <1>1, <1>2, <2>1 DEF Followed
  <2>3. t.seen = <<>> /\ t.at \in {"operate", "termination"}
    BY <2>1, <2>2 DEF Followed
  <2>4. e \in Ending(mine \cap told)
    BY <1>1, <1>2, <2>1 DEF Followed
  <2>5. e.cmd \in Nat /\ e.cmd \in mine \cap told
    BY <1>1, <2>4 DEF Ending, Termination
  <2>6. t2.seen = Append(t.seen, e.cmd)
    BY <1>1, <2>3
  <2> HIDE DEF e
  <2>7. t2.seen[1] = e.cmd
    <3>1. Len(t.seen) = 0
      BY <2>3, EmptySeq
    <3>2. Append(t.seen, e.cmd)[Len(t.seen) + 1] = e.cmd
      BY <1>1, <2>5, AppendProperties
    <3> QED
      BY <2>6, <3>1, <3>2
  <2> QED
    BY <1>1, <2>1, <2>2, <2>3, <2>5, <2>7 DEF Followed, Returned
<1> QED
  BY <1>1, <1>3, <1>4, <1>5 DEF Right

(***************************************************************************)
(* Its end, positive or negative, leaves no command unended.               *)
(***************************************************************************)
LEMMA RightEnds ==
  ASSUME NEW t, NEW rs, NEW as, NEW t2, NEW rs2, NEW as2, NEW model,
         NEW mine, NEW unended, NEW told,
         Ends(t, rs, as, t2, rs2, as2), told \cap unended = {},
         Right(t, rs, as, mine, unended, told, model)
  PROVE  Right(t2, rs2, as2, mine, unended, told, model)
<1>1. /\ t.at = "termination" /\ t.seen # <<>> /\ t2.at = "idle"
      /\ rs2 = rs /\ as2 = as /\ t2.seen = t.seen
  BY DEF Ends, Continues
<1>2. Sound(t, rs, as, mine, unended) /\ Followed(t, as, mine, unended, told)
  BY <1>1 DEF Right
<1> DEFINE id == t.seen[1]
<1>3. id \in mine /\ id \in told
  BY <1>1, <1>2 DEF Followed
<1> HIDE DEF id
<1>4. mine = {id} /\ id \notin unended
  BY <1>2, <1>3 DEF Sound
<1>5. unended = {} /\ mine # {} /\ mine \cap told # {}
  BY <1>2, <1>3, <1>4 DEF Followed
<1>6. Sound(t2, rs2, as2, mine, unended)
  BY <1>1, <1>2, <1>5 DEF Sound, Has, Returned
<1>7. Followed(t2, as2, mine, unended, told)
  BY <1>1, <1>2, <1>5 DEF Followed, Returned
<1> QED
  BY <1>1, <1>6, <1>7 DEF Right

(***************************************************************************)
(* Whatever a client does, what it knows stays right: nothing of its call  *)
(* has timed out then, nor before.                                         *)
(***************************************************************************)
LEMMA RightMoves ==
  ASSUME NEW t, NEW rs, NEW as, NEW t2, NEW rs2, NEW as2, NEW link, NEW model,
         NEW mine, NEW mine2, NEW unended, NEW told,
         Typed(t, rs, as), t2 \in Call,
         Moves(t, rs, as, t2, rs2, as2, link, model),
         Alone(t, rs, as, Kinds), t2.late = {},
         t.at = "select" => mine = {}, told \cap unended = {},
         t2.n = t.n => mine2 = mine, t2.n # t.n => mine2 = {},
         t.late = {} => Right(t, rs, as, mine, unended, told, model)
  PROVE  Right(t2, rs2, as2, mine2, unended, told, model)
<1>0. t.n \in Nat
  BY CallType DEF Typed
<1>1. ~Gives(t, rs, as, t2, rs2, as2, link, model)
  BY DEF Gives
<1>2. CASE Starts(t, rs, as, t2, rs2, as2, link, model)
  <2>1. t.late = {} /\ t2.n # t.n
    BY <1>0, <1>2 DEF Starts
  <2> QED
    BY <1>2, <2>1, RightStarts
<1>3. CASE Hears(t, rs, as, t2, rs2, as2, link, model)
  <2>1. t.late = {} /\ t2.n = t.n
    BY <1>3 DEF Hears, GoesOn, Continues
  <2> QED
    BY <1>3, <2>1, RightHears
<1>4. CASE Collects(t, rs, as, t2, rs2, as2)
  <2>1. t.late = {} /\ t2.n = t.n
    BY <1>4 DEF Collects
  <2> QED
    BY <1>4, <2>1, RightCollects
<1>5. CASE Ends(t, rs, as, t2, rs2, as2)
  <2>1. t.late = {} /\ t2.n = t.n
    BY <1>5 DEF Ends, Continues
  <2> QED
    BY <1>5, <2>1, RightEnds
<1> QED
  BY <1>1, <1>2, <1>3, <1>4, <1>5 DEF Moves

(***************************************************************************)
(* The server answers a request without a new command.                     *)
(***************************************************************************)
LEMMA RightReplies ==
  ASSUME NEW t, NEW rs, NEW as, NEW rs2, NEW as2, NEW link, NEW verdict,
         NEW model, NEW mine, NEW unended, NEW told,
         Typed(t, rs, as), verdict \in {"accepted", "refused"},
         Replies(rs, as, rs2, as2, link, verdict),
         Head(rs).kind = "operate" => verdict = "refused",
         Right(t, rs, as, mine, unended, told, model)
  PROVE  Right(t, rs2, as2, mine, unended, told, model)
<1> DEFINE r == Head(rs)
           a == [kind |-> verdict, to |-> [kind |-> r.kind, n |-> r.n]]
<1>1. /\ r \in Request0 /\ rs2 = Tail(rs) /\ rs # <<>>
      /\ as2 = IF link = "open" THEN Append(as, a) ELSE as
      /\ rs \in Seq(Request0) /\ as \in Seq(Response \cup Termination)
      /\ r.kind = "operate" => verdict = "refused"
  BY DEF Replies, Typed
<1> HIDE DEF r
<1>2. /\ a \in Response /\ a \in Response \cup Termination
      /\ a.to.kind = r.kind /\ a.kind = verdict
  BY <1>1, ReplyOf
<1> HIDE DEF a
<1>3. \A P : Holds(rs, P) <=> r \in P \/ Holds(rs2, P)
  BY <1>1, Goes DEF r
<1>4. /\ \A P : Holds(Append(as, a), P) <=> Holds(as, P) \/ a \in P
      /\ \A P : AtMostOne(as, P) /\ (a \in P => ~Holds(as, P))
                  => AtMostOne(Append(as, a), P)
  BY <1>1, <1>2, Joins
<1>5. a \notin Termination /\ a \notin OperAnswers("accepted")
  BY <1>1, <1>2 DEF Response, Termination, OperAnswers
<1>6. Sound(t, rs, as, mine, unended)
  BY DEF Right
<1>7. a \in OperAnswers("refused") => mine = {}
  BY <1>1, <1>2, <1>3, <1>6 DEF Sound, OperAnswers, AskedFor
<1>8. /\ Holds(as2, OperAnswers("accepted")) => Holds(as, OperAnswers("accepted"))
      /\ Holds(as2, OperAnswers("refused"))
           => Holds(as, OperAnswers("refused")) \/ mine = {}
      /\ Holds(as2, Termination) => Holds(as, Termination)
      /\ \A ids : Holds(as2, Termination \ Ending(ids))
                    => Holds(as, Termination \ Ending(ids))
      /\ AtMostOne(as, Termination) => AtMostOne(as2, Termination)
      /\ Holds(rs2, AskedFor({"operate"})) => Holds(rs, AskedFor({"operate"}))
  BY <1>1, <1>3, <1>4, <1>5, <1>7
<1>9. Sound(t, rs2, as2, mine, unended)
  BY <1>6, <1>8 DEF Sound, Has
<1>10. Followed(t, as, mine, unended, told)
          => Followed(t, as2, mine, unended, told)
  BY <1>8 DEF Followed
<1> QED
  BY <1>9, <1>10 DEF Right

(***************************************************************************)
(* The server accepts Oper: the command id is that of the call.            *)
(***************************************************************************)
LEMMA RightOperated ==
  ASSUME NEW t, NEW rs, NEW as, NEW rs2, NEW as2, NEW link, NEW verdict,
         NEW model, NEW mine, NEW unended, NEW told, NEW unended2, NEW id,
         Typed(t, rs, as), verdict \in {"accepted", "refused"},
         Replies(rs, as, rs2, as2, link, verdict),
         Head(rs).kind = "operate", Alone(t, rs, as, Kinds), t.late = {},
         unended2 \in {unended, unended \cup {id}}, id \notin unended,
         verdict = "refused" => model \notin Enhanced /\ unended2 = unended,
         Right(t, rs, as, mine, unended, told, model)
  PROVE  /\ Head(rs).n = t.n /\ t.at = "operate"
         /\ Right(t, rs2, as2, {id}, unended2, told, model)
<1> DEFINE r == Head(rs)
           a == [kind |-> verdict, to |-> [kind |-> r.kind, n |-> r.n]]
<1>1. /\ r \in Request0 /\ rs2 = Tail(rs) /\ rs # <<>>
      /\ as2 = IF link = "open" THEN Append(as, a) ELSE as
      /\ rs \in Seq(Request0) /\ as \in Seq(Response \cup Termination)
      /\ r.kind = "operate"
  BY DEF Replies, Typed
<1> HIDE DEF r
<1>2. /\ a \in Response /\ a \in Response \cup Termination /\ a.kind = verdict
  BY <1>1, ReplyOf
<1> HIDE DEF a
<1>3. /\ \A P : Holds(rs, P) <=> r \in P \/ Holds(rs2, P)
      /\ \A P : AtMostOne(rs, P) /\ r \in P => ~Holds(rs2, P)
  BY <1>1, Goes DEF r
<1>4. r \in AskedFor(Kinds) /\ r \in AskedFor({"operate"})
  BY <1>1 DEF AskedFor, Kinds
<1>5. /\ ~Holds(rs2, AskedFor(Kinds)) /\ ~Holds(as, AnswersTo(Kinds))
      /\ r \in To(t)
  BY <1>3, <1>4 DEF Alone
<1>6. t.at = "operate" /\ r.n = t.n
  BY <1>1, <1>5 DEF To
<1>7. /\ ~Holds(rs2, AskedFor({"operate"}))
      /\ \A v : ~Holds(as, OperAnswers(v))
  <2>1. /\ AskedFor({"operate"}) \subseteq AskedFor(Kinds)
        /\ \A v : OperAnswers(v) \subseteq AnswersTo(Kinds)
    BY DEF AskedFor, OperAnswers, AnswersTo, Kinds
  <2> QED
    BY <1>5, <2>1 DEF Holds
<1>8. \A P : Holds(Append(as, a), P) <=> Holds(as, P) \/ a \in P
  BY <1>1, <1>2, Joins
<1>9. a \notin Termination /\ (a \in OperAnswers("refused") => verdict = "refused")
  BY <1>2 DEF Response, Termination, OperAnswers
<1>10. /\ Holds(as2, OperAnswers("refused")) => verdict = "refused"
       /\ Holds(as2, Termination) => Holds(as, Termination)
  BY <1>1, <1>7, <1>8, <1>9
<1>11. Sound(t, rs2, as2, {id}, unended2)
  BY <1>6, <1>7, <1>10 DEF Sound, Has, Returned
<1>12. ASSUME model \in Enhanced
       PROVE  Followed(t, as2, {id}, unended2, told)
  <2>1. Followed(t, as, mine, unended, told) /\ Sound(t, rs, as, mine, unended)
    BY <1>12 DEF Right
  <2>2. mine = {}
    BY <1>3, <1>4, <2>1 DEF Sound
  <2>3. Termination \ Ending(mine \cap told) = Termination
    BY <2>2 DEF Ending
  <2>4. unended2 \subseteq {id} /\ t.seen = <<>> /\ ~Holds(as2, Termination)
    BY <1>10, <2>1, <2>2, <2>3 DEF Followed
  <2>5. /\ AtMostOne(as2, Termination)
        /\ ~Holds(as2, Termination \ Ending({id} \cap told))
    BY <2>4 DEF AtMostOne, Holds
  <2>6. ~Holds(as2, OperAnswers("refused"))
    BY <1>10, <1>12
  <2> QED
    BY <1>6, <2>4, <2>5, <2>6 DEF Followed, Returned
<1> QED
  BY <1>6, <1>11, <1>12 DEF Right, r

(***************************************************************************)
(* Commands end, and the client may be told of the end of one.             *)
(***************************************************************************)
LEMMA RightTold ==
  ASSUME NEW t, NEW rs, NEW as, NEW as2, NEW model, NEW mine,
         NEW unended, NEW told, NEW unended2, NEW told2,
         Typed(t, rs, as), unended2 \subseteq unended, told \subseteq told2,
         \/ as2 = as
         \/ \E id \in unended :
               /\ id \in Nat /\ id \in told2 /\ id \notin told
               /\ as2 = Append(as, [kind |-> "termination", cmd |-> id]),
         Right(t, rs, as, mine, unended, told, model)
  PROVE  Right(t, rs, as2, mine, unended2, told2, model)
<1>1. as \in Seq(Response \cup Termination)
  BY DEF Typed
<1>2. Sound(t, rs, as, mine, unended)
  BY DEF Right
<1>3. \A ids, more : ids \subseteq more /\ ~Holds(as, Termination \ Ending(ids))
                       => ~Holds(as, Termination \ Ending(more))
  BY DEF Holds, Ending
<1>4. mine \cap told \subseteq mine \cap told2
  OBVIOUS
<1>5. CASE as2 = as
  <2>1. Sound(t, rs, as, mine, unended2)
    BY <1>2 DEF Sound
  <2>2. Followed(t, as, mine, unended, told)
          => Followed(t, as, mine, unended2, told2)
    BY <1>3, <1>4 DEF Followed
  <2> QED
    BY <1>5, <2>1, <2>2 DEF Right
<1>6. ASSUME NEW id \in unended, id \in Nat, id \in told2, id \notin told,
             as2 = Append(as, [kind |-> "termination", cmd |-> id])
      PROVE  Right(t, rs, as2, mine, unended2, told2, model)
  <2> DEFINE e == [kind |-> "termination", cmd |-> id]
  <2>1. /\ e \in Termination /\ e.cmd = id /\ e \in Response \cup Termination
        /\ as2 = Append(as, e)
    BY <1>6 DEF Termination
  <2> HIDE DEF e
  <2>2. /\ \A P : Holds(as2, P) <=> Holds(as, P) \/ e \in P
        /\ \A P : AtMostOne(as, P) /\ (e \in P => ~Holds(as, P))
                    => AtMostOne(as2, P)
    BY <1>1, <2>1, Joins
  <2>3. \A v : e \notin OperAnswers(v)
    BY <2>1 DEF OperAnswers, Response, Termination
  <2>4. Sound(t, rs, as2, mine, unended2)
    BY <1>2, <2>2, <2>3 DEF Sound, Has
  <2>5. ASSUME model \in Enhanced
        PROVE  Followed(t, as2, mine, unended2, told2)
    <3>1. Followed(t, as, mine, unended, told)
      BY <2>5 DEF Right
    <3>2. mine = {id} /\ mine \cap told = {}
      BY <1>2, <1>6, <3>1 DEF Followed, Sound
    <3>3. Termination \ Ending(mine \cap told) = Termination
      BY <3>2 DEF Ending
    <3>4. ~Holds(as, Termination) /\ t.seen = <<>> /\ t.at \in {"operate", "termination"}
      BY <1>6, <3>1, <3>2, <3>3 DEF Followed
    <3>5. AtMostOne(as2, Termination)
      BY <2>2, <3>1, <3>4 DEF Followed
    <3>6. e \in Ending(mine \cap told2)
      BY <1>6, <2>1, <3>2 DEF Ending
    <3>7. ~Holds(as2, Termination \ Ending(mine \cap told2))
      BY <1>3, <1>4, <2>2, <3>1, <3>6 DEF Followed
    <3> QED
      BY <2>2, <2>3, <3>1, <3>2, <3>4, <3>5, <3>7 DEF Followed, Returned
  <2> QED
    BY <2>4, <2>5 DEF Right
<1> QED
  BY <1>5, <1>6

----------------------------------------------------------------------------
(* What the object does of the commands it has accepted                    *)

\* The handler has been called for what is, or has been, in execution.
HandledOnce(x) ==
    x.stage \in {"running", "finishing", "telling", "ended"}
       \/ (~x.enhanced /\ ~x.delayed)
          => x.orders = 1

\* The command x has become y.
Later(x, y) ==
    /\ y.client = x.client /\ y.delayed = x.delayed
    /\ y.enhanced <=> x.enhanced
    /\ x.stage = "ended" => y.stage = "ended" /\ y.terms = x.terms
    /\ x.terms > 0 => y.terms > 0
    /\ HandledOnce(x) => HandledOnce(y)

(***************************************************************************)
(* The handler is called for a command that is no test.                    *)
(***************************************************************************)
LEMMA ExecutedLater ==
  ASSUME NEW x \in Cmd, Counted(x), x.stage \in {"response", "armed"},
         NEW answer, answer # "test"
  PROVE  Later(x, Executed(x, answer)) /\ Executed(x, answer).orders = 1
<1> DEFINE y == Executed(x, answer)
           stage == IF answer = "inExecution" THEN "running"
                    ELSE IF x.enhanced THEN "telling" ELSE "ended"
<1>1. x.orders = 0
  BY DEF Counted
<1>2. y = [x EXCEPT !.orders = x.orders + 1, !.stage = stage]
  BY DEF Executed, Cmd
<1>3. /\ y.orders = 1 /\ y.client = x.client /\ y.delayed = x.delayed
      /\ y.enhanced = x.enhanced /\ y.terms = x.terms
  BY <1>1, <1>2 DEF Cmd
<1> HIDE DEF y
<1> QED
  BY <1>3 DEF Later, HandledOnce, y

(***************************************************************************)
(* The server goes on with a command, and with no other.                   *)
(***************************************************************************)
LEMMA EngineLater ==
  ASSUME Inv, ~early', "test" \notin Outcomes,
         (\E id \in DOMAIN cmds : Follow(id)) \/ Finish \/ FinishEnds
  PROVE  /\ DOMAIN cmds' = DOMAIN cmds
         /\ \A id \in DOMAIN cmds : Later(cmds[id], cmds'[id])
<1>0. /\ cmds \in Seq(Cmd)
      /\ \A id \in DOMAIN cmds : id \in Nat /\ cmds[id] \in Cmd /\ Counted(cmds[id])
  BY HandFacts DEF Inv, TypeOK, AllCounted
<1>1. \A x : Later(x, x)
  BY DEF Later
<1>2. ASSUME NEW id \in DOMAIN cmds, NEW y, cmds' = [cmds EXCEPT ![id] = y],
             Later(cmds[id], y)
      PROVE  /\ DOMAIN cmds' = DOMAIN cmds
             /\ \A j \in DOMAIN cmds : Later(cmds[j], cmds'[j])
  <2>1. ASSUME NEW j \in DOMAIN cmds
        PROVE  Later(cmds[j], cmds'[j])
    <3>1. cmds'[j] = IF j = id THEN y ELSE cmds[j]
      BY <1>2
    <3> QED
      BY <1>1, <1>2, <3>1
  <2> QED
    BY <1>2, <2>1
<1>3. ASSUME NEW id \in DOMAIN cmds, NEW stage, NEW terms,
             \/ cmds[id].stage = "response" /\ cmds[id].delayed /\ stage = "armed"
             \/ cmds[id].stage \in {"running", "finishing", "telling"}
                /\ stage \in {"finishing", "ended"},
             terms \in Nat, cmds[id].terms <= terms,
             cmds' = [cmds EXCEPT ![id].stage = stage, ![id].terms = terms]
      PROVE  /\ DOMAIN cmds' = DOMAIN cmds
             /\ \A j \in DOMAIN cmds : Later(cmds[j], cmds'[j])
  <2> DEFINE x == cmds[id]
             y == [x EXCEPT !.stage = stage, !.terms = terms]
  <2>1. cmds' = [cmds EXCEPT ![id] = y]
    BY <1>3
  <2>2. /\ y.stage = stage /\ y.terms = terms /\ y.client = x.client
        /\ y.delayed = x.delayed /\ y.enhanced = x.enhanced
        /\ y.orders = x.orders /\ x.terms \in Nat
    BY <1>0 DEF Cmd
  <2> HIDE DEF y
  <2>3. Later(x, y)
    BY <1>3, <2>2 DEF Later, HandledOnce
  <2> QED
    BY <1>2, <2>1, <2>3
<1>4. ASSUME NEW id \in DOMAIN cmds, Follow(id)
      PROVE  /\ DOMAIN cmds' = DOMAIN cmds
             /\ \A j \in DOMAIN cmds : Later(cmds[j], cmds'[j])
  <2>1. cmds[id].terms \in Nat /\ cmds[id].terms <= cmds[id].terms
    <3>1. cmds[id].terms \in Nat
      BY <1>0 DEF Cmd
    <3> QED
      BY <3>1
  <2>2. CASE Respond(id)
    <3>1. cmds' = [cmds EXCEPT ![id].stage = "armed", ![id].terms = cmds[id].terms]
      BY <1>0, <2>2 DEF Respond, Cmd
    <3>2. cmds[id].stage = "response" /\ cmds[id].delayed
      BY <2>2 DEF Respond
    <3> QED
      BY <1>3, <2>1, <3>1, <3>2
  <2>3. CASE RunRefused(id)
    BY <2>3, RunsItsOwn DEF RunRefused
  <2>4. ASSUME NEW answer \in Outcomes, Run(id, answer)
        PROVE  /\ DOMAIN cmds' = DOMAIN cmds
               /\ \A j \in DOMAIN cmds : Later(cmds[j], cmds'[j])
    <3>1. /\ cmds' = [cmds EXCEPT ![id] = Executed(cmds[id], answer)]
          /\ cmds[id].stage \in {"response", "armed"}
      BY <2>4 DEF Run, MayRun
    <3>2. Later(cmds[id], Executed(cmds[id], answer))
      BY <1>0, <2>4, <3>1, ExecutedLater
    <3> QED
      BY <1>2, <3>1, <3>2
  <2>5. CASE Tell(id)
    <3>1. /\ cmds[id].stage = "telling"
          /\ cmds' = [cmds EXCEPT ![id].stage = "ended",
                                  ![id].terms = cmds[id].terms + 1]
      BY <2>5 DEF Tell
    <3>2. cmds[id].terms + 1 \in Nat /\ cmds[id].terms <= cmds[id].terms + 1
      BY <2>1
    <3> QED
      BY <1>3, <3>1, <3>2
  <2> QED
    BY <1>4, <2>2, <2>3, <2>4, <2>5 DEF Follow
<1>5. CASE Finish
  <2> DEFINE id == execution.cmd
  <2>1. /\ execution # None /\ cmds[id].stage = "running"
        /\ cmds' = [cmds EXCEPT ![id].stage = "finishing"]
    BY <1>5 DEF Finish
  <2>2. id \in DOMAIN cmds
    BY <2>1, HandFacts
  <2> HIDE DEF id
  <2>3. /\ cmds' = [cmds EXCEPT ![id].stage = "finishing",
                                ![id].terms = cmds[id].terms]
        /\ cmds[id].terms \in Nat
    BY <1>0, <2>1, <2>2 DEF Cmd
  <2>4. cmds[id].terms <= cmds[id].terms
    BY <2>3
  <2> QED
    BY <1>3, <2>1, <2>2, <2>3, <2>4
<1>6. CASE FinishEnds
  <2> DEFINE id == ending.cmd
             told == cmds[id].enhanced /\ ending.client # None
             terms == IF told THEN cmds[id].terms + 1 ELSE cmds[id].terms
  <2>1. id \in DOMAIN cmds /\ cmds[id].stage = "finishing"
    BY <1>6, HandFacts DEF FinishEnds
  <2>2. cmds' = [cmds EXCEPT ![id].stage = "ended", ![id].terms = terms]
    BY <1>6, <2>1 DEF FinishEnds
  <2>3. terms \in Nat /\ cmds[id].terms <= terms
    BY <1>0, <2>1 DEF Cmd
  <2> HIDE DEF id, terms
  <2> QED
    BY <1>3, <2>1, <2>2, <2>3
<1> QED
  BY <1>4, <1>5, <1>6

\* The commands of c that have not ended, and those it has been told of.
Unended(c) == {id \in DOMAIN cmds : cmds[id].client = c /\ cmds[id].stage # "ended"}
Told(c) == {id \in DOMAIN cmds : cmds[id].client = c /\ cmds[id].terms > 0}

(***************************************************************************)
(* The invariant of the calls: the commands are ordered as their security  *)
(* and their stage tell, they come from the calls their clients have made, *)
(* and a call of which nothing has timed out is right about its command.   *)
(***************************************************************************)
AllHandled ==
    \A id \in DOMAIN cmds :
        HandledOnce(cmds[id]) /\ (cmds[id].enhanced <=> ctlModel \in Enhanced)

AllIssued ==
    \A id \in DOMAIN cmds : Past(issued[id], "operate", call[cmds[id].client])

AllRight ==
    \A c \in Conns :
        call[c].late = {} =>
            Right(call[c], requests[c], answers[c], Mine(c), Unended(c), Told(c),
                  ctlModel)

(***************************************************************************)
(* The command that the server accepts.                                    *)
(***************************************************************************)
LEMMA OperatedNew ==
  ASSUME ClientTyped, cmds \in Seq(Cmd), "test" \notin Outcomes,
         NEW c \in Conns, NEW delayed \in BOOLEAN, Operated(c, delayed)
  PROVE  \E cmd \in Cmd, verdict \in {"accepted", "refused"} :
            /\ Becomes(Len(cmds) + 1, cmd) /\ Len(cmds) + 1 \notin DOMAIN cmds
            /\ cmd.client = c /\ cmd.terms = 0 /\ HandledOnce(cmd)
            /\ cmd.enhanced <=> ctlModel \in Enhanced
            /\ Reply(c, verdict)
            /\ verdict = "refused" => ctlModel \notin Enhanced /\ cmd.stage = "ended"
            /\ issued' = Append(issued, Head(requests[c]).n)
<1>1. issued' = Append(issued, Head(requests[c]).n)
  BY DEF Operated
<1>2. "response" \in Stages /\ "armed" \in Stages
  BY DEF Stages
<1>3. CASE OperLater(c, delayed) /\ Reply(c, "accepted")
  <2> DEFINE stage == IF ctlModel \in Enhanced THEN "response" ELSE "armed"
             cmd == NewCmd(c, delayed, stage)
  <2>1. /\ cmd \in Cmd /\ cmd.client = c /\ cmd.terms = 0 /\ cmd.stage = stage
        /\ cmd.enhanced <=> ctlModel \in Enhanced
    BY <1>2, NewCmdType
  <2>2. cmd.delayed = delayed
    BY DEF NewCmd
  <2>3. cmds' = Append(cmds, cmd) /\ (delayed \/ ctlModel \in Enhanced)
    BY <1>3 DEF OperLater
  <2> HIDE DEF cmd
  <2>4. HandledOnce(cmd)
    BY <2>1, <2>2, <2>3 DEF HandledOnce
  <2>5. Becomes(Len(cmds) + 1, cmd) /\ Len(cmds) + 1 \notin DOMAIN cmds
    BY <2>1, <2>3, Appended
  <2> QED
    BY <1>1, <1>3, <2>1, <2>4, <2>5
<1>4. ASSUME NEW answer \in Outcomes, OperNow(c, answer),
             Reply(c, IF answer = "failed" THEN "refused" ELSE "accepted")
      PROVE  \E cmd \in Cmd, verdict \in {"accepted", "refused"} :
                /\ Becomes(Len(cmds) + 1, cmd) /\ Len(cmds) + 1 \notin DOMAIN cmds
                /\ cmd.client = c /\ cmd.terms = 0 /\ HandledOnce(cmd)
                /\ cmd.enhanced <=> ctlModel \in Enhanced
                /\ Reply(c, verdict)
                /\ verdict = "refused"
                     => ctlModel \notin Enhanced /\ cmd.stage = "ended"
                /\ issued' = Append(issued, Head(requests[c]).n)
  <2> DEFINE new == NewCmd(c, FALSE, "response")
             cmd == Executed(new, answer)
             verdict == IF answer = "failed" THEN "refused" ELSE "accepted"
  <2>1. /\ ctlModel \notin Enhanced /\ cmds' = Append(cmds, cmd)
        /\ answer # "test"
    BY <1>4 DEF OperNow
  <2>2. /\ new \in Cmd /\ new.client = c /\ new.stage = "response"
        /\ new.terms = 0 /\ new.orders = 0 /\ (new.enhanced <=> ctlModel \in Enhanced)
    BY <1>2, NewCmdType
  <2> HIDE DEF new
  <2>3. Counted(new)
    BY <2>2 DEF Counted
  <2>4. Later(new, cmd) /\ cmd.orders = 1
    BY <2>1, <2>2, <2>3, ExecutedLater
  <2>5. /\ cmd \in Cmd /\ cmd.client = c /\ cmd.terms = 0
        /\ answer # "inExecution" => cmd.stage = "ended"
    BY <2>1, <2>2, ExecutedType
  <2> HIDE DEF cmd
  <2>6. HandledOnce(cmd) /\ (cmd.enhanced <=> ctlModel \in Enhanced)
    BY <2>2, <2>4 DEF HandledOnce, Later
  <2>7. Becomes(Len(cmds) + 1, cmd) /\ Len(cmds) + 1 \notin DOMAIN cmds
    BY <2>1, <2>5, Appended
  <2>8. /\ verdict \in {"accepted", "refused"} /\ Reply(c, verdict)
        /\ verdict = "refused" => ctlModel \notin Enhanced /\ cmd.stage = "ended"
    BY <1>4, <2>1, <2>5
  <2> HIDE DEF verdict
  <2> QED
    BY <1>1, <2>5, <2>6, <2>7, <2>8
<1> QED
  BY <1>3, <1>4 DEF Operated

(***************************************************************************)
(* What a step does to the commands, and to where they come from.          *)
(***************************************************************************)
LEMMA CommandsStep ==
  ASSUME ClientTyped, Inv, ~early', "test" \notin Outcomes, [ClientNext]_cvars
  PROVE  \/ UNCHANGED <<cmds, issued>>
         \/ Engine /\ issued' = issued
         \/ \E c \in Conns :
               /\ Serve(c) /\ Head(requests[c]) \in Request0
               /\ Head(requests[c]).kind = "operate"
               /\ Operated(c, Head(requests[c]).delayed)
<1>1. UNCHANGED vars => cmds' = cmds
  BY DEF vars
<1>2. ASSUME NEW c \in Conns, Serve(c)
      PROVE  \/ UNCHANGED <<cmds, issued>>
             \/ /\ Serve(c) /\ Head(requests[c]) \in Request0
                /\ Head(requests[c]).kind = "operate"
                /\ Operated(c, Head(requests[c]).delayed)
  <2>1. SelectBySBO(c) \/ SelectBySBOw(c) \/ Cancel(c) => cmds' = cmds
    BY DEF SelectBySBO, SelectBySBOw, Cancel
  <2>2. Refused(c) => UNCHANGED <<cmds, issued>>
    BY <1>1 DEF Refused
  <2> QED
    BY <1>1, <1>2, <2>1, <2>2, Serves
<1>3. ASSUME NEW c \in Conns, NEW delayed \in BOOLEAN,
             Operate(c, delayed) \/ Answer(c, delayed)
      PROVE  UNCHANGED <<cmds, issued>>
  BY <1>1, <1>3 DEF Operate, Answer
<1>4. ASSUME NEW c \in Conns, Watch(c) \/ Terminated(c) \/ GivesUp(c)
      PROVE  UNCHANGED <<cmds, issued>>
  BY <1>1, <1>4 DEF Watch, Terminated, GivesUp
<1>5. ASSUME NEW c \in Conns, Leaves(c)
      PROVE  UNCHANGED <<cmds, issued>>
  BY <1>5 DEF Leaves, Lose, Forget
<1>6. Engine => issued' = issued
  BY DEF Engine
<1>7. Lapse => UNCHANGED <<cmds, issued>>
  BY DEF Lapse, SelectionLapses, client
<1>8. UNCHANGED cvars => UNCHANGED <<cmds, issued>>
  BY DEF cvars, vars, client
<1> QED
  BY <1>2, <1>3, <1>4, <1>5, <1>6, <1>7, <1>8 DEF ClientNext

(***************************************************************************)
(* The commands are ordered as they should, whatever goes on.              *)
(***************************************************************************)
LEMMA OrderedStep ==
  ASSUME ClientTyped, Inv, ~early', "test" \notin Outcomes,
         [ClientNext]_cvars, AllHandled
  PROVE  AllHandled'
<1>0. ctlModel' = ctlModel /\ cmds \in Seq(Cmd)
  BY CallsStep DEF Inv, TypeOK
<1>1. CASE UNCHANGED <<cmds, issued>>
  BY <1>0, <1>1 DEF AllHandled
<1>2. CASE Engine
  <2>1. /\ DOMAIN cmds' = DOMAIN cmds
        /\ \A id \in DOMAIN cmds : Later(cmds[id], cmds'[id])
    BY <1>2, EngineLater DEF Engine
  <2>2. \A id \in DOMAIN cmds : /\ HandledOnce(cmds'[id])
                                /\ cmds'[id].enhanced <=> cmds[id].enhanced
    BY <2>1 DEF Later, AllHandled
  <2> QED
    BY <1>0, <2>1, <2>2 DEF AllHandled
<1>3. ASSUME NEW c \in Conns, NEW delayed \in BOOLEAN, Operated(c, delayed)
      PROVE  AllHandled'
  <2>1. PICK cmd \in Cmd :
           /\ Becomes(Len(cmds) + 1, cmd) /\ HandledOnce(cmd)
           /\ cmd.enhanced <=> ctlModel \in Enhanced
    BY <1>0, <1>3, OperatedNew
  <2> QED
    BY <1>0, <2>1 DEF AllHandled, Becomes
<1> QED
  BY <1>1, <1>2, <1>3, CommandsStep DEF Request0

(***************************************************************************)
(* A step of a client does not make a command one of a call to come.       *)
(***************************************************************************)
LEMMA CallsMoveOn ==
  ASSUME ClientTyped, cmds \in Seq(Cmd), [ClientNext]_cvars, NEW c \in Conns
  PROVE  /\ call[c] \in Call /\ call'[c] \in Call
         /\ \/ call'[c].n = call[c].n
               /\ (call'[c].at = "select" => call[c].at = "select")
            \/ call'[c].n = call[c].n + 1
<1> DEFINE t == call[c]
           rs == requests[c]
           as == answers[c]
           t2 == call'[c]
           rs2 == requests'[c]
           as2 == answers'[c]
           link == conn[c]
<1>1. t \in Call /\ t2 \in Call
  BY Steps DEF ClientTyped
<1>2. Moves(t, rs, as, t2, rs2, as2, link, ctlModel) \/ t2 = t
  BY Steps DEF Move
<1> HIDE DEF t, rs, as, t2, rs2, as2, link
<1>3. CASE Moves(t, rs, as, t2, rs2, as2, link, ctlModel)
  <2>1. \/ t2.n = t.n /\ (t2.at = "select" => t.at = "select")
        \/ t2.n = t.n + 1
    BY <1>1, <1>3, MovesOn
  <2> QED
    BY <1>1, <2>1 DEF t, t2
<1>4. CASE t2 = t
  BY <1>1, <1>4 DEF t, t2
<1> QED
  BY <1>2, <1>3, <1>4

(***************************************************************************)
(* A command comes from a call its client has made, past its selection.    *)
(***************************************************************************)
LEMMA IssuedStep ==
  ASSUME ClientTyped, Inv, ~early', "test" \notin Outcomes,
         [ClientNext]_cvars, AllNumbered, AllIssued
  PROVE  AllIssued'
<1>0. /\ cmds \in Seq(Cmd) /\ issued \in Seq(Nat) /\ Len(issued) = Len(cmds)
      /\ \A id \in DOMAIN cmds : cmds[id].client \in Conns /\ issued[id] \in Nat
  <2>1. /\ cmds \in Seq(Cmd) /\ issued \in Seq(Nat) /\ Len(issued) = Len(cmds)
    BY DEF Inv, TypeOK, ClientTyped
  <2>2. \A id \in DOMAIN cmds : cmds[id] \in Cmd /\ id \in DOMAIN issued
    BY <2>1, HandFacts, LenProperties
  <2> QED
    BY <2>1, <2>2, ElementOfSeq, LenProperties DEF Cmd
<1>1. ASSUME NEW id \in DOMAIN cmds
      PROVE  Past(issued[id], "operate", call'[cmds[id].client])
  <2> DEFINE c == cmds[id].client
  <2>1. c \in Conns /\ issued[id] \in Nat /\ Past(issued[id], "operate", call[c])
    BY <1>0 DEF AllIssued
  <2> HIDE DEF c
  <2>2. Past(issued[id], "operate", call'[c])
    BY <1>0, <2>1, CallsMoveOn, StaysPast
  <2> QED
    BY <2>2 DEF c
<1>2. CASE UNCHANGED <<cmds, issued>>
  BY <1>1, <1>2 DEF AllIssued
<1>3. CASE Engine
  <2>1. /\ DOMAIN cmds' = DOMAIN cmds /\ issued' = issued
        /\ \A id \in DOMAIN cmds : cmds'[id].client = cmds[id].client
    BY <1>3, EngineLater DEF Engine, Later
  <2> QED
    BY <1>1, <2>1 DEF AllIssued
<1>4. ASSUME NEW c \in Conns, Serve(c), Head(requests[c]) \in Request0,
             Head(requests[c]).kind = "operate",
             Operated(c, Head(requests[c]).delayed)
      PROVE  AllIssued'
  <2> DEFINE r == Head(requests[c])
             last == Len(cmds) + 1
  <2>1. PICK cmd \in Cmd :
           /\ Becomes(last, cmd) /\ last \notin DOMAIN cmds
           /\ cmd.client = c /\ issued' = Append(issued, r.n)
    BY <1>0, <1>4, OperatedNew DEF Request0
  <2>2. Past(r.n, "operate", call[c]) /\ call' = call
    <3>1. requests[c] \in Seq(Request0) /\ requests[c] # <<>> /\ call' = call
      BY <1>4 DEF ClientTyped, Serve
    <3>2. \A P : Holds(requests[c], P) <=> r \in P \/ Holds(Tail(requests[c]), P)
      BY <3>1, Goes
    <3>3. r \in PastRequests(call[c])
      BY <1>4, <3>2 DEF AllNumbered, Numbered
    <3> QED
      BY <1>4, <3>1, <3>3 DEF PastRequests
  <2>3. /\ \A id \in DOMAIN cmds : issued'[id] = issued[id]
        /\ issued'[last] = r.n
    <3>1. r.n \in Nat
      BY <1>4 DEF Request0
    <3>2. /\ \A id \in 1 .. Len(issued) : issued'[id] = issued[id]
          /\ issued'[Len(issued) + 1] = r.n
      BY <1>0, <2>1, <3>1, AppendProperties
    <3> QED
      BY <1>0, <3>2, LenProperties
  <2> HIDE DEF last, r
  <2> SUFFICES ASSUME NEW id \in DOMAIN cmds'
               PROVE  Past(issued'[id], "operate", call'[cmds'[id].client])
    BY DEF AllIssued
  <2>4. CASE id = last
    BY <2>1, <2>2, <2>3, <2>4 DEF Becomes
  <2>5. CASE id \in DOMAIN cmds /\ id # last
    BY <1>1, <2>1, <2>3, <2>5 DEF Becomes
  <2> QED
    BY <2>1, <2>4, <2>5 DEF Becomes
<1> QED
  BY <1>2, <1>3, <1>4, CommandsStep

(***************************************************************************)
(* What a call knows of its command stays right in every step.             *)
(***************************************************************************)
LEMMA RightStep ==
  ASSUME ClientTyped, Inv, ~early', "test" \notin Outcomes,
         [ClientNext]_cvars, AllAlone(Kinds), AllIssued, AllRight
  PROVE  AllRight'
<1> DEFINE Goal(d) ==
      call'[d].late = {} =>
         Right(call'[d], requests'[d], answers'[d], Mine(d)', Unended(d)', Told(d)',
               ctlModel)
<1> SUFFICES ASSUME NEW d \in Conns PROVE Goal(d)
  <2>1. ctlModel' = ctlModel
    BY CallsStep
  <2> QED
    BY <2>1 DEF AllRight
<1>1. /\ call \in [Conns -> Call] /\ requests \in [Conns -> Seq(Request0)]
      /\ answers \in [Conns -> Seq(Response \cup Termination)]
      /\ issued \in Seq(Nat) /\ Len(issued) = Len(cmds) /\ cmds \in Seq(Cmd)
      /\ \A c \in Conns : Typed(call[c], requests[c], answers[c])
      /\ \A id \in DOMAIN cmds : id \in Nat /\ issued[id] \in Nat
  <2>1. /\ issued \in Seq(Nat) /\ Len(issued) = Len(cmds) /\ cmds \in Seq(Cmd)
    BY DEF Inv, TypeOK, ClientTyped
  <2>2. \A id \in DOMAIN cmds : id \in Nat /\ id \in DOMAIN issued
    BY <2>1, HandFacts, LenProperties
  <2>3. \A id \in DOMAIN cmds : issued[id] \in Nat
    BY <2>1, <2>2, ElementOfSeq, LenProperties
  <2> QED
    BY <2>1, <2>2, <2>3 DEF ClientTyped, Typed
<1>2. Told(d) \cap Unended(d) = {}
  <2>1. \A id \in DOMAIN cmds :
           /\ cmds[id].stage # "ended" => cmds[id].terms = 0
    BY DEF Inv, AllCounted, Counted
  <2> QED
    BY <2>1 DEF Told, Unended
<1>3. \A id \in DOMAIN cmds : cmds[id].client = d =>
         Past(issued[id], "operate", call[d])
  BY DEF AllIssued
<1>4. call[d].at = "select" => Mine(d) = {}
  BY <1>3 DEF Mine, Past
<1>5. /\ call[d] \in Call /\ call'[d] \in Call
      /\ call[d].n \in Nat
      /\ call'[d].n # call[d].n => call'[d].n = call[d].n + 1
  BY <1>1, CallsMoveOn, CallType DEF Inv, TypeOK
<1>6. ASSUME UNCHANGED <<cmds, issued>>
      PROVE  /\ Unended(d)' = Unended(d) /\ Told(d)' = Told(d)
             /\ call'[d].n = call[d].n => Mine(d)' = Mine(d)
             /\ call'[d].n # call[d].n => Mine(d)' = {}
  <2>1. Unended(d)' = Unended(d) /\ Told(d)' = Told(d)
    BY <1>6 DEF Unended, Told
  <2>2. call'[d].n = call[d].n => Mine(d)' = Mine(d)
    BY <1>6 DEF Mine
  <2>3. ASSUME call'[d].n # call[d].n, NEW id \in DOMAIN cmds,
               cmds[id].client = d, issued[id] = call'[d].n
        PROVE  FALSE
    <3>1. issued[id] <= call[d].n /\ call'[d].n = call[d].n + 1
      BY <1>3, <1>5, <2>3 DEF Past
    <3> QED
      BY <1>5, <2>3, <3>1
  <2>4. call'[d].n # call[d].n => Mine(d)' = {}
    BY <1>6, <2>3 DEF Mine
  <2> QED
    BY <2>1, <2>2, <2>4
<1>7. call[d].late = {} =>
         Right(call[d], requests[d], answers[d], Mine(d), Unended(d), Told(d), ctlModel)
  BY DEF AllRight
<1>8. ASSUME UNCHANGED <<cmds, issued>>, call'[d] = call[d],
             requests'[d] = requests[d], answers'[d] = answers[d]
      PROVE  Goal(d)
  BY <1>6, <1>7, <1>8
<1>9. UNCHANGED vars => cmds' = cmds
  BY DEF vars
<1>10. ASSUME NEW c \in Conns, Only(c), c # d, UNCHANGED <<cmds, issued>>
       PROVE  Goal(d)
  BY <1>1, <1>8, <1>10 DEF Only
<1>11. ASSUME Only(d), Move(d), UNCHANGED <<cmds, issued>>
       PROVE  Goal(d)
  <2> DEFINE t == call[d]
             rs == requests[d]
             as == answers[d]
             t2 == call'[d]
             rs2 == requests'[d]
             as2 == answers'[d]
             link == conn[d]
             mine == Mine(d)
             mine2 == Mine(d)'
             unended == Unended(d)
             told == Told(d)
  <2>1. /\ Typed(t, rs, as) /\ t2 \in Call /\ Alone(t, rs, as, Kinds)
        /\ Moves(t, rs, as, t2, rs2, as2, link, ctlModel)
        /\ t.at = "select" => mine = {}
        /\ told \cap unended = {}
        /\ t2.n = t.n => mine2 = mine
        /\ t2.n # t.n => mine2 = {}
        /\ t.late = {} => Right(t, rs, as, mine, unended, told, ctlModel)
    BY <1>1, <1>2, <1>4, <1>5, <1>6, <1>7, <1>11 DEF Move, AllAlone
  <2>2. Unended(d)' = unended /\ Told(d)' = told
    BY <1>6, <1>11
  <2> HIDE DEF t, rs, as, t2, rs2, as2, link, mine, mine2, unended, told
  <2>3. t2.late = {} => Right(t2, rs2, as2, mine2, unended, told, ctlModel)
    BY <2>1, RightMoves
  <2> QED
    BY <2>2, <2>3 DEF t2, rs2, as2, mine2
<1>12. ASSUME NEW c \in Conns, NEW delayed \in BOOLEAN,
              Operate(c, delayed) \/ Answer(c, delayed)
       PROVE  Goal(d)
  BY <1>9, <1>10, <1>11, <1>12, OperateMoves, AnswerMoves
<1>13. ASSUME NEW c \in Conns, Watch(c) \/ Terminated(c) \/ GivesUp(c)
       PROVE  Goal(d)
  BY <1>9, <1>10, <1>11, <1>13, WatchMoves, TerminatedMoves, GivesUpMoves
<1>14. ASSUME NEW c \in Conns, Serve(c), UNCHANGED <<cmds, issued>>,
              NEW verdict \in {"accepted", "refused"}, Reply(c, verdict),
              Head(requests[c]).kind = "operate" => verdict = "refused"
       PROVE  Goal(d)
  <2>1. /\ Only(c) /\ call'[c] = call[c]
        /\ Replies(requests[c], answers[c], requests'[c], answers'[c],
                   conn[c], verdict)
    BY <1>14, ReplyReplies DEF Serve
  <2>2. CASE c # d
    BY <1>10, <1>14, <2>1, <2>2
  <2>3. CASE c = d
    <3> DEFINE t == call[d]
               rs == requests[d]
               as == answers[d]
               rs2 == requests'[d]
               as2 == answers'[d]
               link == conn[d]
               mine == Mine(d)
               unended == Unended(d)
               told == Told(d)
    <3>1. /\ Typed(t, rs, as) /\ Replies(rs, as, rs2, as2, link, verdict)
          /\ Head(rs).kind = "operate" => verdict = "refused"
          /\ t.late = {} => Right(t, rs, as, mine, unended, told, ctlModel)
      BY <1>1, <1>7, <1>14, <2>1, <2>3
    <3>2. /\ Unended(d)' = unended /\ Told(d)' = told /\ Mine(d)' = mine
          /\ call'[d] = t
      BY <1>6, <1>14, <2>1, <2>3
    <3> HIDE DEF t, rs, as, rs2, as2, link, mine, unended, told
    <3>3. verdict \in {"accepted", "refused"}
      BY <1>14
    <3>4. t.late = {} => Right(t, rs2, as2, mine, unended, told, ctlModel)
      BY <3>1, <3>3, RightReplies
    <3> QED
      BY <3>2, <3>4 DEF rs2, as2
  <2> QED
    BY <2>2, <2>3
<1>15. ASSUME NEW c \in Conns, Serve(c), Head(requests[c]) \in Request0,
              Head(requests[c]).kind = "operate",
              Operated(c, Head(requests[c]).delayed)
       PROVE  Goal(d)
  <2> DEFINE last == Len(cmds) + 1
             n == Head(requests[c]).n
  <2>0. Head(requests[c]).delayed \in BOOLEAN /\ n \in Nat
    BY <1>15 DEF Request0
  <2>1. PICK cmd \in Cmd, verdict \in {"accepted", "refused"} :
           /\ Becomes(last, cmd) /\ last \notin DOMAIN cmds
           /\ cmd.client = c /\ cmd.terms = 0
           /\ Reply(c, verdict)
           /\ verdict = "refused" => ctlModel \notin Enhanced /\ cmd.stage = "ended"
           /\ issued' = Append(issued, n)
    <3> DEFINE delayed == Head(requests[c]).delayed
    <3>1. delayed \in BOOLEAN /\ Operated(c, delayed)
      BY <1>15, <2>0
    <3> HIDE DEF delayed
    <3>2. \E cmd \in Cmd, verdict \in {"accepted", "refused"} :
            /\ Becomes(Len(cmds) + 1, cmd) /\ Len(cmds) + 1 \notin DOMAIN cmds
            /\ cmd.client = c /\ cmd.terms = 0 /\ HandledOnce(cmd)
            /\ cmd.enhanced <=> ctlModel \in Enhanced
            /\ Reply(c, verdict)
            /\ verdict = "refused" => ctlModel \notin Enhanced /\ cmd.stage = "ended"
            /\ issued' = Append(issued, Head(requests[c]).n)
      BY <1>1, <3>1, OperatedNew, Zenon
    <3> QED
      BY <3>2
  <2>2. /\ Only(c) /\ call'[c] = call[c]
        /\ Replies(requests[c], answers[c], requests'[c], answers'[c],
                   conn[c], verdict)
    BY <1>15, <2>1, ReplyReplies DEF Serve
  <2>3. /\ DOMAIN cmds' = DOMAIN cmds \cup {last} /\ last \notin DOMAIN cmds
        /\ cmds'[last] = cmd /\ issued'[last] = n
        /\ \A id \in DOMAIN cmds : cmds'[id] = cmds[id] /\ issued'[id] = issued[id]
    <3>1. /\ \A id \in 1 .. Len(issued) : issued'[id] = issued[id]
          /\ issued'[Len(issued) + 1] = n
      BY <1>1, <2>0, <2>1, AppendProperties
    <3>2. /\ \A id \in DOMAIN cmds : issued'[id] = issued[id]
          /\ issued'[last] = n
      BY <1>1, <3>1, LenProperties
    <3> HIDE DEF last
    <3> QED
      BY <2>1, <3>2 DEF Becomes
  <2> HIDE DEF last
  <2>4. CASE c # d
    <3>1. /\ call'[d] = call[d] /\ requests'[d] = requests[d]
          /\ answers'[d] = answers[d]
      BY <1>1, <2>2, <2>4 DEF Only
    <3>2. Mine(d)' = Mine(d) /\ Unended(d)' = Unended(d) /\ Told(d)' = Told(d)
      BY <2>1, <2>3, <2>4, <3>1 DEF Mine, Unended, Told
    <3> QED
      BY <1>7, <3>1, <3>2
  <2>5. CASE c = d
    <3> DEFINE t == call[d]
               rs == requests[d]
               as == answers[d]
               rs2 == requests'[d]
               as2 == answers'[d]
               link == conn[d]
               mine == Mine(d)
               unended == Unended(d)
               unended2 == Unended(d)'
               told == Told(d)
    <3>1. /\ Typed(t, rs, as) /\ Replies(rs, as, rs2, as2, link, verdict)
          /\ Head(rs).kind = "operate" /\ Head(rs).n = n
          /\ Alone(t, rs, as, Kinds) /\ call'[d] = t
          /\ t.late = {} => Right(t, rs, as, mine, unended, told, ctlModel)
      BY <1>1, <1>7, <1>15, <2>2, <2>5 DEF AllAlone
    <3>2. /\ unended2 = IF cmd.stage = "ended" THEN unended ELSE unended \cup {last}
          /\ last \notin unended /\ Told(d)' = told
      BY <2>1, <2>3, <2>5 DEF Unended, Told
    <3>3. n = call[d].n => Mine(d)' = Mine(d) \cup {last}
      BY <2>1, <2>2, <2>3, <2>5 DEF Mine
    <3>4. /\ unended2 \in {unended, unended \cup {last}}
          /\ verdict = "refused" => ctlModel \notin Enhanced /\ unended2 = unended
      BY <2>1, <3>2
    <3>5. Sound(t, rs, as, mine, unended) => mine = {}
      <4>1. \A P : Holds(rs, P) <=> Head(rs) \in P \/ Holds(Tail(rs), P)
        BY <3>1, Goes DEF Typed, Replies
      <4>2. Head(rs) \in AskedFor({"operate"})
        BY <3>1 DEF Replies, AskedFor
      <4> QED
        BY <4>1, <4>2 DEF Sound
    <3> HIDE DEF t, rs, as, rs2, as2, link, mine, unended, unended2, told, n
    <3>6. ASSUME t.late = {}
          PROVE  n = t.n /\ mine = {}
                 /\ Right(t, rs2, as2, {last}, unended2, told, ctlModel)
      <4>1. Right(t, rs, as, mine, unended, told, ctlModel)
        BY <3>1, <3>6
      <4>2. mine = {}
        BY <3>5, <4>1 DEF Right
      <4>3. verdict \in {"accepted", "refused"} /\ last \notin unended
        BY <2>1, <3>2
      <4>4. Head(rs).n = t.n /\ Right(t, rs2, as2, {last}, unended2, told, ctlModel)
        BY <3>1, <3>4, <3>6, <4>1, <4>3, RightOperated
      <4> QED
        BY <3>1, <4>2, <4>4
    <3>7. t.late = {} => Mine(d)' = {last}
      BY <3>3, <3>6 DEF t, mine
    <3> QED
      BY <3>1, <3>2, <3>6, <3>7 DEF rs2, as2, unended2
  <2> QED
    BY <2>4, <2>5
<1>16. ASSUME NEW c \in Conns, Serve(c)
       PROVE  Goal(d)
  <2> DEFINE request == Head(requests[c])
  <2>1. SelectBySBO(c) \/ SelectBySBOw(c) \/ Cancel(c) => cmds' = cmds
    BY DEF SelectBySBO, SelectBySBOw, Cancel
  <2>2. Refused(c) => UNCHANGED <<cmds, issued>> /\ Reply(c, "refused")
    BY <1>9 DEF Refused
  <2>3. CASE /\ request.kind = "select"
             /\ SelectBySBO(c) \/ SelectBySBOw(c)
             /\ Reply(c, "accepted") /\ UNCHANGED issued
    BY <1>14, <1>16, <2>1, <2>3
  <2>4. CASE Refused(c)
    BY <1>14, <1>16, <2>2, <2>4
  <2>5. CASE request \in Request0 /\ request.kind = "operate"
             /\ Operated(c, request.delayed)
    BY <1>15, <1>16, <2>5
  <2>6. CASE /\ request.kind = "cancel"
             /\ Cancel(c) \/ (Serving(c) /\ selection # c /\ UNCHANGED vars)
             /\ Reply(c, "accepted") /\ UNCHANGED issued
    BY <1>9, <1>14, <1>16, <2>1, <2>6
  <2> QED
    BY <1>16, <2>3, <2>4, <2>5, <2>6, Serves
<1>17. ASSUME NEW c \in Conns, Leaves(c)
       PROVE  Goal(d)
  <2>1. /\ UNCHANGED <<cmds, issued>> /\ call'[d] = call[d]
        /\ requests'[d] = requests[d]
        /\ answers'[d] \in {answers[d], <<>>}
    BY <1>1, <1>17 DEF Leaves, Lose, Forget
  <2>2. CASE answers'[d] = answers[d]
    BY <1>8, <2>1, <2>2
  <2>3. CASE answers'[d] = <<>>
    <3>1. \A P : ~Holds(<<>>, P) /\ AtMostOne(<<>>, P)
      BY Emptied
    <3>2. /\ Unended(d)' = Unended(d) /\ Told(d)' = Told(d) /\ Mine(d)' = Mine(d)
      BY <1>6, <2>1
    <3>3. call[d].late = {} =>
             Right(call[d], requests[d], <<>>, Mine(d), Unended(d), Told(d), ctlModel)
      BY <1>7, <3>1, RightFewer
    <3> QED
      BY <2>1, <2>3, <3>2, <3>3
  <2> QED
    BY <2>1, <2>2, <2>3
<1>18. ASSUME Engine
       PROVE  Goal(d)
  <2>1. /\ DOMAIN cmds' = DOMAIN cmds
        /\ \A id \in DOMAIN cmds : Later(cmds[id], cmds'[id])
        /\ Tells /\ UNCHANGED <<call, requests, issued>>
    BY <1>18, EngineLater, EngineDomain DEF Engine
  <2>2. Mine(d)' = Mine(d) /\ Unended(d)' \subseteq Unended(d)
        /\ Told(d) \subseteq Told(d)'
    BY <2>1 DEF Mine, Unended, Told, Later
  <2>3. \/ answers'[d] = answers[d]
        \/ \E id \in Unended(d) :
              /\ id \in Nat /\ id \in Told(d)' /\ id \notin Told(d)
              /\ answers'[d] = Append(answers[d], [kind |-> "termination",
                                                   cmd |-> id])
    <3>1. ASSUME NEW id \in DOMAIN cmds, cmds[id].client = d,
                 cmds'[id].terms > cmds[id].terms
          PROVE  /\ id \in Unended(d) /\ id \in Nat
                 /\ id \in Told(d)' /\ id \notin Told(d)
      <4>1. /\ cmds[id].terms \in Nat /\ cmds'[id].terms \in Nat
            /\ cmds'[id].client = d
            /\ cmds[id].stage # "ended" => cmds[id].terms = 0
            /\ cmds[id].stage = "ended" => cmds'[id].terms = cmds[id].terms
        <5>1. cmds[id] \in Cmd /\ cmds'[id] \in Cmd
          <6>1. Inv'
            BY CallsStep, NextInv
          <6>2. \A j \in DOMAIN cmds : cmds[j] \in Cmd
            BY HandFacts
          <6>3. cmds' \in Seq(Cmd)
            BY <6>1 DEF Inv, TypeOK
          <6> QED
            BY <2>1, <6>2, <6>3, ElementOfSeq, LenProperties
        <5>2. Counted(cmds[id])
          BY DEF Inv, AllCounted
        <5> QED
          BY <2>1, <3>1, <5>1, <5>2 DEF Cmd, Counted, Later
      <4>2. cmds[id].stage # "ended" /\ cmds[id].terms = 0 /\ cmds'[id].terms > 0
        BY <3>1, <4>1
      <4> QED
        BY <1>1, <2>1, <3>1, <4>1, <4>2 DEF Unended, Told
    <3> QED
      BY <2>1, <3>1, TellsOne
  <2> DEFINE t == call[d]
             rs == requests[d]
             as == answers[d]
             as2 == answers'[d]
             mine == Mine(d)
             unended == Unended(d)
             unended2 == Unended(d)'
             told == Told(d)
             told2 == Told(d)'
  <2>4. /\ Typed(t, rs, as) /\ call'[d] = t /\ requests'[d] = rs
        /\ Mine(d)' = mine /\ unended2 \subseteq unended /\ told \subseteq told2
        /\ \/ as2 = as
           \/ \E id \in unended :
                 /\ id \in Nat /\ id \in told2 /\ id \notin told
                 /\ as2 = Append(as, [kind |-> "termination", cmd |-> id])
        /\ t.late = {} => Right(t, rs, as, mine, unended, told, ctlModel)
    BY <1>1, <1>7, <2>1, <2>2, <2>3
  <2> HIDE DEF t, rs, as, as2, mine, unended, unended2, told, told2
  <2>5. t.late = {} => Right(t, rs, as2, mine, unended2, told2, ctlModel)
    BY <2>4, RightTold
  <2> QED
    BY <2>4, <2>5 DEF as2, unended2, told2
<1>19. CASE Lapse
  <2>1. UNCHANGED <<cmds, issued>> /\ call' = call /\ requests' = requests
        /\ answers' = answers
    BY <1>19 DEF Lapse, SelectionLapses, client
  <2> QED
    BY <1>8, <2>1
<1>20. CASE UNCHANGED cvars
  <2>1. UNCHANGED <<cmds, issued>> /\ call' = call /\ requests' = requests
        /\ answers' = answers
    BY <1>20 DEF cvars, vars, client
  <2> QED
    BY <1>8, <2>1
<1> HIDE DEF Goal
<1> QED
  BY <1>12, <1>13, <1>16, <1>17, <1>18, <1>19, <1>20 DEF ClientNext

CallInv == Inv /\ AllHandled /\ AllIssued /\ AllRight

(***************************************************************************)
(* An application that knows what is in execution is never too early.      *)
(***************************************************************************)
LEMMA NeverEarly ==
  ASSUME KnownExecution, ~early, [Next]_vars
  PROVE  ~early'
<1>1. Finish => ~early'
  BY DEF Finish
<1> QED
  BY <1>1, EarlyStep

(***************************************************************************)
(* At first there is neither call nor command.                             *)
(***************************************************************************)
LEMMA CallInvInit == ASSUME ClientInit PROVE CallInv
<1>1. /\ cmds = <<>>
      /\ \A c \in Conns : /\ call[c].at = "idle" /\ call[c].result = "none"
                          /\ call[c].seen = <<>>
                          /\ requests[c] = <<>> /\ answers[c] = <<>>
  BY DEF ClientInit, Init
<1>2. DOMAIN cmds = {}
  BY <1>1, EmptySeq
<1>3. \A S, P : <<>> \in Seq(S) /\ ~Holds(<<>>, P) /\ AtMostOne(<<>>, P)
  BY Emptied
<1>4. AllHandled /\ AllIssued
  BY <1>2 DEF AllHandled, AllIssued
<1>5. ASSUME NEW c \in Conns
      PROVE  Right(call[c], requests[c], answers[c], Mine(c), Unended(c), Told(c),
                   ctlModel)
  <2>1. Mine(c) = {} /\ Unended(c) = {} /\ Told(c) = {}
    BY <1>2 DEF Mine, Unended, Told
  <2>2. Sound(call[c], requests[c], answers[c], {}, {})
    BY <1>1, <1>3 DEF Sound, Has, Returned
  <2>3. Followed(call[c], answers[c], {}, {}, {})
    BY <1>1, <1>3 DEF Followed, Returned
  <2> QED
    BY <1>1, <2>1, <2>2, <2>3 DEF Right
<1> QED
  BY <1>4, <1>5, InitInv DEF CallInv, AllRight, ClientInit

(***************************************************************************)
(* The calls' invariant holds as long as the application ends what is in   *)
(* execution and nothing else, and no command is a test.                   *)
(***************************************************************************)
LEMMA CallInvNext ==
  ASSUME KnownExecution, "test" \notin Outcomes, ClientInv, CallInv, ~early,
         [ClientNext]_cvars
  PROVE  CallInv' /\ ~early'
<1>1. ~early'
  BY CallsStep, NeverEarly DEF ClientInv
<1>2. Inv'
  BY <1>1, CallsStep, NextInv DEF ClientInv, CallInv
<1>3. AllHandled'
  BY <1>1, OrderedStep DEF ClientInv, CallInv
<1>4. AllIssued'
  BY <1>1, IssuedStep DEF ClientInv, CallInv
<1>5. AllRight'
  BY <1>1, RightStep DEF ClientInv, CallInv
<1> QED
  BY <1>1, <1>2, <1>3, <1>4, <1>5 DEF CallInv

(***************************************************************************)
(* The invariant says of a call that has returned what it should.          *)
(***************************************************************************)
LEMMA RightIsTrue ==
  ASSUME CallInv
  PROVE  CallIsTrue
<1> SUFFICES ASSUME NEW c \in Conns, call[c].late = {}, call[c].at = "idle"
             PROVE  /\ call[c].result = "done" =>
                          \E id \in Mine(c) :
                             /\ Mine(c) = {id}
                             /\ ctlModel \in Enhanced => cmds[id].stage = "ended"
                             /\ ~cmds[id].delayed => cmds[id].orders = 1
                    /\ call[c].result = "error" =>
                          Mine(c) \subseteq Commands({"ended"})
  BY DEF CallIsTrue
<1>1. Right(call[c], requests[c], answers[c], Mine(c), Unended(c), Told(c), ctlModel)
  BY DEF CallInv, AllRight
<1>2. ASSUME call[c].result = "done"
      PROVE  \E id \in Mine(c) :
                /\ Mine(c) = {id}
                /\ ctlModel \in Enhanced => cmds[id].stage = "ended"
                /\ ~cmds[id].delayed => cmds[id].orders = 1
  <2>1. Mine(c) # {} /\ \A x, y \in Mine(c) : x = y
    BY <1>1, <1>2 DEF Right, Sound, Has, Returned
  <2>2. PICK id \in Mine(c) : Mine(c) = {id}
    BY <2>1
  <2>3. ctlModel \in Enhanced => id \in Told(c)
    BY <1>1, <1>2, <2>2 DEF Right, Followed, Returned
  <2>4. id \in DOMAIN cmds /\ Counted(cmds[id]) /\ HandledOnce(cmds[id])
        /\ (cmds[id].enhanced <=> ctlModel \in Enhanced)
    BY <2>2 DEF Mine, CallInv, Inv, AllCounted, AllHandled
  <2>5. ctlModel \in Enhanced => cmds[id].stage = "ended"
    BY <2>3, <2>4 DEF Told, Counted
  <2>6. ~cmds[id].delayed => cmds[id].orders = 1
    BY <2>4, <2>5 DEF HandledOnce
  <2> QED
    BY <2>2, <2>5, <2>6
<1>3. ASSUME call[c].result = "error"
      PROVE  Mine(c) \subseteq Commands({"ended"})
  <2>1. Mine(c) \cap Unended(c) = {}
    BY <1>1, <1>3 DEF Right, Sound, Returned
  <2> QED
    BY <2>1 DEF Mine, Unended, Commands
<1> QED
  BY <1>2, <1>3

(***************************************************************************)
(* "a positive CommandTermination arrived": a call of operate() of which   *)
(* nothing has timed out tells the truth about its command, executed once  *)
(* and ended, or not to be executed any more.  The handler answers for     *)
(* commands that are no tests, and the application calls finish() for a    *)
(* command in execution, as its docstring has it.                          *)
(***************************************************************************)
THEOREM CallsAreTrue ==
  ASSUME KnownExecution, "test" \notin Outcomes
  PROVE  ClientSpec => []CallIsTrue
<1>1. ClientInit => CallInv /\ ~early
  BY CallInvInit DEF ClientInit, Init
<1>2. CallInv /\ ~early /\ ClientInv /\ [ClientNext]_cvars => (CallInv /\ ~early)'
  BY CallInvNext
<1>3. CallInv => CallIsTrue
  BY RightIsTrue
<1> QED
  BY <1>1, <1>2, <1>3, ClientInvariance, PTL DEF ClientSpec

=============================================================================
