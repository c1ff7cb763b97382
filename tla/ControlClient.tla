--------------------------- MODULE ControlClient ---------------------------
(***************************************************************************)
(* Clients that call operate() (mms/control.py) on the object of a         *)
(* ControlEngine.  What a client and the server have sent each other is on *)
(* its way in order; a request that times out may still be served.         *)
(***************************************************************************)
EXTENDS ControlEngine
LOCAL INSTANCE Functions

CONSTANT MaxCalls   \* bound: calls of operate()

VARIABLES
    call,      \* the call of operate() a client makes, or has made last
    requests,  \* [Conns -> requests on their way to the server]
    answers,   \* [Conns -> answers and CommandTerminations on their way back]
    issued     \* the call each command accepted comes from

client == <<call, requests, answers, issued>>

(* at: "idle", or the answer waited for; n: the call's number; seen: the   *)
(* commands whose termination _Watch collected; late: what timed out in    *)
(* this call or an earlier one.                                            *)
Waits == {"select", "operate", "cancel", "termination"}
Call == [at : Waits \cup {"idle"},
         n : Nat, seen : Seq(Nat), result : {"none", "done", "error"},
         late : SUBSET Waits]

ClientInit ==
    /\ Init
    /\ call = [c \in Conns |-> [at |-> "idle", n |-> 0, seen |-> <<>>,
                                result |-> "none", late |-> {}]]
    /\ requests = [c \in Conns |-> <<>>]
    /\ answers = [c \in Conns |-> <<>>]
    /\ issued = <<>>

----------------------------------------------------------------------------
(* operate()                                                               *)

\* write or read, over a connection that is up.
Ask(c, kind, delayed) ==
    requests' = [requests EXCEPT ![c] =
                   IF conn[c] = "open"
                   THEN Append(@, [kind |-> kind, n |-> call'[c].n, delayed |-> delayed])
                   ELSE @]

\* The model has been read or is given; a new _Watch listens.
Operate(c, delayed) ==
    /\ call[c].at = "idle"
    /\ SumFunction([d \in Conns |-> call[d].n]) < MaxCalls
    /\ ctlModel # "statusOnly"
    /\ LET first == IF ctlModel \in Sbo THEN "select" ELSE "operate"
       IN  /\ call' = [call EXCEPT ![c] = [at |-> first, n |-> @.n + 1,
                                           seen |-> <<>>, result |-> "none",
                                           late |-> @.late]]
           /\ Ask(c, first, delayed)
    /\ UNCHANGED <<vars, answers, issued>>

Return(c, result) ==
    /\ call' = [call EXCEPT ![c].at = "idle", ![c].result = result]
    /\ UNCHANGED requests

Go(c, at, kind, delayed) ==
    /\ call' = [call EXCEPT ![c].at = at]
    /\ Ask(c, kind, delayed)

\* The command is done when it is accepted.
WrongAccepted(c, delayed) ==
    CASE call[c].at = "select" -> Go(c, "operate", "operate", delayed)
      [] call[c].at = "operate" -> Return(c, "done")
      [] call[c].at = "cancel" -> Return(c, "error")

Accepted(c, delayed) ==
    CASE call[c].at = "select" -> Go(c, "operate", "operate", delayed)
      [] call[c].at = "operate" /\ ctlModel \in Enhanced ->
            /\ call' = [call EXCEPT ![c].at = "termination"]
            /\ UNCHANGED requests
      [] call[c].at = "operate" /\ ctlModel \notin Enhanced -> Return(c, "done")
      [] call[c].at = "cancel" -> Return(c, "error")

\* What was selected is left to lapse.
WrongNotAccepted(c, late) ==
    /\ call' = [call EXCEPT ![c].at = "idle", ![c].result = "error",
                            ![c].late = @ \cup late]
    /\ UNCHANGED requests

\* What was selected and not operated is cancelled; what Cancel is answered
\* is not looked at.
NotAccepted(c, late) ==
    IF call[c].at = "operate" /\ ctlModel \in Sbo
    THEN /\ call' = [call EXCEPT ![c].at = "cancel", ![c].late = @ \cup late]
         /\ Ask(c, "cancel", FALSE)
    ELSE /\ call' = [call EXCEPT ![c].at = "idle", ![c].result = "error",
                                 ![c].late = @ \cup late]
         /\ UNCHANGED requests

Asked(c) == call[c].at \in {"select", "operate", "cancel"}

\* The answer to a request that timed out finds no one.
Answer(c, delayed) ==
    /\ answers[c] # <<>>
    /\ LET answer == Head(answers[c])
       IN  /\ answer.kind # "termination"
           /\ IF ~Asked(c) \/ answer.to # [kind |-> call[c].at, n |-> call[c].n]
              THEN UNCHANGED <<call, requests>>
              ELSE IF answer.kind = "accepted" THEN Accepted(c, delayed)
              ELSE NotAccepted(c, {})
    /\ answers' = [answers EXCEPT ![c] = Tail(@)]
    /\ UNCHANGED <<vars, issued>>

\* _Watch collects it whatever command it ends.
Watch(c) ==
    /\ answers[c] # <<>>
    /\ Head(answers[c]).kind = "termination"
    /\ call' = [call EXCEPT ![c].seen =
                  IF call[c].at = "idle" THEN @ ELSE Append(@, Head(answers[c]).cmd)]
    /\ answers' = [answers EXCEPT ![c] = Tail(@)]
    /\ UNCHANGED <<vars, requests, issued>>

\* A negative one is an error of the call.
Terminated(c) ==
    /\ call[c].at = "termination" /\ call[c].seen # <<>>
    /\ \E result \in {"done", "error"} : Return(c, result)
    /\ UNCHANGED <<vars, answers, issued>>

\* request_timeout, a connection that is down, and termination_timeout.
GivesUp(c) ==
    /\ IF Asked(c) THEN NotAccepted(c, {call[c].at})
       ELSE /\ call[c].at = "termination" /\ call[c].seen = <<>>
            /\ call' = [call EXCEPT ![c].at = "idle", ![c].result = "error",
                                    ![c].late = @ \cup {"termination"}]
            /\ UNCHANGED requests
    /\ UNCHANGED <<vars, answers, issued>>

----------------------------------------------------------------------------
(* The server                                                              *)

Reply(c, kind) ==
    answers' = [answers EXCEPT ![c] =
                  IF conn[c] = "open"
                  THEN Append(@, [kind |-> kind,
                                  to |-> [kind |-> Head(requests[c]).kind,
                                          n |-> Head(requests[c]).n]])
                  ELSE @]

\* A handler that fails is a refusal, though the command was its own.
Operated(c, delayed) ==
    /\ issued' = Append(issued, Head(requests[c]).n)
    /\ \/ OperLater(c, delayed) /\ Reply(c, "accepted")
       \/ \E answer \in Outcomes :
             /\ ~delayed /\ OperNow(c, answer)
             /\ Reply(c, IF answer = "failed" THEN "refused" ELSE "accepted")

\* The engine refuses also for causes of its own, a value or a check; Cancel
\* is accepted whoever has selected the object.
Refused(c) == Serving(c) /\ UNCHANGED <<vars, issued>> /\ Reply(c, "refused")

Serve(c) ==
    /\ requests[c] # <<>>
    /\ requests' = [requests EXCEPT ![c] = Tail(@)]
    /\ LET request == Head(requests[c])
       IN  CASE request.kind = "select" ->
                  \/ /\ SelectBySBO(c) \/ SelectBySBOw(c)
                     /\ Reply(c, "accepted") /\ UNCHANGED issued
                  \/ Refused(c)
             [] request.kind = "operate" ->
                  Operated(c, request.delayed) \/ Refused(c)
             [] request.kind = "cancel" ->
                  /\ Cancel(c) \/ (Serving(c) /\ selection # c /\ UNCHANGED vars)
                  /\ Reply(c, "accepted") /\ UNCHANGED issued
    /\ UNCHANGED call

\* The CommandTerminations sent by the step go to who is still there.
Tells ==
    answers' =
        [c \in Conns |->
            LET told == {id \in DOMAIN cmds : cmds[id].client = c /\ conn[c] = "open"
                                              /\ cmds'[id].terms > cmds[id].terms}
            IN  IF told = {} THEN answers[c]
                ELSE Append(answers[c], [kind |-> "termination",
                                         cmd |-> CHOOSE id \in told : TRUE])]

Engine ==
    /\ \/ \E id \in DOMAIN cmds : Follow(id)
       \/ Finish \/ FinishEnds
    /\ Tells
    /\ UNCHANGED <<call, requests, issued>>

Leaves(c) ==
    /\ Lose(c) \/ Forget(c)
    /\ answers' = [answers EXCEPT ![c] = <<>>]
    /\ UNCHANGED <<call, requests, issued>>

Lapse == SelectionLapses /\ UNCHANGED client

ClientNext ==
    \/ \E c \in Conns :
          \/ \E delayed \in BOOLEAN : Operate(c, delayed) \/ Answer(c, delayed)
          \/ Watch(c) \/ Terminated(c) \/ GivesUp(c) \/ Serve(c) \/ Leaves(c)
    \/ Engine
    \/ Lapse

cvars == <<vars, client>>

ClientSpec == ClientInit /\ [][ClientNext]_cvars

----------------------------------------------------------------------------
(* Properties                                                              *)

Mine(c) == {id \in DOMAIN cmds : cmds[id].client = c /\ issued[id] = call[c].n}

(***************************************************************************)
(* "a positive CommandTermination arrived": the command that a call of     *)
(* operate() on an enhanced object returns for has ended.                  *)
(***************************************************************************)
TerminationIsOwn ==
    \A c \in Conns :
        call[c].result = "done" /\ ctlModel \in Enhanced =>
            \E id \in Mine(c) : cmds[id].stage = "ended"

(***************************************************************************)
(* Where no request and no termination has timed out, a call that returned *)
(* stands for one command, executed, and ended if the object tells of it;  *)
(* one that raised has left no command that may still be executed.         *)
(***************************************************************************)
CallIsTrue ==
    \A c \in Conns :
        call[c].late = {} /\ call[c].at = "idle" =>
            /\ call[c].result = "done" =>
                  \E id \in Mine(c) :
                     /\ Mine(c) = {id}
                     /\ ctlModel \in Enhanced => cmds[id].stage = "ended"
                     /\ ~cmds[id].delayed => cmds[id].orders = 1
            /\ call[c].result = "error" =>
                  Mine(c) \subseteq Commands({"ended"})

(***************************************************************************)
(* "a Cancel releases the selection at once": a client in no call holds no *)
(* selection, once what it sent has been served, unless its request to     *)
(* select is what timed out.                                               *)
(***************************************************************************)
SelectionReleased ==
    \A c \in Conns :
        selection = c /\ call[c].at = "idle" /\ requests[c] = <<>>
            => "select" \in call[c].late \/ conn[c] # "open"

=============================================================================
