--------------------------- MODULE ControlEngine ---------------------------
(***************************************************************************)
(* One controllable object of the MMS server (server/control.py): its      *)
(* selection, the command it has in hand, the handler's answer, time       *)
(* activation, finish() and the CommandTermination, opRcvd and opOk.       *)
(*                                                                         *)
(* Requests and _run hold the engine's lock and are one action each.  What *)
(* comes after a lock is released is an action of its own: the execution   *)
(* that follows a write response, the CommandTermination that follows the  *)
(* execution, and the end of finish().                                     *)
(*                                                                         *)
(* A refused command changes nothing but the LastApplError it is answered  *)
(* with, and is left out.  The other objects of the engine share no state  *)
(* with this one.  ctlModel is read just before the lock is taken; nothing *)
(* here tells that from reading it under the lock.                         *)
(***************************************************************************)
EXTENDS Integers, Sequences, FiniteSets

CONSTANTS
    Conns,          \* client connections; each connects at most once
    None,           \* no connection, no command
    Outcomes,       \* the answers of the object's handler; "test": the command
                    \* is a test, which the handler is not given
    Models,         \* the values ctlModel may have
    KnownExecution, \* the application calls finish() only for a command whose
                    \* handler returned IN_EXECUTION
    WritesFail,     \* a later variable of a Write may make _service raise
    MaxCommands     \* bound: commands accepted in a behaviour

ASSUME ControlAssumption ==
    /\ None \notin Conns \cup Nat
    /\ None \notin [cmd : Nat, client : Conns \cup {None}]
    /\ Outcomes \subseteq {"done", "failed", "inExecution", "test"}
    /\ Models \subseteq {"statusOnly", "directNormal", "sboNormal",
                         "directEnhanced", "sboEnhanced"}
    /\ KnownExecution \in BOOLEAN /\ WritesFail \in BOOLEAN

VARIABLES
    conn,       \* [Conns -> {"open", "lost", "gone"}]
    ctlModel,   \* the attribute CF$DO$ctlModel
    selection,  \* the client of _selections, None when absent or lapsed
    execution,  \* the value of _executions: [cmd, client], or None
    cmds,       \* the commands accepted, in order (see Cmd)
    ending,     \* the execution that finish() has popped, or None
    opRcvd,     \* the attributes OR$DO$opRcvd and opOk
    opOk,
    early       \* finish() has been called for a command not in execution

vars == <<conn, ctlModel, selection, execution, cmds, ending, opRcvd, opOk,
          early>>

(* The stages of a command: "response", its execution waits for the write  *)
(* response; "armed", for operTm; "running", its handler returned          *)
(* IN_EXECUTION; "finishing", popped by finish(); "telling", executed, its *)
(* CommandTermination to be sent; "dropped", its request was rejected      *)
(* after all; "ended".  orders and terms count the handler's calls and the *)
(* CommandTerminations.                                                    *)
Stages == {"response", "armed", "running", "finishing", "telling", "dropped",
           "ended"}
Cmd == [client : Conns, enhanced : BOOLEAN, delayed : BOOLEAN, stage : Stages,
        orders : Nat, terms : Nat]
Execution == [cmd : Nat, client : Conns \cup {None}]

Sbo == {"sboNormal", "sboEnhanced"}
Enhanced == {"directEnhanced", "sboEnhanced"}

Commands(stages) == {id \in DOMAIN cmds : cmds[id].stage \in stages}

\* The thread that serves c is still with the command it accepted last.
Busy(c) ==
    \E id \in DOMAIN cmds :
        /\ cmds[id].client = c
        /\ \/ cmds[id].stage = "response"
           \/ cmds[id].stage = "telling" /\ ~cmds[id].delayed

\* A request read before its connection was closed is still served.
Serving(c) == conn[c] \in {"open", "lost"} /\ ~Busy(c)

----------------------------------------------------------------------------
(* Selection                                                               *)

\* A read of SBO.
SelectBySBO(c) ==
    /\ Serving(c)
    /\ ctlModel = "sboNormal"
    /\ selection \in {None, c}
    /\ selection' = c
    /\ UNCHANGED <<conn, ctlModel, execution, cmds, ending, opRcvd, opOk,
                   early>>

\* A write of SBOw, which _check lets pass.
SelectBySBOw(c) ==
    /\ Serving(c)
    /\ ctlModel = "sboEnhanced"
    /\ selection \in {None, c}
    /\ execution = None
    /\ selection' = c
    /\ UNCHANGED <<conn, ctlModel, execution, cmds, ending, opRcvd, opOk,
                   early>>

Cancel(c) ==
    /\ Serving(c)
    /\ ctlModel # "statusOnly"
    /\ selection = c
    /\ selection' = None
    /\ UNCHANGED <<conn, ctlModel, execution, cmds, ending, opRcvd, opOk,
                   early>>

\* sboTimeout has passed: _selected_by finds no one from now on.
SelectionLapses ==
    /\ selection # None
    /\ selection' = None
    /\ UNCHANGED <<conn, ctlModel, execution, cmds, ending, opRcvd, opOk,
                   early>>

----------------------------------------------------------------------------
(* Oper                                                                    *)

\* An Oper that is not refused.
Accepts(c) ==
    /\ Serving(c)
    /\ ctlModel # "statusOnly"
    /\ ctlModel \in Sbo => selection = c
    /\ execution = None
    /\ Len(cmds) < MaxCommands

NewCmd(c, delayed, stage) ==
    [client |-> c, enhanced |-> ctlModel \in Enhanced, delayed |-> delayed,
     stage |-> stage, orders |-> 0, terms |-> 0]

\* The command after _execute returned answer.
Executed(cmd, answer) ==
    [cmd EXCEPT !.orders = IF answer = "test" THEN @ ELSE @ + 1,
                !.stage = IF answer = "inExecution" THEN "running"
                          ELSE IF cmd.enhanced THEN "telling" ELSE "ended"]

\* Accepted now, executed later: enhanced security or operTm.
OperLater(c, delayed) ==
    /\ Accepts(c)
    /\ delayed \/ ctlModel \in Enhanced
    /\ selection' = None
    /\ cmds' = Append(cmds, NewCmd(c, delayed,
                        IF ctlModel \in Enhanced THEN "response" ELSE "armed"))
    /\ execution' = [cmd |-> Len(cmds) + 1, client |-> c]
    /\ opRcvd' = TRUE
    /\ UNCHANGED <<conn, ctlModel, ending, opOk, early>>

\* The selection outlives the command.
WrongOperNow(c, answer) ==
    /\ Accepts(c)
    /\ ctlModel \notin Enhanced
    /\ LET cmd == Executed(NewCmd(c, FALSE, "response"), answer)
           runs == answer = "inExecution"
       IN  /\ cmds' = Append(cmds, cmd)
           /\ execution' = IF runs THEN [cmd |-> Len(cmds) + 1, client |-> c]
                           ELSE None
           /\ opRcvd' = runs
           /\ opOk' = runs
    /\ UNCHANGED <<conn, ctlModel, selection, ending, early>>

\* Normal security: executed before the response.
OperNow(c, answer) ==
    /\ Accepts(c)
    /\ ctlModel \notin Enhanced
    /\ selection' = None
    /\ LET cmd == Executed(NewCmd(c, FALSE, "response"), answer)
           runs == answer = "inExecution"
       IN  /\ cmds' = Append(cmds, cmd)
           /\ execution' = IF runs THEN [cmd |-> Len(cmds) + 1, client |-> c]
                           ELSE None
           /\ opRcvd' = runs
           /\ opOk' = runs
    /\ UNCHANGED <<conn, ctlModel, ending, early>>

\* The response has gone; the command waits for operTm.
Respond(id) ==
    /\ cmds[id].stage = "response"
    /\ cmds[id].delayed
    /\ cmds' = [cmds EXCEPT ![id].stage = "armed"]
    /\ UNCHANGED <<conn, ctlModel, selection, execution, ending, opRcvd, opOk,
                   early>>

\* _service raises on a later variable of the same Write: the client gets a
\* Reject, or is cut off, and what was to follow the response never runs.
RequestFails(id) ==
    /\ WritesFail
    /\ cmds[id].stage = "response"
    /\ cmds' = [cmds EXCEPT ![id].stage = "dropped"]
    /\ UNCHANGED <<conn, ctlModel, selection, execution, ending, opRcvd, opOk,
                   early>>

\* No timer is set.
WrongMayRun(id) == cmds[id].stage = "response" /\ ~cmds[id].delayed

\* The serving thread, after the response, or the timer of operTm.
MayRun(id) ==
    \/ cmds[id].stage = "response" /\ ~cmds[id].delayed
    \/ cmds[id].stage = "armed"

\* _run when another command has taken the object meanwhile.
RunRefused(id) ==
    /\ MayRun(id)
    /\ execution # None
    /\ execution.cmd # id
    /\ cmds' = [cmds EXCEPT ![id].stage =
                   IF cmds[id].enhanced THEN "telling" ELSE "ended"]
    /\ UNCHANGED <<conn, ctlModel, selection, execution, ending, opRcvd, opOk,
                   early>>

\* The flags of a command that has ended are left as they are.
WrongRun(id, answer) ==
    /\ MayRun(id)
    /\ execution # None => execution.cmd = id
    /\ cmds' = [cmds EXCEPT ![id] = Executed(@, answer)]
    /\ execution' = IF answer = "inExecution" THEN execution ELSE None
    /\ opOk' = (opOk \/ answer = "inExecution")
    /\ UNCHANGED <<conn, ctlModel, selection, ending, opRcvd, early>>

\* _run, in enhanced security called by _terminate.
Run(id, answer) ==
    /\ MayRun(id)
    /\ execution # None => execution.cmd = id
    /\ cmds' = [cmds EXCEPT ![id] = Executed(@, answer)]
    /\ IF answer = "inExecution"
       THEN /\ execution' = [cmd |-> id,
                             client |-> IF execution # None
                                        THEN execution.client
                                        ELSE cmds[id].client]
            /\ opOk' = TRUE
            /\ UNCHANGED opRcvd
       ELSE /\ execution' = None
            /\ opOk' = FALSE
            /\ opRcvd' = FALSE
    /\ UNCHANGED <<conn, ctlModel, selection, ending, early>>

\* _terminate, after _run: to a closed connection nothing is sent.
Tell(id) ==
    /\ cmds[id].stage = "telling"
    /\ cmds' = [cmds EXCEPT ![id].stage = "ended", ![id].terms = @ + 1]
    /\ UNCHANGED <<conn, ctlModel, selection, execution, ending, opRcvd, opOk,
                   early>>

----------------------------------------------------------------------------
(* finish(): pops the execution under the lock, then ends it.              *)

\* The entry is looked up and stays.
WrongFinish ==
    /\ ending = None
    /\ execution # None
    /\ early' = (early \/ cmds[execution.cmd].stage # "running")
    /\ KnownExecution => ~early'
    /\ ending' = execution
    /\ UNCHANGED <<conn, ctlModel, selection, execution, cmds, opRcvd, opOk>>

Finish ==
    /\ ending = None
    /\ execution # None
    /\ early' = (early \/ cmds[execution.cmd].stage # "running")
    /\ KnownExecution => ~early'
    /\ ending' = execution
    /\ execution' = None
    /\ cmds' = [cmds EXCEPT ![execution.cmd].stage =
                   IF @ = "running" THEN "finishing" ELSE @]
    /\ UNCHANGED <<conn, ctlModel, selection, opRcvd, opOk>>

\* No one is told of the end.
WrongFinishEnds ==
    /\ ending # None
    /\ opOk' = FALSE
    /\ opRcvd' = FALSE
    /\ cmds' = [cmds EXCEPT ![ending.cmd].stage =
                   IF @ = "finishing" THEN "ended" ELSE @]
    /\ ending' = None
    /\ UNCHANGED <<conn, ctlModel, selection, execution, early>>

FinishEnds ==
    /\ ending # None
    /\ opOk' = FALSE
    /\ opRcvd' = FALSE
    /\ LET told == cmds[ending.cmd].enhanced /\ ending.client # None
       IN  cmds' = [cmds EXCEPT
                      ![ending.cmd].stage = IF @ = "finishing" THEN "ended" ELSE @,
                      ![ending.cmd].terms = IF told THEN @ + 1 ELSE @]
    /\ ending' = None
    /\ UNCHANGED <<conn, ctlModel, selection, execution, early>>

----------------------------------------------------------------------------
(* Connections, and the configuration                                      *)

Lose(c) ==
    /\ conn[c] = "open"
    /\ conn' = [conn EXCEPT ![c] = "lost"]
    /\ UNCHANGED <<ctlModel, selection, execution, cmds, ending, opRcvd, opOk,
                   early>>

\* The server's _forget, and with it the engine's _on_close.
Forget(c) ==
    /\ conn[c] = "lost"
    /\ ~Busy(c)
    /\ conn' = [conn EXCEPT ![c] = "gone"]
    /\ selection' = IF selection = c THEN None ELSE selection
    /\ execution' = IF execution # None /\ execution.client = c
                    THEN [execution EXCEPT !.client = None] ELSE execution
    /\ UNCHANGED <<ctlModel, cmds, ending, opRcvd, opOk, early>>

\* CF is writable.
WriteCtlModel(c, model) ==
    /\ Serving(c)
    /\ ctlModel' = model
    /\ UNCHANGED <<conn, selection, execution, cmds, ending, opRcvd, opOk,
                   early>>

----------------------------------------------------------------------------

Init ==
    /\ conn = [c \in Conns |-> "open"]
    /\ ctlModel \in Models
    /\ selection = None
    /\ execution = None
    /\ cmds = <<>>
    /\ ending = None
    /\ opRcvd = FALSE
    /\ opOk = FALSE
    /\ early = FALSE

Request(c) ==
    \/ SelectBySBO(c)
    \/ SelectBySBOw(c)
    \/ Cancel(c)
    \/ \E delayed \in BOOLEAN : OperLater(c, delayed)
    \/ \E answer \in Outcomes : OperNow(c, answer)
    \/ \E model \in Models : WriteCtlModel(c, model)

Follow(id) ==
    \/ Respond(id)
    \/ RunRefused(id)
    \/ \E answer \in Outcomes : Run(id, answer)
    \/ Tell(id)

Next ==
    \/ \E c \in Conns : Request(c) \/ Lose(c) \/ Forget(c)
    \/ \E id \in DOMAIN cmds : Follow(id) \/ RequestFails(id)
    \/ SelectionLapses
    \/ Finish
    \/ FinishEnds

Spec == Init /\ [][Next]_vars

(***************************************************************************)
(* A serving thread goes on to the actions that follow its response, a     *)
(* timer fires, finish() goes on to its end; that the application ends     *)
(* what its handler left in execution is its part of the contract.         *)
(***************************************************************************)
Fairness ==
    /\ \A id \in 1 .. MaxCommands : WF_vars(id \in DOMAIN cmds /\ Follow(id))
    /\ WF_vars(Finish)
    /\ WF_vars(FinishEnds)

FairSpec == Spec /\ Fairness

----------------------------------------------------------------------------
(* Properties                                                              *)

TypeOK ==
    /\ conn \in [Conns -> {"open", "lost", "gone"}]
    /\ ctlModel \in Models
    /\ selection \in Conns \cup {None}
    /\ execution \in Execution \cup {None}
    /\ cmds \in Seq(Cmd)
    /\ ending \in Execution \cup {None}
    /\ opRcvd \in BOOLEAN
    /\ opOk \in BOOLEAN
    /\ early \in BOOLEAN

(***************************************************************************)
(* _executions, _run, finish() and _on_close, unless finish() was called   *)
(* too early: the object's entry is that of the one command that is to be  *)
(* executed or in execution, and while there is such a command there is    *)
(* the entry, so that no other is accepted or executed; neither it nor the *)
(* selection refers to a connection that has been forgotten.               *)
(***************************************************************************)
ExecutionSound ==
    /\ Commands({"response", "armed", "running", "dropped"}) =
          IF execution = None THEN {} ELSE {execution.cmd}
    /\ Commands({"finishing"}) = IF ending = None THEN {} ELSE {ending.cmd}
    /\ selection # None => conn[selection] # "gone"
    /\ (execution # None /\ execution.client # None)
          => /\ execution.client = cmds[execution.cmd].client
             /\ conn[execution.client] # "gone"

(***************************************************************************)
(* _run's look at _executions: even when finish() is called for a command  *)
(* that has not been executed yet, at most one command is in execution, it *)
(* is the one the entry names, and no command is ordered twice.            *)
(***************************************************************************)
ExclusiveExecution ==
    /\ Commands({"running"}) \subseteq
          IF execution = None THEN {} ELSE {execution.cmd}
    /\ \A id \in DOMAIN cmds : cmds[id].orders <= 1

(***************************************************************************)
(* _ended: opRcvd and opOk are "both FALSE again when the command ends",   *)
(* whichever of _run, finish() and their races ends it: opRcvd is never    *)
(* left TRUE without a command in hand, nor opOk without one in execution. *)
(***************************************************************************)
FlagsEnd ==
    /\ opRcvd => Commands({"response", "armed", "running", "dropped",
                           "finishing"}) # {}
    /\ opOk => Commands({"running", "finishing"}) # {}

(***************************************************************************)
(* What an engine knows of the command it has in hand: whatever the        *)
(* application does, one is in execution at a time, once, and the flags do *)
(* not outlive it; and the entry is that of the command in hand as long as *)
(* finish() is called for commands in execution, as its docstring has it.  *)
(***************************************************************************)
CommandInHand ==
    /\ ExclusiveExecution
    /\ FlagsEnd
    /\ ~early => ExecutionSound

(***************************************************************************)
(* The docstring's "its CommandTermination, in enhanced security, comes    *)
(* after the execution", and once: a command that has got one has ended,   *)
(* after its one order.                                                    *)
(***************************************************************************)
TerminationIsLast ==
    ~early =>
        \A id \in DOMAIN cmds :
            /\ cmds[id].terms > 0 => cmds[id].stage = "ended" /\ cmds[id].enhanced
            /\ cmds[id].terms <= 1

(***************************************************************************)
(* The object implements Operation, which has no say in a command that     *)
(* finish() was called for too early, nor in those after it.               *)
(***************************************************************************)
O == INSTANCE Operation WITH
        SboModels <- Sbo, model <- ctlModel, selected <- selection,
        current <- IF early \/ execution = None THEN None ELSE execution.cmd,
        ordered <- /\ ~early /\ execution # None
                   /\ cmds[execution.cmd].stage = "running"

ObjectOperates == O!OperationSpec

(***************************************************************************)
(* _terminate and finish(): in enhanced security the client that sent the  *)
(* command has its CommandTermination when the command has ended, whoever  *)
(* ended it, unless it has gone.                                           *)
(***************************************************************************)
ClientTold ==
    \A id \in DOMAIN cmds :
        cmds[id].enhanced /\ cmds[id].stage = "ended"
            => cmds[id].terms > 0 \/ conn[cmds[id].client] # "open"

(***************************************************************************)
(* after_response, _later, finish(): commands that have been accepted end, *)
(* and free the object, unless the request that carried one failed.        *)
(***************************************************************************)
CommandEnds ==
    LET unended == Commands(Stages \ {"ended", "dropped"})
    IN  unended # {} ~> unended = {}

=============================================================================
