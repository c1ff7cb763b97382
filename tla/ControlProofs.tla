--------------------------- MODULE ControlProofs ---------------------------
(***************************************************************************)
(* Proofs about ControlEngine, for every number of clients and commands    *)
(* and every answer of the handler.                                        *)
(***************************************************************************)
EXTENDS ControlEngine, SequenceTheorems, TLAPS

----------------------------------------------------------------------------
(* How a step changes the commands                                         *)

\* The command id has become cmd; the others are as they were.
Becomes(id, cmd) ==
    /\ cmds' \in Seq(Cmd)
    /\ DOMAIN cmds' = DOMAIN cmds \cup {id}
    /\ cmds'[id] = cmd
    /\ \A other \in DOMAIN cmds : other # id => cmds'[other] = cmds[other]

(***************************************************************************)
(* A command goes on to another stage.                                     *)
(***************************************************************************)
LEMMA Updated ==
  ASSUME cmds \in Seq(Cmd), NEW id \in DOMAIN cmds, NEW cmd \in Cmd,
         cmds' = [cmds EXCEPT ![id] = cmd]
  PROVE  Becomes(id, cmd)
<1>1. cmds' \in Seq(Cmd)
  BY ExceptSeq, LenProperties
<1> QED
  BY <1>1, LenProperties DEF Becomes

(***************************************************************************)
(* A command is accepted.                                                  *)
(***************************************************************************)
LEMMA Appended ==
  ASSUME cmds \in Seq(Cmd), NEW cmd \in Cmd, cmds' = Append(cmds, cmd)
  PROVE  Becomes(Len(cmds) + 1, cmd) /\ Len(cmds) + 1 \notin DOMAIN cmds
BY AppendProperties, LenProperties DEF Becomes

(***************************************************************************)
(* Then it is counted among those of its new stage only.                   *)
(***************************************************************************)
LEMMA CommandsAfter ==
  ASSUME NEW id, NEW cmd, Becomes(id, cmd), NEW stages
  PROVE  {j \in DOMAIN cmds' : cmds'[j].stage \in stages}
           = IF cmd.stage \in stages THEN Commands(stages) \cup {id}
             ELSE Commands(stages) \ {id}
BY DEF Becomes, Commands

(***************************************************************************)
(* What _execute makes of a command.                                       *)
(***************************************************************************)
LEMMA ExecutedType ==
  ASSUME NEW cmd \in Cmd, NEW answer
  PROVE  /\ Executed(cmd, answer) \in Cmd
         /\ Executed(cmd, answer).client = cmd.client
         /\ Executed(cmd, answer).enhanced = cmd.enhanced
         /\ Executed(cmd, answer).terms = cmd.terms
         /\ Executed(cmd, answer).orders \in {cmd.orders, cmd.orders + 1}
         /\ answer = "inExecution" => Executed(cmd, answer).stage = "running"
         /\ answer # "inExecution"
              => Executed(cmd, answer).stage
                   = IF cmd.enhanced THEN "telling" ELSE "ended"
<1> DEFINE orders == IF answer = "test" THEN cmd.orders ELSE cmd.orders + 1
           stage == IF answer = "inExecution" THEN "running"
                    ELSE IF cmd.enhanced THEN "telling" ELSE "ended"
<1>1. orders \in Nat /\ orders \in {cmd.orders, cmd.orders + 1}
  BY DEF Cmd
<1>2. stage \in Stages
  BY DEF Stages
<1>3. Executed(cmd, answer) = [cmd EXCEPT !.orders = orders, !.stage = stage]
  BY DEF Executed, Cmd
<1> HIDE DEF orders
<1>4. \A s \in Stages :
        LET new == [cmd EXCEPT !.orders = orders, !.stage = s]
        IN  /\ new \in Cmd /\ new.client = cmd.client
            /\ new.enhanced = cmd.enhanced /\ new.terms = cmd.terms
            /\ new.orders = orders /\ new.stage = s
  BY <1>1 DEF Cmd
<1>5. /\ answer = "inExecution" => stage = "running"
      /\ answer # "inExecution"
           => stage = IF cmd.enhanced THEN "telling" ELSE "ended"
  OBVIOUS
<1> HIDE DEF stage
<1> QED
  BY <1>1, <1>2, <1>3, <1>4, <1>5

(***************************************************************************)
(* What a request makes a command of.                                      *)
(***************************************************************************)
LEMMA NewCmdType ==
  ASSUME NEW c \in Conns, NEW delayed \in BOOLEAN, NEW stage \in Stages
  PROVE  LET cmd == NewCmd(c, delayed, stage)
         IN  /\ cmd \in Cmd
             /\ cmd.client = c /\ cmd.stage = stage
             /\ cmd.terms = 0 /\ cmd.orders = 0
             /\ cmd.enhanced <=> ctlModel \in Enhanced
<1> DEFINE cmd(enhanced) ==
      [client |-> c, enhanced |-> enhanced, delayed |-> delayed,
       stage |-> stage, orders |-> 0, terms |-> 0]
<1>1. \A enhanced \in BOOLEAN :
        /\ cmd(enhanced) \in Cmd
        /\ cmd(enhanced).client = c /\ cmd(enhanced).stage = stage
        /\ cmd(enhanced).terms = 0 /\ cmd(enhanced).orders = 0
        /\ cmd(enhanced).enhanced = enhanced
  BY DEF Cmd
<1>2. (ctlModel \in Enhanced) \in BOOLEAN
  OBVIOUS
<1>3. NewCmd(c, delayed, stage) = cmd(ctlModel \in Enhanced)
  BY DEF NewCmd
<1> HIDE DEF cmd
<1>4. cmd(ctlModel \in Enhanced).enhanced = (ctlModel \in Enhanced)
  BY <1>1, <1>2
<1>5. cmd(ctlModel \in Enhanced).enhanced <=> ctlModel \in Enhanced
  BY <1>4, Zenon
<1> QED
  BY <1>1, <1>2, <1>3, <1>5

----------------------------------------------------------------------------
(* What the commands have in common with the execution, in any step.       *)

\* The stages in which a command has the object.
InHand == {"response", "armed", "running", "dropped"}

(***************************************************************************)
(* The invariant of each command: the counts that go with its stage.       *)
(***************************************************************************)
Counted(cmd) ==
    /\ cmd.stage # "ended" => cmd.terms = 0
    /\ cmd.stage \in {"response", "armed", "dropped"} => cmd.orders = 0
    /\ cmd.stage = "telling" => cmd.enhanced
    /\ cmd.terms <= 1
    /\ cmd.terms > 0 => cmd.enhanced
    /\ cmd.orders <= 1

AllCounted == \A id \in DOMAIN cmds : Counted(cmds[id])

Inv == TypeOK /\ ExecutionSound /\ AllCounted

(***************************************************************************)
(* The command that has the object, and the one that finish() is ending.   *)
(***************************************************************************)
LEMMA HandFacts ==
  ASSUME Inv
  PROVE  /\ execution # None =>
              /\ execution.cmd \in DOMAIN cmds
              /\ cmds[execution.cmd].stage \in InHand
         /\ \A id \in DOMAIN cmds : cmds[id].stage \in InHand =>
              execution # None /\ execution.cmd = id
         /\ ending # None =>
              /\ ending.cmd \in DOMAIN cmds
              /\ cmds[ending.cmd].stage = "finishing"
         /\ \A id \in DOMAIN cmds : cmds[id].stage = "finishing" =>
              ending # None /\ ending.cmd = id
         /\ \A id \in DOMAIN cmds : id \in Nat /\ cmds[id] \in Cmd
<1>1. Commands(InHand) = IF execution = None THEN {} ELSE {execution.cmd}
  BY DEF Inv, ExecutionSound, InHand
<1>2. Commands({"finishing"}) = IF ending = None THEN {} ELSE {ending.cmd}
  BY DEF Inv, ExecutionSound
<1>3. \A id \in DOMAIN cmds : id \in Nat /\ cmds[id] \in Cmd
  <2>1. cmds \in Seq(Cmd)
    BY DEF Inv, TypeOK
  <2> QED
    BY <2>1, LenProperties, ElementOfSeq
<1>4. execution # None => execution.cmd \in Commands(InHand)
  BY <1>1
<1>5. ending # None => ending.cmd \in Commands({"finishing"})
  BY <1>2
<1>6. \A id \in DOMAIN cmds : cmds[id].stage \in InHand =>
        id \in Commands(InHand)
  BY DEF Commands
<1>7. \A id \in DOMAIN cmds : cmds[id].stage = "finishing" =>
        id \in Commands({"finishing"})
  BY DEF Commands
<1>8. /\ execution # None =>
           /\ execution.cmd \in DOMAIN cmds
           /\ cmds[execution.cmd].stage \in InHand
      /\ ending # None =>
           /\ ending.cmd \in DOMAIN cmds
           /\ cmds[ending.cmd].stage = "finishing"
  BY <1>4, <1>5 DEF Commands
<1>9. \A id \in DOMAIN cmds : cmds[id].stage \in InHand =>
        execution # None /\ execution.cmd = id
  BY <1>1, <1>6
<1>10. \A id \in DOMAIN cmds : cmds[id].stage = "finishing" =>
        ending # None /\ ending.cmd = id
  BY <1>2, <1>7
<1> QED
  BY <1>3, <1>8, <1>9, <1>10

(***************************************************************************)
(* One command's counts are kept when it is the one that changes.          *)
(***************************************************************************)
LEMMA CountedAfter ==
  ASSUME AllCounted, NEW id, NEW cmd, Becomes(id, cmd), Counted(cmd)
  PROVE  AllCounted'
BY DEF AllCounted, Becomes

(***************************************************************************)
(* The steps that leave the commands and both executions alone.            *)
(***************************************************************************)
LEMMA OtherStep ==
  ASSUME Inv, UNCHANGED <<cmds, execution, ending, opRcvd, opOk, early>>,
         conn' \in [Conns -> {"open", "lost", "gone"}],
         ctlModel' \in Models,
         selection' \in Conns \cup {None},
         \A c \in Conns : conn'[c] = "gone" =>
            /\ selection' # c
            /\ execution # None => execution.client # c
  PROVE  Inv'
<1>1. TypeOK'
  BY DEF Inv, TypeOK
<1>2. AllCounted'
  BY DEF Inv, AllCounted
<1>3. ExecutionSound'
  <2>1. execution # None => execution.client \in Conns \cup {None}
    BY DEF Inv, TypeOK, Execution
  <2> QED
    BY <2>1 DEF Inv, ExecutionSound, Commands
<1> QED
  BY <1>1, <1>2, <1>3 DEF Inv

(***************************************************************************)
(* Selecting, and configuring the object.                                  *)
(***************************************************************************)
LEMMA SelectStep ==
  ASSUME Inv, NEW c \in Conns,
         \/ SelectBySBO(c) \/ SelectBySBOw(c) \/ Cancel(c) \/ SelectionLapses
         \/ \E model \in Models : WriteCtlModel(c, model)
         \/ Lose(c)
  PROVE  Inv'
<1> USE ControlAssumption
<1>1. /\ conn \in [Conns -> {"open", "lost", "gone"}]
      /\ ctlModel \in Models
      /\ selection \in Conns \cup {None}
      /\ \A d \in Conns : conn[d] = "gone" =>
            /\ selection # d
            /\ execution # None => execution.client # d
  BY DEF Inv, TypeOK, ExecutionSound
<1>2. UNCHANGED <<cmds, execution, ending, opRcvd, opOk, early>>
  BY DEF SelectBySBO, SelectBySBOw, Cancel, SelectionLapses, WriteCtlModel,
         Lose
<1>3. ctlModel' \in Models
  BY <1>1 DEF SelectBySBO, SelectBySBOw, Cancel, SelectionLapses,
              WriteCtlModel, Lose
<1>4. CASE Lose(c)
  <2>1. conn' = [conn EXCEPT ![c] = "lost"] /\ selection' = selection
    BY <1>4 DEF Lose
  <2> QED
    BY <1>1, <1>2, <1>3, <2>1, OtherStep
<1>5. CASE ~Lose(c)
  <2>1. conn' = conn
    BY <1>5 DEF SelectBySBO, SelectBySBOw, Cancel, SelectionLapses,
                WriteCtlModel
  <2>2. \/ selection' = c /\ conn[c] # "gone"
        \/ selection' = None
        \/ selection' = selection
    BY <1>5 DEF SelectBySBO, SelectBySBOw, Cancel, SelectionLapses,
                WriteCtlModel, Serving
  <2>3. /\ selection' \in Conns \cup {None}
        /\ \A d \in Conns : conn[d] = "gone" => selection' # d
    BY <1>1, <2>2
  <2> QED
    BY <1>1, <1>2, <1>3, <2>1, <2>3, OtherStep
<1> QED
  BY <1>4, <1>5

(***************************************************************************)
(* A connection is forgotten.                                              *)
(***************************************************************************)
LEMMA ForgetStep == ASSUME Inv, NEW c \in Conns, Forget(c) PROVE Inv'
<1> USE ControlAssumption
<1>1. /\ conn \in [Conns -> {"open", "lost", "gone"}]
      /\ selection \in Conns \cup {None}
      /\ execution \in Execution \cup {None}
  BY DEF Inv, TypeOK
<1>2. execution # None =>
        /\ execution' \in Execution
        /\ execution' # None
        /\ execution'.cmd = execution.cmd
        /\ execution'.client = IF execution.client = c THEN None
                               ELSE execution.client
  BY <1>1 DEF Forget, Execution
<1>3. execution = None => execution' = None
  BY DEF Forget
<1>4. /\ conn' = [conn EXCEPT ![c] = "gone"]
      /\ selection' = IF selection = c THEN None ELSE selection
      /\ UNCHANGED <<ctlModel, cmds, ending, opRcvd, opOk, early>>
  BY DEF Forget
<1>5. TypeOK'
  BY <1>1, <1>2, <1>3, <1>4 DEF Inv, TypeOK
<1>6. AllCounted'
  BY <1>4 DEF Inv, AllCounted
<1>7. ExecutionSound'
  <2>1. Commands(InHand)' = IF execution' = None THEN {} ELSE {execution'.cmd}
    BY <1>2, <1>3, <1>4 DEF Inv, ExecutionSound, Commands, InHand
  <2>2. Commands({"finishing"})' = IF ending' = None THEN {} ELSE {ending'.cmd}
    BY <1>4 DEF Inv, ExecutionSound, Commands
  <2>3. selection' # None => conn'[selection'] # "gone"
    BY <1>1, <1>4 DEF Inv, ExecutionSound
  <2>4. (execution' # None /\ execution'.client # None)
          => /\ execution'.client = cmds'[execution'.cmd].client
             /\ conn'[execution'.client] # "gone"
    BY <1>1, <1>2, <1>3, <1>4 DEF Inv, ExecutionSound, Execution
  <2> QED
    BY <2>1, <2>2, <2>3, <2>4 DEF ExecutionSound, InHand
<1> QED
  BY <1>5, <1>6, <1>7 DEF Inv

(***************************************************************************)
(* A step in which one command goes on.                                    *)
(***************************************************************************)
LEMMA CommandStep ==
  ASSUME Inv, NEW id, NEW cmd, Becomes(id, cmd), Counted(cmd),
         UNCHANGED <<conn, ctlModel>>,
         selection' \in {selection, None},
         execution' \in Execution \cup {None},
         ending' \in Execution \cup {None},
         opRcvd' \in BOOLEAN, opOk' \in BOOLEAN, early' \in BOOLEAN,
         (IF cmd.stage \in InHand THEN Commands(InHand) \cup {id}
          ELSE Commands(InHand) \ {id})
           = (IF execution' = None THEN {} ELSE {execution'.cmd}),
         (IF cmd.stage = "finishing" THEN Commands({"finishing"}) \cup {id}
          ELSE Commands({"finishing"}) \ {id})
           = (IF ending' = None THEN {} ELSE {ending'.cmd}),
         (execution' # None /\ execution'.client # None)
           => /\ execution'.client = cmds'[execution'.cmd].client
              /\ conn[execution'.client] # "gone"
  PROVE  Inv'
<1>1. TypeOK'
  BY DEF Inv, TypeOK, Becomes
<1>2. AllCounted'
  BY CountedAfter DEF Inv
<1>3. ExecutionSound'
  <2>1. Commands(InHand)' = IF execution' = None THEN {} ELSE {execution'.cmd}
    BY CommandsAfter DEF Commands
  <2>2. Commands({"finishing"})' = IF ending' = None THEN {} ELSE {ending'.cmd}
    <3>1. {j \in DOMAIN cmds' : cmds'[j].stage \in {"finishing"}}
            = IF cmd.stage \in {"finishing"}
              THEN Commands({"finishing"}) \cup {id}
              ELSE Commands({"finishing"}) \ {id}
      BY CommandsAfter
    <3>2. cmd.stage \in {"finishing"} <=> cmd.stage = "finishing"
      OBVIOUS
    <3>3. Commands({"finishing"})'
            = {j \in DOMAIN cmds' : cmds'[j].stage \in {"finishing"}}
      BY DEF Commands
    <3> QED
      BY <3>1, <3>2, <3>3
  <2>3. selection' # None => conn'[selection'] # "gone"
    BY DEF Inv, ExecutionSound
  <2> QED
    BY <2>1, <2>2, <2>3 DEF ExecutionSound, InHand
<1> QED
  BY <1>1, <1>2, <1>3 DEF Inv

(***************************************************************************)
(* An Oper executed later.                                                 *)
(***************************************************************************)
LEMMA OperLaterStep ==
  ASSUME Inv, NEW c \in Conns, NEW delayed \in BOOLEAN, OperLater(c, delayed)
  PROVE  Inv'
<1> USE ControlAssumption
<1> DEFINE stage == IF ctlModel \in Enhanced THEN "response" ELSE "armed"
           cmd == NewCmd(c, delayed, stage)
           id == Len(cmds) + 1
<1>1. stage \in Stages /\ stage \in InHand /\ stage # "finishing"
      /\ stage # "ended" /\ stage # "telling"
  BY DEF Stages, InHand
<1>2. /\ cmd \in Cmd /\ cmd.client = c /\ cmd.stage = stage
      /\ cmd.terms = 0 /\ cmd.orders = 0
  BY <1>1, NewCmdType
<1>3. /\ cmds \in Seq(Cmd) /\ Len(cmds) \in Nat
      /\ opOk \in BOOLEAN /\ ending \in Execution \cup {None}
      /\ early \in BOOLEAN
  BY LenProperties DEF Inv, TypeOK
<1>4. /\ cmds' = Append(cmds, cmd)
      /\ execution = None
      /\ execution' = [cmd |-> id, client |-> c]
      /\ conn[c] # "gone"
      /\ selection' = None /\ opRcvd' = TRUE
      /\ UNCHANGED <<conn, ctlModel, ending, opOk, early>>
  BY DEF OperLater, Accepts, Serving
<1> HIDE DEF stage, cmd
<1>5. Becomes(id, cmd) /\ id \notin DOMAIN cmds
  BY <1>2, <1>3, <1>4, Appended
<1>6. Counted(cmd)
  BY <1>1, <1>2 DEF Counted
<1>7. Commands(InHand) = {} /\ id \notin Commands({"finishing"})
      /\ Commands({"finishing"}) = IF ending = None THEN {} ELSE {ending.cmd}
  BY <1>4, <1>5 DEF Inv, ExecutionSound, InHand, Commands
<1>8. /\ execution' \in Execution /\ execution' # None
      /\ execution'.cmd = id /\ execution'.client = c
  BY <1>3, <1>4 DEF Execution
<1>9. cmds'[id].client = c
  BY <1>2, <1>5 DEF Becomes
<1> HIDE DEF id
<1> QED
  BY <1>1, <1>2, <1>3, <1>4, <1>5, <1>6, <1>7, <1>8, <1>9, CommandStep

(***************************************************************************)
(* An Oper executed at once.                                               *)
(***************************************************************************)
LEMMA OperNowStep ==
  ASSUME Inv, NEW c \in Conns, NEW answer, OperNow(c, answer)
  PROVE  Inv'
<1> USE ControlAssumption
<1> DEFINE new == NewCmd(c, FALSE, "response")
           cmd == Executed(new, answer)
           id == Len(cmds) + 1
           runs == answer = "inExecution"
<1>1. /\ new \in Cmd /\ new.client = c
      /\ new.terms = 0 /\ new.orders = 0 /\ ~new.enhanced
  <2>1. "response" \in Stages
    BY DEF Stages
  <2>2. /\ new \in Cmd /\ new.client = c
        /\ new.terms = 0 /\ new.orders = 0
        /\ new.enhanced <=> ctlModel \in Enhanced
    <3>1. \A delayed \in BOOLEAN :
            /\ NewCmd(c, delayed, "response") \in Cmd
            /\ NewCmd(c, delayed, "response").client = c
            /\ NewCmd(c, delayed, "response").terms = 0
            /\ NewCmd(c, delayed, "response").orders = 0
            /\ NewCmd(c, delayed, "response").enhanced
                 <=> ctlModel \in Enhanced
      BY <2>1, NewCmdType
    <3> QED
      BY <3>1, Zenon
  <2>3. ctlModel \notin Enhanced
    BY DEF OperNow
  <2> HIDE DEF new
  <2>4. ~new.enhanced
    BY <2>2, <2>3, Zenon
  <2> QED
    BY <2>2, <2>4
<1> HIDE DEF new
<1>2. /\ cmd \in Cmd /\ cmd.client = c /\ cmd.terms = 0
      /\ cmd.orders \in {0, 1}
      /\ cmd.stage = IF runs THEN "running" ELSE "ended"
  BY <1>1, ExecutedType DEF Cmd
<1>3. /\ cmds \in Seq(Cmd) /\ Len(cmds) \in Nat
      /\ ending \in Execution \cup {None} /\ early \in BOOLEAN
  BY LenProperties DEF Inv, TypeOK
<1>4. /\ cmds' = Append(cmds, cmd)
      /\ execution = None
      /\ execution' = IF runs THEN [cmd |-> id, client |-> c] ELSE None
      /\ conn[c] # "gone"
      /\ selection' = None /\ opRcvd' = runs /\ opOk' = runs
      /\ UNCHANGED <<conn, ctlModel, ending, early>>
  BY DEF OperNow, Accepts, Serving, new
<1> HIDE DEF cmd
<1>5. Becomes(id, cmd) /\ id \notin DOMAIN cmds
  BY <1>2, <1>3, <1>4, Appended
<1>6. Counted(cmd)
  BY <1>2 DEF Counted
<1>7. Commands(InHand) = {} /\ id \notin Commands({"finishing"})
      /\ Commands({"finishing"}) = IF ending = None THEN {} ELSE {ending.cmd}
  BY <1>4, <1>5 DEF Inv, ExecutionSound, InHand, Commands
<1>8. IF runs
      THEN /\ execution' \in Execution /\ execution' # None
           /\ execution'.cmd = id /\ execution'.client = c
      ELSE execution' = None
  BY <1>3, <1>4 DEF Execution
<1>9. cmds'[id].client = c
  BY <1>2, <1>5 DEF Becomes
<1>10. opRcvd' \in BOOLEAN /\ opOk' \in BOOLEAN
  BY <1>4
<1>11. /\ runs => cmd.stage \in InHand
       /\ ~runs => cmd.stage \notin InHand
       /\ cmd.stage # "finishing"
  BY <1>2 DEF InHand
<1> HIDE DEF id, runs
<1> QED
  BY <1>3, <1>4, <1>5, <1>6, <1>7, <1>8, <1>9, <1>10, <1>11, CommandStep

(***************************************************************************)
(* A command goes on, and neither takes the object nor leaves it.          *)
(***************************************************************************)
LEMMA GoesOnStep ==
  ASSUME Inv, NEW id \in DOMAIN cmds, NEW cmd \in Cmd,
         cmds' = [cmds EXCEPT ![id] = cmd],
         cmd.client = cmds[id].client, Counted(cmd),
         UNCHANGED <<conn, ctlModel, selection, execution, ending, opRcvd,
                     opOk, early>>,
         cmd.stage \in InHand <=> cmds[id].stage \in InHand,
         cmd.stage # "finishing", cmds[id].stage # "finishing"
  PROVE  Inv'
<1>1. Becomes(id, cmd)
  BY Updated DEF Inv, TypeOK
<1>2. /\ execution \in Execution \cup {None} /\ ending \in Execution \cup {None}
      /\ opRcvd \in BOOLEAN /\ opOk \in BOOLEAN /\ early \in BOOLEAN
  BY DEF Inv, TypeOK
<1>3. (IF cmd.stage \in InHand THEN Commands(InHand) \cup {id}
       ELSE Commands(InHand) \ {id})
        = (IF execution' = None THEN {} ELSE {execution'.cmd})
  BY DEF Inv, ExecutionSound, Commands, InHand
<1>4. (IF cmd.stage = "finishing" THEN Commands({"finishing"}) \cup {id}
       ELSE Commands({"finishing"}) \ {id})
        = (IF ending' = None THEN {} ELSE {ending'.cmd})
  BY DEF Inv, ExecutionSound, Commands
<1>5. (execution' # None /\ execution'.client # None)
        => /\ execution'.client = cmds'[execution'.cmd].client
           /\ conn[execution'.client] # "gone"
  <2>1. \A j \in DOMAIN cmds : cmds'[j].client = cmds[j].client
    BY <1>1 DEF Becomes
  <2>2. execution # None => execution.cmd \in DOMAIN cmds
    BY HandFacts
  <2> QED
    BY <2>1, <2>2 DEF Inv, ExecutionSound
<1> QED
  BY <1>1, <1>2, <1>3, <1>4, <1>5, CommandStep

(***************************************************************************)
(* What waits for its response waits for operTm next, or is dropped; a     *)
(* client is told.                                                         *)
(***************************************************************************)
LEMMA FollowStep ==
  ASSUME Inv, NEW id \in DOMAIN cmds,
         Respond(id) \/ RequestFails(id) \/ Tell(id)
  PROVE  Inv'
<1>1. /\ cmds[id] \in Cmd /\ Counted(cmds[id])
      /\ UNCHANGED <<conn, ctlModel, selection, execution, ending, opRcvd,
                     opOk, early>>
  BY HandFacts DEF Inv, AllCounted, Respond, RequestFails, Tell
<1>2. ASSUME NEW stage \in {"armed", "dropped"}, cmds[id].stage = "response",
             cmds' = [cmds EXCEPT ![id].stage = stage]
      PROVE  Inv'
  <2> DEFINE cmd == [cmds[id] EXCEPT !.stage = stage]
  <2>1. cmd \in Cmd /\ cmd.client = cmds[id].client /\ cmd.stage = stage
        /\ cmd.orders = cmds[id].orders /\ cmd.terms = cmds[id].terms
        /\ cmd.enhanced = cmds[id].enhanced
    BY <1>1 DEF Cmd, Stages
  <2>2. cmds' = [cmds EXCEPT ![id] = cmd]
    BY <1>2
  <2> HIDE DEF cmd
  <2>3. Counted(cmd)
    BY <1>1, <1>2, <2>1 DEF Counted
  <2>4. cmd.stage \in InHand /\ cmds[id].stage \in InHand
        /\ cmd.stage # "finishing" /\ cmds[id].stage # "finishing"
    BY <1>2, <2>1 DEF InHand
  <2> QED
    BY <1>1, <2>1, <2>2, <2>3, <2>4, GoesOnStep
<1>3. CASE Tell(id)
  <2> DEFINE cmd == [cmds[id] EXCEPT !.stage = "ended", !.terms = @ + 1]
  <2>1. cmds[id].stage = "telling" /\ cmds[id].terms = 0
    BY <1>1, <1>3 DEF Tell, Counted
  <2>2. cmd \in Cmd /\ cmd.client = cmds[id].client /\ cmd.stage = "ended"
        /\ cmd.orders = cmds[id].orders /\ cmd.terms = 1
        /\ cmd.enhanced = cmds[id].enhanced
    <3>1. cmd = [cmds[id] EXCEPT !.stage = "ended", !.terms = 1]
      BY <1>1, <2>1 DEF Cmd
    <3>2. "ended" \in Stages /\ 1 \in Nat
      BY DEF Stages
    <3> HIDE DEF cmd
    <3> QED
      BY <1>1, <3>1, <3>2 DEF Cmd
  <2>3. cmds' = [cmds EXCEPT ![id] = cmd]
    BY <1>3 DEF Tell
  <2> HIDE DEF cmd
  <2>4. Counted(cmd)
    BY <1>1, <2>1, <2>2 DEF Counted
  <2>5. cmd.stage \notin InHand /\ cmds[id].stage \notin InHand
        /\ cmd.stage # "finishing" /\ cmds[id].stage # "finishing"
    BY <2>1, <2>2 DEF InHand
  <2> QED
    BY <1>1, <2>2, <2>3, <2>4, <2>5, GoesOnStep
<1>4. CASE Respond(id)
  BY <1>4, <1>2 DEF Respond
<1>5. CASE RequestFails(id)
  BY <1>5, <1>2 DEF RequestFails
<1> QED
  BY <1>3, <1>4, <1>5

(***************************************************************************)
(* A command that may run has the object.                                  *)
(***************************************************************************)
LEMMA RunsItsOwn ==
  ASSUME Inv, NEW id \in DOMAIN cmds, MayRun(id)
  PROVE  execution # None /\ execution.cmd = id
BY HandFacts DEF MayRun, InHand

(***************************************************************************)
(* The handler is called, and answers.                                     *)
(***************************************************************************)
LEMMA RunStep ==
  ASSUME Inv, NEW id \in DOMAIN cmds, NEW answer, Run(id, answer)
  PROVE  Inv'
<1> USE ControlAssumption
<1> DEFINE cmd == Executed(cmds[id], answer)
           runs == answer = "inExecution"
<1>1. /\ cmds[id] \in Cmd /\ Counted(cmds[id]) /\ id \in Nat
      /\ execution # None /\ execution.cmd = id
      /\ cmds[id].stage \in {"response", "armed"}
  <2>1. MayRun(id)
    BY DEF Run
  <2> QED
    BY <2>1, HandFacts, RunsItsOwn DEF Inv, AllCounted, MayRun
<1>2. /\ execution \in Execution /\ ending \in Execution \cup {None}
      /\ opRcvd \in BOOLEAN /\ cmds \in Seq(Cmd) /\ early \in BOOLEAN
  BY <1>1 DEF Inv, TypeOK
<1>3. /\ cmds' = [cmds EXCEPT ![id] = cmd]
      /\ execution' = IF runs THEN [cmd |-> id, client |-> execution.client]
                      ELSE None
      /\ opOk' = runs
      /\ opRcvd' \in BOOLEAN
      /\ UNCHANGED <<conn, ctlModel, selection, ending, early>>
  BY <1>1, <1>2 DEF Run
<1>4. /\ cmd \in Cmd /\ cmd.client = cmds[id].client
      /\ cmd.enhanced = cmds[id].enhanced
      /\ cmd.terms = cmds[id].terms
      /\ cmd.orders \in {cmds[id].orders, cmds[id].orders + 1}
      /\ runs => cmd.stage = "running"
      /\ ~runs => cmd.stage = IF cmds[id].enhanced THEN "telling" ELSE "ended"
  BY <1>1, ExecutedType
<1> HIDE DEF cmd
<1>5. Counted(cmd)
  BY <1>1, <1>4 DEF Counted
<1>6. Becomes(id, cmd)
  BY <1>2, <1>3, <1>4, Updated
<1>7. Commands(InHand) = {id} /\ id \notin Commands({"finishing"})
      /\ Commands({"finishing"}) = IF ending = None THEN {} ELSE {ending.cmd}
  BY <1>1 DEF Inv, ExecutionSound, InHand, Commands
<1>8. /\ runs => /\ execution' \in Execution /\ execution' # None
                 /\ execution'.cmd = id
                 /\ execution'.client = execution.client
                 /\ cmd.stage \in InHand
      /\ ~runs => execution' = None /\ cmd.stage \notin InHand
      /\ cmd.stage # "finishing"
      /\ opOk' \in BOOLEAN
  BY <1>1, <1>2, <1>3, <1>4 DEF Execution, InHand
<1>9. execution.client # None
        => execution.client = cmds[id].client /\ conn[execution.client] # "gone"
  BY <1>1 DEF Inv, ExecutionSound
<1>10. cmds'[id].client = cmds[id].client
  BY <1>4, <1>6 DEF Becomes
<1> HIDE DEF runs
<1>11. /\ UNCHANGED <<conn, ctlModel>> /\ selection' \in {selection, None}
       /\ execution' \in Execution \cup {None}
       /\ ending' \in Execution \cup {None}
       /\ opRcvd' \in BOOLEAN /\ opOk' \in BOOLEAN /\ early' \in BOOLEAN
  BY <1>2, <1>3, <1>8
<1>12. (IF cmd.stage \in InHand THEN Commands(InHand) \cup {id}
        ELSE Commands(InHand) \ {id})
         = (IF execution' = None THEN {} ELSE {execution'.cmd})
  BY <1>7, <1>8
<1>13. (IF cmd.stage = "finishing" THEN Commands({"finishing"}) \cup {id}
        ELSE Commands({"finishing"}) \ {id})
         = (IF ending' = None THEN {} ELSE {ending'.cmd})
  BY <1>3, <1>7, <1>8
<1>14. (execution' # None /\ execution'.client # None)
         => /\ execution'.client = cmds'[execution'.cmd].client
            /\ conn[execution'.client] # "gone"
  BY <1>8, <1>9, <1>10
<1> QED
  BY <1>5, <1>6, <1>11, <1>12, <1>13, <1>14, CommandStep

(***************************************************************************)
(* finish() takes the object from a command that is in execution.          *)
(***************************************************************************)
LEMMA FinishStep == ASSUME Inv, Finish, ~early' PROVE Inv'
<1> USE ControlAssumption
<1> DEFINE id == execution.cmd
           cmd == [cmds[id] EXCEPT !.stage = "finishing"]
<1>1. /\ execution # None /\ ending = None /\ cmds[id].stage = "running"
      /\ early' \in BOOLEAN
  BY DEF Finish
<1>2. id \in DOMAIN cmds /\ cmds[id] \in Cmd /\ Counted(cmds[id])
      /\ cmds \in Seq(Cmd) /\ execution \in Execution
      /\ opRcvd \in BOOLEAN /\ opOk \in BOOLEAN
  BY <1>1, HandFacts DEF Inv, AllCounted, TypeOK
<1>3. /\ cmd \in Cmd /\ cmd.stage = "finishing"
      /\ cmd.orders = cmds[id].orders /\ cmd.terms = cmds[id].terms
      /\ cmd.enhanced = cmds[id].enhanced
  BY <1>2 DEF Cmd, Stages
<1>4. /\ cmds' = [cmds EXCEPT ![id] = cmd]
      /\ execution' = None /\ ending' = execution
      /\ UNCHANGED <<conn, ctlModel, selection, opRcvd, opOk>>
  BY <1>1 DEF Finish
<1>5. Commands(InHand) = {id} /\ Commands({"finishing"}) = {}
  BY <1>1 DEF Inv, ExecutionSound, InHand
<1> HIDE DEF cmd
<1>6. Counted(cmd)
  BY <1>1, <1>2, <1>3 DEF Counted
<1>7. Becomes(id, cmd)
  BY <1>2, <1>3, <1>4, Updated
<1>8. cmd.stage \notin InHand
  BY <1>3 DEF InHand
<1> QED
  BY <1>1, <1>2, <1>3, <1>4, <1>5, <1>6, <1>7, <1>8, CommandStep

(***************************************************************************)
(* finish() ends it, and tells its client.                                 *)
(***************************************************************************)
LEMMA FinishEndsStep == ASSUME Inv, FinishEnds PROVE Inv'
<1> USE ControlAssumption
<1> DEFINE id == ending.cmd
           told == cmds[id].enhanced /\ ending.client # None
           terms == IF told THEN cmds[id].terms + 1 ELSE cmds[id].terms
           cmd == [cmds[id] EXCEPT !.stage = "ended", !.terms = terms]
<1>1. /\ ending # None
      /\ id \in DOMAIN cmds /\ cmds[id] \in Cmd /\ Counted(cmds[id])
      /\ cmds[id].stage = "finishing"
      /\ cmds \in Seq(Cmd) /\ execution \in Execution \cup {None}
      /\ early \in BOOLEAN
  BY HandFacts DEF Inv, AllCounted, TypeOK, FinishEnds
<1>2. /\ terms \in Nat /\ terms <= 1
      /\ terms > 0 => cmds[id].enhanced
  BY <1>1 DEF Counted, Cmd
<1> HIDE DEF terms
<1>3. /\ cmd \in Cmd /\ cmd.stage = "ended" /\ cmd.terms = terms
      /\ cmd.client = cmds[id].client
      /\ cmd.orders = cmds[id].orders
      /\ cmd.enhanced = cmds[id].enhanced
  BY <1>1, <1>2 DEF Cmd, Stages
<1>4. /\ cmds' = [cmds EXCEPT ![id] = cmd]
      /\ ending' = None /\ opRcvd' = FALSE /\ opOk' = FALSE
      /\ UNCHANGED <<conn, ctlModel, selection, execution, early>>
  BY <1>1 DEF FinishEnds, terms, Cmd
<1>5. /\ Commands({"finishing"}) = {id} /\ id \notin Commands(InHand)
      /\ Commands(InHand) = IF execution = None THEN {} ELSE {execution.cmd}
  BY <1>1 DEF Inv, ExecutionSound, InHand, Commands
<1> HIDE DEF cmd
<1>6. Counted(cmd)
  BY <1>1, <1>2, <1>3 DEF Counted
<1>7. Becomes(id, cmd)
  BY <1>1, <1>3, <1>4, Updated
<1>8. cmd.stage \notin InHand
  BY <1>3 DEF InHand
<1>9. (execution # None /\ execution.client # None)
        => /\ execution.client = cmds'[execution.cmd].client
           /\ conn[execution.client] # "gone"
  <2>1. \A j \in DOMAIN cmds : cmds'[j].client = cmds[j].client
    BY <1>3, <1>7 DEF Becomes
  <2>2. execution # None => execution.cmd \in DOMAIN cmds
    BY HandFacts
  <2> QED
    BY <2>1, <2>2 DEF Inv, ExecutionSound
<1> QED
  BY <1>1, <1>3, <1>4, <1>5, <1>6, <1>7, <1>8, <1>9, CommandStep

(***************************************************************************)
(* The first state.                                                        *)
(***************************************************************************)
LEMMA InitInv == ASSUME Init PROVE Inv
<1> USE ControlAssumption
<1>1. cmds \in Seq(Cmd) /\ DOMAIN cmds = {}
  <2>1. <<>> \in Seq(Cmd) /\ DOMAIN <<>> = {}
    BY EmptySeq
  <2> QED
    BY <2>1 DEF Init
<1>2. TypeOK
  BY <1>1 DEF Init, TypeOK
<1>3. ExecutionSound /\ AllCounted
  BY <1>1 DEF Init, ExecutionSound, AllCounted, Commands
<1> QED
  BY <1>2, <1>3 DEF Inv

(***************************************************************************)
(* Every step keeps the invariant.                                         *)
(***************************************************************************)
LEMMA NextInv ==
  ASSUME Inv, [Next]_vars, ~early'
  PROVE  Inv'
<1>1. CASE UNCHANGED vars
  <2>1. UNCHANGED <<conn, ctlModel, selection, execution, cmds, ending, opRcvd,
                    opOk, early>>
    BY <1>1 DEF vars
  <2> QED
    BY <2>1 DEF Inv, TypeOK, ExecutionSound, AllCounted, Commands
<1>2. ASSUME NEW c \in Conns, Request(c)
      PROVE  Inv'
  <2>1. CASE \E delayed \in BOOLEAN : OperLater(c, delayed)
    BY <2>1, OperLaterStep
  <2>2. CASE \E answer \in Outcomes : OperNow(c, answer)
    BY <2>2, OperNowStep
  <2>3. CASE \/ SelectBySBO(c) \/ SelectBySBOw(c) \/ Cancel(c)
             \/ \E model \in Models : WriteCtlModel(c, model)
    BY <2>3, SelectStep
  <2> QED
    BY <1>2, <2>1, <2>2, <2>3 DEF Request
<1>3. ASSUME NEW c \in Conns, Lose(c)
      PROVE  Inv'
  BY <1>3, SelectStep
<1>4. ASSUME NEW c \in Conns, Forget(c)
      PROVE  Inv'
  BY <1>4, ForgetStep
<1>5. ASSUME NEW id \in DOMAIN cmds, Follow(id)
      PROVE  Inv'
  <2>1. CASE Respond(id) \/ Tell(id)
    BY <2>1, FollowStep
  <2>2. CASE RunRefused(id)
    <3>1. MayRun(id) /\ execution # None /\ execution.cmd # id
      BY <2>2 DEF RunRefused
    <3> QED
      BY <3>1, RunsItsOwn
  <2>3. CASE \E answer \in Outcomes : Run(id, answer)
    BY <2>3, RunStep
  <2> QED
    BY <1>5, <2>1, <2>2, <2>3 DEF Follow
<1>6. ASSUME NEW id \in DOMAIN cmds, RequestFails(id)
      PROVE  Inv'
  BY <1>6, FollowStep
<1>7. CASE SelectionLapses
  <2>1. selection \in Conns
    BY <1>7 DEF SelectionLapses, Inv, TypeOK
  <2> QED
    BY <1>7, <2>1, SelectStep
<1>8. CASE Finish
  BY <1>8, FinishStep
<1>9. CASE FinishEnds
  BY <1>9, FinishEndsStep
<1> QED
  BY <1>1, <1>2, <1>3, <1>4, <1>5, <1>6, <1>7, <1>8, <1>9 DEF Next

----------------------------------------------------------------------------
(* What holds also when finish() is called too early.                      *)

\* An entry is of its command's client, or of no one when that has gone.
Owned(entry) ==
    /\ entry.cmd \in DOMAIN cmds
    /\ IF entry.client = None THEN conn[cmds[entry.cmd].client] = "gone"
       ELSE entry.client = cmds[entry.cmd].client

Entries ==
    /\ execution # None =>
          Owned(execution) /\ cmds[execution.cmd].stage \in InHand
    /\ ending # None => Owned(ending)
    /\ \A id \in DOMAIN cmds :
          /\ cmds[id].stage = "running" => execution # None /\ execution.cmd = id
          /\ cmds[id].stage = "finishing" => ending # None /\ ending.cmd = id

Flags ==
    /\ opRcvd => \/ execution # None
                 \/ /\ ending # None
                    /\ cmds[ending.cmd].stage \in InHand \cup {"finishing"}
    /\ opOk => \/ execution # None /\ cmds[execution.cmd].stage = "running"
               \/ ending # None /\ cmds[ending.cmd].stage = "finishing"

\* Ordered once, and told of its end.
Served(cmd) ==
    /\ cmd.stage \in {"response", "armed", "dropped"} => cmd.orders = 0
    /\ cmd.orders <= 1
    /\ cmd.enhanced /\ cmd.stage = "ended"
         => cmd.terms > 0 \/ conn[cmd.client] # "open"

AllServed == \A id \in DOMAIN cmds : Served(cmds[id])

FreeInv == TypeOK /\ Entries /\ Flags /\ AllServed

(***************************************************************************)
(* The types of what the steps use.                                        *)
(***************************************************************************)
LEMMA FreeFacts ==
  ASSUME FreeInv
  PROVE  /\ cmds \in Seq(Cmd) /\ Len(cmds) \in Nat /\ early \in BOOLEAN
         /\ \A id \in DOMAIN cmds :
               id \in Nat /\ cmds[id] \in Cmd /\ Served(cmds[id])
         /\ execution \in Execution \cup {None}
         /\ ending \in Execution \cup {None}
         /\ opRcvd \in BOOLEAN /\ opOk \in BOOLEAN
<1>1. cmds \in Seq(Cmd)
  BY DEF FreeInv, TypeOK
<1>2. Len(cmds) \in Nat /\ \A id \in DOMAIN cmds : id \in Nat /\ cmds[id] \in Cmd
  BY <1>1, LenProperties, ElementOfSeq
<1> QED
  BY <1>1, <1>2 DEF FreeInv, TypeOK, AllServed

(***************************************************************************)
(* A step in which one command goes on, and no connection comes or goes.   *)
(***************************************************************************)
LEMMA FreeStep ==
  ASSUME FreeInv, NEW id, NEW cmd, Becomes(id, cmd), Served(cmd),
         UNCHANGED <<conn, ctlModel>>, selection' \in {selection, None},
         execution' \in Execution \cup {None},
         ending' \in Execution \cup {None},
         opRcvd' \in BOOLEAN, opOk' \in BOOLEAN, early' \in BOOLEAN,
         Entries', Flags'
  PROVE  FreeInv'
<1>1. TypeOK'
  BY DEF FreeInv, TypeOK, Becomes
<1>2. AllServed'
  <2>1. \A j \in DOMAIN cmds' : Served(cmds'[j])
    BY DEF FreeInv, AllServed, Becomes
  <2> QED
    BY <2>1 DEF AllServed, Served
<1> QED
  BY <1>1, <1>2 DEF FreeInv

(***************************************************************************)
(* A command goes on, and the entries stay as they are.                    *)
(***************************************************************************)
LEMMA FreeGoesOn ==
  ASSUME FreeInv, NEW id \in DOMAIN cmds, NEW cmd \in Cmd,
         cmds' = [cmds EXCEPT ![id] = cmd],
         cmd.client = cmds[id].client, Served(cmd),
         UNCHANGED <<conn, ctlModel, selection, execution, ending, opRcvd,
                     opOk, early>>,
         cmds[id].stage \notin {"running", "finishing"},
         cmd.stage \notin {"running", "finishing"},
         \/ cmd.stage \in InHand
         \/ cmds[id].stage \notin InHand
         \/ execution # None /\ execution.cmd # id
  PROVE  FreeInv'
<1>1. Becomes(id, cmd)
  BY FreeFacts, Updated
<1>2. /\ DOMAIN cmds' = DOMAIN cmds
      /\ \A j \in DOMAIN cmds : cmds'[j].client = cmds[j].client
      /\ \A j \in DOMAIN cmds : j # id => cmds'[j] = cmds[j]
      /\ cmds'[id] = cmd
  BY <1>1 DEF Becomes
<1>3. Entries'
  <2>1. execution # None =>
           Owned(execution)' /\ cmds'[execution.cmd].stage \in InHand
    BY <1>2 DEF FreeInv, Entries, Owned
  <2>2. ending # None => Owned(ending)'
    BY <1>2 DEF FreeInv, Entries, Owned
  <2>3. \A j \in DOMAIN cmds' :
           /\ cmds'[j].stage = "running" => execution # None /\ execution.cmd = j
           /\ cmds'[j].stage = "finishing" => ending # None /\ ending.cmd = j
    BY <1>2 DEF FreeInv, Entries
  <2> QED
    BY <2>1, <2>2, <2>3 DEF Entries
<1>4. Flags'
  <2>1. ending # None => ending.cmd \in DOMAIN cmds
    BY DEF FreeInv, Entries, Owned
  <2>2. execution # None => execution.cmd \in DOMAIN cmds
    BY DEF FreeInv, Entries, Owned
  <2>3. opRcvd => \/ execution # None
                  \/ /\ ending # None
                     /\ cmds'[ending.cmd].stage \in InHand \cup {"finishing"}
    BY <1>2, <2>1 DEF FreeInv, Flags
  <2>4. opOk => \/ execution # None /\ cmds'[execution.cmd].stage = "running"
                \/ ending # None /\ cmds'[ending.cmd].stage = "finishing"
    BY <1>2, <2>1, <2>2 DEF FreeInv, Flags
  <2> QED
    BY <2>3, <2>4 DEF Flags
<1> QED
  BY <1>1, <1>3, <1>4, FreeFacts, FreeStep

(***************************************************************************)
(* A response goes, a request fails, a command is refused after all, a     *)
(* client is told.                                                         *)
(***************************************************************************)
LEMMA FreeFollow ==
  ASSUME FreeInv, NEW id \in DOMAIN cmds,
         Respond(id) \/ RequestFails(id) \/ RunRefused(id) \/ Tell(id)
  PROVE  FreeInv'
<1>1. /\ cmds[id] \in Cmd /\ Served(cmds[id])
      /\ UNCHANGED <<conn, ctlModel, selection, execution, ending, opRcvd,
                     opOk, early>>
  BY FreeFacts DEF Respond, RequestFails, RunRefused, Tell
<1>2. ASSUME NEW stage \in Stages, stage \notin {"running", "finishing"},
             cmds[id].stage \in {"response", "armed"},
             cmds' = [cmds EXCEPT ![id].stage = stage],
             stage \in InHand \/ (execution # None /\ execution.cmd # id),
             stage = "ended" => ~cmds[id].enhanced
      PROVE  FreeInv'
  <2> DEFINE cmd == [cmds[id] EXCEPT !.stage = stage]
  <2>1. /\ cmd \in Cmd /\ cmd.client = cmds[id].client /\ cmd.stage = stage
        /\ cmd.orders = cmds[id].orders /\ cmd.terms = cmds[id].terms
        /\ cmd.enhanced = cmds[id].enhanced
    BY <1>1, <1>2 DEF Cmd
  <2>2. cmds' = [cmds EXCEPT ![id] = cmd]
    BY <1>2
  <2> HIDE DEF cmd
  <2>3. Served(cmd)
    BY <1>1, <1>2, <2>1 DEF Served
  <2> QED
    BY <1>1, <1>2, <2>1, <2>2, <2>3, FreeGoesOn
<1>3. CASE Respond(id)
  BY <1>3, <1>2 DEF Respond, Stages, InHand
<1>4. CASE RequestFails(id)
  BY <1>4, <1>2 DEF RequestFails, Stages, InHand
<1>5. CASE RunRefused(id)
  <2> DEFINE stage == IF cmds[id].enhanced THEN "telling" ELSE "ended"
  <2>1. /\ stage \in Stages /\ stage \notin {"running", "finishing"}
        /\ stage = "ended" => ~cmds[id].enhanced
    BY DEF Stages
  <2>2. /\ cmds[id].stage \in {"response", "armed"}
        /\ execution # None /\ execution.cmd # id
        /\ cmds' = [cmds EXCEPT ![id].stage = stage]
    BY <1>5 DEF RunRefused, MayRun
  <2> HIDE DEF stage
  <2> QED
    BY <2>1, <2>2, <1>2
<1>6. CASE Tell(id)
  <2> DEFINE terms == cmds[id].terms + 1
             cmd == [cmds[id] EXCEPT !.stage = "ended", !.terms = terms]
  <2>1. terms \in Nat /\ terms > 0
    BY <1>1 DEF Cmd
  <2>2. cmds' = [cmds EXCEPT ![id] = cmd] /\ cmds[id].stage = "telling"
    BY <1>1, <1>6 DEF Tell, Cmd
  <2> HIDE DEF terms
  <2>3. /\ cmd \in Cmd /\ cmd.client = cmds[id].client /\ cmd.stage = "ended"
        /\ cmd.orders = cmds[id].orders /\ cmd.terms = terms
    BY <1>1, <2>1 DEF Cmd, Stages
  <2> HIDE DEF cmd
  <2>4. Served(cmd)
    BY <1>1, <2>1, <2>3 DEF Served
  <2> QED
    BY <1>1, <2>2, <2>3, <2>4, FreeGoesOn DEF InHand
<1> QED
  BY <1>3, <1>4, <1>5, <1>6

(***************************************************************************)
(* The steps that leave the commands alone: a connection that is not open  *)
(* is not opened again, nor one that is gone anything else.                *)
(***************************************************************************)
LEMMA FreeOther ==
  ASSUME FreeInv, UNCHANGED <<cmds, ending, opRcvd, opOk, early>>,
         conn' \in [Conns -> {"open", "lost", "gone"}],
         ctlModel' \in Models, selection' \in Conns \cup {None},
         execution' \in Execution \cup {None},
         \A c \in Conns : /\ conn[c] = "gone" => conn'[c] = "gone"
                          /\ conn[c] # "open" => conn'[c] # "open",
         execution' = None <=> execution = None,
         execution # None =>
            /\ execution'.cmd = execution.cmd
            /\ \/ execution'.client = execution.client
               \/ /\ execution'.client = None
                  /\ execution.client # None
                  /\ conn'[execution.client] = "gone"
  PROVE  FreeInv'
<1>1. /\ \A id \in DOMAIN cmds : cmds[id] \in Cmd /\ cmds[id].client \in Conns
      /\ ending \in Execution \cup {None}
      /\ execution \in Execution \cup {None}
  BY FreeFacts DEF Cmd
<1>2. TypeOK'
  BY DEF FreeInv, TypeOK
<1>3. AllServed'
  BY <1>1 DEF FreeInv, AllServed, Served
<1>4. Flags'
  BY DEF FreeInv, Flags
<1>5. Entries'
  <2>1. execution' # None =>
           Owned(execution)' /\ cmds[execution'.cmd].stage \in InHand
    BY <1>1 DEF FreeInv, Entries, Owned
  <2>2. ending # None => Owned(ending)'
    BY <1>1 DEF FreeInv, Entries, Owned
  <2>3. \A id \in DOMAIN cmds :
           /\ cmds[id].stage = "running" => execution' # None /\ execution'.cmd = id
           /\ cmds[id].stage = "finishing" => ending # None /\ ending.cmd = id
    BY DEF FreeInv, Entries
  <2> QED
    BY <2>1, <2>2, <2>3 DEF Entries
<1> QED
  BY <1>2, <1>3, <1>4, <1>5 DEF FreeInv

(***************************************************************************)
(* Selecting, configuring, leaving.                                        *)
(***************************************************************************)
LEMMA FreeSelect ==
  ASSUME FreeInv, NEW c \in Conns,
         \/ SelectBySBO(c) \/ SelectBySBOw(c) \/ Cancel(c) \/ SelectionLapses
         \/ \E model \in Models : WriteCtlModel(c, model)
         \/ Lose(c)
  PROVE  FreeInv'
<1>1. /\ conn \in [Conns -> {"open", "lost", "gone"}]
      /\ ctlModel \in Models /\ selection \in Conns \cup {None}
      /\ execution \in Execution \cup {None}
  BY DEF FreeInv, TypeOK
<1>2. UNCHANGED <<cmds, execution, ending, opRcvd, opOk, early>>
  BY DEF SelectBySBO, SelectBySBOw, Cancel, SelectionLapses, WriteCtlModel,
         Lose
<1>3. ctlModel' \in Models /\ selection' \in Conns \cup {None}
  BY <1>1 DEF SelectBySBO, SelectBySBOw, Cancel, SelectionLapses,
              WriteCtlModel, Lose
<1>4. conn' = conn \/ (conn[c] = "open" /\ conn' = [conn EXCEPT ![c] = "lost"])
  BY DEF SelectBySBO, SelectBySBOw, Cancel, SelectionLapses, WriteCtlModel,
         Lose
<1>5. /\ conn' \in [Conns -> {"open", "lost", "gone"}]
      /\ \A d \in Conns : /\ conn[d] = "gone" => conn'[d] = "gone"
                          /\ conn[d] # "open" => conn'[d] # "open"
  BY <1>1, <1>4
<1> QED
  BY <1>1, <1>2, <1>3, <1>5, FreeOther

(***************************************************************************)
(* A connection is forgotten.                                              *)
(***************************************************************************)
LEMMA FreeForget == ASSUME FreeInv, NEW c \in Conns, Forget(c) PROVE FreeInv'
<1> USE ControlAssumption
<1>1. /\ conn \in [Conns -> {"open", "lost", "gone"}]
      /\ ctlModel \in Models /\ selection \in Conns \cup {None}
      /\ execution \in Execution \cup {None}
  BY DEF FreeInv, TypeOK
<1>2. /\ conn' = [conn EXCEPT ![c] = "gone"]
      /\ selection' = IF selection = c THEN None ELSE selection
      /\ UNCHANGED <<ctlModel, cmds, ending, opRcvd, opOk, early>>
  BY DEF Forget
<1>3. execution # None =>
        /\ execution' \in Execution
        /\ execution' # None
        /\ execution'.cmd = execution.cmd
        /\ execution'.client = IF execution.client = c THEN None
                               ELSE execution.client
  BY <1>1 DEF Forget, Execution
<1>4. execution = None => execution' = None
  BY DEF Forget
<1>5. /\ conn' \in [Conns -> {"open", "lost", "gone"}]
      /\ conn'[c] = "gone" /\ c # None
      /\ \A d \in Conns : /\ conn[d] = "gone" => conn'[d] = "gone"
                          /\ conn[d] # "open" => conn'[d] # "open"
  BY <1>1, <1>2
<1>6. /\ execution' \in Execution \cup {None}
      /\ execution' = None <=> execution = None
      /\ execution # None =>
            /\ execution'.cmd = execution.cmd
            /\ \/ execution'.client = execution.client
               \/ /\ execution'.client = None
                  /\ execution.client # None
                  /\ conn'[execution.client] = "gone"
  BY <1>3, <1>4, <1>5
<1> QED
  BY <1>1, <1>2, <1>5, <1>6, FreeOther

(***************************************************************************)
(* A command is accepted, to be executed later.                            *)
(***************************************************************************)
LEMMA FreeOperLater ==
  ASSUME FreeInv, NEW c \in Conns, NEW delayed \in BOOLEAN,
         OperLater(c, delayed)
  PROVE  FreeInv'
<1> USE ControlAssumption
<1> DEFINE stage == IF ctlModel \in Enhanced THEN "response" ELSE "armed"
           cmd == NewCmd(c, delayed, stage)
           id == Len(cmds) + 1
<1>1. stage \in Stages /\ stage \in {"response", "armed"}
  BY DEF Stages
<1>2. /\ cmd \in Cmd /\ cmd.client = c /\ cmd.stage = stage
      /\ cmd.terms = 0 /\ cmd.orders = 0
  BY <1>1, NewCmdType
<1>3. /\ cmds' = Append(cmds, cmd)
      /\ execution = None
      /\ execution' = [cmd |-> id, client |-> c]
      /\ selection' = None /\ opRcvd' = TRUE
      /\ UNCHANGED <<conn, ctlModel, ending, opOk, early>>
  BY DEF OperLater, Accepts
<1> HIDE DEF stage, cmd
<1>4. Becomes(id, cmd) /\ id \notin DOMAIN cmds
  BY <1>2, <1>3, Appended, FreeFacts
<1>5. Served(cmd)
  BY <1>1, <1>2 DEF Served
<1>6. /\ execution' \in Execution /\ execution' # None
      /\ execution'.cmd = id /\ execution'.client = c
  BY <1>3, FreeFacts DEF Execution
<1>7. /\ DOMAIN cmds' = DOMAIN cmds \cup {id} /\ cmds'[id] = cmd
      /\ \A j \in DOMAIN cmds : cmds'[j] = cmds[j]
  BY <1>4 DEF Becomes
<1>8. Entries'
  <2>1. Owned(execution)' /\ cmds'[execution'.cmd].stage \in InHand
    BY <1>1, <1>2, <1>6, <1>7 DEF Owned, InHand
  <2>2. ending # None => Owned(ending)'
    BY <1>3, <1>7 DEF FreeInv, Entries, Owned
  <2>3. \A j \in DOMAIN cmds' :
           /\ cmds'[j].stage = "running" => execution' # None /\ execution'.cmd = j
           /\ cmds'[j].stage = "finishing" => ending # None /\ ending.cmd = j
    BY <1>1, <1>2, <1>3, <1>7 DEF FreeInv, Entries
  <2> QED
    BY <1>3, <2>1, <2>2, <2>3 DEF Entries
<1>9. Flags'
  <2>1. ending # None => ending.cmd \in DOMAIN cmds
    BY DEF FreeInv, Entries, Owned
  <2>2. opOk' => ending # None /\ cmds'[ending.cmd].stage = "finishing"
    BY <1>3, <1>7, <2>1 DEF FreeInv, Flags
  <2> QED
    BY <1>3, <1>6, <2>2 DEF Flags
<1> HIDE DEF id
<1> QED
  BY <1>3, <1>4, <1>5, <1>6, <1>8, <1>9, FreeFacts, FreeStep

(***************************************************************************)
(* A command is accepted and executed at once.                             *)
(***************************************************************************)
LEMMA FreeOperNow ==
  ASSUME FreeInv, NEW c \in Conns, NEW answer, OperNow(c, answer)
  PROVE  FreeInv'
<1> USE ControlAssumption
<1> DEFINE new == NewCmd(c, FALSE, "response")
           cmd == Executed(new, answer)
           id == Len(cmds) + 1
           runs == answer = "inExecution"
<1>1. /\ new \in Cmd /\ new.client = c /\ new.terms = 0 /\ new.orders = 0
      /\ ~new.enhanced
  <2>1. "response" \in Stages
    BY DEF Stages
  <2>2. \A delayed \in BOOLEAN :
            /\ NewCmd(c, delayed, "response") \in Cmd
            /\ NewCmd(c, delayed, "response").client = c
            /\ NewCmd(c, delayed, "response").terms = 0
            /\ NewCmd(c, delayed, "response").orders = 0
            /\ NewCmd(c, delayed, "response").enhanced
                 <=> ctlModel \in Enhanced
    BY <2>1, NewCmdType
  <2>3. ctlModel \notin Enhanced
    BY DEF OperNow
  <2> QED
    BY <2>2, <2>3, Zenon
<1> HIDE DEF new
<1>2. /\ cmd \in Cmd /\ cmd.client = c /\ cmd.orders \in {0, 1}
      /\ ~cmd.enhanced
      /\ cmd.stage = IF runs THEN "running" ELSE "ended"
  <2>1. /\ cmd \in Cmd /\ cmd.client = new.client
        /\ cmd.enhanced = new.enhanced
        /\ cmd.orders \in {new.orders, new.orders + 1}
        /\ answer = "inExecution" => cmd.stage = "running"
        /\ answer # "inExecution"
             => cmd.stage = IF new.enhanced THEN "telling" ELSE "ended"
    BY <1>1, ExecutedType
  <2> HIDE DEF cmd
  <2> QED
    BY <1>1, <2>1
<1>3. /\ cmds' = Append(cmds, cmd)
      /\ execution = None
      /\ execution' = IF runs THEN [cmd |-> id, client |-> c] ELSE None
      /\ selection' = None /\ opRcvd' = runs /\ opOk' = runs
      /\ UNCHANGED <<conn, ctlModel, ending, early>>
  BY DEF OperNow, Accepts, new
<1> HIDE DEF cmd
<1>4. Becomes(id, cmd) /\ id \notin DOMAIN cmds
  BY <1>2, <1>3, Appended, FreeFacts
<1>5. Served(cmd)
  BY <1>2 DEF Served
<1>6. IF runs
      THEN /\ execution' \in Execution /\ execution' # None
           /\ execution'.cmd = id /\ execution'.client = c
      ELSE execution' = None
  BY <1>3, FreeFacts DEF Execution
<1>7. /\ DOMAIN cmds' = DOMAIN cmds \cup {id} /\ cmds'[id] = cmd
      /\ \A j \in DOMAIN cmds : cmds'[j] = cmds[j]
  BY <1>4 DEF Becomes
<1>8. Entries'
  <2>1. runs => Owned(execution)' /\ cmds'[execution'.cmd].stage \in InHand
    BY <1>2, <1>6, <1>7 DEF Owned, InHand
  <2>2. ending # None => Owned(ending)'
    BY <1>3, <1>7 DEF FreeInv, Entries, Owned
  <2>3. \A j \in DOMAIN cmds' :
           /\ cmds'[j].stage = "running" => execution' # None /\ execution'.cmd = j
           /\ cmds'[j].stage = "finishing" => ending # None /\ ending.cmd = j
    BY <1>2, <1>3, <1>6, <1>7 DEF FreeInv, Entries
  <2> QED
    BY <1>3, <1>6, <2>1, <2>2, <2>3 DEF Entries
<1>9. Flags'
  BY <1>2, <1>3, <1>6, <1>7 DEF Flags
<1>10. opRcvd' \in BOOLEAN /\ opOk' \in BOOLEAN
  BY <1>3
<1>11. execution' \in Execution \cup {None}
  BY <1>6
<1> HIDE DEF id, runs
<1> QED
  BY <1>3, <1>4, <1>5, <1>8, <1>9, <1>10, <1>11, FreeFacts, FreeStep

(***************************************************************************)
(* The handler is called, and answers.                                     *)
(***************************************************************************)
LEMMA FreeRun ==
  ASSUME FreeInv, NEW id \in DOMAIN cmds, NEW answer, Run(id, answer)
  PROVE  FreeInv'
<1> USE ControlAssumption
<1> DEFINE cmd == Executed(cmds[id], answer)
           runs == answer = "inExecution"
<1>1. /\ cmds[id] \in Cmd /\ Served(cmds[id]) /\ id \in Nat
      /\ cmds[id].stage \in {"response", "armed"}
      /\ execution # None => execution.cmd = id
      /\ execution \in Execution \cup {None}
      /\ ending \in Execution \cup {None}
      /\ opRcvd \in BOOLEAN /\ cmds \in Seq(Cmd) /\ early \in BOOLEAN
  BY FreeFacts DEF Run, MayRun
<1>2. /\ cmds' = [cmds EXCEPT ![id] = cmd]
      /\ UNCHANGED <<conn, ctlModel, selection, ending, early>>
      /\ IF runs THEN /\ execution' = [cmd |-> id,
                                       client |-> IF execution # None
                                                  THEN execution.client
                                                  ELSE cmds[id].client]
                      /\ opOk' = TRUE /\ opRcvd' = opRcvd
         ELSE execution' = None /\ opOk' = FALSE /\ opRcvd' = FALSE
  BY <1>1 DEF Run
<1>3. /\ cmd \in Cmd /\ cmd.client = cmds[id].client
      /\ cmd.enhanced = cmds[id].enhanced
      /\ cmd.orders \in {cmds[id].orders, cmds[id].orders + 1}
      /\ runs => cmd.stage = "running"
      /\ ~runs => cmd.stage = IF cmds[id].enhanced THEN "telling" ELSE "ended"
  BY <1>1, ExecutedType
<1> HIDE DEF cmd
<1>4. Served(cmd)
  BY <1>1, <1>3 DEF Served, Cmd
<1>5. Becomes(id, cmd)
  BY <1>1, <1>2, <1>3, Updated
<1>6. /\ DOMAIN cmds' = DOMAIN cmds /\ cmds'[id] = cmd
      /\ \A j \in DOMAIN cmds : j # id => cmds'[j] = cmds[j]
      /\ \A j \in DOMAIN cmds : cmds'[j].client = cmds[j].client
  BY <1>3, <1>5 DEF Becomes
<1>7. /\ cmds[id].client \in Conns /\ cmds[id].client # None
      /\ execution # None =>
            execution \in Execution /\ execution.client \in Conns \cup {None}
  BY <1>1 DEF Cmd, Execution
<1>8. IF runs
      THEN /\ execution' \in Execution /\ execution' # None
           /\ execution'.cmd = id
           /\ execution'.client = IF execution # None THEN execution.client
                                  ELSE cmds[id].client
      ELSE execution' = None
  <2> DEFINE client == IF execution # None THEN execution.client
                       ELSE cmds[id].client
  <2>1. client \in Conns \cup {None}
    BY <1>7
  <2>2. runs => execution' = [cmd |-> id, client |-> client]
    BY <1>2
  <2> HIDE DEF client
  <2>3. runs => /\ execution' \in Execution /\ execution' # None
                /\ execution'.cmd = id /\ execution'.client = client
    BY <1>1, <2>1, <2>2 DEF Execution
  <2> QED
    BY <1>2, <2>3 DEF client
<1>9. Entries'
  <2>1. runs => Owned(execution)' /\ cmds'[execution'.cmd].stage \in InHand
    BY <1>1, <1>2, <1>3, <1>6, <1>7, <1>8
       DEF FreeInv, Entries, Owned, InHand
  <2>2. ending # None => Owned(ending)'
    BY <1>2, <1>6 DEF FreeInv, Entries, Owned
  <2>3. \A j \in DOMAIN cmds' :
           /\ cmds'[j].stage = "running" => execution' # None /\ execution'.cmd = j
           /\ cmds'[j].stage = "finishing" => ending # None /\ ending.cmd = j
    <3>1. \A j \in DOMAIN cmds : j # id => cmds[j].stage # "running"
      BY <1>1 DEF FreeInv, Entries
    <3> QED
      BY <3>1, <1>3, <1>6, <1>8 DEF FreeInv, Entries
  <2> QED
    BY <1>2, <1>8, <2>1, <2>2, <2>3 DEF Entries
<1>10. Flags'
  BY <1>2, <1>3, <1>6, <1>8 DEF Flags
<1>11. opRcvd' \in BOOLEAN /\ opOk' \in BOOLEAN
  BY <1>1, <1>2
<1>12. execution' \in Execution \cup {None}
  BY <1>8
<1> HIDE DEF runs
<1> QED
  BY <1>1, <1>2, <1>4, <1>5, <1>9, <1>10, <1>11, <1>12, FreeStep

(***************************************************************************)
(* finish() takes the entry, of a command in execution or not.             *)
(***************************************************************************)
LEMMA FreeFinish == ASSUME FreeInv, Finish PROVE FreeInv'
<1> USE ControlAssumption
<1> DEFINE id == execution.cmd
           stage == IF cmds[id].stage = "running" THEN "finishing"
                    ELSE cmds[id].stage
           cmd == [cmds[id] EXCEPT !.stage = stage]
<1>1. /\ ending = None /\ execution # None /\ execution \in Execution
      /\ id \in DOMAIN cmds /\ cmds[id] \in Cmd /\ Served(cmds[id])
      /\ cmds[id].stage \in InHand
      /\ cmds \in Seq(Cmd) /\ opRcvd \in BOOLEAN /\ opOk \in BOOLEAN
      /\ early' \in BOOLEAN
  BY FreeFacts DEF Finish, FreeInv, Entries, Owned
<1>2. /\ stage \in Stages /\ stage \in InHand \cup {"finishing"}
      /\ stage # "running" /\ stage # "ended"
      /\ stage = "finishing" <=> cmds[id].stage = "running"
      /\ stage \in {"response", "armed", "dropped"} => cmds[id].stage = stage
  BY <1>1 DEF Stages, Cmd, InHand
<1>3. /\ cmds' = [cmds EXCEPT ![id] = cmd]
      /\ execution' = None /\ ending' = execution
      /\ UNCHANGED <<conn, ctlModel, selection, opRcvd, opOk>>
  BY <1>1 DEF Finish
<1> HIDE DEF stage
<1>4. /\ cmd \in Cmd /\ cmd.stage = stage /\ cmd.client = cmds[id].client
      /\ cmd.orders = cmds[id].orders
  BY <1>1, <1>2 DEF Cmd
<1> HIDE DEF cmd
<1>5. Served(cmd)
  BY <1>1, <1>2, <1>4 DEF Served
<1>6. Becomes(id, cmd)
  BY <1>1, <1>3, <1>4, Updated
<1>7. /\ DOMAIN cmds' = DOMAIN cmds /\ cmds'[id] = cmd
      /\ \A j \in DOMAIN cmds : j # id => cmds'[j] = cmds[j]
      /\ \A j \in DOMAIN cmds : cmds'[j].client = cmds[j].client
  <2> HIDE DEF id
  <2>1. /\ DOMAIN cmds' = DOMAIN cmds /\ cmds'[id] = cmd
        /\ \A j \in DOMAIN cmds : j # id => cmds'[j] = cmds[j]
    BY <1>1, <1>6 DEF Becomes
  <2> QED
    BY <2>1, <1>4
<1>8. Entries'
  <2>1. Owned(execution) /\ (ending' = execution => Owned(ending)')
    BY <1>1, <1>3, <1>7 DEF FreeInv, Entries, Owned
  <2>2. \A j \in DOMAIN cmds' :
           /\ cmds'[j].stage # "running"
           /\ cmds'[j].stage = "finishing" => j = id
    BY <1>1, <1>2, <1>4, <1>7 DEF FreeInv, Entries
  <2> QED
    BY <1>1, <1>3, <2>1, <2>2 DEF Entries
<1>9. Flags'
  BY <1>1, <1>2, <1>3, <1>4, <1>7 DEF FreeInv, Flags
<1> HIDE DEF id
<1> QED
  BY <1>1, <1>3, <1>5, <1>6, <1>8, <1>9, FreeStep

(***************************************************************************)
(* finish() ends its command if it was in execution, and tells its client. *)
(***************************************************************************)
LEMMA FreeFinishEnds == ASSUME FreeInv, FinishEnds PROVE FreeInv'
<1> USE ControlAssumption
<1> DEFINE id == ending.cmd
           told == cmds[id].enhanced /\ ending.client # None
           terms == IF told THEN cmds[id].terms + 1 ELSE cmds[id].terms
           stage == IF cmds[id].stage = "finishing" THEN "ended"
                    ELSE cmds[id].stage
           cmd == [cmds[id] EXCEPT !.stage = stage, !.terms = terms]
<1>1. /\ ending # None
      /\ id \in DOMAIN cmds /\ cmds[id] \in Cmd /\ Served(cmds[id])
      /\ cmds \in Seq(Cmd) /\ execution \in Execution \cup {None}
      /\ early \in BOOLEAN /\ selection \in Conns \cup {None}
      /\ ending.client = None => conn[cmds[id].client] = "gone"
  BY FreeFacts DEF FinishEnds, FreeInv, Entries, Owned, TypeOK
<1>2. /\ terms \in Nat
      /\ told => terms > 0
      /\ cmds[id].terms > 0 => terms > 0
      /\ cmds[id].enhanced /\ ~told => conn[cmds[id].client] = "gone"
  BY <1>1 DEF Cmd
<1>3. /\ stage \in Stages /\ stage # "finishing"
      /\ cmds[id].stage # "finishing" => stage = cmds[id].stage
      /\ cmds[id].stage = "finishing" => stage = "ended"
  BY <1>1 DEF Stages, Cmd
<1>4. /\ cmds' = [cmds EXCEPT ![id] = cmd]
      /\ ending' = None /\ opRcvd' = FALSE /\ opOk' = FALSE
      /\ UNCHANGED <<conn, ctlModel, selection, execution, early>>
  BY <1>1 DEF FinishEnds, Cmd
<1> HIDE DEF told, terms, stage
<1>5. /\ cmd \in Cmd /\ cmd.stage = stage /\ cmd.terms = terms
      /\ cmd.client = cmds[id].client
      /\ cmd.orders = cmds[id].orders
      /\ cmd.enhanced = cmds[id].enhanced
  BY <1>1, <1>2, <1>3 DEF Cmd
<1> HIDE DEF cmd
<1>6. Served(cmd)
  BY <1>1, <1>2, <1>3, <1>5 DEF Served
<1>7. Becomes(id, cmd)
  BY <1>1, <1>4, <1>5, Updated
<1>8. /\ DOMAIN cmds' = DOMAIN cmds /\ cmds'[id] = cmd
      /\ \A j \in DOMAIN cmds : j # id => cmds'[j] = cmds[j]
      /\ \A j \in DOMAIN cmds : cmds'[j].client = cmds[j].client
  <2> HIDE DEF id
  <2>1. /\ DOMAIN cmds' = DOMAIN cmds /\ cmds'[id] = cmd
        /\ \A j \in DOMAIN cmds : j # id => cmds'[j] = cmds[j]
    BY <1>1, <1>7 DEF Becomes
  <2> QED
    BY <2>1, <1>5
<1>9. Entries'
  <2>1. execution # None =>
           Owned(execution)' /\ cmds'[execution.cmd].stage \in InHand
    BY <1>1, <1>3, <1>4, <1>5, <1>8 DEF FreeInv, Entries, Owned, InHand
  <2>2. \A j \in DOMAIN cmds' :
           /\ cmds'[j].stage = "running" => execution # None /\ execution.cmd = j
           /\ cmds'[j].stage # "finishing"
    BY <1>3, <1>5, <1>8 DEF FreeInv, Entries
  <2> QED
    BY <1>4, <2>1, <2>2 DEF Entries
<1>10. Flags'
  BY <1>4 DEF Flags
<1> HIDE DEF id
<1> QED
  BY <1>1, <1>4, <1>6, <1>7, <1>9, <1>10, FreeStep

(***************************************************************************)
(* The first state.                                                        *)
(***************************************************************************)
LEMMA FreeInit == ASSUME Init PROVE FreeInv
<1>1. TypeOK /\ DOMAIN cmds = {}
  <2>1. <<>> \in Seq(Cmd) /\ DOMAIN <<>> = {}
    BY EmptySeq
  <2> QED
    BY <2>1 DEF Init, TypeOK
<1>2. Entries /\ Flags /\ AllServed
  BY <1>1 DEF Init, Entries, Flags, AllServed
<1> QED
  BY <1>1, <1>2 DEF FreeInv

(***************************************************************************)
(* Every step keeps the invariant.                                         *)
(***************************************************************************)
LEMMA FreeNext ==
  ASSUME FreeInv, [Next]_vars
  PROVE  FreeInv'
<1>1. CASE UNCHANGED vars
  <2>1. UNCHANGED <<conn, ctlModel, selection, execution, cmds, ending, opRcvd,
                    opOk, early>>
    BY <1>1 DEF vars
  <2> QED
    BY <2>1 DEF FreeInv, TypeOK, Entries, Flags, AllServed, Served, Owned
<1>2. ASSUME NEW c \in Conns, Request(c)
      PROVE  FreeInv'
  <2>1. CASE \E delayed \in BOOLEAN : OperLater(c, delayed)
    BY <2>1, FreeOperLater
  <2>2. CASE \E answer \in Outcomes : OperNow(c, answer)
    BY <2>2, FreeOperNow
  <2>3. CASE \/ SelectBySBO(c) \/ SelectBySBOw(c) \/ Cancel(c)
             \/ \E model \in Models : WriteCtlModel(c, model)
    BY <2>3, FreeSelect
  <2> QED
    BY <1>2, <2>1, <2>2, <2>3 DEF Request
<1>3. ASSUME NEW c \in Conns, Lose(c)
      PROVE  FreeInv'
  BY <1>3, FreeSelect
<1>4. ASSUME NEW c \in Conns, Forget(c)
      PROVE  FreeInv'
  BY <1>4, FreeForget
<1>5. ASSUME NEW id \in DOMAIN cmds, Follow(id) \/ RequestFails(id)
      PROVE  FreeInv'
  <2>1. CASE \E answer \in Outcomes : Run(id, answer)
    BY <2>1, FreeRun
  <2>2. CASE Respond(id) \/ RequestFails(id) \/ RunRefused(id) \/ Tell(id)
    BY <2>2, FreeFollow
  <2> QED
    BY <1>5, <2>1, <2>2 DEF Follow
<1>6. CASE SelectionLapses
  <2>1. selection \in Conns
    BY <1>6 DEF SelectionLapses, FreeInv, TypeOK
  <2> QED
    BY <1>6, <2>1, FreeSelect
<1>7. CASE Finish
  BY <1>7, FreeFinish
<1>8. CASE FinishEnds
  BY <1>8, FreeFinishEnds
<1> QED
  BY <1>1, <1>2, <1>3, <1>4, <1>5, <1>6, <1>7, <1>8 DEF Next

----------------------------------------------------------------------------
(* The theorems                                                            *)

(***************************************************************************)
(* A call of finish() that came too early is not forgotten, and no other   *)
(* step makes one.                                                         *)
(***************************************************************************)
LEMMA EarlyStep ==
  ASSUME [Next]_vars
  PROVE  /\ early => early'
         /\ early' /\ ~early => Finish
<1>1. ASSUME NEW c \in Conns, Request(c) \/ Lose(c) \/ Forget(c)
      PROVE  early' = early
  BY <1>1 DEF Request, SelectBySBO, SelectBySBOw, Cancel, OperLater, OperNow,
              WriteCtlModel, Lose, Forget
<1>2. ASSUME NEW id \in DOMAIN cmds, Follow(id) \/ RequestFails(id)
      PROVE  early' = early
  BY <1>2 DEF Follow, Respond, RequestFails, RunRefused, Run, Tell
<1>3. SelectionLapses \/ FinishEnds \/ UNCHANGED vars => early' = early
  BY DEF SelectionLapses, FinishEnds, vars
<1>4. Finish => (early => early')
  BY DEF Finish
<1> QED
  BY <1>1, <1>2, <1>3, <1>4 DEF Next

(***************************************************************************)
(* The invariant holds until finish() is called too early, if it is.       *)
(***************************************************************************)
THEOREM Invariance == Spec => [](early \/ Inv)
<1>1. Init => early \/ Inv
  BY InitInv
<1>2. (early \/ Inv) /\ [Next]_vars => (early \/ Inv)'
  BY NextInv, EarlyStep
<1> QED
  BY <1>1, <1>2, PTL DEF Spec

(***************************************************************************)
(* Whatever finish() is called for, the entry, the flags and the commands  *)
(* go together.                                                            *)
(***************************************************************************)
THEOREM FreeInvariance == Spec => []FreeInv
<1> QED
  BY FreeInit, FreeNext, PTL DEF Spec

(***************************************************************************)
(* _execute, _run, finish() and _ended: one command is in execution at a   *)
(* time, ordered once; opRcvd and opOk do not outlive it; and until        *)
(* finish() is called too early, the entry is that of the command in hand. *)
(***************************************************************************)
THEOREM CommandIsInHand == Spec => []CommandInHand
<1>1. FreeInv => ExclusiveExecution
  <2> SUFFICES ASSUME FreeInv
               PROVE  ExclusiveExecution
    OBVIOUS
  <2>1. \A id \in DOMAIN cmds : cmds[id].orders <= 1
    BY DEF FreeInv, AllServed, Served
  <2>2. Commands({"running"}) \subseteq
           IF execution = None THEN {} ELSE {execution.cmd}
    BY DEF FreeInv, Entries, Commands
  <2> QED
    BY <2>1, <2>2 DEF ExclusiveExecution
<1>2. FreeInv => FlagsEnd
  <2> SUFFICES ASSUME FreeInv
               PROVE  FlagsEnd
    OBVIOUS
  <2>1. /\ execution # None =>
              execution.cmd \in DOMAIN cmds /\ cmds[execution.cmd].stage \in InHand
        /\ ending # None => ending.cmd \in DOMAIN cmds
    BY DEF FreeInv, Entries, Owned
  <2>2. opRcvd => Commands({"response", "armed", "running", "dropped",
                            "finishing"}) # {}
    <3>1. opRcvd => \E id \in DOMAIN cmds :
                       cmds[id].stage \in InHand \cup {"finishing"}
      BY <2>1 DEF FreeInv, Flags
    <3> QED
      BY <3>1 DEF Commands, InHand
  <2>3. opOk => Commands({"running", "finishing"}) # {}
    <3>1. opOk => \E id \in DOMAIN cmds :
                     cmds[id].stage \in {"running", "finishing"}
      BY <2>1 DEF FreeInv, Flags
    <3> QED
      BY <3>1 DEF Commands
  <2> QED
    BY <2>2, <2>3 DEF FlagsEnd
<1>3. FreeInv /\ (early \/ Inv) => CommandInHand
  BY <1>1, <1>2 DEF CommandInHand, Inv
<1> QED
  BY <1>3, FreeInvariance, Invariance, PTL

(***************************************************************************)
(* _terminate and finish(): whoever ends a command in enhanced security,   *)
(* the client that sent it is told, unless it has gone.                    *)
(***************************************************************************)
THEOREM ClientIsTold == Spec => []ClientTold
<1>1. FreeInv => ClientTold
  BY DEF FreeInv, AllServed, Served, ClientTold
<1> QED
  BY <1>1, FreeInvariance, PTL

(***************************************************************************)
(* _terminate and finish(): one CommandTermination at most, of a command   *)
(* that has ended, until finish() is called too early.                     *)
(***************************************************************************)
THEOREM TerminationComesLast == Spec => []TerminationIsLast
<1>1. early \/ Inv => TerminationIsLast
  <2> SUFFICES ASSUME Inv, NEW id \in DOMAIN cmds
               PROVE  /\ cmds[id].terms > 0
                           => cmds[id].stage = "ended" /\ cmds[id].enhanced
                      /\ cmds[id].terms <= 1
    BY DEF TerminationIsLast
  <2> QED
    BY DEF Inv, AllCounted, Counted
<1> QED
  BY <1>1, Invariance, PTL

----------------------------------------------------------------------------
(* The object implements Operation.                                        *)

\* Operation's current and ordered.
Current == IF early \/ execution = None THEN None ELSE execution.cmd
Ordered == /\ ~early /\ execution # None
           /\ cmds[execution.cmd].stage = "running"

(***************************************************************************)
(* A step that leaves the entry's command and its stage alone keeps what   *)
(* Operation sees of it.                                                   *)
(***************************************************************************)
LEMMA SameCommand ==
  ASSUME Inv, UNCHANGED early, execution = None <=> execution' = None,
         execution # None =>
            /\ execution'.cmd = execution.cmd
            /\ cmds'[execution.cmd].stage = "running"
                 <=> cmds[execution.cmd].stage = "running"
  PROVE  Current' = Current /\ Ordered' = Ordered
<1>1. Current' = Current
  BY DEF Current
<1>2. Ordered' <=> Ordered
  BY DEF Ordered
<1>3. Ordered' \in BOOLEAN /\ Ordered \in BOOLEAN
  BY DEF Ordered
<1> QED
  BY <1>1, <1>2, <1>3

(***************************************************************************)
(* Selecting, leaving and configuring are selections, deselections and     *)
(* reconfigurations.                                                       *)
(***************************************************************************)
LEMMA SelectionRefines ==
  ASSUME Inv, NEW c \in Conns,
         \/ SelectBySBO(c) \/ SelectBySBOw(c) \/ Cancel(c) \/ SelectionLapses
         \/ \E model \in Models : WriteCtlModel(c, model)
         \/ Lose(c) \/ Forget(c)
  PROVE  O!OperationNext \/ UNCHANGED O!ovars
<1> USE ControlAssumption
<1>1. execution \in Execution \cup {None}
  BY DEF Inv, TypeOK
<1>2. /\ execution = None <=> execution' = None
      /\ execution # None => execution'.cmd = execution.cmd
      /\ cmds' = cmds /\ early' = early
  BY <1>1 DEF SelectBySBO, SelectBySBOw, Cancel, SelectionLapses,
              WriteCtlModel, Lose, Forget, Execution
<1>3. Current' = Current /\ Ordered' = Ordered
  BY <1>2, SameCommand
<1>4. \/ selection \in {None, c} /\ selection' = c /\ ctlModel' = ctlModel
      \/ selection' = None /\ ctlModel' = ctlModel
      \/ selection' = selection
  BY DEF SelectBySBO, SelectBySBOw, Cancel, SelectionLapses, WriteCtlModel,
         Lose, Forget
<1> QED
  BY <1>3, <1>4 DEF O!OperationNext, O!Select, O!Deselect, O!Reconfigure,
                    Current, Ordered

(***************************************************************************)
(* An Oper is an acceptance.                                               *)
(***************************************************************************)
LEMMA OperRefines ==
  ASSUME Inv, NEW c \in Conns,
         \/ \E delayed \in BOOLEAN : OperLater(c, delayed)
         \/ \E answer \in Outcomes : OperNow(c, answer)
  PROVE  O!OperationNext
<1>1. /\ Accepts(c) /\ selection' = None /\ ctlModel' = ctlModel
  BY DEF OperLater, OperNow
<1>2. /\ Current = None
      /\ ctlModel \in Sbo => selection = c
  BY <1>1 DEF Accepts, Current
<1>3. Current' = None => ~Ordered'
  <2>1. execution' = None \/ execution' = [cmd |-> Len(cmds) + 1, client |-> c]
    BY DEF OperLater, OperNow
  <2>2. Len(cmds) + 1 # None
    <3>1. Len(cmds) \in Nat
      BY LenProperties DEF Inv, TypeOK
    <3> QED
      BY <3>1, ControlAssumption
  <2>3. execution' # None /\ ~early' => Current' # None
    BY <2>1, <2>2 DEF Current
  <2> QED
    BY <2>3 DEF Ordered
<1> QED
  BY <1>1, <1>2, <1>3 DEF O!OperationNext, O!Accept, Current, Ordered

(***************************************************************************)
(* The handler's call is the order, or the end; finish() is the end; the   *)
(* rest is seen by no one.                                                 *)
(***************************************************************************)
LEMMA FollowRefines ==
  ASSUME Inv, ~early, NEW id \in DOMAIN cmds, Follow(id) \/ RequestFails(id)
  PROVE  O!OperationNext \/ UNCHANGED O!ovars
<1> USE ControlAssumption
<1>1. /\ cmds \in Seq(Cmd) /\ cmds[id] \in Cmd
      /\ \A j \in DOMAIN cmds : cmds[j].stage \in InHand =>
            execution # None /\ execution.cmd = j
      /\ execution # None => execution.cmd \in DOMAIN cmds
  BY HandFacts DEF Inv, TypeOK
<1>2. CASE Respond(id) \/ RequestFails(id) \/ Tell(id)
  <2>1. /\ UNCHANGED <<ctlModel, selection, execution, early>>
        /\ cmds[id].stage # "running"
        /\ \A j \in DOMAIN cmds : j # id => cmds'[j] = cmds[j]
        /\ cmds'[id].stage # "running"
    BY <1>1, <1>2 DEF Respond, RequestFails, Tell, Cmd
  <2>2. Current' = Current /\ Ordered' = Ordered
    BY <1>1, <2>1, SameCommand
  <2> QED
    BY <2>1, <2>2 DEF O!ovars, Current, Ordered
<1>3. CASE RunRefused(id)
  <2>1. MayRun(id) /\ execution # None /\ execution.cmd # id
    BY <1>3 DEF RunRefused
  <2> QED
    BY <2>1, RunsItsOwn
<1>4. ASSUME NEW answer, Run(id, answer)
      PROVE  O!OperationNext
  <2>1. /\ execution # None /\ execution.cmd = id
        /\ cmds[id].stage # "running"
        /\ UNCHANGED <<ctlModel, selection, early>>
    BY <1>4, RunsItsOwn DEF Run, MayRun
  <2>2. Current = id /\ id # None /\ ~Ordered
    <3>1. id \in Nat
      BY HandFacts
    <3> QED
      BY <2>1, <3>1 DEF Current, Ordered
  <2>3. CASE answer = "inExecution"
    <3>1. execution' = [cmd |-> id, client |-> execution.client]
      BY <1>4, <2>1, <2>3 DEF Run
    <3>2. execution' # None
      <4>1. execution \in Execution
        BY <2>1 DEF Inv, TypeOK
      <4> QED
        BY <3>1, <4>1, HandFacts DEF Execution
    <3>3. cmds'[id].stage = "running"
      <4>1. Executed(cmds[id], answer).stage = "running"
        BY <1>1, <2>3, ExecutedType
      <4> QED
        BY <1>1, <1>4, <4>1 DEF Run
    <3>4. Current' = id /\ Ordered' = TRUE
      BY <2>1, <3>1, <3>2, <3>3 DEF Current, Ordered
    <3> QED
      BY <2>1, <2>2, <3>4 DEF O!OperationNext, O!Order, Current, Ordered
  <2>4. CASE answer # "inExecution"
    <3>1. execution' = None
      BY <1>4, <2>4 DEF Run
    <3>2. Current' = None /\ Ordered' = FALSE
      BY <3>1 DEF Current, Ordered
    <3> QED
      BY <2>1, <2>2, <3>2 DEF O!OperationNext, O!End, Current, Ordered
  <2> QED
    BY <2>3, <2>4
<1> QED
  BY <1>2, <1>3, <1>4 DEF Follow, O!ovars

(***************************************************************************)
(* finish() is the end; what it does after is seen by no one.              *)
(***************************************************************************)
LEMMA FinishRefines ==
  ASSUME Inv, ~early, Finish \/ FinishEnds
  PROVE  O!OperationNext \/ UNCHANGED O!ovars
<1> USE ControlAssumption
<1>1. CASE Finish
  <2>1. execution # None /\ execution' = None
        /\ UNCHANGED <<ctlModel, selection>>
    BY <1>1 DEF Finish
  <2>2. Current # None
    <3>1. execution.cmd \in Nat
      BY <2>1, HandFacts
    <3> QED
      BY <2>1, <3>1 DEF Current
  <2>3. Current' = None /\ Ordered' = FALSE
    BY <2>1 DEF Current, Ordered
  <2> QED
    BY <2>1, <2>2, <2>3 DEF O!OperationNext, O!End, Current, Ordered
<1>2. CASE FinishEnds
  <2>1. /\ UNCHANGED <<ctlModel, selection, execution, early>>
        /\ \A j \in DOMAIN cmds : j # ending.cmd => cmds'[j] = cmds[j]
    <3>1. cmds \in Seq(Cmd)
      BY DEF Inv, TypeOK
    <3> QED
      BY <1>2, <3>1 DEF FinishEnds
  <2>2. execution # None =>
          execution.cmd \in DOMAIN cmds /\ execution.cmd # ending.cmd
    BY <1>2, HandFacts DEF FinishEnds, InHand
  <2>3. Current' = Current /\ Ordered' = Ordered
    BY <2>1, <2>2, SameCommand
  <2> QED
    BY <2>1, <2>3 DEF O!ovars, Current, Ordered
<1> QED
  BY <1>1, <1>2

(***************************************************************************)
(* Once finish() has been called too early, Operation sees the selections  *)
(* and the acceptances only.                                               *)
(***************************************************************************)
LEMMA EarlyRefines ==
  ASSUME early, [Next]_vars
  PROVE  O!OperationNext \/ UNCHANGED O!ovars
<1>1. /\ Current = None /\ Current' = None
      /\ Ordered = FALSE /\ Ordered' = FALSE
  BY EarlyStep DEF Current, Ordered
<1>2. ASSUME NEW c \in Conns, Accepts(c), selection' = None,
             ctlModel' = ctlModel
      PROVE  O!OperationNext
  BY <1>1, <1>2 DEF Accepts, O!OperationNext, O!Accept, Current, Ordered
<1>3. ASSUME NEW c \in Conns, selection \in {None, c}, selection' = c,
             ctlModel' = ctlModel
      PROVE  O!OperationNext
  BY <1>1, <1>3 DEF O!OperationNext, O!Select, Current, Ordered
<1>4. ASSUME selection' = None, ctlModel' = ctlModel
      PROVE  O!OperationNext
  BY <1>1, <1>4 DEF O!OperationNext, O!Deselect, Current, Ordered
<1>5. ASSUME selection' = selection
      PROVE  O!OperationNext
  BY <1>1, <1>5 DEF O!OperationNext, O!Reconfigure, Current, Ordered
<1>6. ASSUME NEW c \in Conns, Request(c)
      PROVE  O!OperationNext
  BY <1>6, <1>2, <1>3, <1>4, <1>5
     DEF Request, SelectBySBO, SelectBySBOw, Cancel, OperLater, OperNow,
         WriteCtlModel
<1>7. ASSUME NEW c \in Conns, Lose(c) \/ Forget(c)
      PROVE  O!OperationNext
  BY <1>7, <1>4, <1>5 DEF Lose, Forget
<1>8. ASSUME NEW id \in DOMAIN cmds, Follow(id) \/ RequestFails(id)
      PROVE  O!OperationNext
  BY <1>8, <1>5 DEF Follow, Respond, RequestFails, RunRefused, Run, Tell
<1>9. CASE SelectionLapses \/ Finish \/ FinishEnds
  BY <1>9, <1>4, <1>5 DEF SelectionLapses, Finish, FinishEnds
<1>10. CASE UNCHANGED vars
  BY <1>10, <1>5 DEF vars
<1> QED
  BY <1>6, <1>7, <1>8, <1>9, <1>10 DEF Next

(***************************************************************************)
(* The object's steps, mapped by O, are Operation's: one selection at a    *)
(* time, one command in hand, accepted from the client that selected it,   *)
(* ordered at most once.                                                   *)
(***************************************************************************)
THEOREM ObjectImplementsOperation == Spec => ObjectOperates
<1>1. Init => selection = None /\ Current = None /\ Ordered = FALSE
  BY DEF Init, Current, Ordered
<1>2. (early \/ Inv) /\ [Next]_vars => O!OperationNext \/ UNCHANGED O!ovars
  <2> SUFFICES ASSUME Inv, ~early, [Next]_vars
               PROVE  O!OperationNext \/ UNCHANGED O!ovars
    BY EarlyRefines
  <2>1. CASE UNCHANGED vars
    BY <2>1 DEF vars, O!ovars
  <2>2. ASSUME NEW c \in Conns, Request(c) \/ Lose(c) \/ Forget(c)
        PROVE  O!OperationNext \/ UNCHANGED O!ovars
    BY <2>2, SelectionRefines, OperRefines DEF Request
  <2>3. ASSUME NEW id \in DOMAIN cmds, Follow(id) \/ RequestFails(id)
        PROVE  O!OperationNext \/ UNCHANGED O!ovars
    BY <2>3, FollowRefines
  <2>4. CASE SelectionLapses
    <3>1. selection \in Conns
      BY <2>4 DEF SelectionLapses, Inv, TypeOK
    <3> QED
      BY <2>4, <3>1, SelectionRefines
  <2>5. CASE Finish \/ FinishEnds
    BY <2>5, FinishRefines
  <2> QED
    BY <2>1, <2>2, <2>3, <2>4, <2>5 DEF Next
<1> QED
  BY <1>1, <1>2, Invariance, PTL
     DEF Spec, ObjectOperates, O!OperationSpec, Current, Ordered

=============================================================================
