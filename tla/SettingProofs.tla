--------------------------- MODULE SettingProofs ---------------------------
(***************************************************************************)
(* Proofs about SettingGroupEngine, for every number of clients, groups,   *)
(* settings and values.                                                    *)
(***************************************************************************)
EXTENDS SettingGroupEngine, TLAPS

(***************************************************************************)
(* The numbers that ActSG and EditSG take.                                 *)
(***************************************************************************)
LEMMA GroupNumbers ==
  /\ 0 \in 0 .. NumOfSG /\ 0 \notin Groups
  /\ \A n \in Groups : n \in 0 .. NumOfSG
  /\ \A n \in 0 .. NumOfSG : n # 0 => n \in Groups
BY SettingAssumption DEF Groups

(***************************************************************************)
(* A write gives settings again, and changes only the leaves it has.       *)
(***************************************************************************)
LEMMA UpdateType ==
  ASSUME NEW settings \in Settings, NEW write \in Write
  PROVE  Update(settings, write) \in Settings
<1>1. PICK written \in SUBSET Keys : write \in [written -> Vals]
  BY DEF Write
<1> QED
  BY <1>1 DEF Update, Settings

(***************************************************************************)
(* A handler under way is one of the two.                                  *)
(***************************************************************************)
LEMMA BusyType ==
  ASSUME TypeOK, busy # None
  PROVE  /\ busy \in Handlers
         /\ busy.conn \in Conns /\ busy.group \in Groups
         /\ busy.left \in SUBSET Keys
BY DEF TypeOK, Handlers

(***************************************************************************)
(* The variables keep their types, whatever clients write whole.           *)
(***************************************************************************)
THEOREM TypeCorrect == Spec => []TypeOK
<1>1. Init => TypeOK
  BY GroupNumbers DEF Init, TypeOK
<1>2. TypeOK /\ [Next]_vars => TypeOK'
  <2> SUFFICES ASSUME TypeOK, [Next]_vars PROVE TypeOK'
    OBVIOUS
  <2> USE GroupNumbers
  <2>1. ASSUME NEW c \in Conns, Request(c) PROVE TypeOK'
    <3>1. CASE ReadBlock(c)
      BY <3>1 DEF TypeOK, ReadBlock, Expire, Holder, EditGroup, groups
    <3>2. ASSUME NEW group \in Groups, WriteActSG(c, group) PROVE TypeOK'
      BY <3>2 DEF TypeOK, WriteActSG, Expire, Holder, EditGroup
    <3>3. ASSUME NEW group \in Groups, WriteEditSG(c, group) PROVE TypeOK'
      <4>1. busy' \in Handlers
        BY <3>3 DEF WriteEditSG, Handlers
      <4> QED
        BY <3>3, <4>1 DEF TypeOK, WriteEditSG, groups
    <3>4. CASE EndEdit(c)
      BY <3>4 DEF TypeOK, EndEdit, Release, groups
    <3>5. CASE WriteCnfEdit(c)
      <4>1. EditGroup \in Groups
        BY <3>5 DEF TypeOK, WriteCnfEdit, EditGroup
      <4>2. busy' \in Handlers
        BY <3>5, <4>1 DEF WriteCnfEdit, Handlers
      <4> QED
        BY <3>5, <4>2 DEF TypeOK, WriteCnfEdit, edit, groups
    <3>6. ASSUME NEW write \in Write, CheckSE(c, write) PROVE TypeOK'
      BY <3>6 DEF TypeOK, CheckSE, edit, groups
    <3> QED
      BY <2>1, <3>1, <3>2, <3>3, <3>4, <3>5, <3>6 DEF Request
  <2>2. ASSUME NEW c \in Conns, WholeRequest(c) PROVE TypeOK'
    <3>1. ASSUME NEW write \in Write, WriteWholeSE(c, write)
          PROVE  TypeOK'
      BY <3>1, UpdateType DEF TypeOK, WriteWholeSE, edit, groups
    <3>2. ASSUME NEW active \in 0 .. NumOfSG, NEW edited \in 0 .. NumOfSG,
                 WriteWholeSP(c, active, edited)
          PROVE  TypeOK'
      BY <3>2 DEF TypeOK, WriteWholeSP
    <3> QED
      BY <2>2, <3>1, <3>2 DEF WholeRequest
  <2>3. ASSUME NEW c \in Conns, WriteSE(c) PROVE TypeOK'
    <3>1. late[c] \in Write
      BY <2>3 DEF WriteSE, TypeOK
    <3>2. se' \in Settings
      BY <2>3, <3>1, UpdateType DEF WriteSE, TypeOK
    <3> QED
      BY <2>3, <3>2 DEF WriteSE, TypeOK, edit, groups
  <2>4. ASSUME NEW c \in Conns, Lose(c) \/ Forget(c) PROVE TypeOK'
    BY <2>4 DEF TypeOK, Lose, Forget, Release, edit, groups
  <2>5. CASE TimePasses
    BY <2>5 DEF TypeOK, TimePasses, groups
  <2>6. CASE Application
    <3>1. ASSUME NEW group \in Groups, SelectActive(group) PROVE TypeOK'
      BY <3>1 DEF TypeOK, SelectActive, edit
    <3>2. ASSUME NEW group \in Groups, NEW write \in Write,
                 SetValues(group, write)
          PROVE  TypeOK'
      <4>1. values' \in [Groups -> Settings]
        BY <3>2, UpdateType DEF TypeOK, SetValues
      <4> QED
        BY <3>2, <4>1 DEF TypeOK, SetValues, edit
    <3> QED
      BY <2>6, <3>1, <3>2 DEF Application
  <2>7. CASE Handler
    <3>1. ASSUME busy # None, NEW key \in Keys,
                 busy' = [busy EXCEPT !.left = @ \ {key}]
          PROVE  busy' \in Handlers
      BY <3>1, BusyType DEF Handlers
    <3>2. ASSUME NEW key \in Keys, LoadLeaf(key) PROVE TypeOK'
      <4>1. busy' \in Handlers
        BY <3>1, <3>2 DEF LoadLeaf, Loading
      <4>2. values[busy.group][key] \in Vals
        BY <3>2, BusyType DEF LoadLeaf, Loading, TypeOK, Settings
      <4>3. se' \in Settings
        BY <3>2, <4>2 DEF LoadLeaf, TypeOK, Settings
      <4> QED
        BY <3>2, <4>1, <4>3 DEF LoadLeaf, TypeOK, edit, groups
    <3>3. ASSUME NEW key \in Keys, ConfirmLeaf(key) PROVE TypeOK'
      <4>1. busy' \in Handlers
        BY <3>1, <3>3 DEF ConfirmLeaf, Confirming
      <4>2. se[key] \in Vals
        BY DEF TypeOK, Settings
      <4>3. [values[busy.group] EXCEPT ![key] = se[key]] \in Settings
        BY <3>3, <4>2, BusyType DEF ConfirmLeaf, Confirming, TypeOK, Settings
      <4>4. values' \in [Groups -> Settings]
        BY <3>3, <4>3 DEF ConfirmLeaf, TypeOK
      <4> QED
        BY <3>3, <4>1, <4>4 DEF ConfirmLeaf, TypeOK, edit
    <3>4. CASE Loaded
      BY <3>4 DEF Loaded, TypeOK, edit, groups
    <3>5. CASE Confirmed
      BY <3>5, BusyType DEF Confirmed, Confirming, TypeOK, Release
    <3> QED
      BY <2>7, <3>2, <3>3, <3>4, <3>5 DEF Handler
  <2>8. CASE UNCHANGED vars
    BY <2>8 DEF TypeOK, vars, edit, groups
  <2> QED
    BY <2>1, <2>2, <2>3, <2>4, <2>5, <2>6, <2>7, <2>8 DEF Next
<1> QED
  BY <1>1, <1>2, PTL DEF Spec

(***************************************************************************)
(* Only a write of the whole LLN0$SP sets bypassed, and nothing resets it. *)
(***************************************************************************)
LEMMA BypassedStep ==
  ASSUME [Next]_vars, bypassed' = FALSE
  PROVE  /\ bypassed # TRUE
         /\ \A c \in Conns, active, edited \in 0 .. NumOfSG :
               ~WriteWholeSP(c, active, edited)
<1>1. bypassed' = bypassed \/ bypassed' = TRUE
  BY DEF Next, Request, ReadBlock, WriteActSG, WriteEditSG, EndEdit,
         WriteCnfEdit, CheckSE, WholeRequest, WriteWholeSE, WriteWholeSP,
         WriteSE, Lose, Forget, TimePasses, Application, SelectActive,
         SetValues, Handler, LoadLeaf, ConfirmLeaf, Loaded, Confirmed, vars
<1> QED
  BY <1>1 DEF WriteWholeSP

(***************************************************************************)
(* EditSG and the editor go together, and the editor has not been          *)
(* forgotten: every step but a write of the whole LLN0$SP keeps that.      *)
(***************************************************************************)
LEMMA EditStep ==
  ASSUME TypeOK, EditSound, [Next]_vars, bypassed' = FALSE
  PROVE  EditSound'
<1> USE GroupNumbers, SettingAssumption
<1>1. ASSUME NEW c \in Conns, Request(c) PROVE EditSound'
  <2>1. CASE ReadBlock(c)
    BY <2>1 DEF EditSound, ReadBlock, Free, Expire, Holder, EditGroup
  <2>2. ASSUME NEW group \in Groups, WriteActSG(c, group)
        PROVE  EditSound'
    BY <2>2 DEF EditSound, WriteActSG, Free, Expire, Holder, EditGroup
  <2>3. ASSUME NEW group \in Groups, WriteEditSG(c, group)
        PROVE  EditSound'
    BY <2>3 DEF EditSound, WriteEditSG, Serving
  <2>4. CASE EndEdit(c)
    BY <2>4 DEF EditSound, EndEdit, Free, Release
  <2>5. CASE WriteCnfEdit(c)
    BY <2>5 DEF EditSound, WriteCnfEdit, Holder, EditGroup, edit
  <2>6. ASSUME NEW write \in Write, CheckSE(c, write) PROVE EditSound'
    BY <2>6 DEF EditSound, TypeOK, CheckSE, Serving, edit
  <2> QED
    BY <1>1, <2>1, <2>2, <2>3, <2>4, <2>5, <2>6 DEF Request
<1>2. ASSUME NEW c \in Conns, WholeRequest(c) PROVE EditSound'
  <2>1. PICK write \in Write : WriteWholeSE(c, write)
    BY <1>2, BypassedStep DEF WholeRequest
  <2>2. /\ UNCHANGED <<conn, late, busy>>
        /\ editor' = editor /\ overdue' = overdue /\ editSG' = editSG
    BY <2>1 DEF WriteWholeSE, edit
  <2> QED
    BY <2>2 DEF EditSound
<1>3. ASSUME NEW c \in Conns, WriteSE(c) PROVE EditSound'
  BY <1>3 DEF EditSound, TypeOK, WriteSE, edit
<1>4. ASSUME NEW c \in Conns, Lose(c) PROVE EditSound'
  BY <1>4 DEF EditSound, TypeOK, Lose, edit
<1>5. ASSUME NEW c \in Conns, Forget(c) PROVE EditSound'
  BY <1>5 DEF EditSound, TypeOK, Forget, Free, Release, edit
<1>6. CASE TimePasses
  BY <1>6 DEF EditSound, TimePasses
<1>7. CASE Application
  BY <1>7 DEF EditSound, Application, SelectActive, SetValues, edit
<1>8. CASE UNCHANGED vars
  BY <1>8 DEF EditSound, vars, edit
<1>9. CASE Handler
  <2>1. ASSUME NEW key \in Keys, LoadLeaf(key) \/ ConfirmLeaf(key)
        PROVE  EditSound'
    <3>1. busy # None /\ busy'.conn = busy.conn /\ busy'.group = busy.group
      BY <2>1, BusyType DEF LoadLeaf, ConfirmLeaf, Loading, Confirming, Handlers
    <3> QED
      BY <2>1, <3>1 DEF EditSound, LoadLeaf, ConfirmLeaf, edit
  <2>2. CASE Loaded
    BY <2>2 DEF EditSound, Loaded, edit
  <2>3. CASE Confirmed
    BY <2>3 DEF EditSound, Confirmed, Release
  <2> QED
    BY <1>9, <2>1, <2>2, <2>3 DEF Handler
<1> QED
  BY <1>1, <1>2, <1>3, <1>4, <1>5, <1>6, <1>7, <1>8, <1>9 DEF Next

(***************************************************************************)
(* FC SG shows the active group: every step but a write of the whole       *)
(* LLN0$SP keeps that.                                                     *)
(***************************************************************************)
LEMMA ActiveStep ==
  ASSUME TypeOK, ActiveShown, [Next]_vars, bypassed' = FALSE
  PROVE  ActiveShown'
<1>1. ASSUME NEW c \in Conns, Request(c) PROVE ActiveShown'
  BY <1>1, GroupNumbers
  DEF Request, ReadBlock, WriteActSG, WriteEditSG, EndEdit, WriteCnfEdit,
      CheckSE, ActiveShown, TypeOK, Free, Confirming, groups
<1>2. ASSUME NEW c \in Conns, WholeRequest(c) PROVE ActiveShown'
  BY <1>2, BypassedStep DEF WholeRequest, WriteWholeSE, ActiveShown, Confirming,
                            groups
<1>3. ASSUME NEW c \in Conns, WriteSE(c) \/ Lose(c) \/ Forget(c)
      PROVE  ActiveShown'
  BY <1>3 DEF WriteSE, Lose, Forget, ActiveShown, Confirming, groups
<1>4. CASE Application
  BY <1>4 DEF Application, SelectActive, SetValues, ActiveShown, TypeOK, Free,
              Confirming
<1>5. CASE TimePasses \/ UNCHANGED vars
  BY <1>5 DEF TimePasses, vars, ActiveShown, Confirming, groups
<1>6. CASE Handler
  <2>1. ASSUME NEW key \in Keys, LoadLeaf(key) PROVE ActiveShown'
    BY <2>1, BusyType DEF LoadLeaf, Loading, Confirming, ActiveShown, Handlers,
                          groups
  <2>2. ASSUME NEW key \in Keys, ConfirmLeaf(key) PROVE ActiveShown'
    <3>1. /\ busy # None /\ busy \in Handlers
          /\ busy' = [busy EXCEPT !.left = @ \ {key}] /\ busy' # None
          /\ busy'.op = "confirm" /\ busy'.group = busy.group
      <4>1. busy # None /\ busy \in Handlers
        BY <2>2, BusyType DEF ConfirmLeaf, Confirming
      <4>2. busy' \in Handlers /\ busy'.op = "confirm" /\ busy'.group = busy.group
        BY <2>2, <4>1 DEF ConfirmLeaf, Confirming, Handlers
      <4>3. busy' # None
        BY <4>2, SettingAssumption
      <4> QED
        BY <2>2, <4>1, <4>2, <4>3 DEF ConfirmLeaf
    <3>2. actSG' = actSG /\ sg' = sg
      BY <2>2 DEF ConfirmLeaf
    <3>3. \A group \in Groups : group # busy.group => values'[group] = values[group]
      BY <2>2 DEF ConfirmLeaf, TypeOK
    <3> QED
      BY <3>1, <3>2, <3>3 DEF ActiveShown, Confirming
  <2>3. CASE Loaded
    BY <2>3 DEF Loaded, Loading, Confirming, ActiveShown, groups
  <2>4. CASE Confirmed
    BY <2>4 DEF Confirmed, Confirming, ActiveShown
  <2> QED
    BY <1>6, <2>1, <2>2, <2>3, <2>4 DEF Handler
<1> QED
  BY <1>1, <1>2, <1>3, <1>4, <1>5, <1>6 DEF Next

(***************************************************************************)
(* _write_edit, _release, _expire, _on_close, _activate, _write_confirm,   *)
(* set_values: until a client writes LLN0$SP whole, EditSG names a group   *)
(* exactly while a connection that is there edits it, and FC SG shows the  *)
(* active group.                                                           *)
(***************************************************************************)
THEOREM BlockIsSound == Spec => []BlockSound
<1>1. Init => BlockSound
  BY DEF Init, BlockSound, EditSound, ActiveShown
<1>2. TypeOK /\ TypeOK' /\ BlockSound /\ [Next]_vars => BlockSound'
  <2> SUFFICES ASSUME TypeOK, BlockSound, [Next]_vars, bypassed' = FALSE
               PROVE  BlockSound'
    BY DEF TypeOK, BlockSound
  <2>1. bypassed = FALSE
    BY BypassedStep DEF TypeOK
  <2>2. ActiveShown /\ EditSound
    BY <2>1 DEF BlockSound
  <2> QED
    BY <2>2, EditStep, ActiveStep DEF BlockSound
<1> QED
  BY <1>1, <1>2, TypeCorrect, PTL DEF Spec

(***************************************************************************)
(* What a write of the whole LLN0$SP leaves of EditSound: the handler      *)
(* under way is the editor's.                                              *)
(***************************************************************************)
HandlerIsEditors == busy # None => editor = busy.conn

(***************************************************************************)
(* The editor stays while the engine loads or reads SE for it, whatever    *)
(* clients write whole.                                                    *)
(***************************************************************************)
LEMMA EditorStays == Spec => []HandlerIsEditors
<1>1. Init => HandlerIsEditors
  BY DEF Init, HandlerIsEditors
<1>2. TypeOK /\ HandlerIsEditors /\ [Next]_vars => HandlerIsEditors'
  <2> SUFFICES ASSUME TypeOK, HandlerIsEditors, [Next]_vars
               PROVE  HandlerIsEditors'
    OBVIOUS
  <2>1. ASSUME NEW c \in Conns, Request(c) PROVE HandlerIsEditors'
    BY <2>1, SettingAssumption
    DEF Request, ReadBlock, WriteActSG, WriteEditSG, EndEdit, WriteCnfEdit,
        CheckSE, HandlerIsEditors, Free, Holder, edit
  <2>2. ASSUME NEW c \in Conns, WholeRequest(c) \/ WriteSE(c) \/ Lose(c) \/ Forget(c)
        PROVE  HandlerIsEditors'
    BY <2>2 DEF WholeRequest, WriteWholeSE, WriteWholeSP, WriteSE, Lose, Forget,
                HandlerIsEditors, Free, edit
  <2>3. ASSUME NEW key \in Keys, LoadLeaf(key) \/ ConfirmLeaf(key)
        PROVE  HandlerIsEditors'
    <3>1. busy # None /\ busy'.conn = busy.conn
      BY <2>3, BusyType DEF LoadLeaf, ConfirmLeaf, Loading, Confirming, Handlers
    <3> QED
      BY <2>3, <3>1 DEF HandlerIsEditors, LoadLeaf, ConfirmLeaf, edit
  <2>4. CASE Loaded \/ Confirmed
    BY <2>4 DEF Loaded, Confirmed, HandlerIsEditors
  <2>5. CASE TimePasses \/ Application \/ UNCHANGED vars
    BY <2>5 DEF TimePasses, Application, SelectActive, SetValues, vars,
                HandlerIsEditors, edit
  <2> QED
    BY <2>1, <2>2, <2>3, <2>4, <2>5 DEF Next, Handler
<1> QED
  BY <1>1, <1>2, TypeCorrect, PTL DEF Spec

(***************************************************************************)
(* _write_confirm: only the application, or the confirmation of the        *)
(* connection that edits it, begun in time, changes a stored group.        *)
(***************************************************************************)
THEOREM ConfirmationIsEditors == Spec => ConfirmedByEditor
<1> DEFINE Stored ==
      \A group \in Groups :
         values'[group] # values[group] =>
            ByApplication(group) \/ ByConfirmation(editor, group)
           Begun == Confirming' /\ ~Confirming => busy'.conn = Holder
           Ended == Confirming /\ ~Confirming' => editor' = None
<1>1. TypeOK /\ TypeOK' /\ HandlerIsEditors /\ [Next]_vars
         => [Stored /\ Begun /\ Ended]_vars
  <2> SUFFICES ASSUME TypeOK, TypeOK', HandlerIsEditors, Next
               PROVE  Stored /\ Begun /\ Ended
    BY DEF vars
  <2>1. ASSUME NEW c \in Conns, Request(c) PROVE Stored /\ Begun /\ Ended
    <3>1. values' = values
      BY <2>1 DEF Request, ReadBlock, WriteActSG, WriteEditSG, EndEdit,
                  WriteCnfEdit, CheckSE, groups
    <3>2. CASE WriteCnfEdit(c)
      <4>1. busy = None /\ busy'.conn = c /\ Holder = c
        BY <3>2 DEF WriteCnfEdit, Free
      <4> QED
        BY <3>1, <4>1 DEF Confirming
    <3>3. CASE \E group \in Groups : WriteEditSG(c, group)
      <4>1. busy = None /\ busy'.op = "load"
        BY <3>3 DEF WriteEditSG, Free
      <4> QED
        BY <3>1, <4>1 DEF Confirming
    <3>4. CASE busy' = busy
      BY <3>1, <3>4 DEF Confirming
    <3> QED
      BY <2>1, <3>2, <3>3, <3>4
      DEF Request, ReadBlock, WriteActSG, EndEdit, CheckSE
  <2>2. ASSUME NEW c \in Conns,
               WholeRequest(c) \/ WriteSE(c) \/ Lose(c) \/ Forget(c)
        PROVE  Stored /\ Begun /\ Ended
    <3>1. values' = values /\ busy' = busy
      BY <2>2 DEF WholeRequest, WriteWholeSE, WriteWholeSP, WriteSE, Lose,
                  Forget, groups
    <3> QED
      BY <3>1 DEF Confirming
  <2>3. ASSUME NEW key \in Keys, LoadLeaf(key) PROVE Stored /\ Begun /\ Ended
    <3>1. values' = values /\ busy'.op = "load" /\ busy.op = "load"
      BY <2>3, BusyType DEF LoadLeaf, Loading, Handlers, groups
    <3> QED
      BY <3>1 DEF Confirming
  <2>4. ASSUME NEW key \in Keys, ConfirmLeaf(key) PROVE Stored /\ Begun /\ Ended
    <3>1. /\ busy \in Handlers /\ Confirming /\ busy.conn = editor
          /\ key \in busy.left
          /\ values' = [values EXCEPT ![busy.group][key] = se[key]]
      BY <2>4, BusyType DEF ConfirmLeaf, Confirming, HandlerIsEditors
    <3>2. \A group \in Groups : group # busy.group => values'[group] = values[group]
      BY <3>1 DEF TypeOK
    <3>3. Stored
      BY <3>1, <3>2 DEF ByConfirmation
    <3>4. busy' \in Handlers /\ busy'.op = "confirm"
      BY <2>4, <3>1 DEF ConfirmLeaf, Confirming, Handlers
    <3>5. Confirming'
      BY <3>1, <3>4, SettingAssumption DEF Confirming
    <3> QED
      BY <3>1, <3>3, <3>5
  <2>5. CASE Loaded \/ Confirmed
    <3>1. values' = values /\ busy' = None
      BY <2>5 DEF Loaded, Confirmed, groups
    <3>2. Confirming => editor' = None
      BY <2>5 DEF Loaded, Loading, Confirmed, Confirming, Release
    <3> QED
      BY <3>1, <3>2 DEF Confirming
  <2>6. ASSUME NEW group \in Groups, NEW write \in Write,
               SetValues(group, write)
        PROVE  Stored /\ Begun /\ Ended
    <3>1. /\ Free /\ busy' = busy
          /\ values' = [values EXCEPT ![group] = Update(@, write)]
      BY <2>6 DEF SetValues
    <3>2. \A other \in Groups : other # group => values'[other] = values[other]
      BY <3>1 DEF TypeOK
    <3> QED
      BY <3>1, <3>2 DEF ByApplication, Confirming
  <2>7. CASE TimePasses \/ \E group \in Groups : SelectActive(group)
    <3>1. values' = values /\ busy' = busy
      BY <2>7 DEF TimePasses, SelectActive, groups
    <3> QED
      BY <3>1 DEF Confirming
  <2> QED
    BY <2>1, <2>2, <2>3, <2>4, <2>5, <2>6, <2>7 DEF Next, Handler, Application
<1> QED
  BY <1>1, TypeCorrect, EditorStays, PTL DEF Spec, ConfirmedByEditor

(***************************************************************************)
(* The edit of a group is a lease of FC SE, whatever clients write.        *)
(***************************************************************************)
THEOREM EditImplementsLease == Spec => EditIsLease
<1>1. Init => L!LeaseInit
  BY DEF Init, L!LeaseInit, Holder
<1>2. TypeOK /\ [Next]_vars => [L!LeaseNext]_(L!lvars)
  <2> SUFFICES ASSUME TypeOK, [Next]_vars PROVE [L!LeaseNext]_(L!lvars)
    OBVIOUS
  <2> USE SettingAssumption
  <2>1. ASSUME NEW c \in Conns, WriteEditSG(c, editSG') PROVE L!Acquire(c) \/ UNCHANGED L!lvars
    BY <2>1 DEF WriteEditSG, Serving, TypeOK, Holder, L!Acquire, L!Free, L!lvars
  <2>2. ASSUME NEW c \in Conns, EndEdit(c)
        PROVE  L!GiveUp(c) \/ UNCHANGED L!lvars
    BY <2>2 DEF EndEdit, Release, Holder, L!GiveUp, L!lvars
  <2>3. ASSUME NEW c \in Conns,
               Request(c), ~EndEdit(c), ~WriteEditSG(c, editSG')
        PROVE  UNCHANGED L!lvars
    BY <2>3 DEF Request, ReadBlock, WriteActSG, WriteEditSG, WriteCnfEdit,
                CheckSE, Expire, Holder, edit, L!lvars
  <2>4. ASSUME NEW c \in Conns, WholeRequest(c) \/ WriteSE(c)
        PROVE  UNCHANGED L!lvars
    BY <2>4 DEF WholeRequest, WriteWholeSE, WriteWholeSP, WriteSE, Holder, edit,
                L!lvars
  <2>5. ASSUME NEW c \in Conns, Lose(c) PROVE UNCHANGED L!lvars
    BY <2>5 DEF Lose, TypeOK, Holder, edit, L!lvars
  <2>6. ASSUME NEW c \in Conns, Forget(c) PROVE L!Leave(c)
    <3>1. {d \in Conns : conn'[d] = "gone"}
             = {d \in Conns : conn[d] = "gone"} \cup {c}
      BY <2>6 DEF Forget, TypeOK
    <3>2. c \notin {d \in Conns : conn[d] = "gone"}
      BY <2>6 DEF Forget
    <3>3. Holder' = IF Holder = c THEN None ELSE Holder
      BY <2>6 DEF Forget, Release, Holder, edit
    <3> QED
      BY <3>1, <3>2, <3>3 DEF L!Leave
  <2>7. CASE TimePasses
    <3>1. editor \in Conns
      BY <2>7 DEF TimePasses, TypeOK
    <3>2. L!GiveUp(editor)
      BY <2>7 DEF TimePasses, Holder, L!GiveUp
    <3> QED
      BY <3>1, <3>2 DEF L!LeaseNext
  <2>8. CASE Application \/ UNCHANGED vars
    BY <2>8 DEF Application, SelectActive, SetValues, vars, Holder, edit,
                L!lvars
  <2>9. CASE Handler
    <3>1. ASSUME NEW key \in Keys, LoadLeaf(key) \/ ConfirmLeaf(key)
          PROVE  UNCHANGED L!lvars
      BY <3>1 DEF LoadLeaf, ConfirmLeaf, Holder, edit, L!lvars
    <3>2. CASE Loaded
      BY <3>2 DEF Loaded, Holder, edit, L!lvars
    <3>3. CASE Confirmed
      <4>1. Holder' = None /\ conn' = conn
        BY <3>3 DEF Confirmed, Release, Holder
      <4>2. CASE Holder = None
        BY <4>1, <4>2 DEF L!lvars
      <4>3. CASE Holder # None
        <5>1. Holder \in Conns
          BY <4>3 DEF Holder, TypeOK
        <5>2. L!GiveUp(Holder)
          BY <4>1 DEF L!GiveUp
        <5> QED
          BY <5>1, <5>2 DEF L!LeaseNext
      <4> QED
        BY <4>2, <4>3
    <3> QED
      BY <2>9, <3>1, <3>2, <3>3 DEF Handler
  <2> QED
    BY <2>1, <2>2, <2>3, <2>4, <2>5, <2>6, <2>7, <2>8, <2>9 DEF Next, L!LeaseNext
<1> QED
  BY <1>1, <1>2, TypeCorrect, PTL DEF Spec, EditIsLease, L!LeaseSpec

=============================================================================
