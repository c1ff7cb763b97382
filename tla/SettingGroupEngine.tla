------------------------- MODULE SettingGroupEngine -------------------------
(***************************************************************************)
(* The setting groups of one logical device of the MMS server              *)
(* (server/settings.py): the active group and FC SG, the edit of a group   *)
(* in FC SE by one client, its lapse, its confirmation.                    *)
(*                                                                         *)
(* The engine's handlers hold its lock.  What they do with FC SE, load it  *)
(* with a group (EditSG) or read a group from it (CnfEdit), they do leaf   *)
(* by leaf, and the model's lock is free in between: `busy` is the handler *)
(* under way, whose lock keeps every other handler out.  A client's write  *)
(* takes two steps: the hook looks at it under the engine's lock, then the *)
(* server has the model assign it, all its leaves at once, under the       *)
(* model's lock alone (server.py _write), be the engine busy or not.  The  *)
(* leaves of SG have one writer, the engine, and are loaded in one step.   *)
(*                                                                         *)
(* Left out: LActTm, ResvTms (set and reset with EditSG), and requests     *)
(* that are refused, by the engine or by the application's handlers; when  *)
(* they notice that an edit has lapsed they do as ReadBlock.               *)
(***************************************************************************)
EXTENDS Integers, FiniteSets, TLC

CONSTANTS
    Conns,      \* client connections; each connects at most once
    None,       \* no connection, no write, no handler
    NumOfSG,    \* the number of groups
    Keys,       \* the settings of a group
    Vals,       \* their values
    Whole       \* the functional constraints that clients write whole,
                \* as LN$SE or LLN0$SP

Groups == 1 .. NumOfSG

\* A handler of the engine under way, for a connection's write of EditSG or
\* CnfEdit: `left` are the leaves of SE it has still to load or read.
Handlers == [op : {"load", "confirm"}, conn : Conns, group : Groups,
             left : SUBSET Keys]

ASSUME SettingAssumption ==
    /\ None \notin Conns
    /\ None \notin Handlers
    /\ NumOfSG \in Nat \ {0}
    /\ Whole \subseteq {"SE", "SP"}

VARIABLES
    conn,    \* [Conns -> {"open", "lost", "gone"}]
    editor,  \* block.editor
    overdue, \* block.until has passed
    actSG,   \* the attributes ActSG and EditSG
    editSG,
    values,  \* groups.values: [1 .. NumOfSG -> [Keys -> Vals]]
    sg,      \* the leaves of FC SG and FC SE
    se,
    late,    \* [Conns -> the SE write checked and not yet done, or None]
    busy,    \* the handler that loads or reads SE, with the leaves left
    bypassed \* a client has written the whole LLN0$SP

edit == <<editor, overdue, editSG>>
groups == <<actSG, values, sg>>
vars == <<conn, edit, groups, se, late, busy, bypassed>>

Settings == [Keys -> Vals]

\* A write has a value for one leaf or for several.
Write == UNION {[written -> Vals] : written \in SUBSET Keys \ {{}}}
Update(settings, write) ==
    [key \in Keys |-> IF key \in DOMAIN write THEN write[key] ELSE settings[key]]

\* _expire, with which every read of LLN0 and every write begins.
Holder == IF overdue THEN None ELSE editor
EditGroup == IF overdue THEN 0 ELSE editSG

Loading == busy # None /\ busy.op = "load"
Confirming == busy # None /\ busy.op = "confirm"

\* The engine's lock is free.
Free == busy = None

\* A request read before its connection was closed is still served, after
\* the request before it.
Serving(c) ==
    /\ conn[c] \in {"open", "lost"}
    /\ late[c] = None
    /\ busy # None => busy.conn # c

\* _expire, and nothing else done to the edit.
Expire ==
    /\ editor' = Holder
    /\ editSG' = EditGroup
    /\ overdue' = FALSE

Release ==
    /\ editor' = None
    /\ editSG' = 0
    /\ overdue' = FALSE

----------------------------------------------------------------------------
(* Requests of a client                                                    *)

ReadBlock(c) ==
    /\ Serving(c) /\ Free
    /\ overdue
    /\ Expire
    /\ UNCHANGED <<conn, groups, se, late, busy, bypassed>>

WriteActSG(c, group) ==
    /\ Serving(c) /\ Free
    /\ group # actSG
    /\ Expire
    /\ actSG' = group
    /\ sg' = values[group]
    /\ UNCHANGED <<conn, values, se, late, busy, bypassed>>

\* Who edits is not looked at.
WrongWriteEditSG(c, group) ==
    /\ Serving(c) /\ Free
    /\ editor' = c
    /\ overdue' = FALSE
    /\ editSG' = group
    /\ busy' = [op |-> "load", conn |-> c, group |-> group, left |-> Keys]
    /\ UNCHANGED <<conn, groups, se, late, bypassed>>

WriteEditSG(c, group) ==
    /\ Serving(c) /\ Free
    /\ Holder \in {None, c}
    /\ editor' = c
    /\ overdue' = FALSE
    /\ editSG' = group
    /\ busy' = [op |-> "load", conn |-> c, group |-> group, left |-> Keys]
    /\ UNCHANGED <<conn, groups, se, late, bypassed>>

LoadLeaf(key) ==
    /\ Loading
    /\ key \in busy.left
    /\ se' = [se EXCEPT ![key] = values[busy.group][key]]
    /\ busy' = [busy EXCEPT !.left = @ \ {key}]
    /\ UNCHANGED <<conn, edit, groups, late, bypassed>>

Loaded ==
    /\ Loading
    /\ busy.left = {}
    /\ busy' = None
    /\ UNCHANGED <<conn, edit, groups, se, late, bypassed>>

\* A write of 0.
EndEdit(c) ==
    /\ Serving(c) /\ Free
    /\ Holder \in {None, c}
    /\ Release
    /\ UNCHANGED <<conn, groups, se, late, busy, bypassed>>

\* That somebody edits is enough.
WrongWriteCnfEdit(c) ==
    /\ Serving(c) /\ Free
    /\ Holder # None
    /\ EditGroup # 0
    /\ busy' = [op |-> "confirm", conn |-> c, group |-> EditGroup, left |-> Keys]
    /\ UNCHANGED <<conn, edit, groups, se, late, bypassed>>

WriteCnfEdit(c) ==
    /\ Serving(c) /\ Free
    /\ Holder = c
    /\ EditGroup # 0
    /\ busy' = [op |-> "confirm", conn |-> c, group |-> EditGroup, left |-> Keys]
    /\ UNCHANGED <<conn, edit, groups, se, late, bypassed>>

ConfirmLeaf(key) ==
    /\ Confirming
    /\ key \in busy.left
    /\ values' = [values EXCEPT ![busy.group][key] = se[key]]
    /\ busy' = [busy EXCEPT !.left = @ \ {key}]
    /\ UNCHANGED <<conn, edit, actSG, sg, se, late, bypassed>>

Confirmed ==
    /\ Confirming
    /\ busy.left = {}
    /\ sg' = IF busy.group = actSG THEN values[busy.group] ELSE sg
    /\ Release
    /\ busy' = None
    /\ UNCHANGED <<conn, actSG, values, se, late, bypassed>>

\* The hook lets the write of an SE leaf pass.
CheckSE(c, write) ==
    /\ Serving(c) /\ Free
    /\ Holder = c
    /\ late' = [late EXCEPT ![c] = write]
    /\ UNCHANGED <<conn, edit, groups, se, busy, bypassed>>

\* The server goes on to the model's write.
WriteSE(c) ==
    /\ late[c] # None
    /\ se' = Update(se, late[c])
    /\ late' = [late EXCEPT ![c] = None]
    /\ UNCHANGED <<conn, edit, groups, busy, bypassed>>

\* A write of a whole LN$SE: its name has two parts, and the hook takes
\* notice of a lapse at most (ReadBlock).
WriteWholeSE(c, write) ==
    /\ "SE" \in Whole
    /\ Serving(c)
    /\ se' = Update(se, write)
    /\ UNCHANGED <<conn, edit, groups, late, busy, bypassed>>

\* A write of the whole LLN0$SP, which the hook does not take either.  (An
\* EditSG above NumOfSG would make the confirmation raise.)
WriteWholeSP(c, active, edited) ==
    /\ "SP" \in Whole
    /\ Serving(c)
    /\ actSG' = active
    /\ editSG' = edited
    /\ bypassed' = TRUE
    /\ UNCHANGED <<conn, editor, overdue, values, sg, se, late, busy>>

----------------------------------------------------------------------------
(* Time, connections, the application                                      *)

TimePasses ==
    /\ editor # None
    /\ ~overdue
    /\ overdue' = TRUE
    /\ UNCHANGED <<conn, editor, editSG, groups, se, late, busy, bypassed>>

Lose(c) ==
    /\ conn[c] = "open"
    /\ conn' = [conn EXCEPT ![c] = "lost"]
    /\ UNCHANGED <<edit, groups, se, late, busy, bypassed>>

\* The server's _forget, and with it the engine's _on_close.
Forget(c) ==
    /\ conn[c] = "lost"
    /\ late[c] = None
    /\ Free
    /\ conn' = [conn EXCEPT ![c] = "gone"]
    /\ IF editor = c THEN Release ELSE UNCHANGED edit
    /\ UNCHANGED <<groups, se, late, busy, bypassed>>

SelectActive(group) ==
    /\ Free
    /\ group # actSG
    /\ actSG' = group
    /\ sg' = values[group]
    /\ UNCHANGED <<conn, edit, values, se, late, busy, bypassed>>

\* SG follows for every group.
WrongSetValues(group, write) ==
    /\ Free
    /\ values' = [values EXCEPT ![group] = Update(@, write)]
    /\ sg' = values'[group]
    /\ UNCHANGED <<conn, edit, actSG, se, late, busy, bypassed>>

SetValues(group, write) ==
    /\ Free
    /\ values' = [values EXCEPT ![group] = Update(@, write)]
    /\ sg' = IF group = actSG THEN values'[group] ELSE sg
    /\ UNCHANGED <<conn, edit, actSG, se, late, busy, bypassed>>

----------------------------------------------------------------------------

\* The model starts with the active group's values in SG and SE.
Init ==
    /\ conn = [c \in Conns |-> "open"]
    /\ editor = None
    /\ overdue = FALSE
    /\ actSG \in Groups
    /\ editSG = 0
    /\ values \in [Groups -> Settings]
    /\ sg = values[actSG]
    /\ se = values[actSG]
    /\ late = [c \in Conns |-> None]
    /\ busy = None
    /\ bypassed = FALSE

Request(c) ==
    \/ ReadBlock(c)
    \/ \E group \in Groups : WriteActSG(c, group) \/ WriteEditSG(c, group)
    \/ EndEdit(c)
    \/ WriteCnfEdit(c)
    \/ \E write \in Write : CheckSE(c, write)

Handler ==
    \/ \E key \in Keys : LoadLeaf(key) \/ ConfirmLeaf(key)
    \/ Loaded
    \/ Confirmed

WholeRequest(c) ==
    \/ \E write \in Write : WriteWholeSE(c, write)
    \/ \E active, edited \in 0 .. NumOfSG : WriteWholeSP(c, active, edited)

Application ==
    \E group \in Groups :
        \/ SelectActive(group)
        \/ \E write \in Write : SetValues(group, write)

Next ==
    \/ \E c \in Conns : Request(c) \/ WholeRequest(c) \/ WriteSE(c)
                        \/ Lose(c) \/ Forget(c)
    \/ Handler
    \/ TimePasses
    \/ Application

Spec == Init /\ [][Next]_vars

\* Clients, settings and values have no order.
Symmetry == Permutations(Conns) \cup Permutations(Keys) \cup Permutations(Vals)

----------------------------------------------------------------------------
(* Properties                                                              *)

TypeOK ==
    /\ conn \in [Conns -> {"open", "lost", "gone"}]
    /\ editor \in Conns \cup {None}
    /\ overdue \in BOOLEAN
    /\ actSG \in 0 .. NumOfSG
    /\ editSG \in 0 .. NumOfSG
    /\ values \in [Groups -> Settings]
    /\ sg \in Settings
    /\ se \in Settings
    /\ late \in [Conns -> Write \cup {None}]
    /\ busy \in Handlers \cup {None}
    /\ bypassed \in BOOLEAN

(***************************************************************************)
(* _activate, _write_confirm, set_values: FC SG holds the values of the    *)
(* group that ActSG names, whoever selects, edits, confirms or changes     *)
(* groups; it falls behind only while that group is being confirmed.       *)
(***************************************************************************)
ActiveShown ==
    /\ actSG \in Groups
    /\ sg = values[actSG] \/ (Confirming /\ busy.group = actSG)

(***************************************************************************)
(* _write_edit, _release, _expire, _on_close: EditSG names a group exactly *)
(* while someone edits, a connection that has not been forgotten, and the  *)
(* group stays while SE is loaded or read; a write that was checked can    *)
(* still be under way when the edit has ended.                             *)
(***************************************************************************)
EditSound ==
    /\ editSG # 0 <=> editor # None
    /\ overdue => editor # None
    /\ editor # None => conn[editor] # "gone"
    /\ busy # None => editSG = busy.group
    /\ \A c \in Conns : late[c] # None => conn[c] # "gone"

(***************************************************************************)
(* What FC SP says of a block, as long as no client writes LLN0$SP whole,  *)
(* which sets ActSG and EditSG and loads nothing.                          *)
(***************************************************************************)
BlockSound == bypassed \/ (ActiveShown /\ EditSound)

(***************************************************************************)
(* The edit is a lease of FC SE (see Lease): one client at a time, until   *)
(* it gives up, confirms, lapses or leaves.                                *)
(***************************************************************************)
L == INSTANCE Lease WITH
        Address <- [c \in Conns |-> c],
        holder <- Holder, using <- FALSE, kept <- None, live <- FALSE,
        left <- {c \in Conns : conn[c] = "gone"}

EditIsLease == L!LeaseSpec

\* What set_values does to a group.
ByApplication(group) ==
    Free /\ \E write \in Write : values' = [values EXCEPT ![group] = Update(@, write)]

\* What the confirmation by connection c does to a group: one of its values
\* becomes what SE shows now.
ByConfirmation(c, group) ==
    /\ Confirming
    /\ busy.conn = c
    /\ busy.group = group
    /\ \E key \in busy.left : values' = [values EXCEPT ![group][key] = se[key]]

(***************************************************************************)
(* _write_confirm: a group's stored values change only by the application, *)
(* or by the confirmation of the very connection that edits it and goes on *)
(* editing it until all are stored, and then to what SE shows; and that    *)
(* confirmation began in time, with an edit that had not lapsed, ended or  *)
(* been taken over.                                                        *)
(***************************************************************************)
ConfirmedByEditor ==
    [][/\ \A group \in Groups :
            values'[group] # values[group] =>
               ByApplication(group) \/ ByConfirmation(editor, group)
       /\ Confirming' /\ ~Confirming => busy'.conn = Holder
       /\ Confirming /\ ~Confirming' => editor' = None]_vars

=============================================================================
