----------------------------- MODULE RcbClient -----------------------------
(***************************************************************************)
(* Clients that look at the block of Reporting, enable it and disable it   *)
(* with read_status(), enable() and disable() (mms/rcb.py): each attribute *)
(* is a write of its own, and others may write in between.                 *)
(***************************************************************************)
EXTENDS Reporting

CONSTANTS
    Wanted,     \* [Conns -> RcbSettings: the fields that are not None]
    ResvTms     \* RcbSettings.resv_tms

\* The attributes of a block that RcbSettings has a field for.
Settings == {"IntgPd", "BufTm", "TrgOps"}

ASSUME RcbClientAssumption ==
    /\ ResvTms \in Nat \ {0}
    /\ ResvTmsValues = {} \/ {0, ResvTms} \subseteq ResvTmsValues
    /\ DOMAIN Wanted = Conns
    /\ \A c \in Conns :
          /\ DOMAIN Wanted[c] \subseteq Settings
          /\ \A a \in DOMAIN Wanted[c] : Wanted[c][a] \in ConfigValues[a]

VARIABLE
    task    \* [Conns -> the call a client makes, or has made last]

Calls == {"enable", "disable"}
AttributeNames == Settings \cup {"Resv", "ResvTms", "RptEna", "GI"}
Task == [call : Calls \cup {"none"}, todo : Seq(AttributeNames),
         result : {"none", "enabled", "disabled", "failed"}]

rvars == <<vars, task>>

ClientInit ==
    /\ Init
    /\ task = [c \in Conns |-> [call |-> "none", todo |-> <<>>, result |-> "none"]]

----------------------------------------------------------------------------
(* RcbStatus                                                               *)

\* A block kept for a station that left looks free.
WrongFree == ~rcb.rptEna /\ ~resv

Free == ~rcb.rptEna /\ ~resv /\ resvTms = 0

AvailableTo(address) ==
    Free \/ (~rcb.rptEna /\ resvTms # -1 /\ ownerAddress = address)

----------------------------------------------------------------------------
(* enable() and disable()                                                  *)

Reserve == IF Buffered THEN "ResvTms" ELSE "Resv"

\* A setting that is None is not written.
IfWanted(c, attribute) ==
    IF attribute \in DOMAIN Wanted[c] THEN <<attribute>> ELSE <<>>

Configuration(c) ==
    IfWanted(c, "IntgPd") \o IfWanted(c, "BufTm") \o IfWanted(c, "TrgOps")

\* The block is reserved when it has been configured.
WrongEnableWrites(c) == Configuration(c) \o <<Reserve, "RptEna", "GI">>

EnableWrites(c) == <<Reserve>> \o Configuration(c) \o <<"RptEna", "GI">>

\* The reservation is left to lapse.
WrongDisableWrites == <<"RptEna">>

DisableWrites == <<"RptEna", Reserve>>

\* usable() finds the block; the application enables it.
Begin(c) ==
    /\ conn[c] = "open" /\ task[c].call = "none"
    /\ \/ /\ task[c].result # "enabled" /\ AvailableTo(Address[c])
          /\ task' = [task EXCEPT ![c] = [call |-> "enable", result |-> "none",
                                          todo |-> EnableWrites(c)]]
       \/ /\ task[c].result = "enabled"
          /\ task' = [task EXCEPT ![c] = [call |-> "disable", result |-> "none",
                                          todo |-> DisableWrites]]
    /\ UNCHANGED vars

\* An edition 1 block has no ResvTms, and says so.
Missing(attribute) == attribute = "ResvTms" /\ ResvTmsValues = {}

\* The server's answer to one write; what is not refused and changes nothing
\* is the last alternative.
Write(c, attribute) ==
    LET on == task[c].call = "enable"
    IN  \/ attribute = "Resv" /\ WriteResv(c, on)
        \/ attribute = "ResvTms" /\ WriteResvTms(c, IF on THEN ResvTms ELSE 0)
        \/ attribute = "RptEna" /\ on /\ Enable(c)
        \/ attribute = "RptEna" /\ ~on /\ Disable(c)
        \/ attribute = "GI" /\ WriteGI(c)
        \/ attribute \in Settings /\ WriteConfig(c, attribute, Wanted[c][attribute])

Idle(c, attribute) ==
    /\ conn[c] \in {"open", "lost"}
    /\ \/ Missing(attribute)
       \/ ~HeldByOther(c) /\ attribute = "GI"
       \/ ~HeldByOther(c) /\ attribute = "RptEna" /\ rcb.rptEna = (task[c].call = "enable")
    /\ UNCHANGED vars

Refused(c, attribute) ==
    /\ ~Missing(attribute)
    /\ HeldByOther(c) \/ (rcb.rptEna /\ attribute \notin {"RptEna", "GI"})
    /\ UNCHANGED vars

Done(c) == IF task[c].call = "enable" THEN "enabled" ELSE "disabled"

Ends(c, result) ==
    task' = [task EXCEPT ![c] = [call |-> "none", todo |-> <<>>, result |-> result]]

\* A write that a closed connection had sent is served, and not answered.
Step(c) ==
    /\ task[c].call # "none"
    /\ LET attribute == Head(task[c].todo)
           rest == Tail(task[c].todo)
       IN  \/ /\ (~Missing(attribute) /\ Write(c, attribute)) \/ Idle(c, attribute)
              /\ IF conn[c] # "open" THEN Ends(c, "failed")
                 ELSE IF rest = <<>> THEN Ends(c, Done(c))
                 ELSE task' = [task EXCEPT ![c].todo = rest]
           \/ Refused(c, attribute) /\ Ends(c, "failed")

Fails(c) ==
    /\ task[c].call # "none" /\ conn[c] # "open"
    /\ Ends(c, "failed")
    /\ UNCHANGED vars

Rest ==
    /\ \/ \E c \in Conns : Connection(c) \/ LapseTimer(c)
       \/ Timers
       \/ \E s \in Setters : Change(s)
    /\ UNCHANGED task

ClientNext == Rest \/ \E c \in Conns : Begin(c) \/ Step(c) \/ Fails(c)

ClientSpec == ClientInit /\ [][ClientNext]_rvars

----------------------------------------------------------------------------
(* Properties                                                              *)

(***************************************************************************)
(* What read_status() reads tells a client whose the block is: Free says   *)
(* neither a connection nor a station that left holds it, and the station  *)
(* a block is kept for finds that it may take it again (available_to).     *)
(***************************************************************************)
StatusIsTrue ==
    /\ Free <=> owner = None /\ reservedUntil = None
    /\ reservedUntil # None => AvailableTo(Address[reservedUntil])

(***************************************************************************)
(* When enable() has returned the block is the client's, enabled, with the *)
(* configuration it asked for, whoever else was enabling it meanwhile.     *)
(***************************************************************************)
EnabledAsAsked ==
    \A c \in Conns :
        task[c].result = "enabled" /\ conn[c] = "open" =>
            /\ rcb.rptEna /\ owner = c
            /\ \A attribute \in DOMAIN Wanted[c] :
                  rcb.config[attribute] = Wanted[c][attribute]

(***************************************************************************)
(* disable() "releases its reservation".                                   *)
(***************************************************************************)
DisableFrees == \A c \in Conns : task[c].result = "disabled" => owner # c

(***************************************************************************)
(* enable() and disable() have done what they return for.                  *)
(***************************************************************************)
DoneAsAsked == EnabledAsAsked /\ DisableFrees

=============================================================================
