----------------------------- MODULE Reporting -----------------------------
(***************************************************************************)
(* One report control block of the MMS server (server/reporting.py): its   *)
(* reservation by client connections, the entries value changes make, the  *)
(* gathering time BufTm, general interrogation and integrity, the bounded  *)
(* buffer of a BRCB and its replay to an enabling client.                  *)
(*                                                                         *)
(* Every handler runs under the engine's lock, so each is one action.  The *)
(* steps that are not under one lock are actions of their own: a setter    *)
(* assigns a value under the model's lock and calls the listeners later    *)
(* (model.py set, batch); a connection is closed in one step and forgotten *)
(* in a later one (server.py serve); a deadline passes before the timer    *)
(* thread acts on it.                                                      *)
(*                                                                         *)
(* Left out: the other blocks of the engine (they share no state with this *)
(* one), the reason codes, the time stamps, and of OptFlds all but what    *)
(* makes a report carry SqNum, BufOvfl, EntryID and the inclusion bits.    *)
(***************************************************************************)
EXTENDS Integers, Sequences, FiniteSets

CONSTANTS
    Conns,          \* client connections; each connects at most once
    Address,        \* [Conns -> addresses]: the peer's IP address
    None,           \* no connection, no address, no value
    Setters,        \* application threads that change values
    Leaves,         \* the attributes of the model that can change
    DataSets,       \* [names -> sequences of leaves]
    ConfigValues,   \* the values DatSet, BufTm, TrgOps and IntgPd may have
    Buffered,       \* TRUE: a BRCB; FALSE: a URCB
    ResvTmsValues,  \* what clients write to ResvTms; {}: no such attribute
    MaxEntries,     \* max_entries (BUFFER_ENTRIES)
    MaxBytes,       \* max_bytes (report_buffer_bytes), in values
    SqMod,          \* SqNum wraps here: 256 or 65536
    MaxChanges,     \* bound: value changes in a behaviour
    MaxAsked,       \* bound: GI and integrity stop at this EntryID
    MaxTimers       \* bound: integrity timers that have not fired

ASSUME ConnAssumption ==
    /\ None \notin Conns
    /\ DOMAIN Address = Conns
    /\ \A c \in Conns : Address[c] # None

ASSUME NoneAssumption == None \notin [leaf : Leaves, change : Nat]

ASSUME ReportingAssumption ==
    /\ IsFiniteSet(DOMAIN DataSets)
    /\ \A d \in DOMAIN DataSets : DataSets[d] \in Seq(Leaves)
    /\ Buffered \in BOOLEAN
    /\ ResvTmsValues \subseteq Int
    /\ Buffered \/ ResvTmsValues = {}
    /\ MaxEntries \in Nat \ {0}
    /\ MaxBytes \in Nat
    /\ SqMod \in Nat \ {0}
    /\ MaxTimers \in Nat \ {0}
    /\ ConfigValues \in [DatSet : SUBSET DOMAIN DataSets, BufTm : SUBSET Nat,
                         TrgOps : SUBSET SUBSET {"dchg", "gi", "integrity"},
                         IntgPd : SUBSET Nat]

VARIABLES
    conn,           \* [Conns -> {"new", "open", "lost", "gone"}]
    owner,          \* rcb.owner
    ownerAddress,   \* rcb.owner_address (the attribute Owner shows it)
    reservedUntil,  \* rcb.reserved_until, named by the connection that left
    lapse,          \* [Conns -> ...]: the _lapse timer its leaving armed
    resv,           \* the attribute Resv of a URCB
    resvTms,        \* the attribute ResvTms of a BRCB
    rcb,            \* the block's reporting state, a record (see Rcb)
    val,            \* [Leaves -> Nat]: how often each leaf has changed
    setting         \* [Setters -> [Leaves -> Nat]]: the changes assigned whose
                    \* listeners have not been called, 0 where there is none

reservation == <<owner, ownerAddress, reservedUntil, lapse, resv, resvTms>>
vars == <<conn, reservation, rcb, val, setting>>

----------------------------------------------------------------------------
(* Data                                                                    *)

\* A value is the leaf it was read from and the change that made it.
Value == [leaf : Leaves, change : Nat]

\* The values of an entry by their places in the data set; None where the
\* entry does not include the member.
Places == UNION {DOMAIN DataSets[d] : d \in DOMAIN DataSets}
Values == [Places -> Value \cup {None}]
NoValues == [p \in Places |-> None]
Includes(values) == {p \in Places : values[p] # None}

Entry == [id : Nat, values : Values]

\* What _send hands to the server: included is the inclusion bit string.
Report == [id : Nat, values : Values, included : SUBSET Places, sq : Nat,
           bufOvfl : BOOLEAN]

Config == [DatSet : ConfigValues.DatSet, BufTm : ConfigValues.BufTm,
           TrgOps : ConfigValues.TrgOps, IntgPd : ConfigValues.IntgPd]

(* pending is NoValues when the code has None: what it gathers is never    *)
(* empty.  gathering names the _Gathered object that pending is (by the    *)
(* EntryID that was next when it was made, 0 for None), and bufTimers the  *)
(* objects whose BufTm timers have not fired.  integrityDue names the due  *)
(* time in integrity_due (0 for None), and integrityTimers the due times   *)
(* of the integrity timers that have not fired.  A timer is never taken    *)
(* back: when it fires it finds out whether it still counts.  out holds    *)
(* the reports handed to the server since the block was last enabled, and  *)
(* dropped the highest EntryID the bounds have dropped since a purge: both *)
(* only record what happened.                                              *)
Rcb == [config : Config, rptEna : BOOLEAN, everEnabled : BOOLEAN,
        entryID : Nat, sqNum : 0 .. SqMod - 1, pending : Values, buffer : Seq(Entry),
        bytes : Int, overflowed : BOOLEAN, sent : Nat, nextEntry : Nat,
        gathering : Nat, bufTimers : SUBSET Nat,
        integrityDue : 0 .. MaxTimers, integrityTimers : SUBSET (1 .. MaxTimers),
        out : Seq(Report), dropped : Nat]

\* rcb.members(): the data set's members, in its order.
Members(r) == DataSets[r.config.DatSet]

\* _Entry.size, counted in values.
Size(e) == Cardinality(Includes(e.values))

\* The sum of the sizes of the entries of s.
SizeOf(s) ==
    Cardinality({kp \in (DOMAIN s) \X Places : s[kp[1]].values[kp[2]] # None})

----------------------------------------------------------------------------
(* Entries                                                                 *)

(* The operators named Wrong... are plausible mistakes; no specification   *)
(* uses them, the checks substitute them to see the properties fail.       *)

\* The bound tested before the entry is counted.
WrongDropCount(s, bytes) ==
    CHOOSE n \in 0 .. Len(s) - 1 :
        LET fits(k) == /\ Len(s) - k <= MaxEntries + 1
                       /\ bytes - SizeOf(SubSeq(s, 1, k)) <= MaxBytes
        IN  /\ n = Len(s) - 1 \/ fits(n)
            /\ \A k \in 0 .. n - 1 : ~fits(k)

\* How many of the oldest entries the loop of keep() drops: as few as bring
\* the buffer within its bounds, never the newest.
DropCount(s, bytes) ==
    CHOOSE n \in 0 .. Len(s) - 1 :
        LET fits(k) == /\ Len(s) - k <= MaxEntries
                       /\ bytes - SizeOf(SubSeq(s, 1, k)) <= MaxBytes
        IN  /\ n = Len(s) - 1 \/ fits(n)
            /\ \A k \in 0 .. n - 1 : ~fits(k)

\* An entry that has been sent counts as lost.
WrongKeep(r, e) ==
    LET s == Append(r.buffer, e)
        n == DropCount(s, r.bytes + Size(e))
    IN  [r EXCEPT
            !.buffer = SubSeq(s, n + 1, Len(s)),
            !.bytes = r.bytes + Size(e) - SizeOf(SubSeq(s, 1, n)),
            !.overflowed = @ \/ \E k \in 1 .. n : s[k].id >= r.sent,
            !.dropped = IF n > 0 THEN s[n].id ELSE @]

Keep(r, e) ==
    LET s == Append(r.buffer, e)
        n == DropCount(s, r.bytes + Size(e))
    IN  [r EXCEPT
            !.buffer = SubSeq(s, n + 1, Len(s)),
            !.bytes = r.bytes + Size(e) - SizeOf(SubSeq(s, 1, n)),
            !.overflowed = @ \/ \E k \in 1 .. n : s[k].id > r.sent,
            !.dropped = IF n > 0 THEN s[n].id ELSE @]

\* buffer_bytes not reset.
WrongPurge(r) ==
    [r EXCEPT !.buffer = <<>>, !.overflowed = FALSE, !.dropped = 0]

Purge(r) ==
    [r EXCEPT !.buffer = <<>>, !.bytes = 0, !.overflowed = FALSE,
              !.dropped = 0]

Included(r, e) == Includes(e.values) \cap DOMAIN Members(r)

ReportOf(r, e) ==
    [id |-> e.id, values |-> e.values, included |-> Included(r, e),
     sq |-> r.sqNum, bufOvfl |-> Buffered /\ r.overflowed]

MaxOf(a, b) == IF a >= b THEN a ELSE b

Send(r, e) ==
    [r EXCEPT !.out = Append(@, ReportOf(r, e)),
              !.sqNum = (@ + 1) % SqMod,
              !.overflowed = FALSE,
              !.sent = MaxOf(@, e.id)]

\* A buffered entry waits for the next enabling.
WrongDeliver(r, e) ==
    LET kept == IF Buffered THEN [Keep(r, e) EXCEPT !.entryID = e.id] ELSE r
    IN  IF r.rptEna /\ ~Buffered THEN Send(kept, e) ELSE kept

Deliver(r, e) ==
    LET kept == IF Buffered THEN [Keep(r, e) EXCEPT !.entryID = e.id] ELSE r
    IN  IF r.rptEna THEN Send(kept, e) ELSE kept

\* _new_entry, then _deliver: an entry takes the next EntryID.
NewEntry(r, values) ==
    Deliver([r EXCEPT !.nextEntry = @ + 1],
            [id |-> r.nextEntry, values |-> values])

\* _flush: what BufTm gathered becomes an entry.
Flush(r) ==
    IF r.pending = NoValues THEN r
    ELSE NewEntry([r EXCEPT !.pending = NoValues, !.gathering = 0], r.pending)

Current(r, places) ==
    [p \in Places |->
        IF p \notin places THEN None
        ELSE [leaf |-> Members(r)[p], change |-> val[Members(r)[p]]]]

ReportAll(r) == NewEntry(r, Current(r, DOMAIN Members(r)))

Merge(f, g) == [p \in Places |-> IF g[p] # None THEN g[p] ELSE f[p]]

\* A new _Gathered and its timer.
NewGathered(r) ==
    [r EXCEPT !.gathering = r.nextEntry, !.bufTimers = @ \cup {r.nextEntry}]

\* The timer of the entry that went first has to do for the next one.
WrongGather(r, values) ==
    LET before == IF r.pending = NoValues THEN NewGathered(r)
                  ELSE IF Includes(r.pending) \cap Includes(values) # {}
                       THEN [Flush(r) EXCEPT !.gathering = r.nextEntry + 1]
                       ELSE r
    IN  [before EXCEPT !.pending = Merge(@, values)]

\* _add: while the block is enabled, BufTm gathers; a place gathered before
\* makes the gathered entry go first.
Gather(r, values) ==
    LET before == IF Includes(r.pending) \cap Includes(values) # {}
                  THEN Flush(r) ELSE r
        begun == IF before.pending = NoValues THEN NewGathered(before) ELSE before
    IN  [begun EXCEPT !.pending = Merge(@, values)]

Add(r, values) ==
    IF r.config.BufTm > 0 /\ r.rptEna THEN Gather(r, values)
    ELSE NewEntry(r, values)

\* The buffered entries up to EntryID, which an enabling client has; the
\* EntryIDs of the buffer increase.
SkipCount(r) ==
    CHOOSE n \in 0 .. Len(r.buffer) :
        \A k \in DOMAIN r.buffer : k <= n <=> r.buffer[k].id <= r.entryID

\* _send for each buffered entry after EntryID, in order.
Replay(r) ==
    LET n == SkipCount(r)
        report(k) == [ReportOf(r, r.buffer[n + k]) EXCEPT
                        !.sq = (r.sqNum + k - 1) % SqMod,
                        !.bufOvfl = @ /\ k = 1]
        count == Len(r.buffer) - n
    IN  IF count = 0 THEN r
        ELSE [r EXCEPT !.out = [k \in 1 .. count |-> report(k)],
                       !.sqNum = (@ + count) % SqMod,
                       !.overflowed = FALSE,
                       !.sent = MaxOf(@, r.buffer[Len(r.buffer)].id)]

\* A due time that no timer has.
NewDue(r) == CHOOSE due \in 1 .. MaxTimers : due \notin r.integrityTimers

ScheduleIntegrity(r) ==
    IF r.config.IntgPd > 0 /\ "integrity" \in r.config.TrgOps
    THEN [r EXCEPT !.integrityDue = NewDue(r),
                   !.integrityTimers = @ \cup {NewDue(r)}]
    ELSE r

\* _enabled, after RptEna has been assigned.
Enabled(r) ==
    LET on == [r EXCEPT !.rptEna = TRUE, !.everEnabled = TRUE, !.out = <<>>]
    IN  ScheduleIntegrity(IF Buffered THEN Replay(on) ELSE on)

----------------------------------------------------------------------------
(* Reservation                                                             *)

\* A block kept for a station that left is anybody's.
WrongHeldByOther(c) == owner # None /\ owner # c

HeldByOther(c) ==
    IF owner # None THEN owner # c
    ELSE /\ reservedUntil # None
         /\ lapse[reservedUntil] = "armed"
         /\ Address[c] # ownerAddress

Take(c) ==
    /\ owner' = c
    /\ ownerAddress' = Address[c]
    /\ reservedUntil' = None
    /\ resv' = ~Buffered

Release ==
    /\ owner' = None
    /\ ownerAddress' = None
    /\ reservedUntil' = None
    /\ resv' = FALSE

\* release(keep_seconds) of the connection c that leaves.
KeepFor(c) ==
    /\ owner' = None
    /\ reservedUntil' = c
    /\ lapse' = [lapse EXCEPT ![c] = "armed"]
    /\ UNCHANGED <<ownerAddress, resv>>

----------------------------------------------------------------------------
(* Writes of a client.  A request read before its connection was closed is *)
(* still served, so a lost connection writes too; a refused write changes  *)
(* nothing.                                                                *)

MayWrite(c) == conn[c] \in {"open", "lost"} /\ ~HeldByOther(c)

WriteResv(c, wanted) ==
    /\ MayWrite(c)
    /\ ~Buffered
    /\ ~rcb.rptEna
    /\ IF wanted THEN Take(c) ELSE Release
    /\ UNCHANGED <<conn, lapse, resvTms, rcb, val, setting>>

WriteResvTms(c, seconds) ==
    /\ MayWrite(c)
    /\ ~rcb.rptEna
    /\ resvTms' = seconds
    /\ IF seconds # 0 THEN Take(c)
       ELSE IF owner = c THEN Release
       ELSE UNCHANGED <<owner, ownerAddress, reservedUntil, resv>>
    /\ UNCHANGED <<conn, lapse, rcb, val, setting>>

WritePurgeBuf(c) ==
    /\ MayWrite(c)
    /\ Buffered
    /\ ~rcb.rptEna
    /\ rcb' = Purge(rcb)
    /\ UNCHANGED <<conn, reservation, val, setting>>

WriteEntryID(c, id) ==
    /\ MayWrite(c)
    /\ Buffered
    /\ ~rcb.rptEna
    /\ rcb' = [rcb EXCEPT !.entryID = id]
    /\ UNCHANGED <<conn, reservation, val, setting>>

WriteConfig(c, attribute, value) ==
    /\ MayWrite(c)
    /\ ~rcb.rptEna
    /\ rcb' = [rcb EXCEPT !.config[attribute] = value]
    /\ UNCHANGED <<conn, reservation, val, setting>>

WriteGI(c) ==
    /\ MayWrite(c)
    /\ rcb.rptEna
    /\ "gi" \in rcb.config.TrgOps
    /\ rcb.nextEntry < MaxAsked
    /\ rcb' = ReportAll(Flush(rcb))
    /\ UNCHANGED <<conn, reservation, val, setting>>

Enable(c) ==
    /\ MayWrite(c)
    /\ ~rcb.rptEna
    /\ rcb.integrityTimers # 1 .. MaxTimers
    /\ Take(c)
    /\ rcb' = Enabled(rcb)
    /\ UNCHANGED <<conn, lapse, resvTms, val, setting>>

Disable(c) ==
    /\ MayWrite(c)
    /\ rcb.rptEna
    /\ rcb' = [Flush([rcb EXCEPT !.rptEna = FALSE]) EXCEPT !.integrityDue = 0]
    /\ UNCHANGED <<conn, reservation, val, setting>>

WriteOther(c) ==
    \/ \E wanted \in BOOLEAN : WriteResv(c, wanted)
    \/ \E seconds \in ResvTmsValues : WriteResvTms(c, seconds)
    \/ WritePurgeBuf(c)
    \/ \E attribute \in DOMAIN ConfigValues :
          \E value \in ConfigValues[attribute] :
             WriteConfig(c, attribute, value)
    \/ WriteGI(c)
    \/ Enable(c)
    \/ Disable(c)

\* A client writes an EntryID it has seen, or 0.
WriteResume(c) == \E id \in 0 .. rcb.nextEntry - 1 : WriteEntryID(c, id)

----------------------------------------------------------------------------
(* Connections and timers                                                  *)

Accept(c) ==
    /\ conn[c] = "new"
    /\ conn' = [conn EXCEPT ![c] = "open"]
    /\ UNCHANGED <<reservation, rcb, val, setting>>

\* close(): the peer left, or was dropped; nothing is sent to it any more.
Lose(c) ==
    /\ conn[c] = "open"
    /\ conn' = [conn EXCEPT ![c] = "lost"]
    /\ UNCHANGED <<reservation, rcb, val, setting>>

\* _forget, and with it the engine's _on_close.
Forget(c) ==
    /\ conn[c] = "lost"
    /\ conn' = [conn EXCEPT ![c] = "gone"]
    /\ IF owner # c THEN UNCHANGED <<reservation, rcb>>
       ELSE /\ rcb' = [rcb EXCEPT !.rptEna = FALSE, !.integrityDue = 0]
            /\ IF Buffered /\ resvTms > 0 THEN KeepFor(c)
               ELSE Release /\ UNCHANGED lapse
            /\ UNCHANGED resvTms
    /\ UNCHANGED <<val, setting>>

DeadlinePasses(c) ==
    /\ lapse[c] = "armed"
    /\ lapse' = [lapse EXCEPT ![c] = "due"]
    /\ UNCHANGED <<conn, owner, ownerAddress, reservedUntil, resv, resvTms,
                   rcb, val, setting>>

\* The deadline passed, and nothing is freed.
WrongLapse(c) ==
    /\ lapse[c] = "due"
    /\ lapse' = [lapse EXCEPT ![c] = "none"]
    /\ UNCHANGED <<owner, ownerAddress, reservedUntil, resv, resvTms>>
    /\ UNCHANGED <<conn, rcb, val, setting>>

Lapse(c) ==
    /\ lapse[c] = "due"
    /\ lapse' = [lapse EXCEPT ![c] = "none"]
    /\ IF owner = None /\ reservedUntil = c THEN Release /\ resvTms' = 0
       ELSE UNCHANGED <<owner, ownerAddress, reservedUntil, resv, resvTms>>
    /\ UNCHANGED <<conn, rcb, val, setting>>

\* The timer of one _Gathered; it counts if that is still what is gathered.
BufTmExpires ==
    \E gathered \in rcb.bufTimers :
        /\ LET fired == [rcb EXCEPT !.bufTimers = @ \ {gathered}]
           IN  rcb' = IF rcb.gathering = gathered THEN Flush(fired) ELSE fired
        /\ UNCHANGED <<conn, reservation, val, setting>>

\* A timer of an earlier enabling counts.
WrongIntegrityFires(due) ==
    /\ due \in rcb.integrityTimers
    /\ rcb.nextEntry < MaxAsked
    /\ LET fired == [rcb EXCEPT !.integrityTimers = @ \ {due}]
       IN  rcb' = ScheduleIntegrity(ReportAll(Flush(fired)))
    /\ UNCHANGED <<conn, reservation, val, setting>>

\* fire() of _schedule_integrity, which schedules itself again.
IntegrityFires(due) ==
    /\ due \in rcb.integrityTimers
    /\ LET fired == [rcb EXCEPT !.integrityTimers = @ \ {due}]
       IN  IF rcb.rptEna /\ rcb.integrityDue = due
           THEN /\ rcb.nextEntry < MaxAsked
                /\ rcb' = ScheduleIntegrity(ReportAll(Flush(fired)))
           ELSE rcb' = fired
    /\ UNCHANGED <<conn, reservation, val, setting>>

----------------------------------------------------------------------------
(* Changes.  set() assigns under the model's lock and tells the listeners  *)
(* after it; a batch assigns several leaves and tells of them together.    *)

NoChange == [l \in Leaves |-> 0]

Changes == Cardinality(UNION {{l} \X (1 .. val[l]) : l \in Leaves})

Assign(s, leaf) ==
    /\ Changes < MaxChanges
    /\ val' = [val EXCEPT ![leaf] = @ + 1]
    /\ setting' = [setting EXCEPT ![s][leaf] = val'[leaf]]
    /\ UNCHANGED <<conn, reservation, rcb>>

Reports(r) ==
    /\ r.rptEna \/ (Buffered /\ r.everEnabled)
    /\ "dchg" \in r.config.TrgOps

\* The values the setter assigned, not those read under the locks.
WrongNotify(s) ==
    /\ setting[s] # NoChange
    /\ setting' = [setting EXCEPT ![s] = NoChange]
    /\ LET places == {p \in DOMAIN Members(rcb) :
                         setting[s][Members(rcb)[p]] > 0}
           assigned == [p \in Places |->
                          IF p \notin places THEN None
                          ELSE [leaf |-> Members(rcb)[p],
                                change |-> setting[s][Members(rcb)[p]]]]
       IN  rcb' = IF Reports(rcb) /\ places # {}
                  THEN Add(rcb, assigned) ELSE rcb
    /\ UNCHANGED <<conn, reservation, val>>

\* _on_change: the places of the data set that cover the leaves changed,
\* with the values read now.
Notify(s) ==
    /\ setting[s] # NoChange
    /\ setting' = [setting EXCEPT ![s] = NoChange]
    /\ LET places == {p \in DOMAIN Members(rcb) :
                         setting[s][Members(rcb)[p]] > 0}
       IN  rcb' = IF Reports(rcb) /\ places # {}
                  THEN Add(rcb, Current(rcb, places)) ELSE rcb
    /\ UNCHANGED <<conn, reservation, val>>

----------------------------------------------------------------------------

Init ==
    /\ conn = [c \in Conns |-> "new"]
    /\ owner = None
    /\ ownerAddress = None
    /\ reservedUntil = None
    /\ lapse = [c \in Conns |-> "none"]
    /\ resv = FALSE
    /\ resvTms = 0
    /\ \E config \in Config :
          rcb = [config |-> config, rptEna |-> FALSE, everEnabled |-> FALSE,
                 entryID |-> 0, sqNum |-> 0, pending |-> NoValues,
                 buffer |-> <<>>, bytes |-> 0, overflowed |-> FALSE,
                 sent |-> 0, nextEntry |-> 1, gathering |-> 0,
                 bufTimers |-> {}, integrityDue |-> 0, integrityTimers |-> {},
                 out |-> <<>>, dropped |-> 0]
    /\ val = NoChange
    /\ setting = [s \in Setters |-> NoChange]

Timers == BufTmExpires \/ \E due \in 1 .. MaxTimers : IntegrityFires(due)
Connection(c) == Accept(c) \/ Lose(c) \/ Forget(c)
LapseTimer(c) == DeadlinePasses(c) \/ Lapse(c)
Change(s) == (\E leaf \in Leaves : Assign(s, leaf)) \/ Notify(s)

Others ==
    \/ \E c \in Conns : WriteOther(c) \/ Connection(c) \/ LapseTimer(c)
    \/ Timers
    \/ \E s \in Setters : Change(s)

Next == Others \/ \E c \in Conns : WriteResume(c)

Spec == Init /\ [][Next]_vars

(***************************************************************************)
(* The timer thread runs until the server stops and time passes; a lost    *)
(* connection's serve() always ends in _forget; set() always goes on to    *)
(* call its listeners.                                                     *)
(***************************************************************************)
Fairness ==
    /\ \A c \in Conns : WF_vars(Forget(c)) /\ WF_vars(LapseTimer(c))
    /\ \A s \in Setters : WF_vars(Notify(s))
    /\ WF_vars(BufTmExpires)

FairSpec == Spec /\ Fairness

----------------------------------------------------------------------------
(* Properties                                                              *)

TypeOK ==
    /\ conn \in [Conns -> {"new", "open", "lost", "gone"}]
    /\ owner \in Conns \cup {None}
    /\ ownerAddress \in {Address[c] : c \in Conns} \cup {None}
    /\ reservedUntil \in Conns \cup {None}
    /\ lapse \in [Conns -> {"none", "armed", "due"}]
    /\ resv \in BOOLEAN
    /\ resvTms \in ResvTmsValues \cup {0}
    /\ rcb \in Rcb
    /\ val \in [Leaves -> Nat]
    /\ setting \in [Setters -> [Leaves -> Nat]]

(***************************************************************************)
(* The reservation never dangles.  An enabled block has an owner, and the  *)
(* owner is a connection the server has not forgotten, so that its         *)
(* _on_close will still disable and free the block; a block kept for a     *)
(* client that left has a _lapse timer to free it; Resv of a URCB tells    *)
(* whether it is taken; an integrity report is due only while the block is *)
(* enabled, and has a timer, whatever timers of earlier enablings are left.*)
(***************************************************************************)
ReservationSound ==
    /\ rcb.rptEna => owner # None
    /\ rcb.integrityDue # 0 => /\ rcb.rptEna
                               /\ rcb.integrityDue \in rcb.integrityTimers
    /\ owner # None => /\ conn[owner] \in {"open", "lost"}
                       /\ ownerAddress = Address[owner]
                       /\ reservedUntil = None
    /\ reservedUntil # None => /\ Buffered
                               /\ conn[reservedUntil] = "gone"
                               /\ lapse[reservedUntil] # "none"
                               /\ ownerAddress = Address[reservedUntil]
    /\ resv <=> (~Buffered /\ owner # None)

(***************************************************************************)
(* keep() and _new_entry: the buffer is within its bounds and holds        *)
(* consecutive entries that end with the last one made (or nothing, after  *)
(* a purge), so that dropping the oldest and replaying from an EntryID     *)
(* lose nothing in between.                                                *)
(***************************************************************************)
BufferContiguous ==
    /\ Len(rcb.buffer) <= MaxEntries
    /\ \A k \in DOMAIN rcb.buffer :
          rcb.buffer[k].id = rcb.nextEntry - Len(rcb.buffer) + k - 1

(***************************************************************************)
(* _enabled, _deliver, _send: the reports of one enabling carry            *)
(* consecutive EntryIDs that end with the last entry made, the replayed    *)
(* ones, the gathered ones, GI and integrity together: none is skipped,    *)
(* repeated or out of order.  A BRCB has sent all it buffers after the     *)
(* first of them.                                                          *)
(***************************************************************************)
SessionContiguous ==
    rcb.rptEna =>
        \A k \in DOMAIN rcb.out :
            rcb.out[k].id = rcb.nextEntry - Len(rcb.out) + k - 1

(***************************************************************************)
(* keep(), _send, purge(): overflowed, the next report's BufOvfl, is set   *)
(* exactly when the bounds have dropped an entry later than the last one   *)
(* sent.                                                                   *)
(***************************************************************************)
OverflowExact == rcb.overflowed <=> rcb.dropped > rcb.sent

(***************************************************************************)
(* buffer_bytes, kept by additions and subtractions in keep() and purge(), *)
(* stays the size of what is buffered, and within its bound unless the     *)
(* newest entry alone exceeds it.                                          *)
(***************************************************************************)
BytesExact ==
    /\ rcb.bytes = SizeOf(rcb.buffer)
    /\ rcb.bytes <= MaxBytes \/ Len(rcb.buffer) = 1

ChangesOf(leaf, values) ==
    {values[p].change : p \in {q \in Includes(values) : values[q].leaf = leaf}}

LastReported(leaf) ==
    LET with == {k \in DOMAIN rcb.out :
                    ChangesOf(leaf, rcb.out[k].values) # {}}
    IN  IF with = {} THEN {}
        ELSE ChangesOf(leaf, rcb.out[CHOOSE k \in with :
                                       \A j \in with : j <= k].values)

(***************************************************************************)
(* _on_change reads under both locks, so whatever the order in which the   *)
(* setters' notifications arrive, once they have all been made the last    *)
(* value an enabled block has reported (or gathered) of a leaf is its      *)
(* current one: a client is never left with an old value as the latest.    *)
(***************************************************************************)
UpToDate ==
    \A leaf \in Leaves :
        (/\ rcb.rptEna
         /\ "dchg" \in rcb.config.TrgOps
         /\ \A s \in Setters : setting[s][leaf] = 0
         /\ LastReported(leaf) # {})
        => val[leaf] \in LastReported(leaf) \cup ChangesOf(leaf, rcb.pending)

(***************************************************************************)
(* The reservation of the block implements Lease.                          *)
(***************************************************************************)
L == INSTANCE Lease WITH
        holder <- owner, using <- rcb.rptEna, kept <- reservedUntil,
        live <- reservedUntil # None /\ lapse[reservedUntil] = "armed",
        left <- {c \in Conns : conn[c] = "gone"}

ReservationIsLease == L!LeaseSpec

(***************************************************************************)
(* _on_close and _lapse: a connection that is lost neither owns the block  *)
(* nor keeps it reserved for ever.                                         *)
(***************************************************************************)
LeaverLetsGo ==
    \A c \in Conns :
        conn[c] = "lost" ~> [](owner # c /\ reservedUntil # c)

Told(leaf, n) ==
    \E k \in DOMAIN rcb.out :
        \E change \in ChangesOf(leaf, rcb.out[k].values) : change >= n

(***************************************************************************)
(* _on_change, _add and the BufTm timer: a change of a member assigned     *)
(* while the block is enabled is reported, with that value or a later one, *)
(* unless the block is disabled first: also when it waits in an entry that *)
(* another change, GI or integrity sends before its time, or in one begun  *)
(* while the timer of such an entry is still to fire.                      *)
(***************************************************************************)
ChangeReported ==
    \A s \in Setters, leaf \in Leaves : \A n \in 1 .. MaxChanges :
        (/\ rcb.rptEna
         /\ \E p \in DOMAIN Members(rcb) : Members(rcb)[p] = leaf
         /\ "dchg" \in rcb.config.TrgOps
         /\ setting[s][leaf] = n)
        ~> (~rcb.rptEna \/ Told(leaf, n))

=============================================================================
