# open61850 in TLA+

open61850 is a Python library (with codecs and an SV engine in Rust) for
IEC 61850: an MMS server and client, GOOSE and Sampled Values publication,
capture and supervision. Paths below are from the repository's
`src/open61850/` unless they say otherwise; `native/` is at its root.

This directory holds TLA+ modules of it, TLC configurations that check them on
small instances, and TLAPS proofs for every instance. `PROJECT.json` lists the
runs, the definitions with the lines of code they translate, the mutants by
which each property was seen to fail, the finding and the hazards.

## The system

### Components

| component | code | state | operations |
| --- | --- | --- | --- |
| connections of the server | `server/server.py` | per connection a queue, `closed`, `after_response`; the list of connections, the hooks | accept, serve one request at a time, queue and write PDUs, close, forget, stop |
| data model | `server/model.py` | a tree of values, data sets, setting groups, listeners, batches per thread | `read`, `get`, `set`, `write`, `batch`, `names` |
| report control blocks | `server/reporting.py` | per block: owner, reservation, configuration, EntryID, SqNum, gathered values, buffer; a heap of timers | writes of the block's attributes, value changes, BufTm, GI, integrity, replay, closing, lapsing |
| controls | `server/control.py` | selections, executions, the flags of FC OR | SBO, SBOw, Oper, Cancel, operTm, handlers, `finish`, CommandTermination |
| setting groups | `server/settings.py` | per device: editor, deadline, ActSG, EditSG, the groups' values, FC SG, FC SE | ActSG, EditSG, CnfEdit, SE writes, `select_active`, `set_values` |
| server protocol | `server/protocol.py` | none | PDUs to and from octets |
| MMS client | `mms/client.py` | pending requests by invokeID, slots, listeners, closed | `connect`, `request`, receive loop, `close` |
| control client | `mms/control.py` | a watch per command, ctlNum | `operate` |
| report client | `mms/rcb.py`, `mms/report.py` | none of its own | `read_status`, `enable`, `disable`, decoding of reports |
| setting group client | `mms/sgcb.py` | none | one or two reads and writes |
| association, transport | `mms/association.py`, `mms/transport.py` | negotiated sizes | connect, segment, reassemble |
| names, types, PDUs | `mms/pdu.py`, `types.py`, `reference.py`, `model.py` | none | conversions, browsing |
| GOOSE publisher | `goose_publisher.py` | stNum, sqNum, values, due time, intervals | `start`, `publish`, repeat, `stop` |
| supervision | `supervision.py` | per stream: last message, recent counters, missed, timed out | `feed`, `check` |
| SV publisher | `sv_publisher.py`, `native/src/lib.rs` | next frame, statistics | `start`, send a frame, `stop` |
| capture | `capture.py` | ring and next slot, shared with the kernel | `recv`, give a slot back |
| codecs | `ber.py`, `data.py`, `goose.py`, `sv.py`, `ethernet.py` and their Rust counterparts | none | pure functions |
| files, package | `pcap.py`, `scl.py`, `comtrade.py`, ... | none | pure functions |

### How they interact

A connection's thread reads a request and calls the write and read hooks of the
three engines, then the model. The engines run under a lock of their own
(`RLock`); the model has another, which `set` and `write` release **before**
they call the listeners. The only listener is the report engine. A connection
is closed by any thread (a slow client is dropped by the thread that sends to
it); its own thread notices, after the request it is serving, and calls the
close hooks in `_forget`. What must follow a write response (the execution of a
command in enhanced security) is put in `after_response` and run by the
connection's thread, without a lock, once the response is queued. Two kinds of
timer act on their own: the report engine's thread (BufTm, integrity, the lapse
of a reservation) and one `threading.Timer` per operTm. The application calls
`set`, `finish`, `select_active`, `set_values` from its threads, and its
handlers are called under the engines' locks.

On the client, each thread that calls `request` takes a slot, registers an
invokeID under a lock, sends without one and waits for an event; one thread
receives and sets the events. `operate`, `enable` and the others are sequences
of such requests, between which another client's may be served.

A publisher's thread and the threads that publish meet under a condition; its
frames cross a network that may lose, repeat and reorder them; the kernel puts
them in a ring which `PacketCapture` reads, and `BusSupervisor` follows the
streams frame by frame and by the clock.

### What is hard, and what makes each part correct

* Reports. Changes from several threads, gathered, buffered, replayed; clients
  that reserve, leave, come back from another address. Correct: one client at a
  time, no block held by no one; entries consecutive, each reported once and in
  order within an enabling; overflow announced exactly; a client never left
  with an old value as the newest; a leaver lets go.
* Controls. A command crosses a thread change between acceptance, execution and
  termination, and the client may leave, the selection lapse, another command
  come. Correct: one command in hand, from the client that selected the object,
  ordered at most once, terminated once and last; it ends, and its client is told.
* Setting groups. A lapse noticed lazily, a check and a write under different
  locks. Correct: SG is the active group; only the editor's confirmation, in
  time, changes a group.
* Connections. A bounded queue, drops, stop. Correct: the bytes counted are
  those queued; whoever is closed is forgotten, once, after its last request,
  whatever its peer reads.
* Client. Late answers, a breaking connection, closing. Correct: each request
  ends, once, with its own response, and gives its slot back.
* Control and report clients. Writes of others in between, answers after the
  timeout. Correct: what a call returns is true of the object or the block.
* Publishers, capture, supervision. Late threads, wraps, rings that fill.
  Correct: the last state is sent; a frame the kernel accepted comes out once
  and in turn; what is counted as missed was lost; nothing wrong, no alarm.
* Codecs. Two implementations in two languages. Correct: they read every input
  alike, and what is written comes back.

## The modules

| module | models | |
| --- | --- | --- |
| `Lease` | abstract | one holder at a time of something, kept for a time after it left |
| `Reporting` | `server/reporting.py`, one block; `model.py` `set`/`batch` | implements `Lease` |
| `RcbClient` | `mms/rcb.py` | extends `Reporting` |
| `Operation` | abstract | selection, acceptance, order and end of commands on one object |
| `ControlEngine` | `server/control.py`, one object; `server.py` `_handle` | implements `Operation` |
| `ControlClient` | `mms/control.py` | extends `ControlEngine` |
| `SettingGroupEngine` | `server/settings.py`, one device; `server.py` `_write` | implements `Lease` |
| `Tcp` | one TCP connection, as both ends use it | |
| `Connection` | abstract | open, lost, gone: what the engines are told of a connection |
| `ServerConnection` | `server/server.py`, one connection and its threads | implements `Connection` |
| `MmsClient` | `mms/client.py` | |
| `Session` | a client, a server's connection, TCP | composes the three |
| `GooseMessage`, `GoosePublisher` | `goose.py`'s message, `goose_publisher.py` | |
| `Supervision`, `GooseSupervisor`, `SvSupervisor` | `supervision.py` | |
| `Goose` | a publisher, a network, a supervision | composes them |
| `SvPublisher` | `sv_publisher.py`, `native/src/lib.rs` | |
| `Capture` | `capture.py` and the kernel's side of the ring | |
| `ProcessBus` | SV publisher, network, capture, supervision, recording | composes them |
| `Ber`, `GooseCodec`, `SvCodec`, `Frames` | `ber.py`, `data.py`, `goose.py`, `sv.py`, `ethernet.py`, and the Rust ones of the last three | operators |
| `NativeBer` | `ber.rs`, `data.rs` | operators |
| `Association` | `mms/association.py`, `mms/transport.py`, `server/protocol.py` | operators |
| `IedModel` | `mms/types.py`, `server/model.py` | operators |
| `Messages` | `mms/pdu.py`, `server/protocol.py`, the services of `server/server.py`, the calls of `mms/client.py` | operators |
| `Reports` | `_send` of `server/reporting.py`, `mms/report.py` | operators |
| `Wire` | | brings both ends of every encoding together |
| `MC...` | | instances; `MCResume` records the EntryID a client wrote |
| `...Proofs` | | proofs |

The blocks, objects and devices of one engine share nothing but its lock, so
each module has one of them. An action is a whole handler: what the code does
under one hold of the engine's lock. The lock is left out of the state on that
ground; what is done outside it has actions of its own:

* `Reporting`: `Assign` is `set` or `batch` changing a leaf, `Notify` the
  listener it calls later; `Lose` is `close`, `Forget` the close hook;
  `DeadlinePasses` is time, `Lapse` the timer. Other actions have the name of
  the attribute written or of the function. `rcb` is the record of the block's
  reporting state; `out` and `dropped` in it only record what was sent and
  dropped. A timer is never taken back: BufTm's has the entry it was armed for
  (`gathering`, `bufTimers`), integrity's the time it was due
  (`integrityDue`, `integrityTimers`), and one that no longer counts changes
  nothing when it fires. A value is the pair of its leaf and the number of the change that
  made it, so that properties can tell which change a report carries.
* `RcbClient`: `task[c]` is the call a client is in and what it has still to
  write; each write is an action of `Reporting`. `Wanted` has the fields of
  `RcbSettings` that are not None, of IntgPd, BufTm and TrgOps; OptFlds,
  PurgeBuf and EntryID are never wanted.
* `ControlEngine`: `OperLater` and `OperNow` are the two ends of an accepted
  Oper (`delayed` is a future operTm); `Respond`, `Run` and `Tell` follow on the
  connection's thread or the timer's; `Finish` and `FinishEnds` are `finish`
  before and after it releases the lock. `cmds` keeps every command accepted,
  with its stage and the number of its orders and terminations; `early` records
  that `finish` was called for a command not yet executed.
* `ControlClient`: `requests[c]` is what a client has sent and the server not
  yet served, what the server sent comes back likewise; `late` records what
  timed out of a call.
* `SettingGroupEngine`: `CheckSE` is the hook that lets a write of an SE leaf
  pass, `WriteSE` the model's assignment after it; `Holder` and `EditGroup` are
  what every handler sees after its `_expire`. The write of EditSG goes on with
  `LoadLeaf` for every leaf of SE and `Loaded`, the write of CnfEdit with
  `ConfirmLeaf` for every leaf and `Confirmed`: `busy` is the handler that holds
  the engine's lock meanwhile. `WriteSE`, `WriteWholeSE` and `WriteWholeSP` do
  not take that lock, and fall between these steps too. `WriteWholeSE` and
  `WriteWholeSP` are writes of `LN$SE` and `LLN0$SP`, which the hook does not
  recognise (all it may do is to notice a lapse, which is `ReadBlock`); the
  constant `Whole` says which of them clients use. `bypassed` only records.
* `ServerConnection`: the serving thread is `conn.serving`, from `Accept` to
  `Forget`; the writer thread `Take`, `Write`, `WriteFails`; a sender that found
  the client behind closes it later (`Drop`), and closing is two steps, `closed`
  without the lock and `Clear` under it. A PDU is its kind, its invokeID and the
  request it is about; that one has waited too long is a choice of `send`. `Hang`
  is a handler of the application that never returns: its connection reads
  nothing more.
* `MmsClient`: a call of `request` is at the semaphore, the lock, the send lock
  (`LockSend`), the send or the wait; `TimeOut` and `GiveUp` are the end of the
  wait and the lock after it. `Send` blocks while TCP has no room. An answer is
  taken from `_pending` (`Tell`) before its event is set (`SetDone`).
* `GoosePublisher`, `Goose`: code under the condition is one action; the thread
  may be late by any time within `MaxClock`. A state's values are the number of
  its `publish`. `trouble` records what has disturbed the stream. A `send` that
  raises OSError is not told from a frame the network loses at once: the
  publisher goes on alike after both (`_transmit` counts the error, the counters
  and the due time advance), so `lastSent` is what was last given to `send`.
* `SvPublisher`, `ProcessBus`: the k-th frame stands for its bytes, `Samples(k)`
  is what they carry. The unit of time is the period of a frame.
* `Capture`: a slot of the ring is the kernel's or the reader's; the V2 ring is
  one of blocks of one frame.
* The operator modules work on sequences of octets, as the code does. A list of
  Data values is written in preorder, so that a value is a finite sequence.

A connection of the engines' modules is "open", then "lost" (closed), then
"gone" (forgotten): these are the states of `Connection`, which
`ServerConnection` is shown to implement. A "lost" one still acts: the request
its thread had read is served to the end. Each connection connects once; a
client that comes back is another connection, of the same address where
addresses matter.

Operators named `Wrong...` are plausible mistakes, used by no specification;
each is the replacement of an operator by which a property was seen to fail.

## The runs

Every run that passes is exhaustive within its bounds.

| run | checks | instance |
| --- | --- | --- |
| `ReportingUrcb` | `UpToDate`, `ChangeReported` | a URCB, one connection, two setters that change one leaf three times; BufTm, GI, integrity, two timers at a time, enabled again and again; with fairness |
| `ReportingBuffer` | `SessionContiguous`, `BufferContiguous`, `OverflowExact`, `BytesExact` | a BRCB, two connections, buffer of two entries and three values; BufTm, GI, integrity; DatSet and BufTm rewritten, any EntryID written |
| `ReportingReserve` | `ReservationSound`, `ReservationIsLease`, `LeaverLetsGo` | a BRCB with ResvTms (-1, 0, 1), three connections, two of one station; integrity timers of two enablings; with fairness |
| `ReportingResume` | `ResumesAfterEntryID` (violated) | one client, three entries |
| `RcbClient` | `StatusIsTrue`, `DoneAsAsked` | three connections of two stations that look, enable and disable again and again |
| `ControlObject` | `CommandInHand`, `TerminationIsLast`, `ClientTold`, `ObjectOperates`, `CommandEnds` | two clients, three control models, all answers, two commands, `finish` at any time, Writes that fail after an Oper; with fairness |
| `ControlClient` | `CallIsTrue`, `SelectionReleased` | two calls of `operate`, of one client or two, five control models, timeouts, connections lost |
| `SettingsEdit` | `BlockSound`, `ConfirmedByEditor`, `EditIsLease` | two clients, two groups of two settings, the application, writes of whole SE and SP |
| `Session` | `QueueExact`, `CallsExact`, `OwnAnswer`, `ImplementsConnection`, `RequestEnds`, `ClosedIsForgotten` | two threads with one slot, one connection, one PDU of room in TCP each way, a queue of three bytes; with fairness |
| `Goose` | `CurrentIsSent`, `NoFalseAlarm`, `StreamSound` | two publications, numbers modulo 3, loss, repetition, reordering, a restart |
| `ProcessBus` | `RingIsQueue`, `NoFalseAlarm`, `StreamSound`, `RecordedInOrder` | nine frames of two samples, twelve samples a second, bursts of up to two frames lost, both engines, both rings of two blocks |
| `Wire` | `EnginesAgree`, `RoundTrip`, `StrictIsConformant`, `NegotiatedFits`, `ServesModel`, `ReportArrives` | see the bounds |

What a property means, and what it is about in the code, is in the comment over
it. Some are conjunctions: `CommandInHand` has the exclusion of two commands in
execution, the flags that end with their command, and the entry of
`_executions`; `BlockSound` has FC SG, EditSG and the editor; `CallsExact` the
slots and the pending requests; `StreamSound` the count of what was missed and
the reference followed.

### Bounds

* Connections: two suffice for every conflict of an owner and another; three,
  two of them of one address, for the reservation kept after a leaving, where a
  station may come back while another asks. A connection is used once, so a
  third also plays a second arrival.
* `Reporting`. `MaxEntries` 2 and `MaxBytes` 3 values with entries of one or two
  values make each limit the one that drops first, and one entry drop two.
  `MaxChanges` (2, or 3) and `MaxAsked`, the EntryID at which GI and integrity
  stop, are enough to fill the buffer, drop, purge and fill again; they stop the
  counters, nothing else does. `MaxTimers` stops a block from being enabled when
  so many integrity timers have not fired: 2 lets one of an earlier enabling meet
  that of the present one. `SqMod` stands for 256 and 65536; no property reads
  SqNum, and in `ReportingBuffer`, the largest instance, it stays 0.
  `ReportingUrcb` is about one enabling, so that it has one connection, which may
  disable and enable again; three changes are one gathered, one or GI or
  integrity that sends it early, and one gathered while the first timer is still
  to fire. `ReportingReserve` changes no value: nothing of a reservation depends
  on one. In `ReportingBuffer` the two connections are symmetric.
* `MaxCommands` 2, for a command that meets the traces of an earlier one;
  `MaxCalls` 2, for a call that meets the late answers of an earlier one.
* Two groups with two settings of two values: active and edited group the same
  or not, a confirmation that differs from the application's change of one
  value, a write that falls between the two leaves loaded or read. Clients,
  settings and values are symmetric.
* `Session`. One slot and two threads, so that one waits for the other's slot;
  two requests; a queue that a report and two responses overflow; `Room` 1 both
  ways, so that TCP is full while the queue is not, and a request is held in its
  send by one the server has not read; `MaxSent` 1 report or foreign PDU. With one
  slot the send lock is never contended: a thread that waited there would do as
  one at the semaphore does here, and then as one in the send. invokeIDs do not
  wrap.
* `Goose`. `NumMax` 3 for 2^32 - 1: the numbers wrap to 1 within two
  publications and their repetitions; a window of 2 messages for 16;
  `MaxLost` 2 frames lost and `MaxTrouble` 2 other disturbances; `MaxClock` 7
  units of min_time, past the longest timeAllowedToLive.
* `ProcessBus`. Twelve samples a second in frames of two: of nine frames six
  are the second by which the rate is learnt, smpCnt wraps, and a frame is lost
  after it. `MaxTrouble` 3: two frames lost in a row are less than half a second,
  three are not; a burst after the rate was learnt is left to the proof. A
  playback of twelve rows, repeated every two seconds, begins at sample 3 of the
  first and crosses the second; a fault of one second in two before and after it. Two blocks of two
  frames, which fill; a window of 3 samples for 16; 5 smpCnts remembered for 64.
* `Wire`. Octets of eleven values and sequences of up to four of them after a
  seed; up to two values of thirty-four; two edits of a GOOSE message, an SV
  message or a frame; four kinds of TPDU size and a TSDU up to 16 octets; 96
  associations; three calls of twenty-four on a model of six leaves, with PDU
  sizes around those that a page of names needs; eight report options. The
  widths are scaled: `TagOctets` 2 for the 4 octets of a tag, `WordOctets` 2 for
  the 8 of an i64, `U32Octets` 2 for the 5 of an INT32U with its leading 00,
  `UsizeMax` and `LengthMax` 300 for usize, `StringMax` 2 for 129 characters, `MaxDepth` 3 for the nesting, TPDU codes 2 to 5 for 7 to
  13. Each bound is met and passed by some input.

The systems modelled may stop: connections are used once and counters bounded,
so deadlock is checked only in `SettingsEdit`.

### Fairness

The report engine's thread runs until the server stops (weak fairness of its
timers); `serve` ends in `_forget` whatever happens (`finally`); `set` goes on
from its assignment to its listeners. In `ControlEngine` a connection's thread
goes on through `after_response`, a timer fires, `finish` goes on to its end;
that the application calls `finish` for a command its handler left in execution
is the contract of IN_EXECUTION, and is assumed. In `Session` the serving
thread, the writer thread, whoever closes and the callers go on when they can,
and a blocked `send` of the server fails after `send_timeout`. One of the client
has no time limit: `RequestEnds` excepts the requests held by TCP being full for
ever. Nothing is assumed of the receive thread, of the application and its
handlers, which may never return, of the network or the peer. Nothing is assumed of
clients anywhere.

## What the code does not do

`ReportingResume` ends in a violation of its property, which states what the
code's own documentation says (`server/reporting.py:19`): a change between a
client's writes of EntryID and RptEna overwrites EntryID (`_deliver`), and the
replay skips entries.

### Also seen

TLC, or a proof that would not close, showed these too. They have no run: the
properties are stated, or instantiated, so as to say what holds in spite of
them.

Reports:

* A lost owner's gathered changes stay in `pending` (`_on_close` disables only)
  and are delivered after newer values, though `_add` says "the gathered entry
  goes first". `UpToDate` is checked with BufTm and one connection, and proved of
  any number of them without BufTm.
* A write of DatSet leaves the buffer as it is: a replayed entry of the old data
  set is sent with the inclusion bits of the new one (`_send`). Nor does one of
  TrgOps: without dchg for a time, a BRCB replays values that have changed since
  as the last ones.
* `_send` advances `sent`, "EntryID of the last entry sent to a client", before
  `ServerConnection.send` drops the report of a connection already closed.
* The listeners read the model after its lock is released: with two setters, the
  entry made of the first change can carry the second value, not "values as they
  were at the change" (`_new_entry`). `UpToDate` holds all the same.
* The server sends the segmentation bit of OptFlds when asked for it, without
  SubSeqNum and MoreSegmentsFollow, and `decode_report` then fails. `Wire`
  leaves that bit out.
* `disable()` leaves an edition 1 BRCB owned though its docstring says that it
  releases it; an `enable()` that fails midway leaves its reservation; a
  `disable()` on another connection of the same station writes ResvTms 0, and
  the block looks free while it is kept; with `resv_tms=None` a held BRCB looks
  free; without a reservation two `enable()` can interleave. `RcbClient` has
  clients that reserve.

Controls:

* `finish` takes a command that has been accepted and waits for its execution:
  terminated, then executed, then terminated again. `early` says that this has
  happened.
* A Write rejected after an Oper in it was accepted leaves the object taken for
  ever (`_handle` drops `after_response`).
* `finish` frees the object under the lock and resets `opRcvd` and `opOk` after
  it: a command accepted in between loses its flags early. `FlagsEnd` has the
  other half, that no flag outlives its command.
* A late CommandTermination of one call is taken by the next call's watch
  (`mms/control.py:329`). `CallIsTrue` is about calls without a timeout.

Setting groups:

* A write of `LN$SE` is not checked at all: any client's passes.
* A write of an SE leaf is checked under the engine's lock and assigned under the
  model's: when the edit lapses in between and another client begins one, the
  value lands in that one.
* A write of `LLN0$SP` as a whole changes ActSG, and SG stays. `bypassed` says
  that this has happened.
* `set_values` of the group being edited is undone by the confirmation; `_load`
  assigns SG leaf by leaf.

Connections and client:

* `server.py:15` says that Conclude is served; `close` clears the queue, and its
  response is usually lost.
* The client's socket has no time limit (`settimeout(None)`, `transport.py`), and
  `sendall` is called under `_send_lock`: a server that stops reading holds
  `request()`, and the threads at that lock, past `request_timeout`.
* `stop()` may miss a connection that `_serve` is about to append.
* A rejected request without an invokeID is answered by `reject(None)`, which
  writes tag [0]; the client reads it as invokeID 1 (`server.py:160`).
* A listener that raises anything but OSError and MmsProtocolError ends the
  receive thread without `_fail_all`: the requests in hand time out one by one.
* After a timeout the slot is free although the server still serves the request.
* `get_name_list` ends without an error at the first name that no page can hold;
  read answers are not bounded by the PDU size agreed; a binary time written as
  a Data item comes back as a utc-time; `$0` of an array is read though no name
  list has it.

GOOSE and SV:

* A sqNum lost at its wrap makes the rest of the state "out of order"; a stNum
  lost at its wrap, a restart; a publisher restarted in its first state,
  duplicates.
* A late message is not always one that "was counted in a gap"
  (`supervision.py:121`); a duplicate exactly as old as the window is taken for
  a late one.
* `GoosePublisher.stop` clears `_send` outside the condition. `Publisher.stop`
  of SV leaves its runner, so that it cannot be started again.
* A gap of half a second or more of samples is taken for a restart or late
  samples; the rate learnt is wrong when the last samples of the first second
  were lost. A repeated playback plays its tail before its beginning.
* While frames wait in a V3 block not yet handed over, the supervision may
  report a timeout.
* The Python `encode_goose_pdu` does not bound its counters and names: it can
  write what `strict` refuses.

## The proofs

For every number of connections, clients, threads, leaves, groups, entries and
commands, and every bound that a constant stands for.

`ReportingProofs` (constants: `ConnAssumption`, `ReportingAssumption`,
`NoneAssumption`):
`TypeCorrect`, `ReservationIsSound`, `BufferIsContiguous`,
`SessionIsContiguous`, `OverflowIsExact`, `ReservationImplementsLease`. The
inductive invariant is `Inv == TypeOK /\ BlockInv(rcb) /\ ReservationSound`.
`BlockInv` is about the record alone, so that the operators which compute a new
record (`Keep`, `Send`, `Deliver`, `Flush`, `Replay`, ...) each have a lemma, and
an action's step only combines them. It has to be stronger than the properties:
entries of the buffer and of the reports of this enabling both end at
`nextEntry - 1`, a gathered place is one the data set had, and the highest
EntryID dropped and sent are below `nextEntry`; without the last of these,
dropping one more entry would not keep `OverflowIsExact`.

Its last section proves `ReportsAreUpToDate`. `UpToDate` speaks of the last of
many reports; `CurrentInv` says it (`Tracks`) of every leaf whose changes have
all been told of, both of the reports of this enabling and of the buffer, since
a replay makes reports of the buffer's end. A sequence goes on tracking when
keep() cuts its beginning and when an entry of current values joins it; the
leaves that become quiet are those the entry tells of, or no leaf of the data
set. It supposes `Steady`: no BufTm, and for a BRCB one data set and "dchg"
always in TrgOps. Without any of the three it is false ("Also seen"): what is
gathered outlives its client, and the buffer a write of DatSet or TrgOps.

`RcbClientProofs` (constants: also `RcbClientAssumption`): `CallsUseTheBlock`,
and, of a block that can be reserved (`Edition2`), `StatusIsAlwaysTrue` and
`CallsDoAsAsked`. The first says that clients which call `enable()` and
`disable()` are clients of `Reporting`, so that all the theorems above hold of
their behaviours. The inductive invariant `ClientInv` adds three parts to `Inv`:
what is still to be written is an end of the call's writes (`TaskOK`), ResvTms
tells whether the block is taken or kept (`ResvTmsSound`), and a call that has
made a write, of a connection still served, owns the block and finds what it has
written unchanged (`TaskSound`). `Effect` says what one write does to its own
call, `Kept` what it leaves to the others. Without `Edition2` the two properties
are false, as "Also seen" says.

`ControlProofs` (constants: `ControlAssumption`): `CommandIsInHand`,
`ClientIsTold`, `TerminationComesLast`, `ObjectImplementsOperation`. There are
two inductive invariants. `Inv` holds until `finish` is called too early
(`early \/ Inv` is the invariant): the commands whose stage is one that holds
the object are exactly the one `_executions` names, and each command's counts
agree with its stage. `CommandStep` says once what a step that changes one
command must show; every action goes through it. That `_run` never meets
another command (`RunRefused`) follows from it. `FreeInv` holds always: it lets
the entry be that of a command which is no longer in hand, and keeps what does
not depend on it, that one command is in execution, ordered once, and that its
client is told.

`ControlClientProofs` (constants: `ControlAssumption`): `ClientsUseTheObject`,
`SelectionIsReleased`, `CallsAreTrue`. A client's steps are stated as a relation
of its call, its requests and its answers alone (`Moves`), so that a part of the
invariant is first kept by every move of one client, then by the answer the
server adds (`Replies`), and the actions only choose which. `ClientInv` holds
whatever the application does: of the requests of some kinds and their answers,
one at most is under way, that of the call's step, as long as none of these
kinds has timed out (`AllAlone`, used for the selection and for all kinds); none
is for a call to come or a step not yet made (`AllNumbered`); and an open client
that holds the selection is about to use it, to cancel, or has a selection that
timed out (`Selected`), from which `SelectionReleased` follows.
`ClientsUseTheObject` says that clients that call
`operate()` and `cancel()` are clients of `ControlEngine`, so that the theorems
of `ControlProofs` hold of them; its invariants are used in the rest. For
`CallsAreTrue`, `CallInv` adds to `Inv` that a command in execution has been
ordered once (`AllHandled`), that a command comes from a call made
(`AllIssued`), and of each call that lost nothing what it knows of its own
command (`AllRight`): it has one at most, an `Oper` refused left none that may
still be executed, and in enhanced security no other command of the client is
under way and every termination on its way is its own. It supposes
`KnownExecution` and no tests: the handler is never called for a test, and after
a `finish` that was too early a command has ended without having been executed;
both are what the code does, and what the call then says is not true.

`SettingProofs` (constants: `SettingAssumption`): `TypeCorrect`, `BlockIsSound`,
`ConfirmationIsEditors`, `EditImplementsLease`. `BlockSound` says of the blocks
whose `LLN0$SP` no client has written whole (`bypassed`) that SG is the active
group and EditSG tells who edits; it needs that a connection with a write under
way has not been forgotten, and the types. `ConfirmedByEditor` holds whatever
clients write whole, and rests on `HandlerIsEditors`: while SE is loaded or read
for a connection, that connection is the editor, because everything that gives
the edit to another or to none takes the engine's lock.

`SessionProofs` (constants: `SlotsAssumption`, `RoomAssumption`):
`ConnectionIsImplemented`, `AnswersAreOwn`, `CallsAreExact`. The inductive
invariant `SessionInv` has three parts. `ServerSound`: the connection is listed
exactly in the stages of `serve`, and one that is neither listed nor closed has
nothing to send, so that nobody closes it; this is what makes every step one of
`Connection` or none (`StateStep`). `NetSound`: every PDU on its way, queued or
being handled is about the request whose invokeID it has. `ClientSound`: a
call's stage, its event and its invokeID agree with `_pending`, two calls share
no invokeID, and the slots out are as many as the calls; `CallStep` says once
what a step of one call must show. That an answer is one's own then follows
from the second and the third.

`GooseProofs` (constants: `NumMaxAssumption`, `PublisherAssumption`,
`WindowAssumption`): `TypeCorrect`, `LastValuesAreSent`, `AlarmsAreTrue`,
`StreamIsSound`, for every size of the numbers, of the window, of the waits and
of what the network loses. What `feed` makes of one message is a lemma for each
of its branches (`Follows`, `Tells`); a step then only says which message came.
There are three invariants over the types, because each kind of trouble leaves
something else true. `InOrder` and `InTime`, for the alarms: the reference of
the supervision, the frames on their way and the publisher are a line in which
each succeeds the one before, where a number wraps and over a restart too, and
the time allowed to live of the last frame sent ends after the next one is due.
`Numbered`, until a number wraps: whatever the publisher has numbered is lost,
on its way or known to the supervision, so that nothing gets away. `LossCounted`
and `LateAwaited`: `missed` is what was lost as long as the network only loses,
and at most what is still to come as long as it only repeats and reorders, which
is why nothing is missed once all has come.

`ProcessBusProofs` (constants: `PublisherAssumption`, `CaptureAssumption`,
`WindowAssumption`, `SupervisorAssumption`, `BusAssumption`): `BusTypes`,
`RingTheorem`, `FlowTheorem`, `QuietTheorem`, `RecordingTheorem`,
`StreamTheorem`, for every number of blocks and of frames in a block, of samples
in a frame and in a second, every window and length of the stream. What is read
of the ring, what a frame does to the stream followed and what is recorded of it
are recursive functions. What such a function computes is proved by the set of the steps up to
which it is right: it has 0, and with n also n + 1 (`UpTo`, from the
well-foundedness of the naturals; `Recursion` gives the function itself).
`RingOK` says which blocks have been handed over, those from the reader's place
as far as `HandedUpTo`, so that what waits in the ring is a queue however the
blocks are read (`RingIsQueue`). `FlowInv` is the inductive invariant of the
rest: the frames on their way and received are in order but for what is known
overtaken (`InOrder`), each frame sent is lost, on its way or received
(`Covered`), and the stream followed is at the last sample of the latest frame,
with `missed` the samples of the frames lost between two received (`Counted`);
how far ahead the next sample is found to be, across the second and where the
rate is learnt, is then a division (`Division`, `DifferentCounts`). `Quiet` and
`RecordedRight` add what `NoFalseAlarm` and `RecordedInOrder` need: the times of
the frames on their way, and which frame each of the counters remembered is of.
`StreamRight` and `InLine` are for `StreamSound`, when nothing is lost: the frames
waiting and on the wire are a line (`Close`), each of which comes in its turn,
once more, before the one it overtakes or after the one that overtook it
(`Arrives`); and the counters of `recent` are those of samples so near the last
one (`Near`) that no two of them are the same number, so that each sample of a
frame overtaken is found to be late once, and taken off `missed`. `StreamTheorem`
supposes of gaps what the code does, that they are shorter than half a second
(`ShortGaps`, with which a burst of any number of frames is counted:
`LaterCounts`), and of a rate to be learnt that the first second came whole and
in order (`RateLearnt`). It
has a hypothesis, `2 * Asdus <= Window + 1`: the code takes a sample further back
than `REORDER_WINDOW` (16) for the restart of a stream, so that of a frame of nine
samples or more that is overtaken nothing is taken off. The run's instance
satisfies it (two samples, a window of three), and `StreamSound` fails with a
window of two.

Two sections of `ReportingProofs` and `SessionProofs` prove `BytesAreExact` and
`QueueIsExact`. The code keeps both sizes by additions and subtractions; the
models define the size of a sequence as the number of pairs of a place in it and
a unit of the element there (`SizeOf`), which needs no induction: a sequence cut
in two, extended or shortened has the pairs of its parts (`SizeOfSplit`,
`SizeOfAppend`, `SizeOfTail`, by bijections). `SizeInv` and `QueueSound` say the
property of a record, and are preserved given the invariants proved before
them: `keep()` drops until the bound holds or the newest entry alone is left,
and `send()` adds only what fits.

Only model-checked: liveness (`LeaverLetsGo`, `ChangeReported`, `CommandEnds`,
`RequestEnds`, `ClosedIsForgotten`), which is out of the prover's reach; the
operators of `Ber` to `Wire`, which are recursive over nested data (`RECURSIVE`
operators, which the prover does not take).

## What is not modelled

* Setting group client: one or two reads or writes in a row, without state.
* Files (`pcap.py`, `scl.py`, `comtrade.py`, the viewer) and the package's
  `__init__`: parsing and display, no protocol.
* The bindings of the native core to Python and C; sockets, their options and
  errors beyond a lost frame or connection; the command lines; statistics.
* Times in microseconds, floats as numbers, texts and references as text; what
  is displayed. The octets they are made of are modelled.
* Refusals as messages in the engines (a refused request changes nothing),
  refusals by the application's handlers, the values `default_handler` writes,
  reason codes, time stamps.
* The locks themselves and their order: each handler is one action, so that they
  are always granted is supposed. The engines hold theirs while they set the
  model, whose listeners take the report engine's.
* In `Reporting`, OptFlds as data; in `ServerConnection`, several connections
  (they share the list and the hooks only); in the supervisions, several streams
  and the events of configuration, simulation and inconsistency.
