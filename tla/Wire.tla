-------------------------------- MODULE Wire --------------------------------
(***************************************************************************)
(* Both ends of every encoding, on inputs that grow and deviate step by    *)
(* step.  A behaviour works on one bench:                                  *)
(*   "data"     octets that come one by one, read as a sequence of Data;   *)
(*   "values"   Data values added one by one, written and read back;       *)
(*   "goose"    a GoosePDU that is damaged, field by field;                *)
(*   "sv"       a SavPdu that is damaged, field by field;                  *)
(*   "frame"    an Ethernet frame that is damaged;                         *)
(*   "cotp"     a transport connection and a TSDU that grows;              *)
(*   "accept"   an association that both sides' limits shape;              *)
(*   "service"  a client's calls on a model, one after the other;          *)
(*   "report"   a report whose options are switched on one by one.         *)
(***************************************************************************)
EXTENDS Reports

CONSTANTS
    Alphabet, Seeds, MaxOctets,   \* data: octets, what comes first, how many more
    SomeValues, MaxValues,        \* values: complete Data values, how many
    GooseFields,                  \* a conformant message: records [n, content]
    GoodContents, BadContents,    \* by field number: conformant contents, and not
    OddTags, MaxEdits,            \* goose and sv: tags of no field, edits of a message
    SvFields, SvContents,         \* an ASDU, and contents for its fields
    SomeFrames, SomePairs,        \* frames, and two octets written over a frame's
    Connections, MaxTsdu,         \* cotp: records [code, calling, called, noise]
    Proposals, Limits,            \* accept: what each side asks
    Types, Sets, PduSizes,        \* service: the model, the sizes agreed
    Calls, MaxCalls,              \*   the calls, how many
    Blocks, Entries, ReportFlags  \* report

VARIABLES bench, input, edits, values
vars == <<bench, input, edits, values>>

(***************************************************************************)
(* Inputs                                                                  *)
(***************************************************************************)
Tagged(f) == [tag |-> ExpectedTag(f.n), content |-> f.content]
FieldsOf(message) == FlattenSeq([i \in DOMAIN message.fields |->
                                   EncodeTlv(message.fields[i].tag, message.fields[i].content)])
GooseApdu(message) == EncodeTlv(TagGoosePdu, FieldsOf(message)) \o message.after

SvApdu(message) ==
    EncodeTlv(TagSavPdu, EncodeTlv(TagNoAsdu, message.noAsdu)
                         \o EncodeTlv(TagSeqAsdu, EncodeTlv(TagAsdu, FieldsOf(message)))
                         \o message.after)

Idle == [op |-> "none"]

Init ==
    /\ edits = 0
    /\ values = [model |-> Built(Types), before |-> Built(Types)]
    /\ \/ bench = "data" /\ input \in Seeds
       \/ bench = "values" /\ input = <<>>
       \/ bench = "goose" /\ input = [fields |-> [i \in DOMAIN GooseFields |-> Tagged(GooseFields[i])], after |-> <<>>]
       \/ bench = "sv" /\ input = [fields |-> [i \in DOMAIN SvFields |-> Tagged(SvFields[i])],
                                   noAsdu |-> <<1>>, after |-> <<>>]
       \/ bench = "frame" /\ input \in SomeFrames
       \/ bench = "cotp" /\ \E c \in Connections : input = [c |-> c, tsdu |-> <<>>]
       \/ bench = "accept" /\ \E p \in Proposals, s \in Limits : input = [p |-> p, s |-> s]
       \/ bench = "service" /\ input = Idle
       \/ bench = "report" /\ \E r \in Blocks, e \in Entries :
             e.indexes \subseteq 1 .. Len(r.members) /\ input = [rcb |-> r, entry |-> e]

(***************************************************************************)
(* Steps                                                                   *)
(***************************************************************************)
On(of) == bench = of /\ UNCHANGED <<bench, values>>
Count(max) == edits < max /\ edits' = edits + 1

(* One octet more on the wire. *)
Octet ==
    /\ On("data") /\ Count(MaxOctets)
    /\ \E o \in Alphabet : input' = Append(input, o)

(* One value more in a list. *)
Value ==
    /\ On("values") /\ Count(MaxValues)
    /\ \E v \in SomeValues : input' = input \o v

(* One deviation more in the fields of a message. *)
Edited(fields) ==
    {RemoveAt(fields, i) : i \in DOMAIN fields}
    \cup {InsertAt(fields, i, fields[i]) : i \in DOMAIN fields}
    \cup {[fields EXCEPT ![i] = fields[i + 1], ![i + 1] = fields[i]] : i \in 1 .. Len(fields) - 1}
    \cup {[fields EXCEPT ![i].tag = tag] : i \in DOMAIN fields, tag \in OddTags}
Refilled(fields, contents) ==
    UNION {{[fields EXCEPT ![i].content = c] : c \in contents[Last(fields[i].tag) % 32]} :
             i \in {j \in DOMAIN fields : Last(fields[j].tag) % 32 \in DOMAIN contents}}

DamageGoose ==
    /\ On("goose") /\ Count(MaxEdits)
    /\ \/ \E fields \in Edited(input.fields) \cup Refilled(input.fields, GoodContents)
                          \cup Refilled(input.fields, BadContents) :
             input' = [input EXCEPT !.fields = fields]
       \/ input' = [input EXCEPT !.after = <<0>>]

(* Besides: another number of ASDUs, other TLVs after them. *)
DamageSv ==
    /\ On("sv") /\ Count(MaxEdits)
    /\ \/ \E fields \in Edited(input.fields) \cup Refilled(input.fields, SvContents) :
             input' = [input EXCEPT !.fields = fields]
       \/ \E n \in {<<>>, <<0>>, <<2>>, <<0, 0, 1>>} : input' = [input EXCEPT !.noAsdu = n]
       \/ \E after \in {<<5>>, EncodeTlv(TagNoAsdu, <<1>>), EncodeTlv(TagSecurity, <<9>>),
                        EncodeTlv(TagSeqAsdu, EncodeTlv(TagAsdu, <<>>))} :
             input' = [input EXCEPT !.after = after]

(* A frame that is cut, padded, or written over. *)
DamageFrame ==
    /\ On("frame") /\ Count(MaxEdits)
    /\ \/ \E n \in {7, 13, 14, 17, 21, 22} \cup {Len(input) - 1} :
             n < Len(input) /\ input' = SubSeq(input, 1, n)
       \/ input' = input \o <<0, 0>>
       \/ \E at \in {13, 15, 17, 19, 21}, pair \in SomePairs :
             at < Len(input) /\ input' = [input EXCEPT ![at] = pair[1], ![at + 1] = pair[2]]

(* A TSDU longer by an octet. *)
Send ==
    /\ On("cotp") /\ Count(MaxTsdu)
    /\ input' = [input EXCEPT !.tsdu = Append(@, edits)]

(* One more option of a report. *)
Option ==
    /\ On("report") /\ UNCHANGED edits
    /\ \E f \in ReportFlags \ input.rcb.optFlds : input' = [input EXCEPT !.rcb.optFlds = @ \cup {f}]

(* One call of the client, answered by the server from the model. *)
Model == [types |-> Types, sets |-> Sets, values |-> values.model]
Service(call) ==
    CASE call.op = "read" -> ReadRequest(call.names)
      [] call.op = "readSet" -> Tlv(164, Tlv(128, EncodeBoolean(1))
                                         \o Tlv(161, Tlv(161, EncodeObjectName(call.names[1]))))
      [] call.op = "write" -> WriteRequest(call.names, call.data)
      [] call.op = "type" -> AttributesRequest(call.names[1])
      [] call.op = "members" -> ListAttributesRequest(call.names[1])
      [] call.op = "names" -> GetNameListRequest(call.class, call.domain, <<>>)
      [] call.op = "unknown" -> Tlv(191, <<>>)
Server(size) == [pduSize |-> size, vendor |-> <<79>>, modelName |-> <<54>>, revision |-> <<49>>]

Call ==
    /\ bench = "service" /\ UNCHANGED bench
    /\ Count(MaxCalls)
    /\ \E call \in Calls : \E size \in IF call.op = "names" THEN PduSizes ELSE {Max(PduSizes)} :
          \E done \in {Exchange(Service(call), 1, Model, Server(size))} :
              /\ input' = [op |-> call.op, call |-> call, answer |-> done.pdu, size |-> size, octets |-> done.size]
              /\ values' = [model |-> done.values, before |-> values.model]

Next == Octet \/ Value \/ DamageGoose \/ DamageSv \/ DamageFrame \/ Send \/ Option \/ Call

Spec == Init /\ [][Next]_vars

(***************************************************************************)
(* Properties                                                              *)
(***************************************************************************)
(* A value as the native engine reads it, made the value Python reads:     *)
(* lib.rs replaces characters, and makes an integer of one that is too     *)
(* wide for a word.                                                        *)
View(item) ==
    LET n == item.val[1]
        tag == SubSeq(item.val, 2, 1 + n)
        value == SubSeq(item.val, 2 + n, Len(item.val))
    IN  CASE item.kind = "visible" -> Item("visible", Text(item.val))
          [] item.kind = "raw" /\ tag = TagInteger -> Item("int", <<DecodeInteger(value)>>)
          [] item.kind = "raw" /\ tag = TagUnsigned -> Item("uint", <<Unsigned(value)>>)
          [] OTHER -> item
(* A tag wider than a word is told from others only by Python. *)
Narrow(item) ==
    IF item.kind = "raw" /\ item.val[1] > TagOctets
    THEN Item("raw", <<TagOctets>> \o TagMax \o SubSeq(item.val, 2 + item.val[1], Len(item.val)))
    ELSE item
Each(f(_), items) == [i \in DOMAIN items |-> f(items[i])]

SameGoose(python, native) ==
    /\ python.ok = native.ok
    /\ python.ok => [python EXCEPT !.allData = Each(Narrow, @)]
                    = [native EXCEPT !.gocbRef = Text(@), !.datSet = Text(@), !.goID = Each(Text, @),
                                     !.allData = Each(View, @)]
SameSv(apdu) ==
    LET view(asdu) == [n \in DOMAIN asdu |-> IF n \in {0, 1} THEN Text(asdu[n]) ELSE asdu[n]]
    IN  \E python \in {DecodeSvPdu(apdu)}, native \in {NativeDecodeSv(apdu)} :
        /\ python.ok = native.ok
        /\ python.ok => /\ python.security = native.security
                        /\ python.asdus = Each(view, NativeAsdus(native.content))
                        /\ native.count = Len(python.asdus)
SameOption(python, native, same(_, _)) ==
    Len(python) = Len(native) /\ (python # <<>> => same(python[1], native[1]))

(* The two engines read every input alike: the same Data, the same GOOSE,  *)
(* leniently and strictly, the same SV, and the same frames, or refuse it  *)
(* both; a deviation has the same name (data.py and data.rs, goose.py and  *)
(* goose.rs, sv.py and sv.rs, ethernet.py and ethernet.rs).                *)
EnginesAgree ==
    CASE bench = "data" ->
            LET python == DecodeDataSequence(input)
            IN  /\ python.ok = CheckSequence(input).ok
                /\ python.ok => /\ CheckSequence(input).count = python.count
                                /\ Each(View, Values(input, 1)) = Each(Narrow, python.items)
      [] bench = "goose" ->
            LET apdu == GooseApdu(input)
            IN  /\ SameGoose(DecodeGoosePdu(apdu), NativeDecodeGoose(apdu))
                /\ DecodeGoosePdu(apdu).ok => CheckStrict(apdu) = NativeStrict(apdu)
      [] bench = "sv" -> SameSv(SvApdu(input))
      [] bench = "frame" ->
            /\ ParseFrame(input, {ETHERTYPE_GOOSE, ETHERTYPE_SV})
               = NativeParseFrame(input, {ETHERTYPE_GOOSE, ETHERTYPE_SV})
            /\ \A strict \in BOOLEAN :
                  SameOption(DecodeGooseFrame(input, strict), NativeGooseFrame(input, strict), SameGoose)
            /\ SameOption(DecodeSvFrame(input), NativeSvFrame(input), LAMBDA p, n : p.ok = n.ok)
      [] OTHER -> TRUE

(* Values come back as they were written, whichever engine writes and      *)
(* whichever reads; the length the native engine announces is the length   *)
(* it writes (encode_data, encode_goose_pdu, encode_sv_pdu; SequenceWriter *)
(* and Fields of the native core).  A binary time is the exception:        *)
(* Python gives it back as the utc-time of the same instant.               *)
GooseMessageOf(items) ==
    [gocbRef |-> <<65>>, datSet |-> <<66>>, goID |-> <<<<67>>>>, t |-> <<0, 0, 0, 1, 0, 0, 0, 2>>,
     counters |-> [n \in Counters |-> CASE n = TAL -> 300 [] n = ST_NUM -> 128 [] n = SQ_NUM -> 255 [] OTHER -> n],
     simulation |-> 1, ndsCom |-> 0, allData |-> items]
Address == [dst |-> <<1, 12, 205, 1, 0, 1>>, src |-> <<2, 0, 0, 0, 0, 1>>, ethertype |-> ETHERTYPE_GOOSE,
            appId |-> 4097, vlan |-> <<[id |-> 5, priority |-> 4]>>]
RoundTrip ==
    bench = "values" =>
        LET kept == Each(Kept, input)
            message == GooseMessageOf(input)
            apdu == EncodeGoosePdu(message)
            asdu == [n \in RequiredFields |-> CASE n = 3 -> <<0, 0, 0, 1>> [] n = 5 -> <<2>> [] OTHER -> <<0, n>>]
            sv == [security |-> <<>>, asdus |-> [i \in DOMAIN input |-> asdu]]
        IN  /\ DecodeDataSequence(EncodeSequence(input)).items = Each(LAMBDA i : Narrow(View(i)), kept)
            /\ SequenceLen(input).ok
            /\ SequenceLen(input).len = Len(WriteSequence(input))
            /\ CheckSequence(WriteSequence(input)).ok
            /\ Each(View, Values(WriteSequence(input), 1)) = Each(View, input)
            /\ WriteSequence(kept) = EncodeSequence(input)
            /\ NativeEncodeGoose(GooseMessageOf(kept)) = apdu
            /\ NativeGooseLen(GooseMessageOf(kept)) = Len(apdu)
            /\ DecodeGoosePdu(apdu).counters = message.counters
            /\ ~Refused(Address, apdu) => ParseFrame(BuildFrame(Address, apdu), {ETHERTYPE_GOOSE})[1]
                                          = Address @@ [apdu |-> apdu]
            /\ NativeEncodeFrame(Address, GooseMessageOf(kept)) = BuildFrame(Address, apdu)
            /\ DecodeSvPdu(EncodeSvPdu(sv)).asdus = sv.asdus

(* The strict readers take exactly the conformant messages: every field in *)
(* its order, once, in its form and its bounds, and nothing around them    *)
(* (check_strict; StrictError of goose.rs).                                *)
ConformantMessage(m) ==
    LET n(i) == CHOOSE k \in 0 .. ALL_DATA + 1 : k > ALL_DATA \/ m.fields[i].tag = ExpectedTag(k)
        content(k) == m.fields[CHOOSE i \in DOMAIN m.fields : n(i) = k].content
    IN  /\ m.after = <<>>
        /\ \A i \in DOMAIN m.fields : n(i) <= ALL_DATA /\ m.fields[i].content \in GoodContents[n(i)]
        /\ \A i, j \in DOMAIN m.fields : i < j => n(i) < n(j)
        /\ Mandatory \cup {ALL_DATA} \subseteq {n(i) : i \in DOMAIN m.fields}
        /\ Unsigned(content(NUM_ENTRIES)) = Len(Tlvs(content(ALL_DATA)))
StrictIsConformant ==
    bench = "goose" =>
        LET apdu == GooseApdu(input)
            accepted(pdu, deviation) == pdu.ok /\ deviation = Conformant
        IN  /\ (DecodeGoosePdu(apdu).ok /\ CheckStrict(apdu) = Conformant) <=> ConformantMessage(input)
            /\ (NativeDecodeGoose(apdu).ok /\ NativeStrict(apdu) = Conformant) <=> ConformantMessage(input)

(* What the two ends agree on, they agree on: no TPDU is longer than the   *)
(* size confirmed, a TSDU arrives whole whatever comes between its         *)
(* segments; the association's numbers are at most what each side asked    *)
(* for and the services announced are those served (accept_cotp, connect,  *)
(* send, recv; association_accept, decode_association_response).           *)
Streamed(segments, noise) ==
    FlattenSeq([i \in DOMAIN segments |->
                  (IF i = Len(segments) THEN FlattenSeq([j \in DOMAIN noise |-> Tpkt(noise[j])]) ELSE <<>>)
                  \o Tpkt(segments[i])])
AtMost(agreed, limit, asked) == agreed <= limit /\ (asked \notin {<<>>, <<0>>} => agreed <= asked[1])
Cotp(c, tsdu) ==
    LET cc == AcceptCotp(ConnectionRequest(c.code, c.calling, c.called))
        mine == NegotiatedSize(cc.cc)
        there == Segments(tsdu, mine.size)
        received == Receive(Streamed(there, c.noise) \o Tpkt(Segments(<<7>>, mine.size)[1]), <<>>)
        next == Receive(received.tsdu[1].rest, <<>>)
    IN  /\ cc.ok /\ mine.ok
        /\ mine.size = cc.size
        /\ mine.size <= 2 ^ c.code /\ mine.size <= 2 ^ MaxCode
        /\ \A i \in DOMAIN there : Len(there[i]) <= mine.size \/ mine.size < 4
        /\ received.ok /\ received.tsdu[1].data = tsdu
        /\ next.ok /\ next.tsdu[1].data = <<7>>
Accepted(p, s) ==
    \E request \in {DecodeAssociationRequest(AssociationRequest(p))} :
    \E r \in {DecodeAssociationResponse(AssociationAccept(request, s))} :
        /\ request.ok
        /\ request.mms = MmsContext /\ request.acse = AcseContext
        /\ r.ok
        /\ AtMost(r.maxPdu[1], s.maxPdu, p.maxPdu)
        /\ r.maxPdu[1] = AgreedSize(request, s)
        /\ AtMost(r.nesting[1], s.nesting, p.nesting)
        /\ r.calling = Min({p.outstanding, s.outstanding}) /\ r.called = r.calling
        /\ {n \in 0..84 : Supports(r.services, n)} = Served
Refusals ==
    LET cpa(content) == Spdu(ACCEPT, SessionItems(SessionParameter(UserData, content)))
        presented(aare) == cpa(Tlv(49, Tlv(162, Tlv(97, Tlv(48, IntTlv(1) \o Tlv(160, aare))))))
        initiate(d) == presented(Tlv(97, Tlv(162, IntTlv(0)) \o Tlv(190, Tlv(40, Tlv(160, d)))))
    IN  {Spdu(REFUSE, <<>>), Spdu(ABORT, <<>>), cpa(Tlv(48, <<>>)),
         presented(Tlv(97, Tlv(162, IntTlv(1)))), initiate(Tlv(170, <<>>))}
NegotiatedFits ==
    CASE bench = "cotp" -> Cotp(input.c, input.tsdu)
      [] bench = "accept" ->
            /\ Accepted(input.p, input.s)
            /\ \A d \in Refusals : DecodeAssociationResponse(d) = Refusal
      [] OTHER -> TRUE

(* A client sees the model: it reads what the leaves hold, a write that is *)
(* accepted changes its leaves to the values given and nothing else, one   *)
(* refused changes nothing; a list of names is complete up to the first    *)
(* that no page can hold, and every page fits in the PDU agreed (_service; *)
(* MmsClient.get_name_list, read_many, write_many, get_type,               *)
(* get_data_set_members).                                                  *)
LeavesOf(name) ==
    IF name.domain = <<>> THEN {}
    ELSE {leaf \in DOMAIN values.model : leaf[1] = name.domain[1] /\ IsPrefix(Parts(name.item), leaf[2])}
(* A binary time in its octets is one once read, and then a utc-time. *)
Sent(v) == IF v.kind = "raw" /\ v.val[2] = 140 THEN Item("btime", SubSeq(v.val, 3, 8)) ELSE v
Instants(held) == {IF v.kind = "raw" THEN Sent(v) ELSE Kept(v) : v \in held}
ReadsBack(results, names) ==
    /\ Len(results) = Len(names)
    /\ \A i \in DOMAIN names :
          LET leaves == LeavesOf(names[i])
              held == {values.model[leaf] : leaf \in leaves}
          IN  IF leaves = {} THEN ~results[i].ok /\ results[i].code = ACCESS_OBJECT_NON_EXISTENT
              ELSE /\ results[i].ok
                   /\ {results[i].items[k] : k \in {j \in DOMAIN results[i].items : ~Container(results[i].items[j])}}
                      = Instants(held)
WritesLand(errors, names, data) ==
    LET done == {i \in DOMAIN names : errors[i] = <<>>}
        written == UNION {LeavesOf(names[i]) : i \in done}
    IN  /\ Len(errors) = Len(names)
        /\ \A leaf \in DOMAIN values.model \ written : values.model[leaf] = values.before[leaf]
        /\ \A leaf \in written : leaf[2][2] \in WRITABLE_FCS
        /\ \A i \in done : i = Max(done) => {values.model[leaf] : leaf \in LeavesOf(names[i])} = {Sent(v) : v \in {u \in Range(data[i]) : ~Container(u)}}
        /\ \A i \in DOMAIN names \ done : errors[i][1] \in {ACCESS_OBJECT_NON_EXISTENT, ACCESS_OBJECT_ACCESS_DENIED,
                                                           ACCESS_TYPE_INCONSISTENT}
NamesComplete(call, size) ==
    LET all == Names(Model, call.class, call.domain)
        short == {i \in DOMAIN all : \A j \in 1..i : Len(all[j]) + 2 <= size - 64}
    IN  NamesAfter(call.class, call.domain, <<>>, Model, Server(size)) = SubSeq(all, 1, Cardinality(short))
ServesModel ==
    bench = "service" /\ input # Idle =>
        LET answer == input.answer
            names == input.call.names
            served == answer.ok /\ answer.kind = "response"
        IN  CASE input.op = "read" -> served /\ ReadsBack(ReadResults(answer.content).results, names)
              [] input.op = "readSet" ->
                    IF names[1] \in DOMAIN Sets
                    THEN served /\ ReadsBack(ReadResults(answer.content).results, Sets[names[1]])
                    ELSE answer.kind = "error" /\ answer.class = 2 /\ answer.code = 1
              [] input.op = "write" -> served /\ WritesLand(WriteErrors(answer.content).errors, names, input.call.data)
              [] input.op = "type" ->
                    LET node == NodeOf(Model, names[1])
                    IN  IF node = <<>> THEN answer.kind = "error"
                        ELSE served /\ TypeGiven(answer.content) = Described(node[1])
              [] input.op = "members" ->
                    IF names[1] \in DOMAIN Sets THEN served /\ MembersGiven(answer.content).names = Sets[names[1]]
                    ELSE answer.kind = "error"
              [] input.op = "names" ->
                    /\ input.octets <= input.size
                    /\ NamesComplete(input.call, input.size)
              [] input.op = "unknown" ->
                    /\ answer.kind = "reject" /\ answer.invoke = <<1>>
                    /\ values.model = values.before
                    /\ ~Handle(ConcludeRequest, Model, Server(input.size)).on

(* A report arrives as it was meant: the options of the block, each        *)
(* optional field once and in its place, and each member included with its *)
(* own value, reference and reason (_send, decode_report).                 *)
ReportArrives ==
    bench = "report" =>
        LET rcb == input.rcb
            entry == input.entry
            opt == IF rcb.buffered THEN rcb.optFlds ELSE rcb.optFlds \ {BufOvfl, EntryIdBit}
            said(flag, i) == IF flag \in opt THEN <<i>> ELSE <<>>
            order == InOrder(entry.indexes, <)
            notice == DecodePdu(InformationReport(entry.values, <<>>, rcb.members))
        IN
        /\ notice.ok /\ notice.variables = rcb.members /\ notice.results = entry.values
        /\ \E report \in {ReportOf(DecodePdu(SendReport(rcb, entry)))} :
            LET item(field) == LET r == ReadAs(report, field) IN IF r = <<>> THEN <<>> ELSE <<r[1].item>> IN
            /\ report.ok
            /\ report.opt = opt
            /\ report.size = Len(rcb.members)
            /\ item("rptId") = <<Item("visible", rcb.rptId)>>
            /\ item("sqNum") = said(SeqNum, Item("uint", <<rcb.sqNum>>))
            /\ item("time") = said(TimeStamp, Item("btime", entry.time))
            /\ item("datSet") = said(DataSet, Item("visible", rcb.datSet))
            /\ item("bufOvfl") = said(BufOvfl, Item("bool", <<IF rcb.overflowed THEN 1 ELSE 0>>))
            /\ item("entryId") = said(EntryIdBit, Item("octets", Octets(entry.id, 8)))
            /\ item("confRev") = said(ConfRev, Item("uint", <<rcb.confRev>>))
            /\ [k \in DOMAIN report.entries |-> report.entries[k].index] = order
            /\ \A k \in DOMAIN order :
                  /\ report.entries[k].value = entry.values[order[k]]
                  /\ report.entries[k].reason = said(Reason, entry.reasons[order[k]])
                  /\ report.entries[k].reference =
                        said(DataReference, rcb.members[order[k]].domain[1] \o <<47>> \o rcb.members[order[k]].item)
=============================================================================
