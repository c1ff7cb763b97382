----------------------------- MODULE GooseCodec -----------------------------
(***************************************************************************)
(* The IECGoosePdu as goose.py and goose.rs read and write it: a lenient   *)
(* reading that finds the fields by tag number, and a strict one that also *)
(* refuses what IEC 61850-8-1 does not allow.  A GoosePDU is a record;     *)
(* an optional field is a sequence of at most one value.                   *)
(***************************************************************************)
EXTENDS NativeBer

CONSTANTS StringMax,  \* longest VisibleString of a header field: 129
          U32Octets   \* octets of an INT32U with its leading 00: 5

TagGoosePdu == <<97>>
GOCB_REF == 0
TAL == 1
DAT_SET == 2
GO_ID == 3
T == 4
ST_NUM == 5
SQ_NUM == 6
SIMULATION == 7
CONF_REV == 8
NDS_COM == 9
NUM_ENTRIES == 10
ALL_DATA == 11
Counters == {TAL, ST_NUM, SQ_NUM, CONF_REV, NUM_ENTRIES}
Mandatory == Counters \union {GOCB_REF, DAT_SET, T}

(* The content of each field by number; the last occurrence wins. *)
LastOf(numbers, ts) ==
    [n \in Range(numbers) |-> ts[Max({i \in DOMAIN ts : numbers[i] = n})].value]

FieldOr(fields, n, default) == IF n \in DOMAIN fields THEN fields[n] ELSE default
Optional(fields, n) == IF n \in DOMAIN fields THEN <<fields[n]>> ELSE <<>>
LenientBool(content) == IF content # <<>> /\ content[1] # 0 THEN 1 ELSE 0

(* _counter: any form, refused when empty or above 64 bits. *)
IsCounter(content) ==
    content # <<>> /\ \A i \in DOMAIN content : content[i] # 0 => Len(content) - i < WordOctets

(***************************************************************************)
(* Lenient reading                                                         *)
(***************************************************************************)
DecodeGoosePdu(apdu) ==
    LET outer == DecodeTlv(apdu, 1)
        ts == Tlvs(outer.value)
        byNumber(of) == LastOf([i \in DOMAIN of |-> TagNumber(of[i].tag)], of)
        fields == byNumber(ts)
        data == DecodeDataSequence(FieldOr(fields, ALL_DATA, <<>>))
    IN  IF \/ ~outer.ok
           \/ outer.tag # TagGoosePdu
           \/ ~Tiled(ts)
           \/ ~(Mandatory \subseteq DOMAIN fields)
           \/ Len(fields[T]) < 8
           \/ \E n \in Counters : ~IsCounter(fields[n])
           \/ ~data.ok
        THEN BerError
        ELSE [ok |-> TRUE,
              gocbRef |-> Text(fields[GOCB_REF]), datSet |-> Text(fields[DAT_SET]),
              goID |-> [i \in DOMAIN Optional(fields, GO_ID) |-> Text(fields[GO_ID])],
              t |-> SubSeq(fields[T], 1, 8),
              counters |-> [n \in Counters |-> Unsigned(fields[n])],
              simulation |-> LenientBool(FieldOr(fields, SIMULATION, <<>>)),
              ndsCom |-> LenientBool(FieldOr(fields, NDS_COM, <<>>)),
              allData |-> data.items]

(* tag_number_at: from the identifier octets, saturating. *)
NativeTagNumber(d, at) ==
    LET last == Min({i \in at + 1 .. Len(d) : d[i] < 128})
        push(n, o) == IF n >= 2 ^ (8 * TagOctets - 7) THEN 2 ^ (8 * TagOctets) - 1 ELSE 128 * n + (o % 128)
    IN  IF ~HighNumber(d[at]) THEN d[at] % 32 ELSE FoldLeft(push, 0, SubSeq(d, at + 1, last))

(* The message of its fields. *)
NativePdu(fields) ==
    LET data == FieldOr(fields, ALL_DATA, <<>>)
    IN  IF \/ \E n \in Mandatory : n \notin DOMAIN fields
           \/ \E n \in Counters : ~NativeUnsigned(fields[n]).ok
           \/ Len(fields[T]) < 8
           \/ ~CheckSequence(data).ok
        THEN BerError
        ELSE [ok |-> TRUE,
              gocbRef |-> fields[GOCB_REF], datSet |-> fields[DAT_SET], goID |-> Optional(fields, GO_ID),
              t |-> SubSeq(fields[T], 1, 8),
              counters |-> [n \in Counters |-> NativeUnsigned(fields[n]).n],
              simulation |-> LenientBool(FieldOr(fields, SIMULATION, <<>>)),
              ndsCom |-> LenientBool(FieldOr(fields, NDS_COM, <<>>)),
              allData |-> Values(data, 1)]

NativeDecodeGoose(apdu) ==
    Then(NativeTlv(apdu, 1), LAMBDA outer : With(NativeTlvs(outer.value), LAMBDA ts :
        LET start(i) == IF i = 1 THEN 1 ELSE ts[i - 1].end
        IN  IF outer.tag # TagGoosePdu \/ ~Tiled(ts) THEN BerError
            ELSE NativePdu(LastOf([i \in DOMAIN ts |-> NativeTagNumber(outer.value, start(i))], ts))))

(***************************************************************************)
(* Strict reading: the first thing that is not conformant                  *)
(***************************************************************************)
Conformant == "conformant"

(* The name of the first check that fails. *)
FirstOf(checks) ==
    LET failed == {i \in DOMAIN checks : checks[i][2]}
    IN  IF failed = {} THEN Conformant ELSE checks[Min(failed)][1]

Visible(octets) == \A i \in DOMAIN octets : octets[i] \in 32..126
ExpectedTag(number) == IF number = ALL_DATA THEN <<171>> ELSE <<128 + number>>

WrongOrderDeviation(ts) ==
    LET number(i) == Last(ts[i].tag) % 32
    IN  FirstOf([k \in 1 .. 2 * Len(ts) |->
                   LET i == (k + 1) \div 2
                   IN  IF k % 2 = 1
                       THEN <<"NotAField", ts[i].tag # ExpectedTag(number(i)) \/ number(i) > ALL_DATA>>
                       ELSE <<"OutOfOrder", i > 1 /\ number(i) < number(i - 1)>>])

(* The fields in their order: the first TLV that is not the next field. *)
OrderDeviation(ts) ==
    LET number(i) == Last(ts[i].tag) % 32
    IN  FirstOf([k \in 1 .. 2 * Len(ts) |->
                   LET i == (k + 1) \div 2
                   IN  IF k % 2 = 1
                       THEN <<"NotAField", ts[i].tag # ExpectedTag(number(i)) \/ number(i) > ALL_DATA>>
                       ELSE <<"OutOfOrder", i > 1 /\ number(i) <= number(i - 1)>>])

HeaderDeviation(fields) ==
    FirstOf(<<
      <<"NotVisibleString129", \E n \in {GOCB_REF, DAT_SET, GO_ID} :
            \/ Len(FieldOr(fields, n, <<>>)) > StringMax
            \/ ~Visible(FieldOr(fields, n, <<>>))>>,
      <<"EmptyGocbRef", fields[GOCB_REF] = <<>> >>,
      <<"TimeSize", Len(fields[T]) # 8>>,
      <<"Above32Bits", \E n \in Counters :
            \/ Len(fields[n]) > U32Octets
            \/ Len(fields[n]) = U32Octets /\ fields[n][1] # 0>>,
      <<"BooleanSize", \E n \in {SIMULATION, NDS_COM} : Len(FieldOr(fields, n, <<0>>)) # 1>>,
      <<"NoAllData", ALL_DATA \notin DOMAIN fields>> >>)

DataSizes(tag) ==
    CASE tag = TagBoolean -> {1}
      [] tag = TagFloat -> {5, 9}
      [] tag = TagBinaryTime -> {4, 6}
      [] tag = TagUtcTime -> {8}
      [] OTHER -> Nat

IsContainer(tag) == Last(tag) % 32 \in {1, 2}
ValueDeviation(tag, value) ==
    LET constructed == (tag[1] \div 32) % 2 = 1
        wrongForm == Len(tag) > 1 \/ tag[1] \notin 128..191 \/ HighNumber(tag[1])
                     \/ constructed # IsContainer(tag)
    IN  FirstOf(<<
          <<"NotAData", wrongForm>>,
          <<"DataSize", ~IsContainer(tag) /\ Len(value) \notin DataSizes(tag)>>,
          <<"BitStringUnused", tag = TagBitString /\ (value = <<>> \/ value[1] > 7)>>,
          <<"EmptyInteger", tag \in {TagInteger, TagUnsigned} /\ value = <<>> >>,
          <<"DataNotVisible", tag = TagVisibleString /\ ~Visible(value)>> >>)

RECURSIVE CheckStrictData(_, _)
CheckStrictData(d, at) ==
    LET t == DecodeTlv(d, at)
        deviation == ValueDeviation(t.tag, t.value)
    IN  IF at > Len(d) THEN Conformant
        ELSE IF deviation # Conformant THEN deviation
        ELSE CheckStrictData(d, IF IsContainer(t.tag) THEN t.end - Len(t.value) ELSE t.end)

CheckStrict(apdu) ==
    LET outer == DecodeTlv(apdu, 1)
        ts == Tlvs(outer.value)
        fields == LastOf([i \in DOMAIN ts |-> Last(ts[i].tag) % 32], ts)
        entries == Len(Tlvs(fields[ALL_DATA]))
    IN  IF outer.end # Len(apdu) + 1 THEN "OctetsAfterPdu"
        ELSE IF OrderDeviation(ts) # Conformant THEN OrderDeviation(ts)
        ELSE IF HeaderDeviation(fields) # Conformant THEN HeaderDeviation(fields)
        ELSE IF entries # Unsigned(fields[NUM_ENTRIES]) THEN "EntriesMismatch"
        ELSE CheckStrictData(fields[ALL_DATA], 1)

RECURSIVE NativeStrictData(_, _)
NativeStrictData(d, at) ==
    LET t == NativeTlv(d, at)
        deviation == ValueDeviation(t.tag, t.value)
    IN  IF at > Len(d) \/ ~t.ok THEN Conformant
        ELSE IF deviation # Conformant THEN deviation
        ELSE NativeStrictData(d, IF IsContainer(t.tag) THEN t.end - Len(t.value) ELSE t.end)

NativeStrict(apdu) ==
    LET outer == NativeTlv(apdu, 1)
        ts == SelectSeq(NativeTlvs(outer.value), LAMBDA t : t.ok)
        fields == LastOf([i \in DOMAIN ts |-> Last(ts[i].tag) % 32], ts)
        declared == NativeUnsigned(fields[NUM_ENTRIES])
    IN  IF outer.end # Len(apdu) + 1 THEN "OctetsAfterPdu"
        ELSE IF OrderDeviation(ts) # Conformant THEN OrderDeviation(ts)
        ELSE IF HeaderDeviation(fields) # Conformant THEN HeaderDeviation(fields)
        ELSE IF ~declared.ok \/ declared.n # Len(NativeTlvs(fields[ALL_DATA])) THEN "EntriesMismatch"
        ELSE NativeStrictData(fields[ALL_DATA], 1)

(***************************************************************************)
(* Writing                                                                 *)
(***************************************************************************)
EncodeGoosePdu(pdu) ==
    LET ctx(n, content) == EncodeTlv(<<128 + n>>, content)
        counter(n) == ctx(n, EncodeInteger(pdu.counters[n]))
    IN  EncodeTlv(TagGoosePdu,
          ctx(GOCB_REF, pdu.gocbRef) \o counter(TAL) \o ctx(DAT_SET, pdu.datSet)
          \o FlattenSeq([i \in DOMAIN pdu.goID |-> ctx(GO_ID, pdu.goID[i])])
          \o ctx(T, pdu.t) \o counter(ST_NUM) \o counter(SQ_NUM)
          \o ctx(SIMULATION, EncodeBoolean(pdu.simulation))
          \o counter(CONF_REV) \o ctx(NDS_COM, EncodeBoolean(pdu.ndsCom)) \o counter(NUM_ENTRIES)
          \o EncodeTlv(<<171>>, EncodeSequence(pdu.allData)))

(* Fields::content_len: the sizes, before anything is written. *)
GooseContentLen(pdu) ==
    LET tlv(n) == TlvLen(<<128>>, n)
        counter(n) == tlv(IntegerLen(pdu.counters[n]))
    IN  tlv(Len(pdu.gocbRef)) + counter(TAL) + tlv(Len(pdu.datSet))
        + (IF pdu.goID = <<>> THEN 0 ELSE tlv(Len(pdu.goID[1])))
        + tlv(8) + counter(ST_NUM) + counter(SQ_NUM) + tlv(1) + counter(CONF_REV) + tlv(1)
        + counter(NUM_ENTRIES) + TlvLen(<<171>>, SequenceLen(pdu.allData).len)

NativeGooseLen(pdu) == TlvLen(TagGoosePdu, GooseContentLen(pdu))

(* Fields::write: every header carries a length measured beforehand. *)
NativeEncodeGoose(pdu) ==
    LET header(tag, n) == tag \o EncodeLength(n)
        ctx(n, content) == header(<<128 + n>>, Len(content)) \o content
        counter(n) == ctx(n, NativeInteger(pdu.counters[n]))
    IN  header(TagGoosePdu, GooseContentLen(pdu))
        \o ctx(GOCB_REF, pdu.gocbRef) \o counter(TAL) \o ctx(DAT_SET, pdu.datSet)
        \o (IF pdu.goID = <<>> THEN <<>> ELSE ctx(GO_ID, pdu.goID[1]))
        \o ctx(T, pdu.t) \o counter(ST_NUM) \o counter(SQ_NUM)
        \o ctx(SIMULATION, EncodeBoolean(pdu.simulation))
        \o counter(CONF_REV) \o ctx(NDS_COM, EncodeBoolean(pdu.ndsCom)) \o counter(NUM_ENTRIES)
        \o header(<<171>>, SequenceLen(pdu.allData).len) \o WriteSequence(pdu.allData)
=============================================================================
