----------------------------- MODULE NativeBer -----------------------------
(***************************************************************************)
(* The same reading and writing by the native engine: ber.rs and data.rs.  *)
(* Its numbers have a width: a tag of more than TagOctets octets and a     *)
(* length above UsizeMax saturate, an integer of more than WordOctets      *)
(* octets does not fit.  It builds no tree: a first pass checks the        *)
(* structures, an iterator yields the values in preorder, and a list is    *)
(* measured before it is written.                                          *)
(***************************************************************************)
EXTENDS Ber

CONSTANTS TagOctets,   \* octets of a u32: 4
          WordOctets,  \* octets of an i64 or u64: 8
          UsizeMax,    \* usize::MAX
          MaxDepth     \* MAX_DEPTH of nesting, 32

TagMax == [i \in 1..TagOctets |-> 255]

NativeTag(d, at) ==
    LET last == {i \in at + 1 .. Len(d) : d[i] < 128}
    IN  IF at > Len(d) \/ (HighNumber(d[at]) /\ last = {}) THEN BerError
        ELSE LET end == IF HighNumber(d[at]) THEN Min(last) ELSE at
                 push(tag, o) == IF Len(tag) >= TagOctets THEN TagMax ELSE Append(tag, o)
             IN  [ok |-> TRUE, tag |-> FoldLeft(push, <<>>, SubSeq(d, at, end)), at |-> end + 1]

NativeLength(d, at) ==
    IF at > Len(d) THEN BerError
    ELSE IF d[at] < 128 THEN [ok |-> TRUE, len |-> d[at], at |-> at + 1]
    ELSE LET n == d[at] - 128
             push(len, o) == Min({Min({256 * len, UsizeMax}) + o, UsizeMax})
         IN  IF n = 0 \/ at + n > Len(d) THEN BerError
             ELSE [ok |-> TRUE, len |-> FoldLeft(push, 0, SubSeq(d, at + 1, at + n)), at |-> at + n + 1]

NativeTlv(d, at) ==
    LET fast == at + 1 <= Len(d) /\ ~HighNumber(d[at]) /\ d[at + 1] < 128
    IN  Then(IF fast THEN [ok |-> TRUE, tag |-> <<d[at]>>, at |-> at + 1] ELSE NativeTag(d, at), LAMBDA t :
        Then(IF fast THEN [ok |-> TRUE, len |-> d[at + 1], at |-> at + 2] ELSE NativeLength(d, t.at), LAMBDA l :
             IF l.len > Len(d) + 1 - l.at THEN BerError
             ELSE [ok |-> TRUE, tag |-> t.tag, value |-> SubSeq(d, l.at, l.at + l.len - 1),
                   end |-> l.at + l.len]))

RECURSIVE NativeTlvsFrom(_, _)
NativeTlvsFrom(d, at) ==
    IF at > Len(d) THEN <<>>
    ELSE With(NativeTlv(d, at), LAMBDA t : <<t>> \o (IF t.ok THEN NativeTlvsFrom(d, t.end) ELSE <<>>))
NativeTlvs(d) == NativeTlvsFrom(d, 1)

(* decode_unsigned: leading zeros are skipped, then WordOctets at most. *)
NativeUnsigned(content) ==
    LET significant == {i \in DOMAIN content : content[i] # 0}
        first == IF significant = {} THEN Len(content) + 1 ELSE Min(significant)
    IN  IF content = <<>> \/ Len(content) + 1 - first > WordOctets THEN BerError
        ELSE [ok |-> TRUE, n |-> Unsigned(SubSeq(content, first, Len(content)))]

(* signed: sign octets that repeat the next one are skipped. *)
RECURSIVE Stripped(_)
Stripped(v) ==
    IF Len(v) > 1 /\ v[1] \in {0, 255} /\ (v[1] >= 128) = (v[2] >= 128) THEN Stripped(Tail(v)) ELSE v

NativeSigned(content) ==
    IF content = <<>> THEN [ok |-> TRUE, n |-> 0]
    ELSE IF Len(Stripped(content)) > WordOctets THEN BerError
    ELSE [ok |-> TRUE, n |-> DecodeInteger(Stripped(content))]

(***************************************************************************)
(* Reading a sequence of Data                                              *)
(***************************************************************************)
(* One pass over every value, that checks the members of each structure on *)
(* their own and then steps into it.                                       *)
RECURSIVE Checked(_, _)
Checked(d, at) ==
    at > Len(d) \/
    LET t == NativeTlv(d, at)
    IN  /\ t.ok
        /\ IF t.tag \in {TagStructure, TagArray}
           THEN Tiled(NativeTlvs(t.value)) /\ Checked(d, t.end - Len(t.value))
           ELSE Checked(d, t.end)

WrongCheckSequence(d) ==
    IF Tiled(NativeTlvs(d)) THEN [ok |-> TRUE, count |-> Len(NativeTlvs(d))] ELSE BerError

CheckSequence(d) ==
    IF Tiled(NativeTlvs(d)) /\ Checked(d, 1) THEN [ok |-> TRUE, count |-> Len(NativeTlvs(d))]
    ELSE BerError

DecodeValue(tag, value) ==
    LET raw == Item("raw", <<Len(tag)>> \o tag \o value)
    IN  CASE tag = TagBoolean -> Item("bool", <<IF value # <<>> /\ value[1] # 0 THEN 1 ELSE 0>>)
          [] tag = TagBitString -> Item("bits", IF value = <<>> THEN <<0>> ELSE value)
          [] tag = TagInteger /\ NativeSigned(value).ok -> Item("int", <<NativeSigned(value).n>>)
          [] tag = TagUnsigned /\ value = <<>> -> Item("uint", <<0>>)
          [] tag = TagUnsigned /\ NativeUnsigned(value).ok -> Item("uint", <<NativeUnsigned(value).n>>)
          [] tag = TagFloat /\ Len(value) = 5 -> Item("float32", Tail(value))
          [] tag = TagFloat /\ Len(value) = 9 -> Item("float64", Tail(value))
          [] tag = TagOctetString -> Item("octets", value)
          [] tag \in VisibleTags -> Item("visible", value)
          [] tag = TagBinaryTime /\ Len(value) = 6 -> Item("btime", value)
          [] tag = TagMmsString -> Item("mms", value)
          [] tag = TagUtcTime /\ Len(value) >= 8 -> Item("utc", SubSeq(value, 1, 8))
          [] tag = TagArray -> Item("array", <<Len(NativeTlvs(value))>>)
          [] tag = TagStructure -> Item("struct", <<Len(NativeTlvs(value))>>)
          [] OTHER -> raw

(* The values of a checked sequence, from an offset on. *)
RECURSIVE Values(_, _)
Values(d, at) ==
    IF at > Len(d) \/ ~NativeTlv(d, at).ok THEN <<>>
    ELSE LET t == NativeTlv(d, at)
             v == DecodeValue(t.tag, t.value)
         IN  <<v>> \o Values(d, IF Container(v) THEN t.end - Len(t.value) ELSE t.end)

(***************************************************************************)
(* Writing a sequence of Data                                              *)
(***************************************************************************)
LengthLen(n) == IF n < 128 THEN 1 ELSE 1 + ((BitLength(n) + 7) \div 8)
TlvLen(tag, n) == Len(tag) + LengthLen(n) + n

IntegerLen(v) == BitLength(IF v < 0 THEN -v - 1 ELSE v) \div 8 + 1
NativeInteger(v) == Octets(v, IntegerLen(v))

LeafLen(item) ==
    CASE item.kind = "bool" -> 1
      [] item.kind \in {"int", "uint"} -> IntegerLen(item.val[1])
      [] item.kind = "float32" -> 5
      [] item.kind = "float64" -> 9
      [] item.kind = "utc" -> 8
      [] item.kind = "btime" -> 6
      [] item.kind = "raw" -> Len(item.val) - 1 - item.val[1]
      [] OTHER -> Len(item.val)

(* Content length of the value at i and the index after its members, or an *)
(* error: members are missing, too many levels, more than 7 unused bits.   *)
RECURSIVE Measure(_, _, _)
Measure(items, i, depth) ==
    LET sum(m, k) ==
            LET one == Measure(items, m.next, depth + 1)
            IN  IF ~m.ok \/ ~one.ok THEN BerError
                ELSE [m EXCEPT !.len = @ + TlvLen(TagOf(items[m.next]), one.len), !.next = one.next]
    IN  IF i > Len(items) THEN BerError
        ELSE IF Container(items[i])
        THEN IF depth >= MaxDepth THEN BerError
             ELSE FoldLeft(sum, [ok |-> TRUE, len |-> 0, next |-> i + 1], [k \in 1..items[i].val[1] |-> k])
        ELSE IF items[i].kind = "bits" /\ items[i].val[1] > 7 THEN BerError
        ELSE [ok |-> TRUE, len |-> LeafLen(items[i]), next |-> i + 1]

RECURSIVE SequenceLenFrom(_, _)
SequenceLenFrom(items, i) ==
    IF i > Len(items) THEN [ok |-> TRUE, len |-> 0]
    ELSE LET one == Measure(items, i, 0)
             others == SequenceLenFrom(items, one.next)
         IN  IF ~one.ok THEN BerError
             ELSE IF ~others.ok THEN BerError
             ELSE [others EXCEPT !.len = @ + TlvLen(TagOf(items[i]), one.len)]
SequenceLen(items) == SequenceLenFrom(items, 1)

(* A header with the measured length, then the content; a structure is     *)
(* only its header: its members are the next values of the list.           *)
WriteOne(items, i) ==
    TagOf(items[i]) \o EncodeLength(Measure(items, i, 0).len)
    \o (CASE Container(items[i]) -> <<>>
          [] items[i].kind \in {"int", "uint"} -> NativeInteger(items[i].val[1])
          [] OTHER -> Content(items[i]))

WriteSequence(items) == FlattenSeq([i \in DOMAIN items |-> WriteOne(items, i)])
=============================================================================
