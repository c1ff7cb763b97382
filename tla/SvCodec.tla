------------------------------ MODULE SvCodec ------------------------------
(***************************************************************************)
(* The SavPdu as sv.py and sv.rs read and write it.  A PDU is a record     *)
(* [security, asdus]; an ASDU maps the number of each field it has to its  *)
(* content octets, read back by its number: the sizes of smpCnt, confRev,  *)
(* smpSynch, smpRate and smpMod are fixed, so the octets are the value.    *)
(***************************************************************************)
EXTENDS GooseCodec

TagSavPdu == <<96>>
TagNoAsdu == <<128>>
TagSecurity == <<161>>
TagSeqAsdu == <<162>>
TagAsdu == <<48>>

RequiredFields == {0, 2, 3, 5, 7}  \* svID, smpCnt, confRev, smpSynch, sample
FixedSize == [n \in {2, 3, 5, 6, 8} |-> CASE n = 3 -> 4 [] n = 5 -> 1 [] OTHER -> 2]

(***************************************************************************)
(* Python: a dictionary of the tags, then the values                       *)
(***************************************************************************)
(* _asdu_fields: a loop of its own, with its own fast path. *)
RECURSIVE AsduTlvs(_, _)
AsduTlvs(d, at) ==
    LET fast == at + 1 <= Len(d) /\ d[at + 1] < 128 /\ ~HighNumber(d[at])
        end == at + 2 + d[at + 1]
    IN  IF at > Len(d) THEN <<>>
        ELSE With(IF ~fast THEN DecodeTlv(d, at)
                  ELSE IF end > Len(d) + 1 THEN BerError
                  ELSE [ok |-> TRUE, tag |-> <<d[at]>>, value |-> SubSeq(d, at + 2, end - 1), end |-> end],
                  LAMBDA t : <<t>> \o (IF t.ok THEN AsduTlvs(d, t.end) ELSE <<>>))

(* tag - 0x80 is the number of a field only for the tags 0x80 to 0x89. *)
FieldNumber(tag) == IF Len(tag) = 1 /\ tag[1] >= 128 THEN tag[1] - 128 ELSE 999

ByField(ts) == LastOf([i \in DOMAIN ts |-> FieldNumber(ts[i].tag)], ts)

DecodeAsdu(content) ==
    With(AsduTlvs(content, 1), LAMBDA ts : IF ~Tiled(ts) THEN BerError ELSE With(ByField(ts), LAMBDA fields :
        LET present == DOMAIN fields \intersect 0..9
        IN  IF \/ ~(RequiredFields \subseteq present)
               \/ \E n \in present \intersect DOMAIN FixedSize : Len(fields[n]) # FixedSize[n]
               \/ 4 \in present /\ Len(fields[4]) < 8
            THEN BerError
            ELSE [ok |-> TRUE,
                  asdu |-> [n \in present |->
                              CASE n \in {0, 1} -> Text(fields[n])
                                [] n = 4 -> SubSeq(fields[n], 1, 8)
                                [] OTHER -> fields[n]]]))

(* Of the items of every seqASDU, in order. *)
DecodeItems(items) ==
    [i \in DOMAIN items |-> IF items[i].ok /\ items[i].tag = TagAsdu THEN DecodeAsdu(items[i].value) ELSE BerError]

DecodeSvPdu(apdu) ==
    Then(DecodeTlv(apdu, 1), LAMBDA outer : With(Tlvs(outer.value), LAMBDA ts :
    LET with(tag) == {i \in DOMAIN ts : ts[i].tag = tag}
        noAsdu == ts[Max(with(TagNoAsdu))].value
        security == with(TagSecurity)
        pdu(asdus) ==
            IF \/ ~Tiled(asdus)
               \/ with(TagNoAsdu) = {}
               \/ Unsigned(noAsdu) # Len(asdus)
            THEN BerError
            ELSE [ok |-> TRUE,
                  security |-> IF security = {} THEN <<>> ELSE <<ts[Max(security)].value>>,
                  asdus |-> [i \in DOMAIN asdus |-> asdus[i].asdu]]
    IN  IF \/ outer.tag # TagSavPdu
           \/ ~Tiled(ts)
           \/ \E i \in with(TagNoAsdu) : ts[i].value = <<>>
        THEN BerError
        ELSE pdu(DecodeItems(FlattenSeq([i \in DOMAIN ts |->
                                           IF i \in with(TagSeqAsdu) THEN Tlvs(ts[i].value) ELSE <<>>])))))

(***************************************************************************)
(* Native: one pass that counts, then a second walk over the same octets   *)
(***************************************************************************)
NativeAsdu(content) ==
    With(NativeTlvs(content), LAMBDA ts : IF ~Tiled(ts) THEN BerError ELSE With(ByField(ts), LAMBDA fields :
        LET present == {n \in 0..9 : n \in DOMAIN fields}
        IN  IF \/ \E n \in RequiredFields : n \notin present
               \/ 4 \in present /\ Len(fields[4]) < 8
               \/ \E n \in DOMAIN FixedSize : n \in present /\ Len(fields[n]) # FixedSize[n]
            THEN BerError
            ELSE [ok |-> TRUE, asdu |-> [n \in present |-> IF n = 4 THEN SubSeq(fields[4], 1, 8) ELSE fields[n]]]))

(* The state of decode_pdu_with after one more TLV of the PDU. *)
PassOne(s, t) ==
    LET pass(c, item) ==
            IF ~c.ok \/ ~item.ok THEN BerError
            ELSE IF item.tag # TagAsdu \/ ~NativeAsdu(item.value).ok THEN BerError
            ELSE [c EXCEPT !.count = @ + 1]
    IN  IF ~s.ok \/ ~t.ok THEN BerError
        ELSE CASE t.tag = TagNoAsdu -> IF t.value = <<>> THEN BerError ELSE [s EXCEPT !.noAsdu = <<t.value>>]
               [] t.tag = TagSecurity -> [s EXCEPT !.security = <<t.value>>]
               [] t.tag = TagSeqAsdu -> FoldLeft(pass, s, NativeTlvs(t.value))
               [] OTHER -> s

NativeDecodeSv(apdu) ==
    LET start == [ok |-> TRUE, noAsdu |-> <<>>, security |-> <<>>, count |-> 0]
    IN  Then(NativeTlv(apdu, 1), LAMBDA outer :
            IF outer.tag # TagSavPdu THEN BerError
            ELSE Then(FoldLeft(PassOne, start, NativeTlvs(outer.value)), LAMBDA end :
                 IF end.noAsdu = <<>> THEN BerError
                 ELSE Then(NativeUnsigned(end.noAsdu[1]), LAMBDA declared :
                           IF declared.n # end.count THEN BerError
                           ELSE [ok |-> TRUE, security |-> end.security, count |-> end.count,
                                 content |-> outer.value])))

(* SvPdu::asdus: ends at the first item that cannot be read. *)
NativeAsdus(content) ==
    LET upTo(read) ==
            LET bad == {i \in DOMAIN read : ~read[i].ok}
                n == IF bad = {} THEN Len(read) ELSE Min(bad) - 1
            IN  [i \in 1..n |-> read[i].asdu]
    IN  With(NativeTlvs(content), LAMBDA outer :
        With(FlattenSeq([i \in DOMAIN outer |->
                IF outer[i].ok /\ outer[i].tag = TagSeqAsdu THEN NativeTlvs(outer[i].value) ELSE <<>>]), LAMBDA items :
             upTo([i \in DOMAIN items |-> Then(items[i], LAMBDA item : NativeAsdu(item.value))])))

(***************************************************************************)
(* Writing                                                                 *)
(***************************************************************************)
EncodeAsdu(asdu) ==
    EncodeTlv(TagAsdu,
      FlattenSeq([k \in 1..10 |->
        IF k - 1 \in DOMAIN asdu THEN EncodeTlv(<<128 + k - 1>>, asdu[k - 1]) ELSE <<>>]))

EncodeSvPdu(pdu) ==
    EncodeTlv(TagSavPdu,
      EncodeTlv(TagNoAsdu, EncodeInteger(Len(pdu.asdus)))
      \o FlattenSeq([i \in DOMAIN pdu.security |-> EncodeTlv(TagSecurity, pdu.security[i])])
      \o EncodeTlv(TagSeqAsdu, FlattenSeq([i \in DOMAIN pdu.asdus |-> EncodeAsdu(pdu.asdus[i])])))
=============================================================================
