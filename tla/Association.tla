---------------------------- MODULE Association ----------------------------
(***************************************************************************)
(* How a client and the server agree: COTP and its segmentation            *)
(* (mms/transport.py), then the association in its four layers: Session,   *)
(* Presentation, ACSE and MMS initiate (mms/association.py on the client,  *)
(* server/protocol.py on the server).                                      *)
(*                                                                         *)
(* What a side proposes is a record [maxPdu, outstanding, nesting, title]; *)
(* what may be left out is a sequence of at most one value.                *)
(***************************************************************************)
EXTENDS Frames

CONSTANTS DefaultCode,  \* DEFAULT_TPDU_SIZE_CODE, 0x0A: TPDUs of 2^10 octets
          MaxCode       \* largest code the server takes: 0x0B

Error == [ok |-> FALSE, refused |-> FALSE]    \* MmsProtocolError, TransportError
Refusal == [ok |-> FALSE, refused |-> TRUE]   \* AssociationError

(***************************************************************************)
(* COTP                                                                    *)
(***************************************************************************)
CR == 14
CC == 13
DR == 8
DT == 15

ConnectionRequest(code, calling, called) ==
    LET body == <<16 * CR, 0, 0, 0, 1, 0, 192, 1, code>>
                \o <<194, Len(called)>> \o called \o <<193, Len(calling)>> \o calling
    IN  <<Len(body)>> \o body

(* The parameters of a CR or a CC; the last value may be cut. *)
RECURSIVE CotpParameters(_, _)
CotpParameters(d, at) ==
    IF at + 1 > Len(d) THEN <<>>
    ELSE <<[code |-> d[at], length |-> d[at + 1],
            value |-> SubSeq(d, at + 2, Min({at + 1 + d[at + 1], Len(d)}))]>>
         \o CotpParameters(d, at + 2 + d[at + 1])

SizeCodes(tpdu) ==
    SelectSeq(CotpParameters(tpdu, 8), LAMBDA p : p.code = 192 /\ p.length = 1 /\ p.value # <<>>)

(* accept_cotp: the server's answer and the size it will use. *)
AcceptCotp(cr) ==
    LET code == IF SizeCodes(cr) = <<>> THEN DefaultCode
                ELSE Min({Last(SizeCodes(cr)).value[1], MaxCode})
        echoed == SelectSeq(CotpParameters(cr, 8), LAMBDA p : p.code \in {193, 194})
        tsaps == FlattenSeq([i \in DOMAIN echoed |-> <<echoed[i].code, echoed[i].length>> \o echoed[i].value])
        body == <<16 * CC>> \o SubSeq(cr, 5, 6) \o <<0, 1, 0, 192, 1, code>> \o tsaps
    IN  IF Len(cr) < 7 \/ cr[2] \div 16 # CR THEN Error
        ELSE [ok |-> TRUE, cc |-> <<Len(body)>> \o body, size |-> 2 ^ code]

(* connect: what the client makes of the CC. *)
NegotiatedSize(cc) ==
    IF Len(cc) < 2 \/ cc[2] \div 16 # CC THEN Error
    ELSE [ok |-> TRUE, size |-> 2 ^ (IF SizeCodes(cc) = <<>> THEN DefaultCode
                                     ELSE Last(SizeCodes(cc)).value[1])]

(* send(): a TSDU in DT TPDUs of the size agreed, each in a TPKT. *)
Tpkt(payload) == <<3, 0>> \o Octets(4 + Len(payload), 2) \o payload
WrongSegments(tsdu, size) ==
    LET room == Max({1, size - 2})
        n == Max({1, (Len(tsdu) + room - 1) \div room})
    IN  [k \in 1..n |->
           <<2, 16 * DT, IF k * room >= Len(tsdu) THEN 128 ELSE 0>>
           \o SubSeq(tsdu, (k - 1) * room + 1, Min({k * room, Len(tsdu)}))]

Segments(tsdu, size) ==
    LET room == Max({1, size - 3})
        n == Max({1, (Len(tsdu) + room - 1) \div room})
    IN  [k \in 1..n |->
           <<2, 16 * DT, IF k * room >= Len(tsdu) THEN 128 ELSE 0>>
           \o SubSeq(tsdu, (k - 1) * room + 1, Min({k * room, Len(tsdu)}))]

(* recv(): one TSDU from what TCP delivers, whatever comes between.  The   *)
(* connection ends when the octets do.                                     *)
RECURSIVE Receive(_, _)
Receive(stream, chunks) ==
    LET n == Unsigned(SubSeq(stream, 3, 4))
        tpdu == SubSeq(stream, 5, n)
        rest == SubSeq(stream, n + 1, Len(stream))
        closed == [ok |-> TRUE, tsdu |-> <<>>]
        kind == tpdu[2] \div 16
    IN  IF Len(stream) < 4 THEN closed
        ELSE IF stream[1] # 3 \/ n < 4 THEN Error
        ELSE IF Len(stream) < n THEN closed
        ELSE IF Len(tpdu) < 2 THEN Error
        ELSE IF kind = DR THEN closed
        ELSE IF kind # DT THEN Receive(rest, chunks)
        ELSE IF Len(tpdu) < 3 THEN Error
        ELSE IF tpdu[3] >= 128
             THEN [ok |-> TRUE, tsdu |-> <<[data |-> chunks \o SubSeq(tpdu, 4, Len(tpdu)), rest |-> rest]>>]
        ELSE Receive(rest, chunks \o SubSeq(tpdu, 4, Len(tpdu)))

(***************************************************************************)
(* Session                                                                 *)
(***************************************************************************)
CONNECT == 13
ACCEPT == 14
REFUSE == 12
ABORT == 25
UserData == 193

SessionLength(n) == IF n < 255 THEN <<n>> ELSE <<255>> \o Octets(n, 2)
SessionParameter(code, value) == <<code>> \o SessionLength(Len(value)) \o value
Spdu(si, parameters) == <<si>> \o SessionLength(Len(parameters)) \o parameters
(* Protocol options and version, full duplex, then the rest. *)
SessionItems(more) ==
    SessionParameter(5, SessionParameter(19, <<0>>) \o SessionParameter(22, <<2>>))
    \o SessionParameter(20, <<0, 2>>) \o more

(* A length at an offset, in the short or the long form. *)
SessionLengthAt(d, at) ==
    IF d[at] = 255 THEN [len |-> Unsigned(SubSeq(d, at + 1, at + 2)), at |-> at + 3]
    ELSE [len |-> d[at], at |-> at + 1]

(* The parameters up to an offset; the last item of a code counts. *)
RECURSIVE SessionParameters(_, _, _)
SessionParameters(d, at, end) ==
    LET l == SessionLengthAt(d, at + 1)
        item == [ok |-> TRUE, code |-> d[at], value |-> SubSeq(d, l.at, l.at + l.len - 1)]
    IN  IF at >= end THEN <<>>
        ELSE IF at + 2 > end THEN <<Error>>
        ELSE IF l.at + l.len > end THEN <<Error>>
        ELSE <<item>> \o SessionParameters(d, l.at + l.len, end)

ParseSpdu(d) ==
    LET l == SessionLengthAt(d, 2)
        items == SessionParameters(d, l.at, l.at + l.len)
    IN  IF Len(d) < 2 THEN Error
        ELSE IF l.at + l.len > Len(d) + 1 THEN Error
        ELSE IF ~Tiled(items) THEN Error
        ELSE [ok |-> TRUE, si |-> d[1], items |-> LastOf([i \in DOMAIN items |-> items[i].code], items)]

(***************************************************************************)
(* Presentation, ACSE and MMS initiate                                     *)
(***************************************************************************)
OID_ACSE == <<2, 2, 1, 0, 1>>
OID_MMS == <<1, 0, 9506, 2, 1>>
OID_BER == <<2, 1, 1>>
OID_APPLICATION == <<1, 0, 9506, 2, 3>>
AcseContext == 1
MmsContext == 3

Tlv(tag, content) == EncodeTlv(<<tag>>, content)
IntTlv(v) == Tlv(2, EncodeInteger(v))
Oid(arcs) == Tlv(6, EncodeOid(arcs))
If(option, tag) == FlattenSeq([i \in DOMAIN option |-> Tlv(tag, EncodeInteger(option[i]))])

(* The content of each tag (_fields), and of the first TLV with a tag. *)
ByTag(ts) == LastOf([i \in DOMAIN ts |-> ts[i].tag[1]], ts)
FieldsIn(content) == ByTag(Tlvs(content))
FirstIn(content, tag) == SelectSeq(Tlvs(content), LAMBDA t : t.tag = <<tag>>)[1].value
Expect(d, tag) ==
    Then(DecodeTlv(d, 1), LAMBDA t : IF t.tag = <<tag>> THEN t ELSE BerError)
IntegerOr(fields, tag) == IF tag \in DOMAIN fields THEN <<DecodeInteger(fields[tag])>> ELSE <<>>

(* ServiceSupportOptions: what the server answers. *)
Served == {1, 2, 4, 5, 6, 12, 79, 83}
Bits(numbers, size) ==
    [i \in 1 .. (size + 7) \div 8 |->
       SumSet({2 ^ (7 - (n % 8)) : n \in {m \in numbers : m \div 8 = i - 1}})]
Supports(services, n) ==
    n \div 8 < Len(services) /\ (services[n \div 8 + 1] \div 2 ^ (7 - (n % 8))) % 2 = 1

Detail(services) == Tlv(128, EncodeInteger(1)) \o Tlv(129, <<5, 241, 0>>) \o Tlv(130, services)

InitiateRequest(p) ==
    Tlv(168, If(p.maxPdu, 128) \o If(<<p.outstanding>>, 129) \o If(<<p.outstanding>>, 130)
             \o If(p.nesting, 131) \o Tlv(164, Detail(<<3, 238, 28, 0, 0, 4, 8, 0, 0, 121, 239, 24>>)))

Aarq(p) ==
    Tlv(96, Tlv(161, Oid(OID_APPLICATION))
            \o FlattenSeq([i \in DOMAIN p.title |-> Tlv(162, Oid(p.title[i])) \o Tlv(163, IntTlv(12))])
            \o Tlv(166, Oid(<<1, 1, 1, 999>>)) \o Tlv(167, IntTlv(12))
            \o Tlv(190, Tlv(40, IntTlv(MmsContext) \o Tlv(160, InitiateRequest(p)))))

PresentationContext(id, syntax) == Tlv(48, IntTlv(id) \o Oid(syntax) \o Tlv(48, Oid(OID_BER)))

CpType(p) ==
    Tlv(49, Tlv(160, Tlv(128, <<1>>))
            \o Tlv(162, Tlv(129, <<0, 0, 0, 1>>) \o Tlv(130, <<0, 0, 0, 1>>)
                        \o Tlv(164, PresentationContext(AcseContext, OID_ACSE)
                                    \o PresentationContext(MmsContext, OID_MMS))
                        \o Tlv(97, Tlv(48, IntTlv(AcseContext) \o Tlv(160, Aarq(p))))))

AssociationRequest(p) ==
    Spdu(CONNECT, SessionItems(SessionParameter(51, <<0, 1>>) \o SessionParameter(52, <<0, 1>>)
                               \o SessionParameter(UserData, CpType(p))))

(* The server reads a well-formed CONNECT; anything missing is an error. *)
ContextOf(defined, oid, default) ==
    LET of == {i \in DOMAIN defined : DecodeOid(FieldsIn(defined[i].value)[6]).arcs = oid}
    IN  IF of = {} THEN default ELSE DecodeInteger(FieldsIn(defined[Max(of)].value)[2])

DecodeAssociationRequest(d) ==
    Then(ParseSpdu(d), LAMBDA spdu : IF spdu.si # CONNECT THEN Error ELSE
    With(FieldsIn(FieldsIn(Expect(spdu.items[UserData], 49).value)[162]), LAMBDA normal :
    With(Tlvs(FieldOr(normal, 164, <<>>)), LAMBDA defined :
    With(FieldsIn(Expect(FirstIn(Expect(normal[97], 48).value, 160), 96).value), LAMBDA acse :
    With(FieldsIn(Expect(FirstIn(Expect(acse[190], 40).value, 160), 168).value), LAMBDA f :
             [ok |-> TRUE, maxPdu |-> IntegerOr(f, 128),
              calling |-> DecodeInteger(f[129]), called |-> DecodeInteger(f[130]),
              nesting |-> IntegerOr(f, 131),
              acse |-> ContextOf(defined, OID_ACSE, 1), mms |-> ContextOf(defined, OID_MMS, MmsContext),
              title |-> Optional(acse, 162), qualifier |-> Optional(acse, 163),
              contexts |-> Len(defined)])))))

(* The server's limits s and what was asked; a size of 0 counts as none. *)
Agreed(limit, asked) == IF asked \in {<<>>, <<0>>} THEN limit ELSE Min({limit, asked[1]})
AgreedSize(request, s) == Agreed(s.maxPdu, request.maxPdu)

AssociationAccept(request, s) ==
    LET initiate == Tlv(169, If(<<AgreedSize(request, s)>>, 128)
                             \o If(<<Min({s.outstanding, request.calling})>>, 129)
                             \o If(<<Min({s.outstanding, request.called})>>, 130)
                             \o If(<<Agreed(s.nesting, request.nesting)>>, 131)
                             \o Tlv(164, Detail(<<3>> \o Bits(Served, 85))))
        aare == Tlv(97, Tlv(128, <<7, 128>>) \o Tlv(161, Oid(OID_APPLICATION))
                        \o Tlv(162, IntTlv(0)) \o Tlv(163, Tlv(161, IntTlv(0)))
                        \o FlattenSeq([i \in DOMAIN request.title |-> Tlv(164, request.title[i])])
                        \o FlattenSeq([i \in DOMAIN request.qualifier |-> Tlv(165, request.qualifier[i])])
                        \o Tlv(190, Tlv(40, IntTlv(request.mms) \o Tlv(160, initiate))))
        n == IF request.contexts = 0 THEN 2 ELSE request.contexts
        result == Tlv(48, Tlv(128, <<0>>) \o Tlv(129, EncodeOid(OID_BER)))
        normal == Tlv(131, <<0, 0, 0, 1>>) \o Tlv(165, FlattenSeq([i \in 1..n |-> result]))
                  \o Tlv(97, Tlv(48, IntTlv(request.acse) \o Tlv(160, aare)))
        cpa == Tlv(49, Tlv(160, Tlv(128, <<1>>)) \o Tlv(162, normal))
    IN  Spdu(ACCEPT, SessionItems(SessionParameter(UserData, cpa)))

(* The client, layer by layer: each may refuse in its own way. *)
DecodeInitiateResponse(d) ==
    LET tlv == DecodeTlv(d, 1)
        f == FieldsIn(tlv.value)
        detail == FieldsIn(FieldOr(f, 164, <<>>))
    IN  IF tlv.tag = <<170>> THEN Refusal
        ELSE IF tlv.tag # <<169>> \/ ~({129, 130} \subseteq DOMAIN f) \/ 128 \notin DOMAIN detail THEN Error
        ELSE [ok |-> TRUE, maxPdu |-> IntegerOr(f, 128),
              calling |-> DecodeInteger(f[129]), called |-> DecodeInteger(f[130]),
              nesting |-> IntegerOr(f, 131),
              services |-> Tail(FieldOr(detail, 130, <<0>>))]

DecodeAare(d) ==
    With(Expect(d, 97), LAMBDA aare : IF ~aare.ok THEN Error ELSE With(FieldsIn(aare.value), LAMBDA f :
        IF 162 \in DOMAIN f /\ DecodeInteger(DecodeTlv(f[162], 1).value) # 0 THEN Refusal
        ELSE IF 190 \notin DOMAIN f THEN Error
        ELSE DecodeInitiateResponse(FirstIn(Expect(f[190], 40).value, 160))))

DecodeAssociationResponse(d) ==
    Then(ParseSpdu(d), LAMBDA spdu :
        IF spdu.si \in {REFUSE, ABORT} THEN Refusal
        ELSE IF spdu.si # ACCEPT \/ UserData \notin DOMAIN spdu.items THEN Error
        ELSE With(DecodeTlv(spdu.items[UserData], 1), LAMBDA cp :
             IF ~cp.ok THEN Error
             ELSE IF cp.tag = <<48>> THEN Refusal
             ELSE IF cp.tag # <<49>> THEN Error
             ELSE With(FieldsIn(FieldsIn(cp.value)[162]), LAMBDA normal :
                       DecodeAare(FirstIn(Expect(normal[97], 48).value, 160)))))
=============================================================================
