------------------------------- MODULE Frames -------------------------------
(***************************************************************************)
(* Ethernet frames of GOOSE and SV: ethernet.py and ethernet.rs.  An       *)
(* address is a record [dst, src, vlan, ethertype, appId] whose vlan is a  *)
(* sequence of at most one record [id, priority]; a value that is absent   *)
(* or cannot be read is an empty sequence.                                 *)
(***************************************************************************)
EXTENDS SvCodec

CONSTANT LengthMax  \* largest Length a header can hold: 65535

ETHERTYPE_VLAN == 33024
ETHERTYPE_GOOSE == 35000
ETHERTYPE_SV == 35002
HEADER_LEN == 8

U16(d, at) == Unsigned(SubSeq(d, at, at + 1))

(***************************************************************************)
(* Python                                                                  *)
(***************************************************************************)
ParseFrame(raw, ethertypes) ==
    LET tagged == U16(raw, 13) = ETHERTYPE_VLAN
        at == IF tagged THEN 19 ELSE 15  \* right after the EtherType
        length == U16(raw, at + 2)
    IN  IF \/ Len(raw) < 14
           \/ tagged /\ Len(raw) < 18
           \/ U16(raw, at - 2) \notin ethertypes
           \/ Len(raw) < at - 1 + HEADER_LEN
           \/ length < HEADER_LEN
           \/ at - 1 + length > Len(raw)
        THEN <<>>
        ELSE <<[dst |-> SubSeq(raw, 1, 6), src |-> SubSeq(raw, 7, 12),
                vlan |-> IF tagged
                         THEN <<[id |-> U16(raw, 15) % 4096, priority |-> U16(raw, 15) \div 8192]>>
                         ELSE <<>>,
                ethertype |-> U16(raw, at - 2), appId |-> U16(raw, at),
                apdu |-> SubSeq(raw, at + HEADER_LEN, at + length - 1)]>>

Refused(address, apdu) ==
    \/ HEADER_LEN + Len(apdu) > LengthMax
    \/ address.vlan # <<>> /\ address.vlan[1].id \notin 0..4095
    \/ address.vlan # <<>> /\ address.vlan[1].priority \notin 0..7

VlanTag(v) == Octets(ETHERTYPE_VLAN, 2) \o Octets(8192 * v.priority + v.id, 2)

BuildFrame(address, apdu) ==
    address.dst \o address.src
    \o FlattenSeq([i \in DOMAIN address.vlan |-> VlanTag(address.vlan[i])])
    \o Octets(address.ethertype, 2) \o Octets(address.appId, 2)
    \o Octets(HEADER_LEN + Len(apdu), 2) \o <<0, 0, 0, 0>> \o apdu

(* decode_goose_frame and decode_sv_frame: nothing, an error or a message. *)
DecodeGooseFrame(raw, strict) ==
    With(ParseFrame(raw, {ETHERTYPE_GOOSE}), LAMBDA frame :
        IF frame = <<>> THEN <<>>
        ELSE <<Then(DecodeGoosePdu(frame[1].apdu), LAMBDA pdu :
                    IF strict /\ CheckStrict(frame[1].apdu) # Conformant THEN BerError ELSE pdu)>>)

DecodeSvFrame(raw) ==
    With(ParseFrame(raw, {ETHERTYPE_SV}), LAMBDA frame :
         IF frame = <<>> THEN <<>> ELSE <<DecodeSvPdu(frame[1].apdu)>>)

(***************************************************************************)
(* Native: one Option at a time                                            *)
(***************************************************************************)
U16At(d, at) == IF at + 1 <= Len(d) THEN <<U16(d, at)>> ELSE <<>>

(* The header that follows the EtherType. *)
ParseHeader(payload) ==
    LET length == U16At(payload, 3)
    IN  IF length = <<>> THEN <<>>
        ELSE IF Len(payload) < HEADER_LEN \/ length[1] \notin HEADER_LEN .. Len(payload) THEN <<>>
        ELSE <<[appId |-> U16(payload, 1), apdu |-> SubSeq(payload, HEADER_LEN + 1, length[1])]>>

NativeParseFrame(raw, ethertypes) ==
    LET tagged == U16At(raw, 13) = <<ETHERTYPE_VLAN>>
        tci == IF tagged THEN U16At(raw, 15) ELSE <<>>
        ethertype == U16At(raw, IF tagged THEN 17 ELSE 13)
        header == ParseHeader(SubSeq(raw, IF tagged THEN 19 ELSE 15, Len(raw)))
    IN  IF ethertype = <<>> THEN <<>>
        ELSE IF ethertype[1] \notin ethertypes \/ header = <<>> THEN <<>>
        ELSE <<[dst |-> SubSeq(raw, 1, 6), src |-> SubSeq(raw, 7, 12),
                vlan |-> [i \in DOMAIN tci |-> [id |-> tci[i] % 4096, priority |-> tci[i] \div 8192]],
                ethertype |-> ethertype[1], appId |-> header[1].appId, apdu |-> header[1].apdu]>>

NativeHeaderLen(address) == 12 + 4 * Len(address.vlan) + 2 + HEADER_LEN

(* encode_frame writes the header for the measured APDU, then the APDU. *)
NativeEncodeFrame(address, pdu) ==
    address.dst \o address.src
    \o (IF address.vlan = <<>> THEN <<>> ELSE VlanTag(address.vlan[1]))
    \o Octets(address.ethertype, 2) \o Octets(address.appId, 2)
    \o Octets(HEADER_LEN + NativeGooseLen(pdu), 2) \o <<0, 0, 0, 0>>
    \o NativeEncodeGoose(pdu)

(* decode_frame and decode_frame_strict: an empty APDU is an error of its own. *)
NativeGooseFrame(raw, strict) ==
    With(NativeParseFrame(raw, {ETHERTYPE_GOOSE}), LAMBDA frame :
        IF frame = <<>> THEN <<>>
        ELSE IF frame[1].apdu = <<>> THEN <<BerError>>
        ELSE <<Then(NativeDecodeGoose(frame[1].apdu), LAMBDA pdu :
                    IF strict /\ NativeStrict(frame[1].apdu) # Conformant THEN BerError ELSE pdu)>>)

NativeSvFrame(raw) ==
    With(NativeParseFrame(raw, {ETHERTYPE_SV}), LAMBDA frame :
         IF frame = <<>> THEN <<>> ELSE <<NativeDecodeSv(frame[1].apdu)>>)
=============================================================================
