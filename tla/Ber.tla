-------------------------------- MODULE Ber --------------------------------
(***************************************************************************)
(* BER as ber.py reads and writes it, and the MMS Data values of data.py.  *)
(* A message is its sequence of octets.  A tag is the sequence of its      *)
(* identifier octets (the code reads it as one integer).  An operator that *)
(* may raise BerError returns a record whose "ok" is FALSE.                *)
(*                                                                         *)
(* A list of Data values is written in preorder: a structure or an array   *)
(* of n members is [kind, <<n>>], followed by its members.  Texts, floats  *)
(* and times stay the octets they are made of, but for the characters that *)
(* Python replaces.                                                        *)
(***************************************************************************)
EXTENDS Integers, Sequences, SequencesExt, FiniteSetsExt

BerError == [ok |-> FALSE]

(* What follows from a reading, unless it failed; and from a value. *)
Then(result, next(_)) == IF result.ok THEN next(result) ELSE result
With(value, next(_)) == next(value)

(* The integer of octets read most significant first. *)
Unsigned(s) == FoldLeft(LAMBDA n, o : 256 * n + o, 0, s)

(* Octet i of the k octets of v, in two's complement. *)
Octets(v, k) ==
    LET shifted[n \in 0 .. k - 1] == IF n = 0 THEN v ELSE shifted[n - 1] \div 256
    IN  [i \in 1..k |-> shifted[k - i] % 256]

(* int.bit_length() *)
RECURSIVE BitLength(_)
BitLength(v) == IF v = 0 THEN 0 ELSE 1 + BitLength(v \div 2)

HighNumber(octet) == octet % 32 = 31

(***************************************************************************)
(* Reading                                                                 *)
(***************************************************************************)
DecodeTag(d, at) ==
    LET last == {i \in at + 1 .. Len(d) : d[i] < 128}
    IN  IF at > Len(d) \/ (HighNumber(d[at]) /\ last = {}) THEN BerError
        ELSE LET end == IF HighNumber(d[at]) THEN Min(last) ELSE at
             IN  [ok |-> TRUE, tag |-> SubSeq(d, at, end), at |-> end + 1]

DecodeLength(d, at) ==
    IF at > Len(d) THEN BerError
    ELSE IF d[at] < 128 THEN [ok |-> TRUE, len |-> d[at], at |-> at + 1]
    ELSE LET n == d[at] - 128
         IN  IF n = 0 \/ at + n > Len(d) THEN BerError
             ELSE [ok |-> TRUE, len |-> Unsigned(SubSeq(d, at + 1, at + n)), at |-> at + n + 1]

(* The TLV at an offset: its tag, its content and the offset right after. *)
DecodeTlv(d, at) ==
    LET fast == at + 1 <= Len(d) /\ ~HighNumber(d[at]) /\ d[at + 1] < 128
    IN  Then(IF fast THEN [ok |-> TRUE, tag |-> <<d[at]>>, at |-> at + 1] ELSE DecodeTag(d, at), LAMBDA t :
        Then(IF fast THEN [ok |-> TRUE, len |-> d[at + 1], at |-> at + 2] ELSE DecodeLength(d, t.at), LAMBDA l :
             IF l.at + l.len > Len(d) + 1 THEN BerError
             ELSE [ok |-> TRUE, tag |-> t.tag, value |-> SubSeq(d, l.at, l.at + l.len - 1),
                   end |-> l.at + l.len]))

(* Consecutive TLVs covering exactly d; the last one may be the error that *)
(* ends the iteration.                                                     *)
RECURSIVE TlvsFrom(_, _)
TlvsFrom(d, at) ==
    IF at > Len(d) THEN <<>>
    ELSE With(DecodeTlv(d, at), LAMBDA t : <<t>> \o (IF t.ok THEN TlvsFrom(d, t.end) ELSE <<>>))
Tlvs(d) == TlvsFrom(d, 1)

Tiled(ts) == \A i \in DOMAIN ts : ts[i].ok

TagNumber(tag) ==
    IF HighNumber(tag[1]) THEN FoldLeft(LAMBDA n, o : 128 * n + (o % 128), 0, Tail(tag))
    ELSE tag[1] % 32

DecodeInteger(content) ==
    IF content[1] < 128 THEN Unsigned(content) ELSE Unsigned(content) - 256 ^ Len(content)

(***************************************************************************)
(* Writing                                                                 *)
(***************************************************************************)
EncodeLength(n) ==
    IF n < 128 THEN <<n>>
    ELSE LET k == (BitLength(n) + 7) \div 8 IN <<128 + k>> \o Octets(n, k)

EncodeTlv(tag, content) == tag \o EncodeLength(Len(content)) \o content

WrongEncodeInteger(v) ==
    Octets(v, Max({1, (BitLength(IF v < 0 THEN -(v + 1) ELSE v) + 7) \div 8}))

EncodeInteger(v) ==
    LET bits == BitLength(IF v < 0 THEN -(v + 1) ELSE v)
    IN  Octets(v, Max({1, bits \div 8 + 1}))

(* One arc of an object identifier in groups of 7 bits, and all of them. *)
ArcOctets(arc) ==
    LET k == Max({1, (BitLength(arc) + 6) \div 7})
    IN  [i \in 1..k |-> ((arc \div (128 ^ (k - i))) % 128) + (IF i < k THEN 128 ELSE 0)]
EncodeOid(arcs) ==
    ArcOctets(40 * arcs[1] + arcs[2]) \o FlattenSeq([i \in 1 .. Len(arcs) - 2 |-> ArcOctets(arcs[i + 2])])

DecodeOid(content) ==
    LET step(s, o) == LET arc == 128 * s.arc + (o % 128)
                      IN  IF o >= 128 THEN [s EXCEPT !.arc = arc]
                          ELSE [arc |-> 0, values |-> Append(s.values, arc)]
        values == FoldLeft(step, [arc |-> 0, values |-> <<>>], content).values
        first == Min({values[1] \div 40, 2})
    IN  IF content = <<>> \/ Last(content) >= 128 THEN BerError
        ELSE [ok |-> TRUE, arcs |-> <<first, values[1] - 40 * first>> \o Tail(values)]

EncodeBoolean(v) == IF v = 1 THEN <<255>> ELSE <<0>>

(***************************************************************************)
(* Data                                                                    *)
(***************************************************************************)
TagArray == <<161>>
TagStructure == <<162>>
TagBoolean == <<131>>
TagBitString == <<132>>
TagInteger == <<133>>
TagUnsigned == <<134>>
TagFloat == <<135>>
TagOctetString == <<137>>
TagVisibleString == <<138>>
TagBinaryTime == <<140>>
TagMmsString == <<143>>
TagUtcTime == <<145>>
VisibleTags == {TagVisibleString, <<26>>, <<128>>}

Item(kind, val) == [kind |-> kind, val |-> val]

(* decode("ascii", errors="replace") *)
Text(octets) == [i \in DOMAIN octets |-> IF octets[i] < 128 THEN octets[i] ELSE 65533]

(* The values of a sequence of Data TLVs, in preorder; an error anywhere   *)
(* below is an error of the whole.                                         *)
RECURSIVE DecodeDataSequence(_)
DecodeData(tag, value) ==
    LET one(kind, val) == [ok |-> TRUE, items |-> <<Item(kind, val)>>]
        members(kind) ==
            Then(DecodeDataSequence(value), LAMBDA in : [in EXCEPT !.items = <<Item(kind, <<in.count>>)>> \o @])
    IN  CASE tag = TagBoolean -> one("bool", <<IF value # <<>> /\ value[1] # 0 THEN 1 ELSE 0>>)
          [] tag = TagBitString -> one("bits", IF value = <<>> THEN <<0>> ELSE value)
          [] tag = TagInteger -> one("int", <<IF value = <<>> THEN 0 ELSE DecodeInteger(value)>>)
          [] tag = TagUnsigned -> one("uint", <<Unsigned(value)>>)
          [] tag = TagFloat /\ Len(value) = 5 -> one("float32", Tail(value))
          [] tag = TagFloat /\ Len(value) = 9 -> one("float64", Tail(value))
          [] tag = TagOctetString -> one("octets", value)
          [] tag \in VisibleTags -> one("visible", Text(value))
          [] tag = TagBinaryTime /\ Len(value) = 6 -> one("btime", value)
          [] tag = TagMmsString -> one("mms", value)
          [] tag = TagUtcTime /\ Len(value) >= 8 -> one("utc", SubSeq(value, 1, 8))
          [] tag \in {TagArray, TagStructure} -> members(IF tag = TagArray THEN "array" ELSE "struct")
          [] OTHER -> one("raw", <<Len(tag)>> \o tag \o value)

DecodeDataSequence(d) ==
    With(Tlvs(d), LAMBDA ts :
    With([i \in DOMAIN ts |-> Then(ts[i], LAMBDA t : DecodeData(t.tag, t.value))], LAMBDA all :
         IF Tiled(all)
         THEN [ok |-> TRUE, count |-> Len(all), items |-> FlattenSeq([i \in DOMAIN all |-> all[i].items])]
         ELSE BerError))

TagOf(item) ==
    CASE item.kind = "bool" -> TagBoolean
      [] item.kind = "bits" -> TagBitString
      [] item.kind = "int" -> TagInteger
      [] item.kind = "uint" -> TagUnsigned
      [] item.kind \in {"float32", "float64"} -> TagFloat
      [] item.kind = "octets" -> TagOctetString
      [] item.kind = "visible" -> TagVisibleString
      [] item.kind = "btime" -> TagBinaryTime
      [] item.kind = "mms" -> TagMmsString
      [] item.kind = "utc" -> TagUtcTime
      [] item.kind = "array" -> TagArray
      [] item.kind = "struct" -> TagStructure
      [] item.kind = "raw" -> SubSeq(item.val, 2, 1 + item.val[1])

Container(item) == item.kind \in {"struct", "array"}

(* Content octets of a value without members. *)
Content(item) ==
    CASE item.kind = "bool" -> EncodeBoolean(item.val[1])
      [] item.kind \in {"int", "uint"} -> EncodeInteger(item.val[1])
      [] item.kind = "float32" -> <<8>> \o item.val
      [] item.kind = "float64" -> <<11>> \o item.val
      [] item.kind = "raw" -> SubSeq(item.val, 2 + item.val[1], Len(item.val))
      [] OTHER -> item.val

(* A binary time (milliseconds of the day, days since 1984) is read as a   *)
(* datetime like a utc-time, and written back as one: seconds since 1970,  *)
(* a fraction in 2^-24 units, quality 0.                                   *)
AsUtc(value) ==
    LET ms == Unsigned(SubSeq(value, 1, 4))
        days == Unsigned(SubSeq(value, 5, 6))
        k == ms % 1000
    IN  Octets(441763200 + 86400 * days + ms \div 1000, 4)
        \o Octets(16777 * k + (216 * k + 500) \div 1000, 3) \o <<0>>
Kept(item) == IF item.kind = "btime" THEN Item("utc", AsUtc(item.val)) ELSE item

(* The value whose preorder starts at i: its TLV, and where the next starts. *)
(* Members are encoded first, then their octets are the content.             *)
RECURSIVE EncodeMembers(_, _, _)
EncodeData(items, i) ==
    LET written(item) ==
            IF Container(item) THEN EncodeMembers(items, i + 1, item.val[1])
            ELSE [octets |-> Content(item), next |-> i + 1]
    IN  With(Kept(items[i]), LAMBDA item : With(written(item), LAMBDA in :
             [octets |-> EncodeTlv(TagOf(item), in.octets), next |-> in.next]))

EncodeMembers(items, i, n) ==
    IF n = 0 THEN [octets |-> <<>>, next |-> i]
    ELSE With(EncodeData(items, i), LAMBDA first : With(EncodeMembers(items, first.next, n - 1), LAMBDA others :
              [octets |-> first.octets \o others.octets, next |-> others.next]))

RECURSIVE EncodeFrom(_, _)
EncodeFrom(items, i) ==
    IF i > Len(items) THEN <<>>
    ELSE With(EncodeData(items, i), LAMBDA one : one.octets \o EncodeFrom(items, one.next))
EncodeSequence(items) == EncodeFrom(items, 1)
=============================================================================
