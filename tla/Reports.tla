------------------------------ MODULE Reports ------------------------------
(***************************************************************************)
(* A report from one end to the other: server/reporting.py writes it       *)
(* (_send), mms/report.py reads it.  Its optional fields are announced by  *)
(* the bits of OptFlds, its members by those of the inclusion bit string,  *)
(* its reasons by those of a bit string each.                              *)
(*                                                                         *)
(* A set of flags is a set of bit numbers, bit 0 reserved.  A block is a   *)
(* record [buffered, rptId, optFlds, sqNum, datSet, overflowed, confRev,   *)
(* members]; an entry is [id, time, indexes, values, reasons], its members *)
(* by index from 1.                                                        *)
(***************************************************************************)
EXTENDS Messages

SeqNum == 1
TimeStamp == 2
Reason == 3
DataSet == 4
DataReference == 5
BufOvfl == 6
EntryIdBit == 7
ConfRev == 8
Segmentation == 9
OptFldsSize == 10
ReasonSize == 7

WrongBitString(flags, size) == Item("bits", <<0>> \o Bits(flags, size))

(* bitstring_of and bits_of: flags are numbered from 0, first bit first. *)
BitString(flags, size) == Item("bits", <<(8 - (size % 8)) % 8>> \o Bits(flags, size))
BitsOf(item) ==
    LET octets == Tail(item.val)
    IN  [n \in 1 .. (8 * Len(octets) - item.val[1]) |-> Supports(octets, n - 1)]
(* from_bitstring: missing bits are FALSE, those beyond the fields ignored. *)
FlagsOf(item, size) ==
    LET bits == BitsOf(item) IN {n \in 1 .. size - 1 : n + 1 \in DOMAIN bits /\ bits[n + 1]}

Optionally(flag, opt, items) == IF flag \in opt THEN items ELSE <<>>
BinaryTime(octets) == Item("raw", <<1, 140>> \o octets)

SendReport(rcb, entry) ==
    LET opt == IF rcb.buffered THEN rcb.optFlds ELSE rcb.optFlds \ {BufOvfl, EntryIdBit}
        included == entry.indexes
        order == InOrder(included, <)
        per(f(_)) == [k \in DOMAIN order |-> f(order[k])]
        path(i) == rcb.members[i].domain[1] \o <<47>> \o rcb.members[i].item
        plain == <<Item("visible", rcb.rptId), BitString(opt, OptFldsSize)>>
                 \o Optionally(SeqNum, opt, <<Item("uint", <<rcb.sqNum>>)>>)
                 \o Optionally(TimeStamp, opt, <<BinaryTime(entry.time)>>)
                 \o Optionally(DataSet, opt, <<Item("visible", rcb.datSet)>>)
                 \o Optionally(BufOvfl, opt, <<Item("bool", <<IF rcb.overflowed THEN 1 ELSE 0>>)>>)
                 \o Optionally(EntryIdBit, opt, <<Item("octets", Octets(entry.id, 8))>>)
                 \o Optionally(ConfRev, opt, <<Item("uint", <<rcb.confRev>>)>>)
                 \o <<BitString({i - 1 : i \in included}, Len(rcb.members))>>
                 \o Optionally(DataReference, opt, per(LAMBDA i : Item("visible", path(i))))
        result(item) == [ok |-> TRUE, items |-> <<item>>]
        reasons == per(LAMBDA i : result(BitString(entry.reasons[i], ReasonSize)))
    IN  InformationReport([i \in DOMAIN plain |-> result(plain[i])]
                          \o per(LAMBDA i : entry.values[i])
                          \o Optionally(Reason, opt, reasons),
                          <<<<82, 80, 84>>>>, <<>>)

(***************************************************************************)
(* The reader takes the results one by one; s is what is left and what was *)
(* read, or an error.                                                      *)
(***************************************************************************)
Take(s, kinds, field) ==
    IF ~s.ok THEN s
    ELSE IF s.left = <<>> THEN BerError
    ELSE IF ~s.left[1].ok THEN BerError
    ELSE IF s.left[1].items[1].kind \notin kinds THEN BerError
    ELSE [ok |-> TRUE, left |-> Tail(s.left), read |-> Append(s.read, [field |-> field, item |-> s.left[1].items[1]])]

TakeIf(s, flag, opt, kinds, field) == IF flag \in opt THEN Take(s, kinds, field) ELSE s
TakeEach(s, n, kinds, field) == FoldLeft(LAMBDA t, k : Take(t, kinds, field), s, [k \in 1..n |-> k])

(* The item read as a field, and all of those read under one name. *)
ReadAs(s, field) == SelectSeq(s.read, LAMBDA r : r.field = field)

(* The optional fields in their order, and the kinds each may have. *)
Uint == {"uint", "int"}
OptionalFields ==
    <<[flag |-> SeqNum, kinds |-> Uint, name |-> "sqNum"], [flag |-> TimeStamp, kinds |-> {"btime", "utc"}, name |-> "time"],
      [flag |-> DataSet, kinds |-> {"visible"}, name |-> "datSet"], [flag |-> BufOvfl, kinds |-> {"bool"}, name |-> "bufOvfl"],
      [flag |-> EntryIdBit, kinds |-> {"octets"}, name |-> "entryId"], [flag |-> ConfRev, kinds |-> Uint, name |-> "confRev"],
      [flag |-> Segmentation, kinds |-> Uint, name |-> "subSeqNum"],
      [flag |-> Segmentation, kinds |-> {"bool"}, name |-> "moreFollows"]>>
TakeHeader(s, opt) == FoldLeft(LAMBDA t, f : TakeIf(t, f.flag, opt, f.kinds, f.name), s, OptionalFields)

(* The members included: references, then values, then reasons. *)
EntriesOf(s, opt, bits) ==
    LET indexes == InOrder({i \in DOMAIN bits : bits[i]}, <)
        n == Len(indexes)
        one(read, field, k) == LET r == ReadAs(read, field) IN IF r = <<>> THEN <<>> ELSE <<r[k].item.val>>
    IN  Then(IF DataReference \in opt THEN TakeEach(s, n, {"visible"}, "reference") ELSE s, LAMBDA references :
        IF Len(references.left) < n THEN BerError
        ELSE Then(TakeEach([references EXCEPT !.left = SubSeq(@, n + 1, Len(@))],
                           IF Reason \in opt THEN n ELSE 0, {"bits"}, "reason"), LAMBDA reasons :
             IF reasons.left # <<>> THEN BerError
             ELSE [ok |-> TRUE,
                   entries |-> [k \in 1..n |->
                      [index |-> indexes[k], value |-> references.left[k],
                       reference |-> one(reasons, "reference", k),
                       reason |-> [i \in DOMAIN one(reasons, "reason", k) |->
                                     FlagsOf(Item("bits", one(reasons, "reason", k)[i]), ReasonSize)]]]]))

ReportOf(message) ==
    IF message.listName # <<ObjectName(<<82, 80, 84>>, <<>>)>> THEN BerError
    ELSE Then(Take(Take([ok |-> TRUE, left |-> message.results, read |-> <<>>], {"visible"}, "rptId"),
                   {"bits"}, "optFlds"), LAMBDA flags :
         With(FlagsOf(ReadAs(flags, "optFlds")[1].item, OptFldsSize), LAMBDA opt :
         Then(Take(TakeHeader(flags, opt), {"bits"}, "inclusion"), LAMBDA inclusion :
         With(BitsOf(ReadAs(inclusion, "inclusion")[1].item), LAMBDA bits :
         Then(EntriesOf(inclusion, opt, bits), LAMBDA of :
              [ok |-> TRUE, opt |-> opt, size |-> Len(bits), entries |-> of.entries,
               read |-> SelectSeq(inclusion.read, LAMBDA r : r.field \notin {"optFlds", "inclusion"})])))))
=============================================================================
