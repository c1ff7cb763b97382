------------------------------ MODULE IedModel ------------------------------
(***************************************************************************)
(* The variables of a server and their types: mms/types.py and the values  *)
(* of server/model.py.                                                     *)
(*                                                                         *)
(* A type is [kind, size] (size: at most one number), a structure          *)
(* [kind |-> "struct", components] of records [name, type], or an array    *)
(* [kind |-> "array", count, element].  Names are sequences of octets.     *)
(*                                                                         *)
(* A model is a record: types, each domain's structure of logical nodes    *)
(* (whose components are the functional constraints); values, each leaf's  *)
(* Data item by its domain and path; sets, the members of each data set.   *)
(***************************************************************************)
EXTENDS Association

(* PRIMITIVES, by the name of the kind. *)
PrimitiveNumber ==
    [boolean |-> 3, bitstring |-> 4, integer |-> 5, unsigned |-> 6, float |-> 7, octetstring |-> 9,
     visiblestring |-> 10, generalizedtime |-> 11, binarytime |-> 12, bcd |-> 13, objId |-> 15,
     mmsstring |-> 16, utctime |-> 17]
KindOf(number) == CHOOSE k \in DOMAIN PrimitiveNumber : PrimitiveNumber[k] = number
Exponent(width) == IF width = 32 THEN 8 ELSE 11

Structure(type) == type.kind = "struct"
ArrayOf(type) == type.kind = "array"

(***************************************************************************)
(* Type descriptions                                                       *)
(***************************************************************************)
RECURSIVE EncodeType(_)
EncodeType(type) ==
    LET component(c) == Tlv(48, Tlv(128, c.name) \o Tlv(161, EncodeType(c.type)))
        number == PrimitiveNumber[type.kind]
        width == IF type.size \in {<<>>, <<0>>} THEN 32 ELSE type.size[1]
    IN  IF Structure(type)
        THEN Tlv(162, Tlv(161, FlattenSeq([i \in DOMAIN type.components |-> component(type.components[i])])))
        ELSE IF ArrayOf(type)
        THEN Tlv(161, Tlv(129, EncodeInteger(type.count)) \o Tlv(162, EncodeType(type.element)))
        ELSE IF type.kind = "float" THEN Tlv(160 + number, IntTlv(width) \o IntTlv(Exponent(width)))
        ELSE IF type.kind = "binarytime" THEN Tlv(128 + number, <<255>>)
        ELSE Tlv(128 + number, FlattenSeq([i \in DOMAIN type.size |-> EncodeInteger(type.size[i])]))

(* decode_type_description and decode_type_specification; anything it      *)
(* cannot read is an error.                                                *)
RECURSIVE DecodeType(_)
DecodeType(t) ==
    LET number == TagNumber(t.tag)
        inside == Tlvs(t.value)
        parts == SelectSeq(inside, LAMBDA p : p.tag = <<161>>)
        comps == FlattenSeq([i \in DOMAIN parts |-> Tlvs(parts[i].value)])
        read(c) == LET f == FieldsIn(c.value)
                   IN  [ok |-> 161 \in DOMAIN f, name |-> FieldOr(f, 128, <<>>),
                        type |-> DecodeType(DecodeTlv(f[161], 1))]
        fields == FieldsIn(t.value)
        sized == number \in {4, 5, 6, 9, 10, 13, 16} /\ t.value # <<>>
    IN  IF ~t.ok THEN BerError
        ELSE IF number = 2
        THEN With([i \in DOMAIN comps |-> read(comps[i])], LAMBDA components :
                  IF \A i \in DOMAIN components : components[i].ok /\ components[i].type.ok
                  THEN [ok |-> TRUE, kind |-> "struct",
                        components |-> [i \in DOMAIN components |->
                                          [name |-> components[i].name, type |-> components[i].type]]]
                  ELSE BerError)
        ELSE IF number = 1
        THEN Then(DecodeType(DecodeTlv(fields[162], 1)), LAMBDA element :
                  [ok |-> TRUE, kind |-> "array", count |-> Unsigned(fields[129]), element |-> element])
        ELSE IF number \notin {PrimitiveNumber[k] : k \in DOMAIN PrimitiveNumber} THEN BerError
        ELSE [ok |-> TRUE, kind |-> KindOf(number),
              size |-> IF number = 7 /\ inside # <<>> THEN <<Unsigned(inside[1].value)>>
                       ELSE IF sized THEN <<DecodeInteger(t.value)>> ELSE <<>>]

(* The type as the reader of its description knows it. *)
RECURSIVE Described(_)
Described(type) ==
    IF Structure(type)
    THEN [ok |-> TRUE, kind |-> "struct",
          components |-> [i \in DOMAIN type.components |->
              [name |-> type.components[i].name, type |-> Described(type.components[i].type)]]]
    ELSE IF ArrayOf(type)
    THEN [ok |-> TRUE, kind |-> "array", count |-> type.count, element |-> Described(type.element)]
    ELSE [ok |-> TRUE, kind |-> type.kind, size |-> type.size]

(***************************************************************************)
(* The tree of nodes: what a name stands for                               *)
(***************************************************************************)
Dollar == 36
(* "LN$FC$DO" as its parts. *)
Parts(item) ==
    FoldLeft(LAMBDA parts, o : IF o = Dollar THEN Append(parts, <<>>)
                               ELSE Append(Front(parts), Append(Last(parts), o)),
             <<<<>>>>, item)
Joined(path) == FlattenSeq([i \in DOMAIN path |-> IF i = 1 THEN path[i] ELSE <<Dollar>> \o path[i]])

(* str(i) of an array's index: one digit is enough for the arrays here. *)
Index(i) == <<48 + i>>

(* The children of a node, in order. *)
Children(type) ==
    IF Structure(type) THEN type.components
    ELSE IF ArrayOf(type) THEN [i \in 1 .. type.count |-> [name |-> Index(i - 1), type |-> type.element]]
    ELSE <<>>

RECURSIVE TypeAt(_, _)
TypeAt(type, path) ==
    LET child == SelectSeq(Children(type), LAMBDA c : c.name = path[1])
    IN  IF path = <<>> THEN <<type>>
        ELSE IF child = <<>> THEN <<>>
        ELSE TypeAt(child[1].type, Tail(path))

(* model.node: nothing, or the type of the node. *)
NodeOf(model, name) ==
    IF name.domain = <<>> THEN <<>>
    ELSE IF name.domain[1] \notin DOMAIN model.types THEN <<>>
    ELSE TypeAt(model.types[name.domain[1]], Parts(name.item))

RECURSIVE LeafPaths(_, _)
LeafPaths(type, path) ==
    LET kids == Children(type)
    IN  IF kids = <<>> THEN <<path>>
        ELSE FlattenSeq([i \in DOMAIN kids |-> LeafPaths(kids[i].type, Append(path, kids[i].name))])

(* Every name below a node, and every name of a domain, sorted. *)
RECURSIVE NamesBelow(_, _)
NamesBelow(type, path) ==
    {path} \cup (IF ArrayOf(type) THEN {}
                 ELSE UNION {NamesBelow(c.type, Append(path, c.name)) : c \in Range(Children(type))})

(* The order of Python's strings. *)
Before(a, b) ==
    \/ Len(a) < Len(b) /\ a = SubSeq(b, 1, Len(a))
    \/ \E i \in 1 .. Min({Len(a), Len(b)}) :
          a[i] < b[i] /\ SubSeq(a, 1, i - 1) = SubSeq(b, 1, i - 1)
InOrder(S, before(_, _)) ==
    [k \in 1 .. Cardinality(S) |-> CHOOSE x \in S : Cardinality({y \in S : before(y, x)}) = k - 1]
Sorted(names) == InOrder(names, Before)

VariableNames(model, domain) ==
    Sorted({Joined(p) : p \in NamesBelow(model.types[domain], <<>>) \ {<<>>}})

(***************************************************************************)
(* Values                                                                  *)
(***************************************************************************)
(* Where the value that starts at i ends, and where its members start. *)
RECURSIVE NextOf(_, _)
RECURSIVE Skip(_, _, _)
Skip(items, i, n) == IF n = 0 THEN i ELSE Skip(items, NextOf(items, i), n - 1)
NextOf(items, i) == Skip(items, i + 1, IF Container(items[i]) THEN items[i].val[1] ELSE 0)
MemberAt(items, i, k) == Skip(items, i + 1, k - 1)

KindsOf ==
    [boolean |-> {"bool"}, integer |-> {"int"}, unsigned |-> {"uint", "int"}, float |-> {"float32", "float64"},
     bitstring |-> {"bits"}, utctime |-> {"utc", "btime"}, binarytime |-> {"raw", "utc", "btime"},
     octetstring |-> {"octets"}, visiblestring |-> {"visible"}, mmsstring |-> {"mms", "visible"}]

(* A size that is negative is a bound. *)
SizeFits(size, n) == IF size > 0 THEN n = size ELSE n <= -size

RECURSIVE Fits(_, _, _)
Fits(type, items, i) ==
    LET item == items[i]
        kids == Children(type)
        n == IF item.kind = "bits" THEN 8 * (Len(item.val) - 1) - item.val[1] ELSE Len(item.val)
    IN  IF Structure(type) \/ ArrayOf(type)
        THEN /\ item = Item(type.kind, <<Len(kids)>>)
             /\ \A k \in DOMAIN kids : Fits(kids[k].type, items, MemberAt(items, i, k))
        ELSE /\ type.kind \in DOMAIN KindsOf
             /\ item.kind \in KindsOf[type.kind]
             /\ item.kind \in {"bits", "visible", "mms", "octets"} /\ type.size # <<>>
                  => SizeFits(type.size[1], n)

(* default_value *)
DefaultItem(type) ==
    LET size == IF type.size = <<>> THEN 0 ELSE type.size[1]
        bits == IF size < 0 THEN -size ELSE size
        octets == (bits + 7) \div 8
    IN  CASE type.kind = "boolean" -> Item("bool", <<0>>)
          [] type.kind = "integer" -> Item("int", <<0>>)
          [] type.kind = "unsigned" -> Item("uint", <<0>>)
          [] type.kind = "float" -> IF size = 64 THEN Item("float64", Octets(0, 8)) ELSE Item("float32", Octets(0, 4))
          [] type.kind = "bitstring" -> Item("bits", <<8 * octets - bits>> \o Octets(0, octets))
          [] type.kind = "utctime" -> Item("utc", Octets(0, 8))
          [] type.kind = "binarytime" -> Item("raw", <<1, 140>> \o Octets(0, 6))
          [] type.kind = "octetstring" -> Item("octets", Octets(0, Max({0, size})))
          [] type.kind = "mmsstring" -> Item("mms", <<>>)
          [] OTHER -> Item("visible", <<>>)

(* The leaves of a model whose domains have these types, freshly built. *)
Built(types) ==
    LET at(d, path) == DefaultItem(TypeAt(types[d], path)[1])
        leaves == {<<d, path>> : <<d, path>> \in
                     UNION {{d} \X Range(LeafPaths(types[d], <<>>)) : d \in DOMAIN types}}
    IN  [leaf \in leaves |-> at(leaf[1], leaf[2])]

RECURSIVE DataAt(_, _, _)
DataAt(values, type, leaf) ==
    LET kids == Children(type)
    IN  IF kids = <<>> THEN <<values[leaf]>>
        ELSE <<Item(type.kind, <<Len(kids)>>)>>
             \o FlattenSeq([i \in DOMAIN kids |->
                              DataAt(values, kids[i].type, <<leaf[1], Append(leaf[2], kids[i].name)>>)])

ACCESS_OBJECT_ACCESS_DENIED == 3
ACCESS_TYPE_INCONSISTENT == 7
ACCESS_OBJECT_NON_EXISTENT == 10
WRITABLE_FCS == {<<67, 70>>, <<68, 67>>, <<83, 80>>, <<83, 86>>, <<83, 69>>, <<66, 76>>}

(* read: the items of the value, or an error. *)
ModelRead(model, name) ==
    LET node == NodeOf(model, name)
    IN  IF node = <<>> THEN [ok |-> FALSE, code |-> ACCESS_OBJECT_NON_EXISTENT]
        ELSE [ok |-> TRUE, items |-> DataAt(model.values, node[1], <<name.domain[1], Parts(name.item)>>)]

(* write: no error or a code, and the values after it. *)
ModelWrite(model, name, items) ==
    LET node == NodeOf(model, name)
        parts == Parts(name.item)
        leaves == LeafPaths(node[1], parts)
        given == SelectSeq(items, LAMBDA i : ~Container(i))
        place(leaf) == CHOOSE k \in DOMAIN leaves : leaves[k] = leaf[2]
        refused(code) == [errors |-> <<code>>, values |-> model.values]
    IN  IF node = <<>> THEN refused(ACCESS_OBJECT_NON_EXISTENT)
        ELSE IF Len(parts) < 2 THEN refused(ACCESS_OBJECT_ACCESS_DENIED)
        ELSE IF parts[2] \notin WRITABLE_FCS THEN refused(ACCESS_OBJECT_ACCESS_DENIED)
        ELSE IF ~Fits(node[1], items, 1) THEN refused(ACCESS_TYPE_INCONSISTENT)
        ELSE [errors |-> <<>>,
              values |-> [leaf \in DOMAIN model.values |->
                            IF leaf[1] = name.domain[1] /\ leaf[2] \in Range(leaves)
                            THEN given[place(leaf)] ELSE model.values[leaf]]]
=============================================================================
