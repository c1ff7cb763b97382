------------------------------ MODULE Messages ------------------------------
(***************************************************************************)
(* MMS PDUs on both sides: mms/pdu.py (what the client writes and reads),  *)
(* server/protocol.py (what the server reads and writes), the services of  *)
(* server/server.py on a model of IedModel, and the client's calls of      *)
(* mms/client.py.                                                          *)
(*                                                                         *)
(* A name is a record [ok, item, domain], domain of at most one.  An       *)
(* access result is [ok |-> TRUE, items] or [ok |-> FALSE, code].          *)
(***************************************************************************)
EXTENDS IedModel

ObjectName(item, domain) == [ok |-> TRUE, item |-> item, domain |-> domain]

GetNameList == 1
Identify == 2
Read == 4
Write == 5
GetAttributes == 6
GetListAttributes == 12

Unsign(v) == EncodeInteger(v)

(***************************************************************************)
(* Names                                                                   *)
(***************************************************************************)
EncodeObjectName(name) ==
    IF name.domain = <<>> THEN Tlv(128, name.item)
    ELSE Tlv(161, Tlv(26, name.domain[1]) \o Tlv(26, name.item))

DecodeObjectName(t) ==
    LET ids == Tlvs(t.value)
    IN  IF ~t.ok THEN BerError
        ELSE IF t.tag = <<128>> THEN ObjectName(Text(t.value), <<>>)
        ELSE IF t.tag = <<161>> /\ Len(ids) = 2 /\ Tiled(ids)
        THEN ObjectName(Text(ids[2].value), <<Text(ids[1].value)>>)
        ELSE BerError

Listed(names) == FlattenSeq([i \in DOMAIN names |-> Tlv(48, Tlv(160, EncodeObjectName(names[i])))])
VariableList(names) == Tlv(160, Listed(names))

DecodeVariableList(content) ==
    LET entries == Tlvs(content)
        name(entry) ==
            LET spec == DecodeTlv(entry.value, 1)
            IN  IF ~entry.ok THEN BerError
                ELSE IF spec.ok /\ spec.tag = <<160>> THEN DecodeObjectName(DecodeTlv(spec.value, 1))
                ELSE BerError
        listed(names) == IF Tiled(names) THEN [ok |-> TRUE, list |-> TRUE, names |-> names] ELSE BerError
    IN  listed([i \in DOMAIN entries |-> name(entries[i])])

(***************************************************************************)
(* The envelope of a PDU                                                   *)
(***************************************************************************)
SessionData == <<1, 0, 1, 0>>

Wrap(pdu, context) == SessionData \o Tlv(97, Tlv(48, IntTlv(context) \o Tlv(160, pdu)))

Unwrap(d) ==
    IF ~IsPrefix(SessionData, d) THEN BerError
    ELSE Then(Expect(SubSeq(d, 5, Len(d)), 97), LAMBDA pres :
         Then(Expect(pres.value, 48), LAMBDA pdv :
         With(Tlvs(pdv.value), LAMBDA inside :
              LET single == SelectSeq(inside, LAMBDA t : t.tag = <<160>>)
              IN  IF ~Tiled(inside) \/ single = <<>> THEN BerError
                  ELSE [ok |-> TRUE, pdu |-> single[1].value])))

(***************************************************************************)
(* Requests, as the client writes them                                     *)
(***************************************************************************)
ConfirmedRequest(invoke, service) == Tlv(160, IntTlv(invoke) \o service)
ConcludeRequest == Tlv(139, <<>>)

ReadRequest(names) == Tlv(164, Tlv(161, VariableList(names)))
WriteRequest(names, values) ==
    Tlv(165, VariableList(names)
             \o Tlv(160, FlattenSeq([i \in DOMAIN values |-> EncodeData(values[i], 1).octets])))
GetNameListRequest(class, domain, after) ==
    Tlv(161, Tlv(160, Tlv(128, Unsign(class)))
             \o Tlv(161, IF domain = <<>> THEN Tlv(128, <<>>) ELSE Tlv(129, domain[1]))
             \o FlattenSeq([i \in DOMAIN after |-> Tlv(130, after[i])]))
AttributesRequest(name) == Tlv(166, Tlv(160, EncodeObjectName(name)))
ListAttributesRequest(name) == Tlv(172, EncodeObjectName(name))

(***************************************************************************)
(* Requests, as the server reads them                                      *)
(***************************************************************************)
DecodeRequest(d) ==
    LET outer == DecodeTlv(d, 1)
        parts == Tlvs(outer.value)
    IN  IF ~outer.ok THEN BerError
        ELSE IF outer.tag = <<139>> THEN [ok |-> TRUE, conclude |-> TRUE]
        ELSE IF outer.tag # <<160>> THEN BerError
        ELSE IF ~Tiled(parts) \/ Len(parts) < 2 THEN BerError
        ELSE IF parts[1].value = <<>> THEN BerError
        ELSE [ok |-> TRUE, conclude |-> FALSE, invoke |-> Unsigned(parts[1].value),
              service |-> TagNumber(parts[2].tag), content |-> parts[2].value]

(* The name of a data set, or a list of variables. *)
SetNamed(name) == IF name.ok THEN [ok |-> TRUE, list |-> FALSE, names |-> <<name>>] ELSE BerError

VariableAccess(content) ==
    LET t == DecodeTlv(content, 1)
    IN  IF ~t.ok THEN BerError
        ELSE IF t.tag = <<160>> THEN DecodeVariableList(t.value)
        ELSE IF t.tag = <<161>> THEN SetNamed(DecodeObjectName(DecodeTlv(t.value, 1)))
        ELSE BerError

(* What is read, and whether the specification comes back with it. *)
DecodeRead(content) ==
    With(FieldsIn(content), LAMBDA f :
        IF 161 \notin DOMAIN f THEN BerError
        ELSE Then(VariableAccess(f[161]), LAMBDA access :
                  [access |-> access, ok |-> TRUE, withResult |-> FieldOr(f, 128, <<0>>)[1] # 0]))

DecodeWrite(content) ==
    LET parts == Tlvs(content)
        spec == parts[1]
        access == IF spec.tag = <<160>> THEN DecodeVariableList(spec.value)
                  ELSE SetNamed(DecodeObjectName(DecodeTlv(spec.value, 1)))
    IN  IF ~Tiled(parts) \/ Len(parts) < 2 THEN BerError
        ELSE Then(access, LAMBDA to : Then(DecodeDataSequence(parts[2].value), LAMBDA data :
                  [access |-> to, ok |-> TRUE,
                   values |-> [k \in 1 .. data.count |->
                                 SubSeq(data.items, Skip(data.items, 1, k - 1), Skip(data.items, 1, k) - 1)]]))

DecodeGetNameList(content) ==
    LET f == FieldsIn(content)
        scope == DecodeTlv(f[161], 1)
    IN  IF ~({160, 161} \subseteq DOMAIN f) THEN BerError
        ELSE [ok |-> TRUE, class |-> Unsigned(DecodeTlv(f[160], 1).value),
              domain |-> IF scope.tag = <<129>> THEN <<scope.value>> ELSE <<>>,
              after |-> Optional(f, 130)]

(* [0] name of an attributes request, or the name itself. *)
NameRequested(content) ==
    LET t == DecodeTlv(content, 1)
    IN  IF t.ok /\ t.tag = <<160>> THEN DecodeObjectName(DecodeTlv(t.value, 1)) ELSE DecodeObjectName(t)

(***************************************************************************)
(* Answers, as the server writes them                                      *)
(***************************************************************************)
ConfirmedResponse(invoke, service, content) ==
    Tlv(161, IntTlv(invoke) \o Tlv(160 + service, content))
ConfirmedError(invoke, class, code) ==
    Tlv(162, Tlv(128, Unsign(invoke)) \o Tlv(162, Tlv(160, Tlv(128 + class, EncodeInteger(code)))))
Reject(invoke, reason, code) ==
    Tlv(164, If(invoke, 128) \o Tlv(128 + reason, EncodeInteger(code)))

AccessResult(result) ==
    IF result.ok THEN EncodeData(result.items, 1).octets ELSE Tlv(128, EncodeInteger(result.code))
AccessResults(results) == FlattenSeq([i \in DOMAIN results |-> AccessResult(results[i])])

ReadResponse(results, spec) ==
    FlattenSeq([i \in DOMAIN spec |-> Tlv(160, spec[i])]) \o Tlv(161, AccessResults(results))
WriteResponse(errors) ==
    FlattenSeq([i \in DOMAIN errors |->
                  IF errors[i] = <<>> THEN Tlv(129, <<>>) ELSE Tlv(128, EncodeInteger(errors[i][1]))])
GetNameListResponse(names, more) ==
    Tlv(160, FlattenSeq([i \in DOMAIN names |-> Tlv(26, names[i])]))
    \o Tlv(129, EncodeBoolean(IF more THEN 1 ELSE 0))
IdentifyResponse(s) == Tlv(128, s.vendor) \o Tlv(129, s.modelName) \o Tlv(130, s.revision)
AttributesResponse(type) == Tlv(128, <<0>>) \o Tlv(162, EncodeType(type))
ListAttributesResponse(members) == Tlv(128, <<0>>) \o Tlv(161, Listed(members))

(* An unconfirmed report on a named list, or on a list of variables. *)
InformationReport(results, listName, variables) ==
    Tlv(163, Tlv(160, (IF listName = <<>> THEN Tlv(160, Listed(variables))
                       ELSE Tlv(161, Tlv(128, listName[1])))
                      \o Tlv(160, AccessResults(results))))

(***************************************************************************)
(* The server's services (_service): the answer to a request, and the      *)
(* values of the model after it.  s: pduSize, and what Identify tells.     *)
(***************************************************************************)
(* What GetNameList lists: 0 variables, 2 data sets, 9 domains. *)
Names(model, class, domain) ==
    IF class = 9 THEN IF domain = <<>> THEN Sorted(DOMAIN model.types) ELSE <<>>
    ELSE IF domain = <<>> THEN <<>>
    ELSE IF class = 0 THEN VariableNames(model, domain[1])
    ELSE IF class = 2 THEN Sorted({n.item : n \in {m \in DOMAIN model.sets : m.domain = domain}})
    ELSE <<>>

WrongPage(names, after, room) ==
    LET start == IF after = <<>> THEN 0
                 ELSE Cardinality({i \in DOMAIN names : names[i] = after[1] \/ Before(names[i], after[1])})
        cost(n) == FoldLeft(LAMBDA c, name : c + Len(name) + 2, 0, SubSeq(names, start + 1, start + n))
        taken == Max({n \in 0 .. Len(names) - start : n = 0 \/ cost(n) <= room})
    IN  [names |-> SubSeq(names, start + 1, start + taken), more |-> start + taken + 1 < Len(names)]

(* The page from a name on: as many names as the room takes. *)
Page(names, after, room) ==
    LET start == IF after = <<>> THEN 0
                 ELSE Cardinality({i \in DOMAIN names : names[i] = after[1] \/ Before(names[i], after[1])})
        cost(n) == FoldLeft(LAMBDA c, name : c + Len(name) + 2, 0, SubSeq(names, start + 1, start + n))
        taken == Max({n \in 0 .. Len(names) - start : n = 0 \/ cost(n) <= room})
    IN  [names |-> SubSeq(names, start + 1, start + taken), more |-> start + taken < Len(names)]

(* A write of several variables goes on after a refusal. *)
WriteAll(model, names, values) ==
    LET n == Min({Len(names), Len(values)})
    IN  FoldLeft(LAMBDA done, k :
                   With(ModelWrite([model EXCEPT !.values = done.values], names[k], values[k]), LAMBDA w :
                        [errors |-> Append(done.errors, w.errors), values |-> w.values]),
                  [errors |-> <<>>, values |-> model.values], [k \in 1..n |-> k])

Undefined(invoke) == ConfirmedError(invoke, 2, 1)
InvalidArgument(invoke) == Reject(<<invoke>>, 1, 5)

ServeRead(r, model) ==
    With(DecodeRead(r.content), LAMBDA req :
        LET set == req.access.names[1]
            names == IF req.access.list THEN req.access.names ELSE model.sets[set]
            spec == IF req.withResult /\ ~req.access.list THEN <<Tlv(161, EncodeObjectName(set))>> ELSE <<>>
        IN  IF ~req.ok THEN InvalidArgument(r.invoke)
            ELSE IF ~req.access.list /\ set \notin DOMAIN model.sets THEN Undefined(r.invoke)
            ELSE ConfirmedResponse(r.invoke, Read,
                     ReadResponse([i \in DOMAIN names |-> ModelRead(model, names[i])], spec)))

ServeNames(r, model, s) ==
    With(DecodeGetNameList(r.content), LAMBDA req :
        IF ~req.ok THEN InvalidArgument(r.invoke)
        ELSE IF req.domain # <<>> /\ ~({req.domain[i] : i \in DOMAIN req.domain} \subseteq DOMAIN model.types)
        THEN Undefined(r.invoke)
        ELSE With(Page(Names(model, req.class, req.domain), req.after, s.pduSize - 64), LAMBDA page :
                  ConfirmedResponse(r.invoke, GetNameList, GetNameListResponse(page.names, page.more))))

ServeAttributes(r, model) ==
    With(NodeOf(model, NameRequested(r.content)), LAMBDA node :
        IF node = <<>> THEN Undefined(r.invoke)
        ELSE ConfirmedResponse(r.invoke, GetAttributes, AttributesResponse(node[1])))

ServeListAttributes(r, model) ==
    With(NameRequested(r.content), LAMBDA set :
        IF set \notin DOMAIN model.sets THEN Undefined(r.invoke)
        ELSE ConfirmedResponse(r.invoke, GetListAttributes, ListAttributesResponse(model.sets[set])))

ServeWrite(r, model) ==
    With(DecodeWrite(r.content), LAMBDA req :
        LET names == IF req.access.list THEN req.access.names
                     ELSE IF req.access.names[1] \in DOMAIN model.sets THEN model.sets[req.access.names[1]] ELSE <<>>
        IN  IF ~req.ok THEN [answer |-> InvalidArgument(r.invoke), values |-> model.values]
            ELSE With(WriteAll(model, names, req.values), LAMBDA done :
                      [answer |-> ConfirmedResponse(r.invoke, Write, WriteResponse(done.errors)),
                       values |-> done.values]))

(* _handle: what is sent back, the values after it, whether it goes on. *)
Handle(d, model, s) ==
    LET answered(answer) == [answer |-> answer, values |-> model.values, on |-> TRUE]
    IN  With(DecodeRequest(d), LAMBDA r :
            IF ~r.ok THEN answered(Reject(<<>>, 0, 1))
            ELSE IF r.conclude THEN [answer |-> Tlv(140, <<>>), values |-> model.values, on |-> FALSE]
            ELSE CASE r.service = GetNameList -> answered(ServeNames(r, model, s))
                   [] r.service = Identify -> answered(ConfirmedResponse(r.invoke, Identify, IdentifyResponse(s)))
                   [] r.service = Read -> answered(ServeRead(r, model))
                   [] r.service = Write -> ServeWrite(r, model) @@ [on |-> TRUE]
                   [] r.service = GetAttributes -> answered(ServeAttributes(r, model))
                   [] r.service = GetListAttributes -> answered(ServeListAttributes(r, model))
                   [] OTHER -> answered(Reject(<<r.invoke>>, 1, 1)))

(***************************************************************************)
(* Answers, as the client reads them                                       *)
(***************************************************************************)
DecodeAccessResults(content) ==
    LET ts == Tlvs(content)
    IN  With([i \in DOMAIN ts |-> Then(ts[i], LAMBDA t :
                 IF t.tag = <<128>> THEN [ok |-> TRUE, result |-> [ok |-> FALSE, code |-> DecodeInteger(t.value)]]
                 ELSE Then(DecodeData(t.tag, t.value), LAMBDA v :
                           [ok |-> TRUE, result |-> [ok |-> TRUE, items |-> v.items]]))], LAMBDA all :
             IF Tiled(all) THEN [ok |-> TRUE, results |-> [i \in DOMAIN all |-> all[i].result]] ELSE BerError)

DecodeReport(service) ==
    LET parts == Tlvs(service.value)
        list == DecodeObjectName(DecodeTlv(parts[1].value, 1))
        variables == DecodeVariableList(parts[1].value)
        report(name, of, results) ==
            [ok |-> TRUE, kind |-> "report", listName |-> name, variables |-> of, results |-> results.results]
    IN  IF service.tag # <<160>> \/ ~Tiled(parts) \/ Len(parts) < 2 THEN BerError
        ELSE Then(DecodeAccessResults(parts[2].value), LAMBDA results :
                  IF parts[1].tag = <<161>> THEN Then(list, LAMBDA name : report(<<name>>, <<>>, results))
                  ELSE IF parts[1].tag = <<160>> THEN Then(variables, LAMBDA of : report(<<>>, of.names, results))
                  ELSE report(<<>>, <<>>, results))

(* decode_pdu *)
DecodePdu(d) ==
    Then(DecodeTlv(d, 1), LAMBDA outer :
    With(Tlvs(outer.value), LAMBDA parts :
    LET f == ByTag(parts)
        class == DecodeTlv(DecodeTlv(f[162], 1).value, 1)
        reasons == SelectSeq(parts, LAMBDA t : t.tag # <<128>>)
    IN  IF outer.tag = <<140>> THEN [ok |-> TRUE, kind |-> "concluded"]
        ELSE IF ~Tiled(parts) THEN BerError
        ELSE CASE outer.tag = <<161>> /\ Len(parts) >= 2 ->
                    [ok |-> TRUE, kind |-> "response", invoke |-> Unsigned(parts[1].value),
                     service |-> TagNumber(parts[2].tag), content |-> parts[2].value]
               [] outer.tag = <<162>> /\ {128, 162} \subseteq DOMAIN f ->
                    [ok |-> TRUE, kind |-> "error", invoke |-> Unsigned(f[128]),
                     class |-> TagNumber(class.tag), code |-> DecodeInteger(class.value)]
               [] outer.tag = <<164>> ->
                    [ok |-> TRUE, kind |-> "reject",
                     invoke |-> IF 128 \in DOMAIN f THEN <<Unsigned(f[128])>> ELSE <<>>,
                     reason |-> IF reasons = <<>> THEN -1 ELSE TagNumber(Last(reasons).tag),
                     code |-> IF reasons = <<>> THEN -1 ELSE DecodeInteger(Last(reasons).value)]
               [] outer.tag = <<163>> /\ parts # <<>> -> DecodeReport(parts[1])
               [] OTHER -> BerError))

ReadResults(content) ==
    LET listed == SelectSeq(Tlvs(content), LAMBDA t : t.tag = <<161>>)
    IN  IF listed = <<>> THEN BerError ELSE DecodeAccessResults(listed[1].value)

WriteErrors(content) ==
    LET ts == Tlvs(content)
    IN  IF \E i \in DOMAIN ts : ts[i].tag \notin {<<128>>, <<129>>} THEN BerError
        ELSE [ok |-> TRUE, errors |-> [i \in DOMAIN ts |->
                IF ts[i].tag = <<128>> THEN <<DecodeInteger(ts[i].value)>> ELSE <<>>]]

(* Without moreFollows there is more. *)
NameList(content) ==
    LET f == FieldsIn(content)
        ts == Tlvs(FieldOr(f, 160, <<>>))
    IN  [names |-> [i \in DOMAIN ts |-> Text(ts[i].value)],
         more |-> 129 \notin DOMAIN f \/ f[129] # <<0>>]

TypeGiven(content) ==
    LET given == SelectSeq(Tlvs(content), LAMBDA t : t.tag = <<162>>)
    IN  IF given = <<>> THEN BerError ELSE DecodeType(DecodeTlv(given[1].value, 1))

MembersGiven(content) ==
    LET given == SelectSeq(Tlvs(content), LAMBDA t : t.tag = <<161>>)
    IN  IF given = <<>> THEN BerError ELSE DecodeVariableList(given[1].value)

(* One request and its answer, each in its envelope. *)
Exchange(service, invoke, model, s) ==
    With(Handle(Unwrap(Wrap(ConfirmedRequest(invoke, service), MmsContext)).pdu, model, s), LAMBDA done :
         [pdu |-> DecodePdu(Unwrap(Wrap(done.answer, MmsContext)).pdu), values |-> done.values,
          size |-> Len(done.answer)])

(* get_name_list: pages until one says it is the last, or brings nothing. *)
RECURSIVE NamesAfter(_, _, _, _, _)
NamesAfter(class, domain, after, model, s) ==
    With(Exchange(GetNameListRequest(class, domain, after), 1, model, s).pdu, LAMBDA answer :
         IF answer.kind # "response" THEN <<>>
         ELSE With(NameList(answer.content), LAMBDA page :
                   IF ~page.more \/ page.names = <<>> THEN page.names
                   ELSE page.names \o NamesAfter(class, domain, <<Last(page.names)>>, model, s)))
=============================================================================
