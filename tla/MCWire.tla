------------------------------- MODULE MCWire -------------------------------
(* The inputs of Wire: see Wire.cfg.                                       *)
EXTENDS Wire

Alphabet0 == {0, 1, 2, 3, 129, 130, 133, 134, 138, 159, 162}
Seeds0 == {<<>>, <<162, 3>>, <<162, 4, 133>>, <<159, 129>>}

Bool == Item("bool", <<1>>)
Num(v) == Item("int", <<v>>)
Time8 == <<0, 0, 0, 1, 0, 0, 0, 2>>
SomeValues0 ==
    {<<Bool>>, <<Item("bool", <<0>>)>>, <<Item("bits", <<3, 8>>)>>, <<Item("bits", <<0>>)>>,
     <<Item("visible", <<65, 66>>)>>, <<Item("mms", <<200>>)>>, <<Item("octets", <<>>)>>,
     <<Item("octets", [i \in 1..130 |-> 1])>>, <<Item("utc", Time8)>>,
     <<Item("btime", <<0, 0, 3, 232, 0, 2>>)>>, <<Item("btime", <<0, 0, 0, 1, 0, 0>>)>>,
     <<Item("float32", <<63, 128, 0, 0>>)>>, <<Item("float64", Time8)>>,
     <<Item("raw", <<1, 141, 7>>)>>, <<Item("raw", <<2, 159, 33, 7>>)>>,
     <<Item("struct", <<0>>)>>, <<Item("struct", <<2>>), Bool, Num(5)>>,
     <<Item("array", <<1>>), Item("struct", <<1>>), Item("struct", <<1>>), Item("uint", <<7>>)>>}
    \cup {<<Num(v)>> : v \in {-32768, -129, -128, -1, 0, 127, 128, 255, 256, 32767}}
    \cup {<<Item("uint", <<v>>)>> : v \in {0, 127, 128, 255, 256, 65535}}

GooseFields0 ==
    <<[n |-> 0, content |-> <<65>>], [n |-> 1, content |-> <<10>>], [n |-> 2, content |-> <<66>>],
      [n |-> 3, content |-> <<67>>], [n |-> 4, content |-> Time8], [n |-> 5, content |-> <<1>>],
      [n |-> 6, content |-> <<0>>], [n |-> 7, content |-> <<0>>], [n |-> 8, content |-> <<1>>],
      [n |-> 9, content |-> <<0>>], [n |-> 10, content |-> <<1>>], [n |-> 11, content |-> <<131, 1, 255>>]>>
Texts == {<<65>>, <<65, 66>>, <<66>>, <<67>>, <<>>}
GoodContents0 ==
    [n \in 0..11 |->
       CASE n = 0 -> Texts \ {<<>>}
         [] n \in {2, 3} -> Texts
         [] n = 4 -> {Time8}
         [] n \in {7, 9} -> {<<0>>, <<255>>, <<7>>}
         [] n = 11 -> {<<>>, <<131, 1, 255>>, <<131, 1, 0, 133, 1, 5>>, <<162, 3, 131, 1, 0>>, <<162, 0>>,
                       <<132, 2, 7, 128>>, EncodeTlv(<<145>>, Time8), <<138, 1, 65>>, <<137, 0>>,
                       <<135, 5, 8, 0, 0, 0, 0>>, <<141, 1, 0>>}
         [] OTHER -> {<<0>>, <<1>>, <<2>>, <<10>>, <<200>>, <<0, 200>>}]
BadContents0 ==
    [n \in 0..11 |->
       CASE n = 0 -> {<<>>, <<200>>, <<65, 65, 65>>}
         [] n \in {2, 3} -> {<<31>>, <<65, 65, 65>>}
         [] n = 4 -> {Tail(Time8), Time8 \o <<0>>}
         [] n \in {7, 9} -> {<<>>, <<0, 0>>}
         [] n = 11 -> {<<131, 2, 0, 0>>, <<133, 0>>, <<132, 0>>, <<132, 2, 8, 0>>, <<138, 1, 200>>,
                       <<135, 4, 0, 0, 0, 0>>, <<163, 3, 131, 1, 0>>, <<130, 0>>, EncodeTlv(<<145>>, Time8 \o <<0>>),
                       <<162, 2, 133, 0>>, <<159, 33, 0>>, <<5, 0>>, <<140, 3, 0, 0, 0>>, <<131, 2, 0>>, <<162, 2, 131, 5>>}
         [] OTHER -> {<<>>, <<1, 0>>, <<0, 0, 1>>, <<1, 0, 0>>}]
OddTags0 == {<<140>>, <<159, 5>>, <<165>>, <<5>>}

SvFields0 ==
    <<[n |-> 0, content |-> <<65>>], [n |-> 1, content |-> <<200>>], [n |-> 2, content |-> <<0, 1>>],
      [n |-> 3, content |-> <<0, 0, 0, 1>>], [n |-> 4, content |-> Time8], [n |-> 5, content |-> <<2>>],
      [n |-> 6, content |-> <<0, 80>>], [n |-> 7, content |-> <<1, 2, 3>>], [n |-> 8, content |-> <<0, 0>>]>>
SvContents0 == [n \in 0..8 |-> {<<>>, <<200>>, <<0, 1>>, <<0, 0, 0, 1>>, Tail(Time8), Time8 \o <<0>>}]

Apdu0 == GooseApdu([fields |-> [i \in DOMAIN GooseFields0 |-> Tagged(GooseFields0[i])], after |-> <<>>])
Sv0 == SvApdu([fields |-> [i \in DOMAIN SvFields0 |-> Tagged(SvFields0[i])], noAsdu |-> <<1>>, after |-> <<>>])
SomeFrames0 ==
    {BuildFrame(Address, Apdu0), BuildFrame([Address EXCEPT !.vlan = <<>>], Apdu0),
     BuildFrame([Address EXCEPT !.vlan = <<>>], <<>>), BuildFrame([Address EXCEPT !.ethertype = ETHERTYPE_SV], Sv0)}
SomePairs0 == {<<136, 184>>, <<136, 186>>, <<129, 0>>, <<0, 7>>, <<0, 8>>, <<0, 30>>, <<255, 255>>}

Connections0 ==
    {[code |-> code, calling |-> <<0, 1>>, called |-> called, noise |-> noise] :
       code \in 2..5, called \in {<<0, 1>>, <<>>}, noise \in {<<>>, <<<<2, 112, 0>>, <<1, 96>>>>}}

Proposals0 ==
    [maxPdu : {<<>>, <<0>>, <<4>>, <<300>>}, outstanding : {1, 5}, nesting : {<<>>, <<3>>, <<20>>},
     title : {<<>>, <<<<1, 1, 999, 1>>>>}]
Limits0 == [maxPdu : {8, 1000}, outstanding : {2}, nesting : {10}]

Primitive(kind, size) == [kind |-> kind, size |-> size]
Struct(components) == [kind |-> "struct", components |-> components]
Of(name, type) == [name |-> name, type |-> type]
Domain == <<76>>
Types0 ==
    (Domain :> Struct(<<Of(<<65>>, Struct(<<
        Of(<<83, 84>>, Struct(<<Of(<<113>>, Primitive("bitstring", <<-3>>))>>)),
        Of(<<67, 70>>, Struct(<<Of(<<97>>, [kind |-> "array", count |-> 2, element |-> Primitive("integer", <<8>>)])>>)),
        Of(<<68, 67>>, Struct(<<Of(<<116>>, Primitive("binarytime", <<>>))>>)),
        Of(<<83, 80>>, Struct(<<Of(<<117>>, Primitive("unsigned", <<8>>)), Of(<<102>>, Primitive("float", <<32>>)),
                                Of(<<115>>, Primitive("visiblestring", <<-2>>))>>))>>))>>))
Var(item) == ObjectName(item, <<Domain>>)
A == <<65>>
SP == <<65, 36, 83, 80>>
SPu == SP \o <<36, 117>>
SPf == SP \o <<36, 102>>
SPs == SP \o <<36, 115>>
STq == <<65, 36, 83, 84, 36, 113>>
CFa == <<65, 36, 67, 70, 36, 97>>
DCt == <<65, 36, 68, 67, 36, 116>>
Set0 == Var(<<68>>)
Sets0 == (Set0 :> <<Var(SPu), Var(STq), Var(<<66>>)>>)

Reads(items) == [op |-> "read", names |-> [i \in DOMAIN items |-> Var(items[i])]]
Writes(items, data) == [op |-> "write", names |-> [i \in DOMAIN items |-> Var(items[i])], data |-> data]
Float(o) == Item("float32", <<o, 0, 0, 0>>)
Calls0 ==
    {Reads(<<A>>), Reads(<<SPu, STq>>), Reads(<<CFa \o <<36, 49>>, <<66>>, DCt>>),
     [op |-> "read", names |-> <<ObjectName(SPu, <<>>)>>],
     [op |-> "readSet", names |-> <<Set0>>], [op |-> "readSet", names |-> <<Var(<<69>>)>>],
     Writes(<<SPu>>, <<<<Item("uint", <<200>>)>>>>), Writes(<<SPu>>, <<<<Num(5)>>>>),
     Writes(<<SPs>>, <<<<Item("visible", <<65, 66>>)>>>>), Writes(<<SPs>>, <<<<Item("visible", <<65, 66, 67>>)>>>>),
     Writes(<<SP>>, <<<<Item("struct", <<3>>), Item("uint", <<9>>), Float(64), Item("visible", <<>>)>>>>),
     Writes(<<SP>>, <<<<Item("struct", <<2>>), Item("uint", <<9>>), Float(64)>>>>),
     Writes(<<SPf, STq, SPs, A>>,
            <<<<Float(63)>>, <<Item("bits", <<5, 32>>)>>, <<Item("visible", <<67>>)>>, <<Bool>>>>),
     Writes(<<CFa, <<66>>>>, <<<<Item("array", <<2>>), Num(1), Num(-1)>>, <<Bool>>>>),
     Writes(<<CFa>>, <<<<Item("array", <<1>>), Num(1)>>>>),
     Writes(<<DCt>>, <<<<Item("raw", <<1, 140, 0, 0, 3, 232, 0, 2>>)>>>>),
     [op |-> "type", names |-> <<Var(A)>>], [op |-> "type", names |-> <<Var(<<66>>)>>],
     [op |-> "members", names |-> <<Set0>>], [op |-> "members", names |-> <<Var(<<69>>)>>],
     [op |-> "names", names |-> <<>>, class |-> 0, domain |-> <<Domain>>],
     [op |-> "names", names |-> <<>>, class |-> 2, domain |-> <<Domain>>],
     [op |-> "names", names |-> <<>>, class |-> 9, domain |-> <<>>],
     [op |-> "unknown", names |-> <<>>]}

Members(n) == [i \in 1..n |-> Var(IF i % 2 = 0 THEN SPu ELSE <<65 + i>>)]
Blocks0 ==
    [buffered : BOOLEAN, rptId : {<<82>>}, optFlds : {{}}, sqNum : {255}, datSet : {<<68>>},
     overflowed : {TRUE}, confRev : {128}, members : {Members(n) : n \in {2, 8, 9}}]
Results == <<[ok |-> TRUE, items |-> <<Bool>>], [ok |-> FALSE, code |-> 3],
             [ok |-> TRUE, items |-> <<Item("struct", <<1>>), Num(-1)>>]>>
Entries0 ==
    {[id |-> 258, time |-> <<0, 0, 0, 1, 0, 2>>, indexes |-> of,
      values |-> [i \in 1..9 |-> Results[(i % 3) + 1]], reasons |-> [i \in 1..9 |-> IF i % 2 = 0 THEN {1} ELSE {2, 6}]] :
       of \in {{}, {2}, {1, 2}, {1, 8}, {3, 8, 9}}}
=============================================================================
