------------------------------ MODULE MCBsonCodec ------------------------------
(* Bounded instance of BsonCodec for TLC. *)
EXTENDS BsonCodec

FieldNames == {"0", "1", "a", "b", "c", "_id", "__pclass", "private", "broken"}
Indexes == <<"0", "1", "2", "3", "4", "5">>
Classes == {"P", "Q", "U"}
OdmClasses == {"P", "Q"}
TwoNodes == {"n1", "n2"}

SomeElements ==
    {Scalar("a", "int32"), Pclass("P"), Pclass("Missing"), Close, Corrupt,
     Open("a", "document"), Open("b", "array"), Unsupported("c")}
FewElements == {CodeWithScope("a", TRUE), CodeWithScope("a", FALSE)}
AllElements == SomeElements \cup FewElements

Entry(key, name) == [key |-> key, name |-> name]
Map(array, document, entries) ==
    [array |-> array, document |-> document, root |-> "", fieldPaths |-> entries]

SomeMaps ==
    {Map("", "", <<>>), Map("U", "array", <<>>), Map("object", "U", <<>>),
     Map("", "", <<Entry(<<"a">>, "array"), Entry(<<"a", "a">>, "U")>>),
     Map("", "U", <<Entry(<<"b">>, "U"), Entry(<<"b", "$">>, "array")>>),
     Map("", "", <<Entry(<<"a">>, "Missing")>>),
     Map("", "", <<Entry(<<"a", "">>, "array")>>)}

\* All graphs of two nodes with up to two fields each, the keys those of a
\* list or not; and some with the rarer kinds of fields.
Keys == {<<"0", "1">>, <<"a", "b">>}
Targets == {"int"} \cup TwoNodes
FieldLists ==
    UNION {{[i \in 1..n |-> [key |-> k[i], to |-> t[i]]] :
              k \in Keys, t \in [1..n -> Targets]} : n \in 0..2}
Node1(kinds) ==
    [kind: kinds, class: {"P"}, fields: FieldLists]
AllGraphs ==
    {<<[n \in TwoNodes |-> IF n = "n1" THEN a ELSE b], "n1">> :
       a \in Node1({"array", "object", "persistable"}),
       b \in Node1({"array", "serializable", "persistable"})}

One(kind, fields) == [kind |-> kind, class |-> "P", fields |-> fields]
F(key, to) == [key |-> key, to |-> to]
RareGraphs ==
    {<<[n \in TwoNodes |-> IF n = "n1" THEN a ELSE b], "n1">> :
       a \in {One("object", <<F("a", "n2"), F("_id", "ObjectId"), F("c", "n2")>>),
              One("array", <<F("a", "n2"), F("private", "long"), F("c", "n2")>>),
              One("persistable", <<F("__pclass", "P"), F("a", "n2")>>),
              One("persistable", <<F("__pclass", "Q"), F("a", "n2")>>),
              One("persistable", <<F("__pclass", "n1"), F("a", "n2")>>),
              One("object", <<F("__pclass", "Q"), F("a", "n2"), F("b", "n2")>>),
              One("throws", <<>>), One("type", <<>>),
              One("object", <<F("private", "n1"), F("b", "n2")>>)},
       b \in {One("throws", <<>>), One("badreturn", <<>>),
              One("object", <<F("private", "n1"), F("b", "CursorId")>>),
              One("array", <<F("broken", "int"), F("b", "resource")>>),
              One("object", <<F("a", "binarystring"), F("b", "n1"), F("c", "unknowntype")>>)}
             \cup {One("object", <<F("a", leaf)>>) : leaf \in Leaves}
             \cup {One(kind, fields) :
                     kind \in {"persistable", "serializable", "object", "array"},
                     fields \in {<<F("__pclass", "Q"), F("a", "int")>>,
                                <<F("a", "int"), F("__pclass", "int")>>}}}
MCGraphs == AllGraphs \cup RareGraphs

================================================================================
