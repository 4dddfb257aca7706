------------------------------ MODULE BsonCodec ------------------------------
(***************************************************************************)
(* The encoder and the decoder together: a program encodes a value and     *)
(* decodes what it got, or decodes a document of another origin, which may *)
(* hold anything.                                                          *)
(***************************************************************************)
EXTENDS BsonEncode

CONSTANT
    Maps        \* the type maps that programs pass

DefaultMap == [array |-> "", document |-> "", root |-> "", fieldPaths |-> <<>>]

vars == <<decodeVars, encodeVars>>

Init == source = <<>> /\ DecodeInit /\ EncodeInit

EncodeStart ==
    /\ decoding = "idle" /\ encoding = "idle"
    /\ \E g \in Graphs, addId \in BOOLEAN : FromPhp(g, addId)
    /\ UNCHANGED decodeVars

EncodeStep == Encode /\ UNCHANGED decodeVars

DecodeOwn ==
    /\ encoding = "done" /\ raised = {}
    /\ ToPhp(DefaultMap, bson, TRUE)
    /\ UNCHANGED encodeVars

DecodeOther ==
    /\ encoding = "idle"
    /\ \E given \in Maps, readable \in BOOLEAN : ToPhp(given, <<>>, readable)
    /\ UNCHANGED encodeVars

Json ==
    /\ encoding = "idle"
    /\ \/ \E valid \in BOOLEAN : FromJson(valid)
       \/ \E readable, convertible, trailing \in BOOLEAN :
            ToJson(readable, convertible, trailing)
    /\ UNCHANGED encodeVars

DecodeStep == Visit /\ UNCHANGED encodeVars

Next == EncodeStart \/ EncodeStep \/ DecodeOwn \/ DecodeOther \/ Json
        \/ DecodeStep

Spec == Init /\ [][Next]_vars

-------------------------------------------------------------------------------
(* Properties *)

\* The nodes that node n of graph g contains: those its fields refer to, but for
\* the fields that are not written.
Contained(g, n, skipOdm) ==
    {m \in Node : \E i \in DOMAIN g[n].fields :
       LET f == g[n].fields[i]
       IN /\ f.to = m
          /\ ~(f.key = PrivateKey /\ g[n].kind = "object")
          /\ ~(f.key = ODM /\ skipOdm)}

\* The nodes in S and all below them: the least set that has these and what its
\* members contain.
Reached(g, S) ==
    {n \in Node : \A T \in SUBSET Node :
       S \subseteq T /\ (\A m \in T : Contained(g, m, FALSE) \subseteq T) => n \in T}

\* Whether a node that is reached from the root contains itself.  A __pclass
\* field of a Persistable root is not written.
Cyclic ==
    \E n \in Reached(graph, Contained(graph, root, graph[root].kind = "persistable")) :
      n \in Reached(graph, Contained(graph, n, FALSE))

\* When the encoder is done, with or without an exception, no table is left
\* marked, which would refuse it the next time, and the path is back at the top.
NothingMarked == encoding = "done" => protected = {} /\ epath.size = 0

\* A value is refused for recursion exactly when it contains itself, however
\* often its parts are shared, and leaves no marks (apply_protection_begin and
\* _end).
RecursionDetected ==
    /\ NothingMarked
    /\ encoding = "done" /\ raised \subseteq {"recursion"} => (raised # {} <=> Cyclic)

\* The class that the document of a node names, or NULL: a Persistable object's
\* own, but for one that a __pclass among its fields names.  Only at the root such
\* a field is not written.
NamedByFields(n) ==
    IF n = root /\ graph[n].kind = "persistable" THEN {}
    ELSE {f.to : f \in {g \in Range(graph[n].fields) : g.key = ODM}} \cap Persistable
NamedClass(n) ==
    IF NamedByFields(n) # {} THEN CHOOSE class \in NamedByFields(n) : TRUE
    ELSE IF graph[n].kind = "persistable" THEN graph[n].class ELSE NULL

\* What a field's value comes back as.
ComesBackAs(to) ==
    IF to \in {"long", "CursorId", "Int64"} THEN Php("int") ELSE
    IF to \in Leaves THEN Php(to) ELSE
    IF NamedClass(to) # NULL THEN Instance(NamedClass(to), TRUE)
    ELSE Php(IF to # root /\ IsList(to) THEN "array" ELSE "object")

\* The fields of a node that belong to its document: public and its own.
OwnFields(n) ==
    {f \in Range(graph[n].fields) :
       f.key # ODM /\ ~(f.key = PrivateKey /\ graph[n].kind = "object")}

\* Every field of a value that is encoded and decoded again, with the default
\* type map, comes back where it was and as what it was: objects as objects,
\* lists as arrays, Persistable objects as instances of their class, scalars and
\* driver types with the type they had; the one thing that comes back without
\* having been there is the _id of an insert (zval_to_bson_internal,
\* bson_append_object and the visitors).  A Persistable root is of its own class
\* even if bsonSerialize() returns a __pclass that names another (skip_odm_field);
\* any other value with such a field comes back as an instance of the class that
\* the field names.
RoundTrip ==
    decoding = "returned" /\ thrown = "none" /\ encoding = "done" =>
      LET level1 == {<<<<f.key>>, f.to>> : f \in OwnFields(root)}
          level2 == UNION {{<<Append(v[1], f.key), f.to>> : f \in OwnFields(v[2])} :
                             v \in {w \in level1 : w[2] \in Node}}
          named == {l \in DOMAIN zvals : Len(l) \in {1, 2} /\ Last(l) # ODM}
      IN /\ zvals[<<>>] = ComesBackAs(root)
         /\ \A v \in level1 \cup level2 : zvals[v[1]] = ComesBackAs(v[2])
         /\ named \subseteq {v[1] : v \in level1 \cup level2} \cup {<<"_id">>}

================================================================================
