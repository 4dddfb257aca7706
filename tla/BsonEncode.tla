------------------------------ MODULE BsonEncode ------------------------------
(***************************************************************************)
(* PHP to BSON: bson-encode.c.  The PHP value is a graph of arrays and     *)
(* objects, which may be shared or contain themselves.  The encoder goes   *)
(* through it depth first; one step handles one field or leaves one array  *)
(* or object.  The document it writes is a sequence of elements as         *)
(* BsonDecode reads them.                                                  *)
(*                                                                         *)
(* An exception does not stop the encoder: it goes on with the next field. *)
(* While one is pending no bsonSerialize() can be called.                  *)
(***************************************************************************)
EXTENDS BsonDecode

CONSTANTS
    Node,       \* arrays and objects
    Graphs      \* the graphs to encode, as pairs of a graph and its root

\* A field is written under its key, or under a name that the driver gives it.
ASSUME NamesAssumption == {ODM, "_id"} \subseteq Key

VARIABLES
    graph,      \* [Node -> [kind, class, fields]]
    root,       \* the value to encode
    frames,     \* calls of zval_to_bson_internal, the innermost last
    epath,      \* the encoder's field path
    protected,  \* nodes whose table is marked against recursion
    bson,       \* the elements written so far
    raised,     \* the exceptions raised so far
    encoding    \* "idle", "running" or "done"

encodeVars == <<graph, root, frames, epath, protected, bson, raised, encoding>>

\* The BSON type that a PHP value of each type is written as.  An integer that
\* 32 bits cannot hold is a long here.
WrittenAs ==
    [null |-> "null", bool |-> "bool", int |-> "int32", long |-> "int64",
     float |-> "double", string |-> "utf8"]
ObjectWrittenAs ==
    [CursorId |-> "int64", Int64 |-> "int64", ObjectId |-> "oid",
     UTCDateTime |-> "date_time", Binary |-> "binary",
     Decimal128 |-> "decimal128", Regex |-> "regex", Javascript |-> "code",
     Timestamp |-> "timestamp", MaxKey |-> "maxkey", MinKey |-> "minkey",
     DBPointer |-> "dbpointer", Symbol |-> "symbol", Undefined |-> "undefined"]

Leaves == DOMAIN WrittenAs \cup DOMAIN ObjectWrittenAs

\* Values that cannot be written: text that is not UTF-8, a resource, and an
\* instance of Type that the driver does not know.
Unwritable == {"binarystring", "resource", "unknowntype"}

Serializable(n) == graph[n].kind \in {"serializable", "persistable"}

\* Keys with a null byte: at their start they mark a property that is not public.
PrivateKey == "private"
BrokenKey == "broken"

\* A value to encode: what a field refers to is a node, the type of a scalar or
\* of a driver object, or the class that a binary value names.
Target == Node \cup Leaves \cup Unwritable \cup Persistable

Graph == [Node -> [kind: {"array", "object", "serializable", "persistable",
                          "throws", "badreturn", "type"},
                   class: Persistable,
                   fields: Seq([key: Key, to: Target])]]

ASSUME GraphsAssumption == Graphs \subseteq Graph \X Node

\* php_phongo_is_array_or_document: of the array, or of what bsonSerialize()
\* returns, whose keys are those of the node.
IsList(n) ==
    /\ graph[n].kind # "object"
    /\ \A i \in DOMAIN graph[n].fields : graph[n].fields[i].key = Index[i]

-------------------------------------------------------------------------------
(* Frames *)

\* A call on node n: at is the number of fields it is done with.
Frame(n, addId, skipOdm) ==
    [node |-> n, at |-> 0, addId |-> addId, skipOdm |-> skipOdm]

Current == frames[Len(frames)]
Fields == graph[Current.node].fields
Field == Fields[Current.at + 1]

\* php_phongo_zval_to_bson, from fromPHP() or, with addId, from an insert.  A
\* driver type cannot be the root.
FromPhp(g, addId) ==
    /\ encoding = "idle"
    /\ graph' = g[1]
    /\ root' = g[2]
    /\ epath' = Alloc
    /\ LET kind == g[1][g[2]].kind
           runs == kind \notin {"throws", "badreturn", "type"}
       IN /\ bson' = IF kind = "persistable"
                       THEN <<Pclass(g[1][g[2]].class)>> ELSE <<>>
          /\ raised' = IF runs THEN {} ELSE {kind}
          /\ frames' = IF runs THEN <<Frame(g[2], addId, kind = "persistable")>> ELSE <<>>
          /\ encoding' = IF runs THEN "running" ELSE "done"
    /\ UNCHANGED protected

-------------------------------------------------------------------------------
(* php_phongo_bson_append *)

\* Key and flags of the field are looked at before it is written.
Skipped(f) ==
    \/ f.key = PrivateKey /\ graph[Current.node].kind = "object"
    \/ f.key = ODM /\ Current.skipOdm

NullByte(f) == f.key \in {PrivateKey, BrokenKey} /\ ~Skipped(f)

Advanced(f) ==
    [frames EXCEPT ![Len(frames)].at = @ + 1,
                   ![Len(frames)].addId = @ /\ f.key # "_id"]

EncodeSkip ==
    /\ Skipped(Field)
    /\ frames' = [frames EXCEPT ![Len(frames)].at = @ + 1]
    /\ UNCHANGED <<epath, protected, bson, raised>>

\* The rest of the fields and the _id are given up, for this document only.
EncodeNullByte ==
    /\ NullByte(Field)
    /\ frames' = [frames EXCEPT ![Len(frames)].at = Len(Fields),
                                ![Len(frames)].addId = FALSE]
    /\ raised' = raised \cup {"nullbyte"}
    /\ UNCHANGED <<epath, protected, bson>>

\* A class name stands for a binary value that holds it.
Written(f) ==
    IF f.to \in Persistable
      THEN [Pclass(f.to) EXCEPT !.key = f.key]
      ELSE Scalar(f.key, (WrittenAs @@ ObjectWrittenAs)[f.to])

EncodeScalar ==
    /\ ~Skipped(Field) /\ ~NullByte(Field)
    /\ Field.to \notin Node
    /\ epath' = WriteItem(epath, Field.key)
    /\ bson' = IF Field.to \in Unwritable THEN bson
               ELSE Append(bson, Written(Field))
    /\ raised' = IF Field.to \in Unwritable THEN raised \cup {Field.to} ELSE raised
    /\ frames' = Advanced(Field)
    /\ UNCHANGED protected

EncodeRecursion ==
    /\ ~Skipped(Field) /\ ~NullByte(Field)
    /\ Field.to \in protected
    /\ epath' = WriteItem(epath, Field.key)
    /\ raised' = raised \cup {"recursion"}
    /\ frames' = Advanced(Field)
    /\ UNCHANGED <<protected, bson>>

\* An object whose bsonSerialize() throws or returns no array or stdClass, or
\* cannot be called because an exception is pending, is left out.
LeftOut(n) ==
    \/ graph[n].kind \in {"throws", "badreturn"}
    \/ Serializable(n) /\ raised # {}

EncodeLeftOut ==
    /\ ~Skipped(Field) /\ ~NullByte(Field)
    /\ Field.to \in Node \ protected /\ LeftOut(Field.to)
    /\ epath' = WriteItem(epath, Field.key)
    /\ raised' = IF raised = {} THEN {graph[Field.to].kind} ELSE raised
    /\ frames' = Advanced(Field)
    /\ UNCHANGED <<protected, bson>>

\* Array or document by the keys alone, for Persistable objects too.
BegunByKeys(n) ==
    IF IsList(n)
      THEN <<Open(Field.key, "array")>>
      ELSE <<Open(Field.key, "document")>>
             \o (IF graph[n].kind = "persistable"
                   THEN <<Pclass(graph[n].class)>> ELSE <<>>)

\* The field is an array or object: its table is marked, the path goes down a
\* level, and the document or array begins.
Begun(n) ==
    IF graph[n].kind # "persistable" /\ IsList(n)
      THEN <<Open(Field.key, "array")>>
      ELSE <<Open(Field.key, "document")>>
             \o (IF graph[n].kind = "persistable"
                   THEN <<Pclass(graph[n].class)>> ELSE <<>>)

EncodeBegin ==
    /\ ~Skipped(Field) /\ ~NullByte(Field)
    /\ Field.to \in Node \ protected /\ ~LeftOut(Field.to)
    /\ epath' = Push(epath, Field.key)
    /\ protected' = protected \cup {Field.to}
    /\ bson' = bson \o Begun(Field.to)
    /\ frames' = Append(Advanced(Field), Frame(Field.to, FALSE, FALSE))
    /\ UNCHANGED raised

\* A mark that an exception leaves behind.
UnprotectedUnlessFailed ==
    IF raised = {} THEN protected \ {Current.node} ELSE protected

\* The fields are done: the document ends, and the caller goes on one level up.
Unprotected == protected \ {Current.node}

EncodeEnd ==
    /\ Current.at = Len(Fields)
    /\ bson' = bson \o (IF Current.addId THEN <<Scalar("_id", "oid")>> ELSE <<>>)
                    \o <<Close>>
    /\ frames' = Front(frames)
    /\ IF Len(frames) = 1
         THEN encoding' = "done" /\ UNCHANGED <<epath, protected>>
         ELSE /\ epath' = [epath EXCEPT !.size = @ - 1]
              /\ protected' = Unprotected
              /\ UNCHANGED encoding
    /\ UNCHANGED <<graph, root, raised>>

EncodeField ==
    /\ Current.at < Len(Fields)
    /\ \/ EncodeSkip
       \/ EncodeNullByte
       \/ EncodeScalar
       \/ EncodeRecursion
       \/ EncodeLeftOut
       \/ EncodeBegin
    /\ UNCHANGED <<graph, root, encoding>>

Encode ==
    /\ encoding = "running"
    /\ EncodeField \/ EncodeEnd

EncodeInit ==
    /\ graph = NULL
    /\ root = NULL
    /\ frames = <<>>
    /\ epath = Alloc
    /\ protected = {}
    /\ bson = <<>>
    /\ raised = {}
    /\ encoding = "idle"

================================================================================
