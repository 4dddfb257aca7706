------------------------------ MODULE BsonDecode ------------------------------
(***************************************************************************)
(* BSON to PHP: the type map, the visitors and php_phongo_bson_to_zval_ex  *)
(* of bson.c, as MongoDB\BSON\toPHP() runs them.                           *)
(*                                                                         *)
(* A BSON document is the sequence of the elements that libbson's iterator *)
(* comes across: a scalar, the start or the end of an embedded document or *)
(* array, or what stops the iteration.  Each is one step of the decoder.   *)
(* The PHP values built so far are a function from locations (the PHP keys *)
(* that lead to the value) to their PHP types; an open document has none   *)
(* before it ends, for its type is chosen then.  Documents whose type is a *)
(* class are handed to bsonUnserialize(), user code that may throw.        *)
(***************************************************************************)
EXTENDS FieldPath, FiniteSets

CONSTANTS
    Index,          \* names of array indexes, in order
    Unserializable, \* instantiatable classes that implement Unserializable
    Persistable,    \* those of them that are Persistable
    Elements,       \* the elements of documents that others have written
    MaxElements     \* bound: elements of such a document

ASSUME PersistableAssumption == Persistable \subseteq Unserializable

\* libbson names every element but the end of a document.
ASSUME ElementsAssumption ==
    \A e \in Elements : e.key \in IF e.op \in {"close", "corrupt"} THEN {NULL} ELSE Key

VARIABLES
    source,     \* the elements read so far, or all of them if they are known
    pos,        \* how many of them the iterator has passed
    map,        \* php_phongo_bson_typemap
    path,       \* state->field_path, or NULL when it is freed
    refs,       \* field_path->ref_count
    states,     \* php_phongo_bson_state of the open documents, innermost last
    zvals,      \* [location -> PHP value]
    thrown,     \* EG(exception): the failure it reports, or "none"
    message,    \* the field path named by that report
    decoding    \* "idle", "visiting", "returned" or "failed"

decodeVars == <<source, pos, map, path, refs, states, zvals, thrown, message,
                decoding>>

-------------------------------------------------------------------------------
(* Elements and PHP values *)

ODM == "__pclass"

Scalar(key, kind) == [op |-> "scalar", key |-> key, kind |-> kind, class |-> NULL]
Pclass(class) == [op |-> "scalar", key |-> ODM, kind |-> "binary", class |-> class]
Open(key, kind) == [op |-> "open", key |-> key, kind |-> kind, class |-> NULL]
Close == [op |-> "close", key |-> NULL, kind |-> NULL, class |-> NULL]
CodeWithScope(key, ok) ==
    [op |-> IF ok THEN "code" ELSE "badscope", key |-> key, kind |-> "code",
     class |-> NULL]
Corrupt == [op |-> "corrupt", key |-> NULL, kind |-> NULL, class |-> NULL]
Unsupported(key) ==
    [op |-> "unsupported", key |-> key, kind |-> NULL, class |-> NULL]

\* The PHP type of each BSON type: the native ones ...
NativeOf ==
    [double |-> "float", utf8 |-> "string", bool |-> "bool", null |-> "null",
     int32 |-> "int", int64 |-> "int"]

\* ... and the objects the visitors construct from the element's parts.
ObjectOf ==
    [binary |-> "Binary", undefined |-> "Undefined", oid |-> "ObjectId",
     date_time |-> "UTCDateTime"]
NumberOf == [decimal128 |-> "Decimal128"]
TextOf == [regex |-> "Regex", symbol |-> "Symbol"]
PointerOf == [code |-> "Javascript", dbpointer |-> "DBPointer"]
KeyOf == [timestamp |-> "Timestamp", maxkey |-> "MaxKey", minkey |-> "MinKey"]

PhpOf == NativeOf @@ ObjectOf @@ NumberOf @@ TextOf @@ PointerOf @@ KeyOf

\* A PHP value: native or driver type, or an instance of a class, of which
\* ready says that its bsonUnserialize() has been called with its fields.
Php(type) == [type |-> type, class |-> NULL, ready |-> TRUE]
Instance(class, ready) == [type |-> "class", class |-> class, ready |-> ready]

-------------------------------------------------------------------------------
(* The type map *)

None == [type |-> "none", class |-> NULL]

\* php_phongo_bson_state_fetch_class
Fetch(name) == name \in Unserializable

\* php_phongo_bson_state_parse_type: an empty name leaves the type as it was.
ParseType(name, type) ==
    CASE name = "" -> type
      [] name = "array" -> [type |-> "array", class |-> NULL]
      [] name = "object" -> [type |-> "object", class |-> NULL]
      [] OTHER -> [type |-> "class", class |-> name]

Parses(name) == name \in {"", "array", "object"} \/ Fetch(name)

\* The local variable that the type of a fieldPaths entry is parsed into is
\* not initialized: it holds any type.
Uninitialized == {None} \cup [type: {"array", "object", "class"}, class: {NULL}]

\* A fieldPaths key names one or more segments, none of them empty.
Segments(key) == key # <<>> /\ \A i \in DOMAIN key : key[i] # ""

MapOk(given) ==
    /\ \A f \in {"array", "document", "root"} : Parses(given[f])
    /\ \A i \in DOMAIN given.fieldPaths :
         /\ Segments(given.fieldPaths[i].key)
         /\ Parses(given.fieldPaths[i].name)

\* The entries in the order they were given.
TypeMaps(given) ==
    LET entries(garbage) ==
          [i \in DOMAIN given.fieldPaths |->
             [key |-> given.fieldPaths[i].key,
              as  |-> ParseType(given.fieldPaths[i].name, garbage)]]
    IN {[array      |-> ParseType(given.array, None),
         document   |-> ParseType(given.document, None),
         root       |-> ParseType(given.root, None),
         fieldPaths |-> entries(g)] : g \in Uninitialized}

\* A comparison that takes an entry for all that lies below it, too.
MatchesBelow(key, keys) ==
    /\ Len(key) <= Len(keys)
    /\ \A i \in DOMAIN key : key[i] \in {"$", keys[i]}

\* map_element_matches_field_path; "$" stands for any one key.
Matches(key, keys) ==
    /\ Len(key) = Len(keys)
    /\ \A i \in DOMAIN key : key[i] \in {"$", keys[i]}

\* The first entry that matches replaces the type of its document or array.
Override(type, keys) ==
    LET found == {i \in DOMAIN map.fieldPaths :
                    Matches(map.fieldPaths[i].key, keys)}
        first == map.fieldPaths[CHOOSE i \in found : \A j \in found : i <= j].as
    IN IF found = {} \/ first.type = "none" THEN type ELSE
       IF first.type = "class" THEN first ELSE [type EXCEPT !.type = first.type]

\* What a document becomes, given the Persistable class that it names.
DocumentType(type, odm) ==
    LET final == IF odm # NULL /\ type.type = "none" THEN "class" ELSE type.type
    IN CASE final = "array" -> Php("array")
         [] final = "class" -> Instance(IF odm # NULL THEN odm ELSE type.class, TRUE)
         [] OTHER -> Php("object")

ArrayType(type) ==
    CASE type.type = "class" -> Instance(type.class, TRUE)
      [] type.type = "object" -> Php("object")
      [] OTHER -> Php("array")

-------------------------------------------------------------------------------
(* Visitors *)

State(kind, location) == [kind |-> kind, location |-> location, odm |-> NULL,
                          count |-> 0]

Top == states[Len(states)]

\* add_next_index() in an array, add_assoc() in a document.
Location(state, key) ==
    Append(state.location,
           IF state.kind = "array" THEN Index[state.count + 1] ELSE key)

\* A value takes the place of an earlier one with the same key.
Put(location, values) ==
    values @@ [l \in {m \in DOMAIN zvals : ~IsPrefix(location, m)} |-> zvals[l]]

\* php_phongo_bson_visit_binary: the class a __pclass element names.
FoundClass(state, e) ==
    IF e.class \in Persistable THEN e.class ELSE state.odm

\* bsonUnserialize() is called on a new instance, unless an exception is
\* pending, and may throw.
Unserialize(value) ==
    [value EXCEPT !.ready = value.type # "class" \/ thrown = "none"]

MayThrow(value) ==
    IF value.type = "class" /\ thrown = "none" THEN BOOLEAN ELSE {FALSE}

VisitScalar(e) ==
    /\ e.op \in {"scalar", "code"}
    /\ LET location == Location(Top, e.key)
       IN zvals' = Put(location, location :> Php(PhpOf[e.kind]))
    /\ states' = [states EXCEPT ![Len(states)].count = @ + 1,
                                ![Len(states)].odm = FoundClass(Top, e)]
    /\ path' = WriteItem(path, e.key)
    /\ UNCHANGED <<refs, thrown, message, decoding>>

\* A document or array starts: the new state shares the parent's path.
VisitBegin(e) ==
    /\ e.op = "open"
    /\ path' = Push(path, e.key)
    /\ refs' = refs + 1
    /\ states' = Append(states, State(e.kind, Location(Top, e.key)))
    /\ zvals' = Put(Location(Top, e.key), <<>>)
    /\ UNCHANGED <<thrown, message, decoding>>

\* What the document or array that has ended becomes.
Ended ==
    IF Top.kind = "document"
      THEN DocumentType(Override(map.document, Parents(path)), Top.odm)
      ELSE ArrayType(Override(map.array, Parents(path)))

VisitEnd(e) ==
    /\ e.op = "close" /\ Len(states) > 1
    /\ \E throws \in MayThrow(Ended) :
         /\ zvals' = (Top.location :> Unserialize(Ended)) @@ zvals
         /\ thrown' = IF throws THEN "user" ELSE thrown
    /\ path' = Pop(path)
    /\ refs' = refs - 1
    /\ states' = [Front(states) EXCEPT ![Len(states) - 1].count = @ + 1]
    /\ UNCHANGED <<message, decoding>>

\* A state_dtor that the early return of a nested visitor leaves out.
StoppedLeaks(what, keys) ==
    /\ thrown' = what
    /\ message' = keys
    /\ decoding' = "failed"
    /\ states' = <<>>
    /\ refs' = refs - 1
    /\ path' = IF refs = 1 THEN NULL ELSE path
    /\ UNCHANGED zvals

\* The iteration stops: the visitors of the open documents return true one
\* after the other, each giving up its state but leaving the path as it is,
\* and the outermost one names that path, unless an exception is pending.
Stopped(what, keys) ==
    /\ thrown' = what
    /\ message' = keys
    /\ decoding' = "failed"
    /\ states' = <<>>
    /\ refs' = refs - Len(states)
    /\ path' = NULL
    /\ UNCHANGED zvals

VisitCorrupt(e) ==
    /\ e.op = "corrupt"
    /\ IF thrown = "none"
         THEN Stopped("corrupt", AsString(path))
         ELSE Stopped(thrown, message)

VisitUnsupported(e) ==
    /\ e.op = "unsupported"
    /\ Stopped("unsupported", AsString(WriteItem(path, e.key)))

\* The scope is decoded, and dropped, only to see whether it is valid; the
\* path of that decoder starts at the scope.
VisitBadScope(e) ==
    /\ e.op = "badscope"
    /\ IF thrown = "none" THEN Stopped("scope", <<>>) ELSE Stopped(thrown, message)

\* The document has ended: it gets its type, then the reader must be at the
\* end of its data.
VisitRoot(e, trailing) ==
    /\ e.op = "close" /\ Len(states) = 1
    /\ LET value == DocumentType(map.root, Top.odm)
       IN \E throws \in MayThrow(value) :
            /\ zvals' = (<<>> :> Unserialize(value)) @@ zvals
            /\ thrown' = IF trailing THEN "trailing" ELSE
                          IF throws THEN "user" ELSE thrown
    /\ decoding' = IF trailing THEN "failed" ELSE "returned"
    /\ states' = <<>>
    /\ refs' = refs - 1
    /\ path' = NULL
    /\ UNCHANGED message

-------------------------------------------------------------------------------
(* MongoDB\BSON\toPHP() *)

DecodeInit ==
    /\ pos = 0
    /\ map = NULL
    /\ path = NULL
    /\ refs = 0
    /\ states = <<>>
    /\ zvals = [l \in {} |-> NULL]
    /\ thrown = "none"
    /\ message = <<>>
    /\ decoding = "idle"

\* The type map is parsed, the path allocated and the first document read.
ToPhp(given, bson, readable) ==
    /\ decoding = "idle"
    /\ source' = bson
    /\ IF ~MapOk(given)
         THEN /\ thrown' = "typemap"
              /\ decoding' = "failed"
              /\ UNCHANGED <<map, path, refs, states>>
         ELSE /\ map' \in TypeMaps(given)
              /\ path' = IF readable THEN Alloc ELSE NULL
              /\ refs' = IF readable THEN 1 ELSE 0
              /\ states' = IF readable THEN <<State("document", <<>>)>> ELSE <<>>
              /\ thrown' = IF readable THEN thrown ELSE "reader"
              /\ decoding' = IF readable THEN "visiting" ELSE "failed"
    /\ UNCHANGED <<pos, zvals, message>>

\* MongoDB\BSON\fromJSON(), which libbson does.
FromJson(valid) ==
    /\ decoding = "idle"
    /\ thrown' = IF valid THEN "none" ELSE "json"
    /\ decoding' = IF valid THEN "returned" ELSE "failed"
    /\ UNCHANGED <<source, pos, map, path, refs, states, zvals, message>>

\* MongoDB\BSON\toJSON() and its variants: libbson converts the first document;
\* the reader must then be at the end of its data.
ToJson(readable, convertible, trailing) ==
    /\ decoding = "idle"
    /\ thrown' = CASE ~readable -> "reader"
                   [] readable /\ ~convertible -> "json"
                   [] readable /\ convertible /\ trailing -> "trailing"
                   [] OTHER -> "none"
    /\ decoding' = IF thrown' = "none" THEN "returned" ELSE "failed"
    /\ UNCHANGED <<source, pos, map, path, refs, states, zvals, message>>

\* The next element: the one that is there, or one that others have written.
Reads(e) ==
    \/ /\ pos < Len(source) /\ e = source[pos + 1] /\ UNCHANGED source
    \/ /\ pos = Len(source)
       /\ e = Close \/ Len(source) + Len(states) < MaxElements
       /\ source' = Append(source, e)

Visit ==
    /\ decoding = "visiting"
    /\ \E e \in Elements \cup {source[i] : i \in DOMAIN source} :
         /\ Reads(e)
         /\ pos' = pos + 1
         /\ \/ VisitScalar(e)
            \/ VisitBegin(e)
            \/ VisitEnd(e)
            \/ VisitCorrupt(e)
            \/ VisitUnsupported(e)
            \/ VisitBadScope(e)
            \/ \E trailing \in IF pos = Len(source) THEN BOOLEAN ELSE {FALSE} :
                 VisitRoot(e, trailing)
    /\ UNCHANGED map

-------------------------------------------------------------------------------
(* Properties *)

\* The keys around what follows element e, given those around e.
After(keys, e) ==
    CASE e.op = "open" -> Append(keys, e.key)
      [] e.op = "close" /\ keys # <<>> -> Front(keys)
      [] OTHER -> keys

\* The keys of the documents and arrays that enclose the element after the
\* first n, by the elements alone.
Enclosing(n) ==
    LET keys[i \in 0..n] == IF i = 0 THEN <<>> ELSE After(keys[i - 1], source[i])
    IN keys[n]

\* While a document is visited, the levels of the field path are the keys of
\* the documents and arrays around the current position, whatever has been
\* visited and left before, and nothing is left above the level of the field
\* visited last; and the report of an element that is not supported names the
\* path of that element (field_path_push, _pop and _as_string).
FieldPathExact ==
    /\ decoding = "visiting" =>
         /\ Parents(path) = Enclosing(pos)
         /\ \A i \in DOMAIN path.elements :
              i > path.size + 1 => path.elements[i] = NULL
    /\ thrown = "unsupported" => message = Append(Enclosing(pos), source[pos].key)

\* The field path lives as long as a state refers to it: one reference for
\* each open document, none and no path once toPHP() has returned or failed
\* (bson_state_copy_ctor and _dtor).
PathOwned ==
    /\ refs = Len(states)
    /\ (path = NULL) = (refs = 0)

\* The elements that end at the place where element p begins one.
EndOf(p) ==
    CHOOSE q \in p..Len(source) :
      /\ Len(Enclosing(q)) = Len(Enclosing(p - 1))
      /\ \A r \in p..(q - 1) : Len(Enclosing(r)) > Len(Enclosing(p - 1))

\* The class named last by the elements of the document that element p opens.
OdmOf(p) ==
    LET named == {q \in p..EndOf(p) : /\ source[q].class \in Persistable
                                      /\ Len(Enclosing(q)) = Len(Enclosing(p))}
    IN IF named = {} THEN NULL
       ELSE source[CHOOSE q \in named : \A r \in named : r <= q].class

\* The location of the value that element p is decoded to.
LocationOf(p) ==
    LET opens == {q \in 1..p : /\ q = p \/ (source[q].op = "open" /\ EndOf(q) > p)}
        siblings(q) == Cardinality({r \in 1..(q - 1) :
                         /\ source[r].op # "close"
                         /\ Len(Enclosing(r - 1)) = Len(Enclosing(q - 1))
                         /\ \A t \in r..(q - 1) :
                              Len(Enclosing(t)) >= Len(Enclosing(q - 1))})
        inArray(q) == \E o \in opens : /\ o < q /\ source[o].kind = "array"
                                       /\ \A x \in opens : x < q => x <= o
    IN [i \in 1..Cardinality(opens) |->
          LET q == CHOOSE o \in opens : Cardinality({x \in opens : x <= o}) = i
          IN IF inArray(q) THEN Index[siblings(q) + 1] ELSE source[q].key]

\* No later element takes the place of what element p is decoded to.
Lasts(p) ==
    \A q \in (p + 1)..Len(source) :
      source[q].op # "close" => ~IsPrefix(LocationOf(q), LocationOf(p))

\* An embedded document or array is decoded to the type that its own path and
\* contents select, and no other: the first fieldPaths entry that matches it,
\* else the type map's, with a Persistable class before a class or no type;
\* an entry never reaches into what lies below it.  Every instance has been
\* through bsonUnserialize() (visit_document, visit_array).
DecodedAsMapped ==
    decoding = "returned" /\ thrown = "none" =>
      \A p \in DOMAIN source :
        source[p].op = "open" /\ Lasts(p) =>
          LET keys == Append(Enclosing(p - 1), source[p].key)
              is(entry) == /\ Len(entry.key) = Len(keys)
                           /\ \A i \in DOMAIN keys : entry.key[i] \in {"$", keys[i]}
              named == SelectSeq(map.fieldPaths, is)
              chosen == IF named # <<>> THEN Head(named).as.type ELSE
                        IF source[p].kind = "array" THEN map.array.type
                        ELSE map.document.type
              class == IF named # <<>> /\ chosen = "class" THEN Head(named).as.class ELSE
                       IF source[p].kind = "array" THEN map.array.class
                       ELSE map.document.class
              odm == IF source[p].kind = "array" THEN NULL ELSE OdmOf(p)
          IN zvals[LocationOf(p)] =
               IF odm # NULL /\ chosen \in {"none", "class"} THEN Instance(odm, TRUE) ELSE
               IF chosen = "class" THEN Instance(class, TRUE) ELSE
               IF chosen # "none" THEN Php(chosen) ELSE
               Php(IF source[p].kind = "array" THEN "array" ELSE "object")

================================================================================
