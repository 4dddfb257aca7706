----------------------------- MODULE ValueObjects -----------------------------
(***************************************************************************)
(* The life of a value object of one of the classes of MongoDB\BSON and      *)
(* MongoDB\Driver in the modules below.  It is made by its constructor, by   *)
(* __set_state() or by unserialize(); as these are public methods a program  *)
(* can call the constructor, unserialize() and __unserialize() again on the  *)
(* object it has, with what it likes.                                       *)
(*                                                                         *)
(* Such objects share nothing, so that one is enough.  Its properties hash  *)
(* is built when it is first asked for, and kept.                           *)
(***************************************************************************)
EXTENDS BsonValues, TextValues, Settings

CONSTANTS
    Args,       \* arguments of the constructor, by class
    Hashes,     \* arrays that are unserialized, by class
    Names,      \* texts that are used as a whole
    Documents   \* arrays and objects, as they are encoded

VARIABLES
    object,     \* the object: its class, native value and properties; or NULL
    crashed     \* an assertion of libmongoc ended the process

vars == <<object, crashed>>

BsonClasses ==
    {"Timestamp", "UTCDateTime", "Int64", "Binary",
     "ObjectId", "Decimal128", "Regex", "Javascript", "Symbol", "DBPointer"}
SettingClasses == {"WriteConcern", "ReadPreference", "ReadConcern", "ServerApi"}
Classes == BsonClasses \cup SettingClasses \cup {"CursorId"}

\* The constructor of the others is private.
Constructible == Classes \ {"Int64", "Symbol", "DBPointer", "CursorId"}

\* "__set_state intentionally missing", say the others.
SetStateClasses == Classes \ {"Int64", "Symbol", "DBPointer"}

-------------------------------------------------------------------------------
(* The methods of each class *)

Construct(class, old, args) ==
    CASE class = "Timestamp" -> TimestampConstruct(old, args)
      [] class = "UTCDateTime" -> UTCDateTimeConstruct(old, args)
      [] class = "Binary" -> BinaryConstruct(old, args)
      [] class = "ObjectId" -> ObjectIdConstruct(old, args)
      [] class = "Decimal128" -> Decimal128Construct(old, args)
      [] class = "Regex" -> RegexConstruct(old, args)
      [] class = "Javascript" -> JavascriptConstruct(old, args)
      [] class = "WriteConcern" -> WriteConcernConstruct(old, args)
      [] class = "ReadPreference" -> ReadPreferenceConstruct(old, args)
      [] class = "ReadConcern" -> ReadConcernConstruct(old, args)
      [] class = "ServerApi" -> ServerApiConstruct(old, args)

InitFromHash(class, old, h) ==
    CASE class = "Timestamp" -> TimestampFromHash(old, h)
      [] class = "UTCDateTime" -> UTCDateTimeFromHash(old, h)
      [] class = "Binary" -> BinaryFromHash(old, h)
      [] class = "Int64" -> Int64FromHash(old, h)
      [] class = "ObjectId" -> ObjectIdFromHash(old, h)
      [] class = "Decimal128" -> Decimal128FromHash(old, h)
      [] class = "Regex" -> RegexFromHash(old, h)
      [] class = "Javascript" -> JavascriptFromHash(old, h)
      [] class = "Symbol" -> SymbolFromHash(old, h)
      [] class = "DBPointer" -> DBPointerFromHash(old, h)
      [] class = "WriteConcern" -> WriteConcernFromHash(old, h)
      [] class = "ReadPreference" -> ReadPreferenceFromHash(old, h)
      [] class = "ReadConcern" -> ReadConcernFromHash(old, h)
      [] class = "ServerApi" -> ServerApiFromHash(old, h)
      [] class = "CursorId" -> CursorIdFromHash(old, h)

Properties(class, native, portable) ==
    IF native = NULL THEN <<>> ELSE
    CASE class = "Timestamp" -> TimestampProperties(native)
      [] class = "UTCDateTime" -> UTCDateTimeProperties(native)
      [] class = "Binary" -> BinaryProperties(native)
      [] class = "Int64" -> Int64Properties(native)
      [] class = "ObjectId" -> ObjectIdProperties(native)
      [] class = "Decimal128" -> Decimal128Properties(native)
      [] class = "Regex" -> RegexProperties(native)
      [] class = "Javascript" -> JavascriptProperties(native)
      [] class = "Symbol" -> SymbolProperties(native)
      [] class = "DBPointer" -> DBPointerProperties(native)
      [] class = "WriteConcern" -> WriteConcernProperties(native, portable)
      [] class = "ReadPreference" -> ReadPreferenceProperties(native)
      [] class = "ReadConcern" -> ReadConcernProperties(native)
      [] class = "ServerApi" -> ServerApiProperties(native)
      [] class = "CursorId" -> CursorIdProperties(native, portable)

Serialized(class, native) ==
    CASE class = "Timestamp" -> TimestampSerialized(native)
      [] class = "UTCDateTime" -> UTCDateTimeSerialized(native)
      [] class = "Binary" -> BinarySerialized(native)
      [] class = "Int64" -> Int64Serialized(native)
      [] class = "ObjectId" -> ObjectIdSerialized(native)
      [] class = "Decimal128" -> Decimal128Serialized(native)
      [] class = "Regex" -> RegexSerialized(native)
      [] class = "Javascript" -> JavascriptSerialized(native)
      [] class = "Symbol" -> SymbolSerialized(native)
      [] class = "DBPointer" -> DBPointerSerialized(native)
      [] class = "WriteConcern" -> WriteConcernSerialized(native)
      [] class = "ReadPreference" -> ReadPreferenceSerialized(native)
      [] class = "ReadConcern" -> ReadConcernSerialized(native)
      [] class = "ServerApi" -> ServerApiSerialized(native)
      [] class = "CursorId" -> CursorIdSerialized(native)

Cloned(class, native) ==
    CASE class = "Timestamp" -> TimestampCloned(native)
      [] class = "UTCDateTime" -> UTCDateTimeCloned(native)
      [] class = "Binary" -> BinaryCloned(native)
      [] class = "Int64" -> Int64Cloned(native)
      [] class = "ObjectId" -> ObjectIdCloned(native)
      [] class = "Decimal128" -> Decimal128Cloned(native)
      [] class = "Regex" -> RegexCloned(native)
      [] class = "Javascript" -> JavascriptCloned(native)
      [] class = "Symbol" -> SymbolCloned(native)
      [] class = "DBPointer" -> DBPointerCloned(native)

-------------------------------------------------------------------------------
Init == object = NULL /\ crashed = FALSE

\* A new object is the caller's only if its initialization did not throw.
Create(class, outcome) ==
    /\ ~crashed /\ object = NULL
    /\ object' = IF outcome.result = "done"
                   THEN [class |-> class, native |-> outcome.native, properties |-> NULL]
                   ELSE NULL
    /\ crashed' = (outcome.result = "aborted")

\* An object that was there before stays, with what the call has left in it.
Reinitialize(outcome) ==
    /\ object' = [object EXCEPT !.native = outcome.native]
    /\ crashed' = (outcome.result = "aborted")

New(class) == \E args \in Args[class] : Create(class, Construct(class, NULL, args))

FromHash(class) == \E h \in Hashes[class] : Create(class, InitFromHash(class, NULL, h))

\* unserialize() of a whole object, in either form of its serialization.
UnserializeNew(class) == FromHash(class)

SetState(class) == FromHash(class)

\* unserialize() of a setting ignores an empty string.
UnserializeEmpty(class) == Create(class, Done(NULL))

Exists == ~crashed /\ object # NULL

ConstructAgain ==
    /\ Exists /\ object.class \in Constructible
    /\ \E args \in Args[object.class] :
         Reinitialize(Construct(object.class, object.native, args))

Unserialize ==
    /\ Exists
    /\ \E h \in Hashes[object.class] :
         Reinitialize(InitFromHash(object.class, object.native, h))

\* The hash that is kept: keys are set or overwritten, and never removed.
Kept ==
    LET current == Properties(object.class, object.native, FALSE)
    IN IF object.properties = NULL THEN current ELSE Over(current, object.properties)

\* A ServerApi asks libmongoc for its fields, with or without a value.
GetProperties ==
    /\ Exists
    /\ object' = [object EXCEPT !.properties = Kept]
    /\ crashed' = (object.class = "ServerApi" /\ object.native = NULL)

\* $object = clone $object; settings cannot be cloned.
Clone ==
    /\ Exists /\ object.class \in BsonClasses
    /\ LET outcome == Cloned(object.class, object.native)
       IN /\ object' = [class |-> object.class, native |-> outcome.native, properties |-> NULL]
          /\ crashed' = (outcome.result = "aborted")

\* The getters of a setting hand its libmongoc value on as it is, except
\* isDefault(), for which none is a default.
Get ==
    /\ Exists /\ object.class \in SettingClasses
    /\ crashed' = (object.native = NULL)
    /\ UNCHANGED object

Free == Exists /\ object' = NULL /\ UNCHANGED crashed

Next ==
    \/ \E class \in Constructible : New(class)
    \/ \E class \in Classes : UnserializeNew(class)
    \/ \E class \in SetStateClasses : SetState(class)
    \/ \E class \in SettingClasses : UnserializeEmpty(class)
    \/ ConstructAgain \/ Unserialize \/ GetProperties \/ Clone \/ Get \/ Free

Spec == Init /\ [][Next]_vars

-------------------------------------------------------------------------------
(* What PHP gives to the methods *)

Int64s == -Int64Max - 1 .. Int64Max
Time == [sec : Int, usec : Int]

\* Classes whose texts are sequences of characters, which are numbers.
CharClasses ==
    {"ObjectId", "Decimal128", "Regex", "Javascript", "Symbol", "DBPointer",
     "ReadConcern", "ServerApi"}

IsList(s) == Len(s) \in Nat /\ s = [i \in 1 .. Len(s) |-> s[i]]

IsTagSet(z) ==
    /\ Is("array", z) => z.array \in Documents
    /\ Is("object", z) => z.object \in Documents

IsZval(class, z) ==
    z # NULL =>
      /\ z = [type \in DOMAIN z |-> z[type]]
      /\ DOMAIN z \in {{type} : type \in {"long", "string", "text", "bool", "double", "list",
                                          "array", "object", "date", "now", "generated"}}
      /\ Is("long", z) => z.long \in Int64s
      /\ Is("string", z) => z.string \in Int
      /\ Is("text", z) /\ class \in CharClasses => z.text \in Seq(Nat)
      /\ Is("text", z) /\ class \notin CharClasses => z.text \in Names
      /\ Is("bool", z) => z.bool \in BOOLEAN
      /\ Is("double", z) => z.double \in Int
      /\ Is("list", z) => IsList(z.list) /\ \A i \in DOMAIN z.list : IsTagSet(z.list[i])
      /\ Is("array", z) => z.array \in Documents
      /\ Is("object", z) => z.object \in Documents \cup {NULL}
      /\ Is("date", z) => z.date \in Time
      /\ Is("now", z) => z.now \in Time
      /\ Is("generated", z) => z.generated \in DOMAIN OidOf /\ OidOf[z.generated] = z.generated

\* The third argument of a ReadPreference is an array.
AreArgs(class, args) ==
    /\ IsList(args)
    /\ class # "ReadConcern" => Len(args) >= 1
    /\ class \in {"Timestamp", "Binary"} => Len(args) >= 2
    /\ \A i \in DOMAIN args :
         IF class = "ReadPreference" /\ i = 3
           THEN \A k \in DOMAIN args[i] : IsZval(class, args[i][k])
           ELSE IsZval(class, args[i])

ASSUME ArgsAssumption ==
    /\ \A class \in Constructible : \A args \in Args[class] : AreArgs(class, args)
    /\ \A class \in Classes : \A h \in Hashes[class] :
         \A k \in DOMAIN h : IsZval(class, h[k])

ASSUME DocumentsAssumption == NoDocument \in Documents /\ ModeNames \subseteq Names

\* NULL is none of the other values.
ASSUME NullAssumption ==
    /\ NULL \notin [long : Int] /\ NULL \notin [string : Int] /\ NULL \notin [bool : BOOLEAN]
    /\ NULL \notin [text : Seq(Nat)] /\ NULL \notin [text : Names]
    /\ NULL \notin [object : Documents] /\ NULL \notin [array : Documents]
    /\ NULL \notin [list : Seq([object : Documents] \cup [array : Documents])]
    /\ NULL \notin [date : Time]
    /\ NULL \notin Documents /\ NULL \notin Names /\ NULL \notin BOOLEAN
    /\ NULL \notin [pattern : Seq(Nat), flags : Seq(Nat)]

-------------------------------------------------------------------------------
(* Properties *)

\* What the driver's own constructors promise of a value.
Valid(class, v) ==
    CASE class = "Timestamp" -> {v.increment, v.timestamp} \subseteq 0 .. Uint32Max
      [] class = "UTCDateTime" -> v.milliseconds \in Int64s
      [] class = "Binary" ->
           v.type \in 0 .. Uint8Max /\ (v.type \in UuidTypes => v.data \in UuidSized)
      [] class \in {"Int64", "CursorId"} ->
           \A field \in DOMAIN v : v[field] \in Int64s
      [] class = "ObjectId" -> v.oid \in DOMAIN OidOf /\ OidOf[v.oid] = v.oid
      [] class = "Decimal128" -> v.dec \in DOMAIN DecimalOf /\ DecimalOf[v.dec] = v.dec
      [] class = "Regex" ->
           /\ NulFree(v.pattern) /\ NulFree(v.flags)
           /\ InOrder(v.flags)
      [] class = "Javascript" -> NulFree(v.code)
      [] class = "Symbol" -> NulFree(v.symbol)
      [] class = "DBPointer" -> NulFree(v.ref) /\ v.id \in DOMAIN OidOf
      [] class = "ReadConcern" -> v.level # NULL => NulFree(v.level)
      [] class = "ServerApi" -> v.version = Version1
      [] class = "WriteConcern" ->
           /\ v.wtimeout \in 0 .. Int64Max
           /\ v.j = TRUE => v.w \notin UnacknowledgedW
           /\ "int" \in DOMAIN v.w => v.w.int \in -3 .. Int32Max
      [] class = "ReadPreference" ->
           /\ v.mode = "primary" => v.tags = <<>> /\ v.hedge = NoDocument
           /\ v.maxStaleness # NoStaleness =>
                v.mode # "primary" /\ v.maxStaleness \in MinStaleness .. Int32Max

\* Whichever calls an object has been through - made from arguments, arrays or
\* serialized data, initialized again, refused half way, cloned - what it holds,
\* if anything, is a value that its class accepts: integers are within the width
\* that BSON gives them, a UUID has its size, texts that BSON ends with a null
\* byte contain none, the flags of a regular expression are in order, journaling
\* is never asked of an unacknowledged write, and a primary read has no tags,
\* staleness or hedge.
AlwaysValid ==
    object # NULL /\ object.native # NULL /\ ~crashed => Valid(object.class, object.native)

\* An object that holds a value is read back from each form it is written in as
\* one that holds the same value, without an exception: from serialize() (PHP
\* before 7.4) and __serialize() of every class, and from var_export() of the
\* classes with __set_state(), whatever types these give the fields, and a
\* UTCDateTime from its toDateTime(), before the epoch too.  It does not hold, and
\* is not asked, of serialize() for a default ReadConcern, of the export of an
\* Int64, a Symbol or a DBPointer, which have no __set_state() to read it with, of
\* that of a CursorId, and of that of a setting when the hash that is kept still
\* has keys of an earlier value.
ReadsBack ==
    object # NULL /\ object.native # NULL /\ ~crashed =>
      LET class == object.class
          serialized == Serialized(class, object.native)
          same(h) == InitFromHash(class, NULL, h) = Done(object.native)
      IN /\ serialized # NULL => same(serialized)
         /\ same(Properties(class, object.native, TRUE))
         /\ /\ class \in SetStateClasses \ {"CursorId"}
            /\ DOMAIN Kept = DOMAIN Properties(class, object.native, FALSE)
            => same(Kept)
         /\ class = "UTCDateTime" =>
              UTCDateTimeConstruct(NULL, <<ToDateTime(object.native)>>) = Done(object.native)
===============================================================================
