------------------------------ MODULE BsonValues ------------------------------
(***************************************************************************)
(* MongoDB\BSON\Timestamp, UTCDateTime, Int64 and Binary: the native value   *)
(* that an object holds, the calls that give it one (`old' is the value      *)
(* before the call), and the forms in which the object is written.          *)
(***************************************************************************)
EXTENDS Zval

CONSTANTS
    Kilo,       \* 1000: milliseconds in a second, microseconds in a millisecond
    Uint8Max,   \* UINT8_MAX
    UuidTypes,  \* BSON_SUBTYPE_UUID_DEPRECATED, BSON_SUBTYPE_UUID
    UuidSized   \* the byte strings of PHONGO_BINARY_UUID_SIZE bytes

ASSUME KiloAssumption == Kilo \in Nat \ {0}

-------------------------------------------------------------------------------
(* Timestamp *)

TimestampInit(old, increment, timestamp) ==
    IF {increment, timestamp} \subseteq 0 .. Uint32Max
      THEN Done([increment |-> increment, timestamp |-> timestamp])
      ELSE Thrown(old)

TimestampFromString(old, increment, timestamp) ==
    IF ParsesAsInt64(increment) /\ ParsesAsInt64(timestamp)
      THEN TimestampInit(old, increment.string, timestamp.string)
      ELSE Thrown(old)

TimestampFromHash(old, h) ==
    LET increment == Field(h, "increment")
        timestamp == Field(h, "timestamp")
    IN IF Is("long", increment) /\ Is("long", timestamp)
         THEN TimestampInit(old, increment.long, timestamp.long)
       ELSE IF IsString(increment) /\ IsString(timestamp)
         THEN TimestampFromString(old, increment, timestamp)
         ELSE Thrown(old)

\* convert_to_string
ConvertedToString(z) == IF Is("long", z) THEN [string |-> z.long] ELSE z

TimestampConstruct(old, args) ==
    LET s == [i \in 1 .. 2 |-> ConvertedToString(args[i])]
    IN IF Is("long", args[1]) /\ Is("long", args[2])
         THEN TimestampInit(old, args[1].long, args[2].long)
       ELSE IF IsString(s[1]) /\ IsString(s[2])
         THEN TimestampFromString(old, s[1], s[2])
         ELSE Thrown(old)

TimestampProperties(ts) ==
    [increment |-> [string |-> ts.increment], timestamp |-> [string |-> ts.timestamp]]

TimestampSerialized(ts) == TimestampProperties(ts)

TimestampCloned(ts) == TimestampInit(NULL, ts.increment, ts.timestamp)

-------------------------------------------------------------------------------
(* UTCDateTime *)

UTCDateTimeInit(ms) == Done([milliseconds |-> ms])

UTCDateTimeFromString(old, z) ==
    IF ParsesAsInt64(z) THEN UTCDateTimeInit(z.string) ELSE Thrown(old)

UTCDateTimeFromHash(old, h) ==
    LET ms == Field(h, "milliseconds")
    IN CASE Is("long", ms) -> UTCDateTimeInit(ms.long)
         [] IsString(ms) -> UTCDateTimeFromString(old, ms)
         [] OTHER -> Thrown(old)

\* A clock or a DateTimeInterface: the sum is computed in 64 bits.
UTCDateTimeFromCurrentTime(now) ==
    UTCDateTimeInit(Wrapped(now.sec * Kilo + Quotient(now.usec, Kilo), Int64Max))
UTCDateTimeFromDate(date) ==
    UTCDateTimeInit(Wrapped(date.sec * Kilo + Quotient(date.usec, Kilo), Int64Max))

\* Without an argument it takes the time of the clock, which `now' is here.
\* A double is printed without its fraction.
UTCDateTimeConstruct(old, args) ==
    LET z == args[1]
    IN CASE Is("now", z) -> UTCDateTimeFromCurrentTime(z.now)
         [] Is("date", z) -> UTCDateTimeFromDate(z.date)
         [] Is("long", z) -> UTCDateTimeInit(z.long)
         [] Is("double", z) -> UTCDateTimeFromString(old, [string |-> z.double])
         [] IsString(z) -> UTCDateTimeFromString(old, z)
         [] OTHER -> Thrown(old)

UTCDateTimeProperties(dt) == [milliseconds |-> [string |-> dt.milliseconds]]

UTCDateTimeSerialized(dt) == UTCDateTimeProperties(dt)

UTCDateTimeCloned(dt) == UTCDateTimeInit(dt.milliseconds)

ToDateTime(dt) ==
    [date |-> [sec |-> Quotient(dt.milliseconds, Kilo),
               usec |-> Remainder(dt.milliseconds, Kilo) * Kilo]]

-------------------------------------------------------------------------------
(* Int64, which only decoding and unserialize() can make *)

Int64Init(integer) == Done([integer |-> integer])

Int64FromString(old, z) == IF ParsesAsInt64(z) THEN Int64Init(z.string) ELSE Thrown(old)

Int64FromHash(old, h) ==
    IF IsString(Field(h, "integer")) THEN Int64FromString(old, h["integer"]) ELSE Thrown(old)

Int64Properties(int64) == [integer |-> [string |-> int64.integer]]
Int64Serialized(int64) == Int64Properties(int64)
Int64Cloned(int64) == Int64Init(int64.integer)

-------------------------------------------------------------------------------
(* Binary *)

BinaryInit(old, data, type) ==
    IF /\ type \in 0 .. Uint8Max
       /\ type \in UuidTypes => data \in UuidSized
      THEN Done([data |-> data, type |-> type])
      ELSE Thrown(old)

BinaryFromHash(old, h) ==
    IF Is("text", Field(h, "data")) /\ Is("long", Field(h, "type"))
      THEN BinaryInit(old, h["data"].text, h["type"].long)
      ELSE Thrown(old)

BinaryConstruct(old, args) ==
    IF Is("text", args[1]) /\ Is("long", args[2])
      THEN BinaryInit(old, args[1].text, args[2].long)
      ELSE Thrown(old)

BinaryProperties(binary) ==
    [data |-> [text |-> binary.data], type |-> [long |-> binary.type]]

BinarySerialized(binary) == BinaryProperties(binary)

BinaryCloned(binary) == BinaryInit(NULL, binary.data, binary.type)
===============================================================================
