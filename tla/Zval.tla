--------------------------------- MODULE Zval ---------------------------------
(***************************************************************************)
(* PHP values as the constructors of the driver's value classes see them,   *)
(* and what such a call comes to.  The only field of a value names its type: *)
(* long, string (a numeric one), text (any other string), bool, double,     *)
(* list, array, object, date and now for a point in time, generated for an  *)
(* id.  An argument of a scalar type is what PHP has converted it to; one    *)
(* of another type is one that PHP could not convert.                       *)
(***************************************************************************)
EXTENDS Integers, Sequences

CONSTANTS
    Int32Max,   \* INT32_MAX
    Int64Max,   \* INT64_MAX
    NULL

Uint32Max == 2 * Int32Max + 1

ASSUME WidthAssumption ==
    /\ Int32Max \in Nat \ {0}
    /\ Int64Max \in Nat
    /\ Int64Max > Uint32Max

Is(type, z) == z # NULL /\ type \in DOMAIN z
IsString(z) == Is("string", z) \/ Is("text", z)

\* What a two's complement integer whose largest value is max holds.
Wrapped(n, max) == ((n + max + 1) % (2 * max + 2)) - max - 1

\* Division and remainder of C, which truncate towards zero.
Quotient(n, d) == IF n >= 0 THEN n \div d ELSE -((-n) \div d)
Remainder(n, d) == n - d * Quotient(n, d)

\* php_phongo_parse_int64
ParsesAsInt64(z) == Is("string", z) /\ z.string \in -Int64Max - 1 .. Int64Max

\* zend_is_true
IsTrue(z) ==
    /\ Is("bool", z) => z.bool
    /\ Is("long", z) => z.long # 0
    /\ Is("string", z) => z.string # 0

\* php_array_zval_to_long
ToLong(z) ==
    CASE Is("long", z) -> z.long
      [] Is("string", z) -> z.string
      [] OTHER -> IF z # NULL /\ IsTrue(z) /\ ~Is("text", z) THEN 1 ELSE 0

\* An array or object that is encoded; NULL stands for one that cannot be.
NoDocument == "empty"
DocumentOf(z) == IF Is("object", z) THEN z.object ELSE z.array

\* A text as a function of C sees it, which is up to its first null byte.
Nul == 0
NulFree(t) == \A i \in DOMAIN t : t[i] # Nul
CString(t) ==
    SubSeq(t, 1, CHOOSE n \in 0 .. Len(t) :
                   /\ NulFree(SubSeq(t, 1, n))
                   /\ n = Len(t) \/ t[n + 1] = Nul)

Field(h, key) == IF key \in DOMAIN h THEN h[key] ELSE NULL

\* The entries of h before those of g.
Over(h, g) == [k \in DOMAIN h \cup DOMAIN g |-> IF k \in DOMAIN h THEN h[k] ELSE g[k]]

-------------------------------------------------------------------------------
(* A call leaves a native value, and returns, throws, or ends the process   *)

Done(native) == [native |-> native, result |-> "done"]
Thrown(native) == [native |-> native, result |-> "thrown"]
Aborted(native) == [native |-> native, result |-> "aborted"]

Then(outcome, Op(_)) ==
    IF outcome.result = "done" THEN Op(outcome.native) ELSE outcome

If(condition, Op(_), native) == IF condition THEN Op(native) ELSE Done(native)
===============================================================================
