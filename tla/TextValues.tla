------------------------------ MODULE TextValues ------------------------------
(***************************************************************************)
(* MongoDB\BSON\ObjectId, Decimal128, Regex, Javascript, Symbol and          *)
(* DBPointer, whose values are texts.  A text is a sequence of characters,   *)
(* of which Nul ends it for the functions of C.  What libbson makes of an id *)
(* or of a number is a parameter, as the text in which it writes it again.   *)
(***************************************************************************)
EXTENDS Zval

CONSTANTS
    OidOf,      \* the texts that are 24 hexadecimal digits, and their lower case
    DecimalOf,  \* the texts that are decimal numbers, and how these are written
    NaN         \* how libbson writes not-a-number

ASSUME ParseAssumption ==
    /\ \A t \in DOMAIN OidOf :
         t \in Seq(Nat) /\ OidOf[t] \in DOMAIN OidOf /\ OidOf[OidOf[t]] = OidOf[t]
    /\ \A t \in DOMAIN DecimalOf :
         /\ t \in Seq(Nat) /\ NulFree(t)
         /\ DecimalOf[t] \in DOMAIN DecimalOf /\ DecimalOf[DecimalOf[t]] = DecimalOf[t]
    /\ NaN \in DOMAIN DecimalOf /\ DecimalOf[NaN] = NaN

-------------------------------------------------------------------------------
(* ObjectId *)

ObjectIdFromHexString(old, hex) ==
    IF hex \in DOMAIN OidOf THEN Done([oid |-> OidOf[hex]]) ELSE Thrown(old)

ObjectIdFromHash(old, h) ==
    IF Is("text", Field(h, "oid")) THEN ObjectIdFromHexString(old, h["oid"].text)
                                   ELSE Thrown(old)

ObjectIdInit(generated) == Done([oid |-> generated])

\* Without an argument one is generated, which `generated' is here.
ObjectIdConstruct(old, args) ==
    CASE Is("generated", args[1]) -> ObjectIdInit(args[1].generated)
      [] Is("text", args[1]) -> ObjectIdFromHexString(old, args[1].text)
      [] OTHER -> Thrown(old)

ObjectIdProperties(id) == [oid |-> [text |-> id.oid]]
ObjectIdSerialized(id) == ObjectIdProperties(id)
ObjectIdCloned(id) == Done(id)

-------------------------------------------------------------------------------
(* Decimal128 *)

\* bson_decimal128_from_string stores NaN when it fails, which shows in an
\* object that has been initialized before.
Decimal128Init(old, text) ==
    CASE CString(text) \in DOMAIN DecimalOf -> Done([dec |-> DecimalOf[CString(text)]])
      [] CString(text) \notin DOMAIN DecimalOf ->
           Thrown(IF old = NULL THEN NULL ELSE [dec |-> NaN])

Decimal128FromHash(old, h) ==
    IF Is("text", Field(h, "dec")) THEN Decimal128Init(old, h["dec"].text) ELSE Thrown(old)

Decimal128Construct(old, args) ==
    IF Is("text", args[1]) THEN Decimal128Init(old, args[1].text) ELSE Thrown(old)

Decimal128Properties(decimal) == [dec |-> [text |-> decimal.dec]]
Decimal128Serialized(decimal) == Decimal128Properties(decimal)
Decimal128Cloned(decimal) == Done(decimal)

-------------------------------------------------------------------------------
(* Regex *)

\* qsort() of the flags
InOrder(t) == \A i, j \in DOMAIN t : i < j => t[i] <= t[j]
Sorts(p, t) ==
    /\ \A i, j \in DOMAIN t : p[i] = p[j] => i = j
    /\ InOrder([i \in DOMAIN t |-> t[p[i]]])
Sorted(t) ==
    LET p == CHOOSE q \in [DOMAIN t -> DOMAIN t] : Sorts(q, t)
    IN [i \in DOMAIN t |-> t[p[i]]]

\* Flags that are refused leave the new pattern beside the old flags.
RegexInit(old, pattern, flags) ==
    IF ~NulFree(pattern) THEN Thrown(old)
    ELSE IF ~NulFree(flags)
      THEN Thrown([pattern |-> pattern, flags |-> IF old = NULL THEN NULL ELSE old.flags])
      ELSE Done([pattern |-> pattern, flags |-> Sorted(flags)])

RegexFromHash(old, h) ==
    IF Is("text", Field(h, "pattern")) /\ Is("text", Field(h, "flags"))
      THEN RegexInit(old, h["pattern"].text, h["flags"].text)
      ELSE Thrown(old)

RegexConstruct(old, args) ==
    IF \A i \in DOMAIN args : Is("text", args[i])
      THEN RegexInit(old, args[1].text, IF Len(args) = 2 THEN args[2].text ELSE <<>>)
      ELSE Thrown(old)

RegexProperties(regex) ==
    [pattern |-> [text |-> regex.pattern], flags |-> [text |-> regex.flags]]
RegexSerialized(regex) == RegexProperties(regex)
RegexCloned(regex) == RegexInit(NULL, regex.pattern, regex.flags)

-------------------------------------------------------------------------------
(* Javascript *)

\* The encoder throws for a scope that it refuses, but the object keeps the code
\* and what was encoded of the scope, which is nothing here.
JavascriptInit(old, code, scope) ==
    IF \/ scope # NULL /\ ~Is("object", scope) /\ ~Is("array", scope)
       \/ ~NulFree(code)
      THEN Thrown(old)
    ELSE IF scope = NULL THEN Done([code |-> code, scope |-> NULL])
    ELSE IF DocumentOf(scope) = NULL THEN Thrown([code |-> code, scope |-> NoDocument])
    ELSE Done([code |-> code, scope |-> DocumentOf(scope)])

JavascriptFromHash(old, h) ==
    IF Is("text", Field(h, "code"))
      THEN JavascriptInit(old, h["code"].text, Field(h, "scope"))
      ELSE Thrown(old)

JavascriptConstruct(old, args) ==
    IF Is("text", args[1])
      THEN JavascriptInit(old, args[1].text, IF Len(args) = 2 THEN args[2] ELSE NULL)
      ELSE Thrown(old)

JavascriptProperties(js) ==
    [code |-> [text |-> CString(js.code)],
     scope |-> IF js.scope = NULL THEN NULL ELSE [object |-> js.scope]]
JavascriptSerialized(js) ==
    [JavascriptProperties(js) EXCEPT !.code = [text |-> js.code]]

\* bson_copy asserts that it is given a scope.
JavascriptCloned(js) ==
    IF js.scope = NULL THEN Aborted(js)
    ELSE Done([JavascriptInit(NULL, js.code, NULL).native EXCEPT !.scope = js.scope])

-------------------------------------------------------------------------------
(* Symbol and DBPointer, which only decoding and unserialize() can make *)

SymbolInit(old, symbol) ==
    IF NulFree(symbol) THEN Done([symbol |-> symbol]) ELSE Thrown(old)

SymbolFromHash(old, h) ==
    IF Is("text", Field(h, "symbol")) THEN SymbolInit(old, h["symbol"].text) ELSE Thrown(old)

SymbolProperties(s) == [symbol |-> [text |-> CString(s.symbol)]]
SymbolSerialized(s) == [symbol |-> [text |-> s.symbol]]
SymbolCloned(s) == SymbolInit(NULL, s.symbol)

\* The id is checked, and kept as it was written.
DBPointerInit(old, ref, id) ==
    IF NulFree(ref) /\ id \in DOMAIN OidOf THEN Done([ref |-> ref, id |-> id]) ELSE Thrown(old)

DBPointerFromHash(old, h) ==
    IF Is("text", Field(h, "ref")) /\ Is("text", Field(h, "id"))
      THEN DBPointerInit(old, h["ref"].text, h["id"].text)
      ELSE Thrown(old)

DBPointerProperties(p) == [ref |-> [text |-> CString(p.ref)], id |-> [text |-> p.id]]
DBPointerSerialized(p) == [ref |-> [text |-> p.ref], id |-> [text |-> p.id]]
DBPointerCloned(p) == DBPointerInit(NULL, p.ref, p.id)
===============================================================================
