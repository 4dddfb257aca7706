------------------------------- MODULE Settings -------------------------------
(***************************************************************************)
(* MongoDB\Driver\WriteConcern, ReadPreference, ReadConcern, ServerApi and    *)
(* CursorId: the libmongoc value that an object holds, NULL when there is    *)
(* none, the calls that give it one, and the forms in which it is written.   *)
(***************************************************************************)
EXTENDS Zval

CONSTANT MinStaleness   \* MONGOC_SMALLEST_MAX_STALENESS_SECONDS

ASSUME StalenessAssumption == MinStaleness \in Nat \ {0}

-------------------------------------------------------------------------------
(* WriteConcern *)

DefaultW == [int |-> -2]
MajorityW == [int |-> -3]
UnacknowledgedW == {[int |-> 0], [int |-> -1]}
Majority == [text |-> "majority"]

NewWriteConcern == [w |-> DefaultW, j |-> NULL, wtimeout |-> 0]

\* An integer is checked before it is narrowed to 32 bits, and libmongoc
\* asserts that what it is then given is at least -3.
SetW(wc, z) ==
    LET narrow == Wrapped(z.long, Int32Max)
    IN CASE Is("long", z) /\ z.long >= -3 ->
              IF narrow >= -3 THEN Done([wc EXCEPT !.w = [int |-> narrow]]) ELSE Aborted(wc)
         [] z = Majority -> Done([wc EXCEPT !.w = MajorityW])
         [] IsString(z) /\ z # Majority -> Done([wc EXCEPT !.w = [tag |-> z]])
         [] OTHER -> Thrown(wc)

SetJournal(wc, on) ==
    IF on /\ wc.w \in UnacknowledgedW THEN Thrown(wc) ELSE Done([wc EXCEPT !.j = on])

SetWtimeout(wc, ms) ==
    IF ms < 0 THEN Thrown(wc) ELSE Done([wc EXCEPT !.wtimeout = ms])

\* mongoc_write_concern_is_valid
WriteConcernIsValid(wc) == ~(wc.j = TRUE /\ wc.w \in UnacknowledgedW) /\ wc.wtimeout >= 0

\* Mutant: the final check is left out.
CheckNothing(wc) == Done(wc)

CheckWriteConcern(wc) == IF WriteConcernIsValid(wc) THEN Done(wc) ELSE Thrown(wc)

\* w[, wtimeout[, journal]]; a value that was begun stays when a check fails.
WriteConcernConstruct(old, args) ==
    LET w(wc) == SetW(wc, args[1])
        journal(wc) ==
            If(Len(args) = 3 /\ args[3] # NULL, LAMBDA v : SetJournal(v, IsTrue(args[3])), wc)
        wtimeout(wc) ==
            If(Len(args) >= 2, LAMBDA v : SetWtimeout(v, args[2].long), wc)
    IN IF Len(args) >= 2 /\ ~Is("long", args[2]) THEN Thrown(old)
       ELSE Then(Then(Then(w(NewWriteConcern), journal), wtimeout), CheckWriteConcern)

\* goto failure
OrDestroyed(outcome) == IF outcome.result = "thrown" THEN Thrown(NULL) ELSE outcome

WriteConcernFromHash(old, h) ==
    LET has(key) == key \in DOMAIN h
        w(wc) == OrDestroyed(SetW(wc, h["w"]))
        wtimeout(wc) ==
            LET z == h["wtimeout"]
            IN CASE Is("long", z) -> OrDestroyed(SetWtimeout(wc, z.long))
                 [] IsString(z) ->
                      IF ParsesAsInt64(z) THEN Done([wc EXCEPT !.wtimeout = z.string])
                                          ELSE Thrown(wc)
                 [] OTHER -> Thrown(NULL)
        j(wc) == OrDestroyed(IF Is("bool", h["j"]) THEN SetJournal(wc, h["j"].bool)
                                                   ELSE Thrown(wc))
        first == If(has("w"), w, NewWriteConcern)
        second == Then(first, LAMBDA wc : If(has("wtimeout"), wtimeout, wc))
        third == Then(second, LAMBDA wc : If(has("j"), j, wc))
    IN Then(third, LAMBDA wc : OrDestroyed(CheckWriteConcern(wc)))

WOf(wc) ==
    CASE "tag" \in DOMAIN wc.w -> [w |-> wc.w.tag]
      [] wc.w = MajorityW -> [w |-> Majority]
      [] wc.w = DefaultW -> <<>>
      [] OTHER -> [w |-> [long |-> wc.w.int]]

\* A long wtimeout is written as a string when the form may be read elsewhere.
WtimeoutOf(wc, portable) ==
    CASE wc.wtimeout = 0 -> <<>>
      [] portable /\ wc.wtimeout > Int32Max -> [wtimeout |-> [string |-> wc.wtimeout]]
      [] OTHER -> [wtimeout |-> [long |-> wc.wtimeout]]

JournalOf(wc) == IF wc.j = NULL THEN <<>> ELSE [j |-> [bool |-> wc.j]]

WriteConcernProperties(wc, portable) ==
    Over(Over(WOf(wc), JournalOf(wc)), WtimeoutOf(wc, portable))

WriteConcernSerialized(wc) == WriteConcernProperties(wc, TRUE)

-------------------------------------------------------------------------------
(* ReadPreference *)

\* The modes of libmongoc and their names.
Modes ==
    [n \in {1, 2, 5, 6, 10} |->
       CASE n = 1 -> "primary" [] n = 2 -> "secondary" [] n = 5 -> "primaryPreferred"
         [] n = 6 -> "secondaryPreferred" [] n = 10 -> "nearest"]
ModeNames == {Modes[n] : n \in DOMAIN Modes}

NoStaleness == -1

NewReadPreference(mode) ==
    [mode |-> mode, tags |-> <<>>, maxStaleness |-> NoStaleness, hedge |-> NoDocument]

ModeOf(z) ==
    CASE Is("long", z) /\ z.long \in DOMAIN Modes -> Modes[z.long]
      [] Is("text", z) /\ z.text \in ModeNames -> z.text
      [] OTHER -> NULL

\* Mutant: tag sets are encoded as they come.
LeaveTagSets(tags) == tags

\* php_phongo_read_preference_prep_tagsets: arrays become objects.
PrepTagSets(tags) ==
    [i \in DOMAIN tags |-> IF Is("array", tags[i]) THEN [object |-> tags[i].array] ELSE tags[i]]

\* An array encodes as a document unless it is empty.
EncodesAsDocument(z) == Is("object", z) \/ (Is("array", z) /\ z.array # NoDocument)

SetTags(rp, tags) ==
    LET prepared == PrepTagSets(tags)
    IN IF /\ \A i \in DOMAIN prepared : EncodesAsDocument(prepared[i])
          /\ rp.mode = "primary" => prepared = <<>>
         THEN Done([rp EXCEPT !.tags = [i \in DOMAIN prepared |-> DocumentOf(prepared[i])]])
         ELSE Thrown(rp)

SetMaxStaleness(rp, seconds) ==
    IF seconds # NoStaleness /\ (rp.mode = "primary" \/ seconds \notin MinStaleness .. Int32Max)
      THEN Thrown(rp)
      ELSE Done([rp EXCEPT !.maxStaleness = seconds])

SetHedge(rp, z) ==
    IF /\ Is("array", z) \/ Is("object", z)
       /\ rp.mode # "primary"
       /\ DocumentOf(z) # NULL
      THEN Done([rp EXCEPT !.hedge = DocumentOf(z)])
      ELSE Thrown(rp)

\* mongoc_read_prefs_is_valid
ReadPreferenceIsValid(rp) ==
    /\ rp.mode = "primary" => rp = NewReadPreference("primary")
    /\ rp.maxStaleness = NoStaleness \/ rp.maxStaleness > 0

CheckReadPreference(rp) == IF ReadPreferenceIsValid(rp) THEN Done(rp) ELSE Thrown(rp)

\* mode[, tagSets[, options]]; a value that was begun stays when a check fails.
ReadPreferenceConstruct(old, args) ==
    LET mode == ModeOf(args[1])
        options == IF Len(args) = 3 THEN args[3] ELSE <<>>
        tags(rp) ==
            If(Len(args) >= 2 /\ args[2] # NULL, LAMBDA v : SetTags(v, args[2].list), rp)
        staleness(rp) ==
            If("maxStalenessSeconds" \in DOMAIN options,
               LAMBDA v : SetMaxStaleness(v, ToLong(options["maxStalenessSeconds"])), rp)
        hedge(rp) ==
            If("hedge" \in DOMAIN options, LAMBDA v : SetHedge(v, options["hedge"]), rp)
    IN IF \/ mode = NULL
          \/ Len(args) >= 2 /\ args[2] # NULL /\ ~Is("list", args[2])
         THEN Thrown(old)
         ELSE Then(Then(Then(tags(NewReadPreference(mode)), staleness), hedge),
                   CheckReadPreference)

ReadPreferenceFromHash(old, h) ==
    LET mode == IF IsString(Field(h, "mode")) THEN ModeOf(h["mode"]) ELSE NULL
        tags(rp) ==
            IF Is("list", h["tags"]) THEN SetTags(rp, h["tags"].list) ELSE Thrown(rp)
        staleness(rp) ==
            LET z == h["maxStalenessSeconds"]
            IN IF Is("long", z) THEN SetMaxStaleness(rp, z.long) ELSE Thrown(rp)
        hedge(rp) == SetHedge(rp, h["hedge"])
        first == If("tags" \in DOMAIN h, tags, NewReadPreference(mode))
        second == Then(first, LAMBDA rp : If("maxStalenessSeconds" \in DOMAIN h, staleness, rp))
        third == Then(second, LAMBDA rp : If("hedge" \in DOMAIN h, hedge, rp))
    IN IF mode = NULL THEN Thrown(old)
       ELSE OrDestroyed(Then(third, CheckReadPreference))

\* Tag sets are objects, or arrays when they are decoded as for debugging.
TagsOf(rp, debug) ==
    [list |-> [i \in DOMAIN rp.tags |->
                 IF debug THEN [array |-> rp.tags[i]] ELSE [object |-> rp.tags[i]]]]

ReadPreferenceHash(rp, debug) ==
    LET mode == [mode |-> [text |-> rp.mode]]
        tags == IF rp.tags = <<>> THEN <<>> ELSE [tags |-> TagsOf(rp, debug)]
        staleness == IF rp.maxStaleness = NoStaleness THEN <<>>
                     ELSE [maxStalenessSeconds |-> [long |-> rp.maxStaleness]]
        hedge == IF rp.hedge = NoDocument THEN <<>> ELSE [hedge |-> [object |-> rp.hedge]]
    IN Over(Over(Over(mode, tags), staleness), hedge)

ReadPreferenceProperties(rp) == ReadPreferenceHash(rp, FALSE)
ReadPreferenceSerialized(rp) == ReadPreferenceHash(rp, TRUE)

-------------------------------------------------------------------------------
(* ReadConcern *)

NewReadConcern == [level |-> NULL]

SetLevel(rc, text) == [rc EXCEPT !.level = CString(text)]

ReadConcernFromHash(old, h) ==
    CASE "level" \notin DOMAIN h -> Done(NewReadConcern)
      [] Is("text", Field(h, "level")) -> Done(SetLevel(NewReadConcern, h["level"].text))
      [] OTHER -> Thrown(NULL)

ReadConcernConstruct(old, args) ==
    CASE args \in {<<>>, <<NULL>>} -> Done(NewReadConcern)
      [] args # <<>> /\ Is("text", args[1]) -> Done(SetLevel(NewReadConcern, args[1].text))
      [] OTHER -> Thrown(old)

ReadConcernProperties(rc) == IF rc.level = NULL THEN <<>> ELSE [level |-> [text |-> rc.level]]

\* The form of a default is an empty string, which is no array: NULL.
ReadConcernSerialized(rc) == IF rc.level = NULL THEN NULL ELSE ReadConcernProperties(rc)

-------------------------------------------------------------------------------
(* ServerApi *)

Version1 == <<1>>   \* the text "1"

\* A value is given once.
ServerApiCreate(old, version, strict, deprecationErrors) ==
    IF CString(version) = Version1 /\ old = NULL
      THEN Done([version |-> Version1, strict |-> strict,
                 deprecationErrors |-> deprecationErrors])
      ELSE Thrown(old)

BoolOrNull(z) == z = NULL \/ Is("bool", z)

ServerApiFromHash(old, h) ==
    LET strict == Field(h, "strict")
        deprecationErrors == Field(h, "deprecationErrors")
    IN IF Is("text", Field(h, "version")) /\ BoolOrNull(strict) /\ BoolOrNull(deprecationErrors)
         THEN ServerApiCreate(old, h["version"].text, strict, deprecationErrors)
         ELSE Thrown(old)

ServerApiConstruct(old, args) ==
    LET given(i) == IF Len(args) >= i THEN args[i] ELSE NULL
    IN IF Is("text", args[1]) /\ BoolOrNull(given(2)) /\ BoolOrNull(given(3))
         THEN ServerApiCreate(old, args[1].text, given(2), given(3))
         ELSE Thrown(old)

ServerApiProperties(api) ==
    [version |-> [text |-> api.version], strict |-> api.strict,
     deprecationErrors |-> api.deprecationErrors]
ServerApiSerialized(api) == ServerApiProperties(api)

-------------------------------------------------------------------------------
(* CursorId *)

CursorIdFromString(old, z) ==
    IF ParsesAsInt64(z) THEN Done([id |-> z.string]) ELSE Thrown(old)

CursorIdFromHash(old, h) ==
    IF IsString(Field(h, "id")) THEN CursorIdFromString(old, h["id"]) ELSE Thrown(old)

CursorIdProperties(cursorId, portable) ==
    [id |-> IF portable THEN [string |-> cursorId.id] ELSE [long |-> cursorId.id]]
CursorIdSerialized(cursorId) == CursorIdProperties(cursorId, TRUE)
===============================================================================
