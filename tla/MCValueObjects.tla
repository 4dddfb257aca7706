---------------------------- MODULE MCValueObjects ----------------------------
(***************************************************************************)
(* Arguments for the value classes: integers at both ends of each width and *)
(* just outside it, the same as numeric strings, and values of other types. *)
(***************************************************************************)
EXTENDS ValueObjects, TLC

Edges == {-Int64Max - 1, -1, 0, Uint32Max, Uint32Max + 1}
Longs == {[long |-> n] : n \in Edges}
Strings == {[string |-> n] : n \in {-1, Uint32Max, Int64Max, Int64Max + 1}}
Others == {[text |-> "x"], [bool |-> TRUE]}
Numbers == Longs \cup Strings \cup Others

Times == [sec : {-2, -1, 0, 1, Int64Max}, usec : {0, 1, Kilo, Kilo * Kilo - 1}]
Doubles == {[double |-> n] : n \in {-1, 0, Int64Max, Int64Max + 1}}

MCNames == STRING
MCDocuments == {NoDocument, "doc", "ny"}

NotAScalar == [list |-> <<>>]

\* Ids and numbers: <<2>> is written <<1>>, and <<4>> is in the usual form.
MCOidOf == (<<1>> :> <<1>>) @@ (<<2>> :> <<1>>) @@ (<<4>> :> <<4>>)
MCDecimalOf == (<<1>> :> <<1>>) @@ (<<2>> :> <<1>>) @@ (<<3>> :> <<3>>)
MCNaN == <<3>>
Parsed == {[text |-> t] : t \in {<<>>, <<1>>, <<2>>, <<4>>, <<2, Nul>>, <<Nul, 1>>}}
          \cup {NotAScalar}
Chars == {[text |-> t] : t \in {<<>>, <<1>>, <<1, 2>>, <<2, 1>>, <<2, 1, 2>>, <<2, Nul, 1>>}}
         \cup {NotAScalar}
Scopes == {NULL, [array |-> NoDocument], [object |-> "doc"], [object |-> NULL], [bool |-> TRUE]}
Versions == {[text |-> t] : t \in {<<1>>, <<2>>, <<1, Nul>>}} \cup {NotAScalar}
Flags == {NULL, [bool |-> TRUE], [bool |-> FALSE], NotAScalar}

Texts == {[text |-> "uuid"], [text |-> "short"]}
Types == {[long |-> n] : n \in {-1, 0, 3, 4, Uint8Max, Uint8Max + 1}}

Ws == {[long |-> n] : n \in {-4, -2, -1, 0, 1, Int32Max + 1, Uint32Max}}
      \cup {Majority, [text |-> "tag"], [string |-> 1], [bool |-> TRUE]}
Timeouts == {[long |-> n] : n \in {-1, 1, Int32Max + 1}}
Truths == {[bool |-> TRUE], [bool |-> FALSE], [long |-> 1]}

ModeArgs == {[text |-> "primary"], [text |-> "secondary"], [text |-> "x"], [long |-> 2], [long |-> 3],
             [bool |-> TRUE]}
TagSets == {NULL, [list |-> <<>>], [list |-> <<[array |-> NoDocument]>>],
            [list |-> <<[array |-> "ny"], [object |-> NoDocument]>>],
            [list |-> <<[array |-> "ny"], [text |-> "x"]>>], [text |-> "x"]}
Staleness == {[long |-> n] : n \in {-1, MinStaleness - 1, Int32Max, Int32Max + 1}}
             \cup {[string |-> MinStaleness], [bool |-> TRUE]}
Hedges == {[array |-> NoDocument], [object |-> "doc"], [object |-> NULL], [bool |-> TRUE]}

\* All arrays in which some keys have values.
Arrays(values) ==
    UNION {{h \in [keys -> UNION {values[k] : k \in keys}] : \A k \in keys : h[k] \in values[k]} :
             keys \in SUBSET DOMAIN values}

MCArgs ==
    [Timestamp |-> Numbers \X Numbers,
     UTCDateTime |-> {<<z>> : z \in Numbers \cup Doubles \cup {[now |-> t] : t \in Times}
                                    \cup {[date |-> t] : t \in Times}},
     Binary |-> (Texts \cup {NotAScalar}) \X (Types \cup {NotAScalar}),
     ObjectId |-> {<<z>> : z \in Parsed \cup {[generated |-> <<4>>]}},
     Decimal128 |-> {<<z>> : z \in Parsed},
     Regex |-> {<<z>> : z \in Chars} \cup Chars \X Chars,
     Javascript |-> {<<z>> : z \in Chars} \cup Chars \X Scopes,
     ReadConcern |-> {<<>>} \cup {<<z>> : z \in Chars \cup {NULL}},
     ServerApi |-> {<<v>> : v \in Versions} \cup Versions \X Flags \cup Versions \X Flags \X Flags,
     WriteConcern |-> {<<w>> : w \in Ws} \cup Ws \X (Timeouts \cup {NotAScalar})
                      \cup Ws \X Timeouts \X (Truths \cup {NULL}),
     ReadPreference |-> {<<m>> : m \in ModeArgs} \cup ModeArgs \X TagSets
                        \cup ModeArgs \X TagSets \X Arrays([maxStalenessSeconds |-> Staleness,
                                                            hedge |-> Hedges])]

MCHashes ==
    [Timestamp |-> Arrays([increment |-> Numbers, timestamp |-> Numbers]),
     UTCDateTime |-> Arrays([milliseconds |-> Numbers]),
     Binary |-> Arrays([data |-> Texts \cup {[long |-> 0]}, type |-> Types \cup Others]),
     Int64 |-> Arrays([integer |-> Numbers]),
     ObjectId |-> Arrays([oid |-> Parsed]),
     Decimal128 |-> Arrays([dec |-> Parsed]),
     Regex |-> Arrays([pattern |-> Chars, flags |-> Chars]),
     Javascript |-> Arrays([code |-> Chars, scope |-> Scopes]),
     Symbol |-> Arrays([symbol |-> Chars]),
     DBPointer |-> Arrays([ref |-> Chars, id |-> Parsed]),
     ReadConcern |-> Arrays([level |-> Chars]),
     ServerApi |-> Arrays([version |-> Versions, strict |-> Flags, deprecationErrors |-> Flags]),
     CursorId |-> Arrays([id |-> Numbers]),
     WriteConcern |-> Arrays([w |-> Ws, wtimeout |-> Timeouts \cup Strings \cup Others, j |-> Truths]),
     ReadPreference |-> Arrays([mode |-> ModeArgs, tags |-> TagSets \ {NULL},
                                maxStalenessSeconds |-> Staleness, hedge |-> Hedges])]
===============================================================================
