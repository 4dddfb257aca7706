--------------------------- MODULE CursorIteration ---------------------------
(***************************************************************************)
(* Executing queries and commands and iterating their results:             *)
(* phongo_execute_query, phongo_execute_command and the option parsing in  *)
(* php_phongo.c, and the Iterator methods, setTypeMap(), toArray() and     *)
(* free_object of Cursor.c, with the Session objects that a Cursor keeps   *)
(* alive.  libmongoc's cursor and its session pool are external.           *)
(*                                                                         *)
(* One PHP thread runs, so a method call is one step; toArray() is a loop  *)
(* over the Iterator methods and takes a step for each of them.            *)
(***************************************************************************)
EXTENDS Naturals, Sequences, FiniteSets

CONSTANTS
    Cursor,     \* Cursor objects (slots of the object store)
    Session,    \* Session objects
    Lsid,       \* logical session ids the client may generate
    MaxDocs,    \* bound: results of one operation
    MaxIndex,   \* bound: next() calls the program makes on one cursor
    Kinds,      \* which of AllKinds the results may be
    Maps,       \* which of AllMaps the program passes to setTypeMap()
    Tailable,   \* subset of BOOLEAN: whether cursors may be tailable
    NULL

\* A result document either names a Persistable class in __pclass ("odm"), or
\* does not ("plain"), or is not valid BSON ("corrupt").
AllKinds == {"odm", "plain", "corrupt"}

\* Root types of a type map: not set, a native type, a named class.
AllMaps == {"none", "native", "class"}

\* A reply that is not a cursor is one result.
ASSUME BoundsAssumption == MaxDocs \in Nat \ {0} /\ MaxIndex \in Nat
ASSUME KindsAssumption == /\ Kinds \subseteq AllKinds
                          /\ Maps \subseteq AllMaps
                          /\ Tailable \subseteq BOOLEAN
ASSUME CursorAssumption == IsFiniteSet(Cursor)
ASSUME LsidAssumption == IsFiniteSet(Session) /\ IsFiniteSet(Lsid)
                         /\ Cardinality(Lsid) >= Cardinality(Session)
ASSUME NullAssumption == NULL \notin Cursor \cup Session \cup Lsid

VARIABLES
    obj,        \* [Cursor -> php_phongo_cursor_t]
    mc,         \* [Cursor -> mongoc_cursor_t] of the object in that slot
    sess,       \* [Session -> php_phongo_session_t]
    pool,       \* server sessions waiting in the client's pool
    minted,     \* LSIDs generated so far
    inherited,  \* the client's write concern is unacknowledged
    sent,       \* the command the last call sent: its LSID, and whether it is
                \* unacknowledged
    dangling,   \* a killCursors went out over a session destroyed before it
    loop,       \* the toArray() call in progress: its cursor and its array
    returned,   \* the array the last toArray() call returned, if it returned
    thrown      \* the exception of the last call, "none" if it returned

vars == <<obj, mc, sess, pool, minted, inherited, sent, dangling, loop,
          returned, thrown>>
sessionVars == <<sess, pool, minted>>

-------------------------------------------------------------------------------
(* Records *)

Forms == {"default", "class", "odm"} \* how a document was turned into PHP
Exceptions == {"none", "invalid", "logic", "server", "bson", "user"}

\* visitor_data.zchild: which result is shown and as what; doc 0 is UNDEF
Shown == [doc: 0..MaxDocs, as: Forms]
Nothing == [doc |-> 0, as |-> "default"]

\* map is the type map the program set; root and odm are the fields of
\* visitor_data that decoding reads and writes.
CursorRec == [alive: BOOLEAN, advanced: BOOLEAN,
              current: 0..(MaxIndex + MaxDocs + 1), zchild: Shown,
              map: AllMaps, root: AllMaps, odm: BOOLEAN, session: Session \cup {NULL}]

Freed == [alive |-> FALSE, advanced |-> FALSE, current |-> 0, zchild |-> Nothing,
          map |-> "none", root |-> "none", odm |-> FALSE, session |-> NULL]

\* phongo_cursor_init: the object takes a reference to the session it is given
CursorInit(s, adv) == [Freed EXCEPT !.alive = TRUE, !.advanced = adv, !.session = s]

\* docs are the results on the server; the first "taken" of them have been
\* returned by mongoc_cursor_next, the next "batch" are in the client.  id is
\* whether the cursor id is not zero; cs the session its getMores use.
MongocCursor == [docs: UNION {[1..n -> Kinds] : n \in 0..MaxDocs},
                 taken: 0..MaxDocs, batch: 0..MaxDocs, current: 0..MaxDocs,
                 id: BOOLEAN, done: BOOLEAN, failed: BOOLEAN, tailable: BOOLEAN,
                 cs: Session \cup {NULL}]

NoMongocCursor == [docs |-> <<>>, taken |-> 0, batch |-> 0, current |-> 0,
                   id |-> FALSE, done |-> TRUE, failed |-> FALSE,
                   tailable |-> FALSE, cs |-> NULL]

\* refs is the PHP reference count, var is whether a variable of the program
\* refers to the object, ended is whether the program called endSession().
SessionRec == [refs: 0..(Cardinality(Cursor) + 2), var: BOOLEAN, live: BOOLEAN,
               ended: BOOLEAN, lsid: Lsid \cup {NULL}]

NoSession == [refs |-> 0, var |-> FALSE, live |-> FALSE, ended |-> FALSE,
              lsid |-> NULL]

TypeOK ==
    /\ obj \in [Cursor -> CursorRec]
    /\ mc \in [Cursor -> MongocCursor]
    /\ sess \in [Session -> SessionRec]
    /\ pool \subseteq Lsid
    /\ minted \subseteq Lsid
    /\ inherited \in BOOLEAN
    /\ sent \in [lsid: Lsid \cup {NULL}, unack: BOOLEAN]
    /\ dangling \in BOOLEAN
    /\ loop \in [on: Cursor \cup {NULL}, got: Seq(1..MaxDocs)]
    /\ returned \in [on: Cursor \cup {NULL}, got: Seq(1..MaxDocs)]
    /\ thrown \in Exceptions

NoArray == [on |-> NULL, got |-> <<>>]
NoCommand == [lsid |-> NULL, unack |-> FALSE]

Init ==
    /\ obj = [c \in Cursor |-> Freed]
    /\ mc = [c \in Cursor |-> NoMongocCursor]
    /\ sess = [s \in Session |-> NoSession]
    /\ pool = {} /\ minted = {}
    /\ inherited \in BOOLEAN
    /\ sent = NoCommand
    /\ dangling = FALSE
    /\ loop = NoArray /\ returned = NoArray
    /\ thrown = "none"

\* No toArray() call is on the stack: the program can make a call.
Idle == loop.on = NULL

-------------------------------------------------------------------------------
(* libmongoc: the server session pool and mongoc_cursor_next *)

\* Server sessions mongoc_client_start_session may hand out.
Available == IF pool # {} THEN pool ELSE Lsid \ minted

\* The states a getMore (or the find that primes a query cursor) may leave.
\* The server may find out only on a further getMore that nothing is left;
\* only a tailable cursor stays open on an empty batch.  Whether a failed
\* getMore leaves the cursor id is libmongoc's affair: both are possible.
Received(m, n, i) ==
    IF n = 0
    THEN [m EXCEPT !.current = 0, !.id = i, !.done = ~i]
    ELSE [m EXCEPT !.taken = @ + 1, !.current = m.taken + 1, !.batch = n - 1,
                   !.id = i]

Refreshed(m) ==
    LET left == Len(m.docs) - m.taken
        Possible(n, i) == /\ n < left => i
                          /\ m.tailable => i
                          /\ n = 0 /\ i => m.tailable
        answers == {a \in (0..left) \X BOOLEAN : Possible(a[1], a[2])}
    IN {Received(m, a[1], a[2]) : a \in answers}
       \cup {[m EXCEPT !.current = 0, !.failed = TRUE, !.done = TRUE, !.id = i] :
                i \in BOOLEAN}

\* mongoc_cursor_next: an error is final, and asking a completed cursor for
\* more is an error.  It returned a document if current is not 0.
MongocNext(m) ==
    IF m.failed THEN {m}
    ELSE IF m.done THEN {[m EXCEPT !.failed = TRUE]}
    ELSE IF m.batch > 0
         THEN {[m EXCEPT !.taken = @ + 1, !.current = m.taken + 1, !.batch = @ - 1]}
    ELSE IF m.id THEN Refreshed(m)
    ELSE {[m EXCEPT !.current = 0, !.done = TRUE]}

-------------------------------------------------------------------------------
(* Sessions *)

\* An object gets a session from the pool and its first reference.
Started(l, v) == [refs |-> 1, var |-> v, live |-> TRUE, ended |-> FALSE, lsid |-> l]

\* zval_ptr_dtor of a Session in state t: the last reference runs free_object,
\* which destroys the client session and so pools its server session.
Unref(t) == IF t.refs > 1 THEN [t EXCEPT !.refs = @ - 1] ELSE NoSession
Pooled(t) == IF t.refs = 1 /\ t.live THEN {t.lsid} ELSE {}

\* Manager::startSession
StartSession(s, l) ==
    /\ Idle /\ sess[s].refs = 0
    /\ l \in Available
    /\ sess' = [sess EXCEPT ![s] = Started(l, TRUE)]
    /\ pool' = pool \ {l}
    /\ minted' = minted \cup {l}
    /\ returned' = NoArray /\ sent' = NoCommand /\ thrown' = "none"
    /\ UNCHANGED <<obj, mc, inherited, dangling, loop>>

\* Session::endSession destroys the client session whoever still uses it.
EndSession(s) ==
    /\ Idle /\ sess[s].var
    /\ sess' = [sess EXCEPT ![s].live = FALSE, ![s].ended = TRUE]
    /\ pool' = pool \cup (IF sess[s].live THEN {sess[s].lsid} ELSE {})
    /\ returned' = NoArray /\ sent' = NoCommand /\ thrown' = "none"
    /\ UNCHANGED <<obj, mc, minted, inherited, dangling, loop>>

\* The program's variable goes out of scope.
UnsetSession(s) ==
    /\ Idle /\ sess[s].var
    /\ sess' = [sess EXCEPT ![s] = Unref([@ EXCEPT !.var = FALSE])]
    /\ pool' = pool \cup Pooled(sess[s])
    /\ returned' = NoArray /\ sent' = NoCommand /\ thrown' = "none"
    /\ UNCHANGED <<obj, mc, minted, inherited, dangling, loop>>

-------------------------------------------------------------------------------
(* Execution *)

Types == {"raw", "read", "write", "readwrite"}
WriteConcerns == {"absent", "acknowledged", "unacknowledged"}

\* The effective write concern is unacknowledged: the explicit one or, but for
\* raw commands, the client's.  Read commands take no write concern.
Unacknowledged(type, wc) ==
    /\ type # "read"
    /\ \/ wc = "unacknowledged"
       \/ wc = "absent" /\ type # "raw" /\ inherited

\* What the calls of all types and write concerns come to.
Requests == {Unacknowledged(type, wc) : type \in Types, wc \in WriteConcerns}

\* An option of the wrong class, a session of another Manager or a failed
\* server selection ends an execute call before it has done anything, as a
\* bad option does startSession() and an invalid type map setTypeMap().
ExecuteRejected ==
    /\ Idle
    /\ thrown' \in {"invalid", "server"}
    /\ returned' = NoArray /\ sent' = NoCommand
    /\ UNCHANGED <<obj, mc, sess, pool, minted, inherited, dangling, loop>>

\* "Cannot combine "session" option with an unacknowledged write concern"
ExecuteConflict(s, unack) ==
    /\ Idle
    /\ sess[s].var /\ sess[s].live /\ unack
    /\ thrown' = "invalid"
    /\ returned' = NoArray /\ sent' = NoCommand
    /\ UNCHANGED <<obj, mc, sess, pool, minted, inherited, dangling, loop>>

\* Mutant: an implicit session is created whatever the write concern.
ChoicesRegardless(unack) ==
    {[s |-> NULL, owned |-> FALSE, lsid |-> NULL]}
    \cup {[s |-> s, owned |-> TRUE, lsid |-> l] :
             s \in {x \in Session : sess[x].refs = 0}, l \in Available}

\* The session a command runs in: the explicit one; else none if the command
\* is unacknowledged; else an implicit one, or none if it cannot be started.
\* "owned" is free_zsession: the call holds the reference that created it.
Choices(unack) ==
    {[s |-> s, owned |-> FALSE, lsid |-> sess[s].lsid] :
        s \in {x \in Session : /\ sess[x].var /\ sess[x].live
                               /\ ~unack}}
    \cup {[s |-> NULL, owned |-> FALSE, lsid |-> NULL]}
    \cup {[s |-> s, owned |-> TRUE, lsid |-> l] :
             s \in {x \in Session : sess[x].refs = 0 /\ ~unack},
             l \in Available}

\* The session z refers to once the call has created it if it is implicit,
\* and the pool then.
Entered(z) == IF z.owned THEN Started(z.lsid, FALSE) ELSE sess[z.s]
Borrowed(z) == IF z.owned THEN pool \ {z.lsid} ELSE pool

\* Mutant: free_zsession is never set.
CleanedNever(t, z) == t

\* What the cleanup label does to the session, in state t, and to the pool:
\* the reference that created an implicit one is dropped, whatever became of
\* the command.
Cleaned(t, z) == IF z.owned THEN Unref(t) ELSE t
CleanedPool(t, z) == Borrowed(z) \cup (IF z.owned THEN Pooled(t) ELSE {})

\* The command failed: no Cursor; the exception comes from the reply.
CommandFails(unack, z) ==
    /\ Idle
    /\ z \in Choices(unack)
    /\ sent' = [lsid |-> z.lsid, unack |-> unack]
    /\ sess' = IF z.s = NULL THEN sess
               ELSE [sess EXCEPT ![z.s] = Cleaned(Entered(z), z)]
    /\ pool' = IF z.s = NULL THEN pool ELSE CleanedPool(Entered(z), z)
    /\ minted' = IF z.owned THEN minted \cup {z.lsid} ELSE minted
    /\ thrown' = "server" /\ returned' = NoArray
    /\ UNCHANGED <<obj, mc, inherited, dangling, loop>>

\* The mongoc cursor made of a reply: one with a "cursor" document continues
\* a server cursor (n results are in its first batch) in the given session;
\* any other reply is wrapped as the only result of an exhausted cursor.
CursorReply(docs, n, tail, i, s) ==
    [docs |-> docs, taken |-> 0, batch |-> n, current |-> 0, id |-> i,
     done |-> FALSE, failed |-> FALSE, tailable |-> tail, cs |-> s]
WrappedReply(kind) == CursorReply(<<kind>>, 1, FALSE, FALSE, NULL)

Replies(s) ==
    {WrappedReply(k) : k \in Kinds}
    \cup {m \in {CursorReply(d, n, t, i, s) :
                    d \in UNION {[1..k -> Kinds] : k \in 0..MaxDocs},
                    n \in 0..MaxDocs, t \in Tailable, i \in BOOLEAN} :
             /\ m.batch <= Len(m.docs)
             /\ m.batch < Len(m.docs) \/ m.tailable => m.id}

\* The command succeeded: the Cursor adds a reference to the session, then the
\* call drops the one it owns.
CommandSucceeds(c, unack, z, m) ==
    /\ Idle /\ ~obj[c].alive
    /\ z \in Choices(unack)
    /\ m \in Replies(z.s)
    /\ sent' = [lsid |-> z.lsid, unack |-> unack]
    /\ obj' = [obj EXCEPT ![c] = CursorInit(z.s, FALSE)]
    /\ mc' = [mc EXCEPT ![c] = m]
    /\ LET t == [Entered(z) EXCEPT !.refs = @ + 1] IN
       IF z.s = NULL THEN UNCHANGED <<sess, pool>>
       ELSE /\ sess' = [sess EXCEPT ![z.s] = Cleaned(t, z)]
            /\ pool' = CleanedPool(t, z)
    /\ minted' = IF z.owned THEN minted \cup {z.lsid} ELSE minted
    /\ thrown' = "none" /\ returned' = NoArray
    /\ UNCHANGED <<inherited, dangling, loop>>

\* phongo_execute_query sends the find by advancing the cursor once, before
\* the object exists: an error leaves no Cursor behind.  A query without an
\* explicit session runs in one that libmongoc keeps to itself.
ExecuteQuery(c, s, docs, tail) ==
    /\ Idle /\ ~obj[c].alive
    /\ s # NULL => sess[s].var /\ sess[s].live
    /\ \E m \in MongocNext(CursorReply(docs, 0, tail, TRUE, s)) :
         IF m.failed
         THEN /\ thrown' = "server"
              /\ UNCHANGED <<obj, mc, sess>>
         ELSE /\ thrown' = "none"
              /\ obj' = [obj EXCEPT ![c] = CursorInit(s, TRUE)]
              /\ mc' = [mc EXCEPT ![c] = m]
              /\ sess' = IF s = NULL THEN sess
                         ELSE [sess EXCEPT ![s].refs = @ + 1]
    /\ sent' = [lsid |-> IF s = NULL THEN NULL ELSE sess[s].lsid, unack |-> FALSE]
    /\ returned' = NoArray
    /\ UNCHANGED <<pool, minted, inherited, dangling, loop>>

-------------------------------------------------------------------------------
(* Iteration *)

\* php_phongo_bson_to_zval_ex on the current document with the cursor's
\* visitor_data: an ODM class found in the document is remembered there and
\* turns the default root type into "class".  A corrupt document is freed by
\* the caller; user code that throws in bsonUnserialize() does not make the
\* conversion fail.
Decoded(o, m) ==
    LET kind == m.docs[m.current]
        odm == o.odm \/ kind = "odm"
        root == IF odm /\ o.root = "none" THEN "class" ELSE o.root
        as == IF root # "class" THEN "default" ELSE IF odm THEN "odm" ELSE "class"
    IN IF m.current = 0 THEN o
       ELSE IF kind = "corrupt" THEN [o EXCEPT !.zchild = Nothing]
       ELSE [o EXCEPT !.odm = odm, !.root = root,
                      !.zchild = [doc |-> m.current, as |-> as]]

\* What decoding may throw: bsonUnserialize() runs for the "class" root types.
DecodeThrows(o, m) ==
    IF m.current = 0 THEN {"none"}
    ELSE IF m.docs[m.current] = "corrupt" THEN {"bson"}
    ELSE IF Decoded(o, m).root = "class" THEN {"none", "user"}
    ELSE {"none"}

\* Mutants: the session is dropped at once, or kept to the end.
SettleEarly(c, o, m) ==
    LET s == o.session IN
    /\ obj' = [obj EXCEPT ![c] = [o EXCEPT !.session = NULL]]
    /\ mc' = [mc EXCEPT ![c] = m]
    /\ sess' = IF s # NULL THEN [sess EXCEPT ![s] = Unref(@)] ELSE sess
    /\ pool' = IF s # NULL THEN pool \cup Pooled(sess[s]) ELSE pool
SettleNever(c, o, m) ==
    /\ obj' = [obj EXCEPT ![c] = o]
    /\ mc' = [mc EXCEPT ![c] = m]
    /\ UNCHANGED <<sess, pool>>

\* php_phongo_cursor_free_session_if_exhausted, then the object is stored.
Settle(c, o, m) ==
    LET s == o.session
        drop == ~m.id /\ s # NULL
    IN /\ obj' = [obj EXCEPT ![c] = IF drop THEN [o EXCEPT !.session = NULL] ELSE o]
       /\ mc' = [mc EXCEPT ![c] = m]
       /\ sess' = IF drop THEN [sess EXCEPT ![s] = Unref(@)] ELSE sess
       /\ pool' = IF drop THEN pool \cup Pooled(sess[s]) ELSE pool

\* Mutant: every next() counts.
SteppedAlways(o) == [o EXCEPT !.zchild = Nothing, !.advanced = TRUE, !.current = @ + 1]

\* The position next() leaves: the first call does not count if it is the one
\* that advances the mongoc cursor for the first time.
Stepped(o) == [o EXCEPT !.zchild = Nothing, !.advanced = TRUE,
                        !.current = IF o.advanced THEN @ + 1 ELSE @]

\* Mutants: next() passes over a corrupt result; next() does not look for an
\* error.
NextCallSkips(c) ==
    \E n \in MongocNext(mc[c]) :
       LET corrupt == n.current # 0 /\ n.docs[n.current] = "corrupt" IN
       \E m \in IF corrupt THEN MongocNext(n) ELSE {n} :
          LET o == IF corrupt THEN Stepped(Stepped(obj[c])) ELSE Stepped(obj[c]) IN
          /\ Settle(c, Decoded(o, m), m)
          /\ thrown' \in IF m.failed THEN {"server"} ELSE DecodeThrows(o, m)
NextCallQuiet(c) ==
    \E m \in MongocNext(mc[c]) :
       LET o == Stepped(obj[c]) IN
       /\ Settle(c, Decoded(o, m), m)
       /\ thrown' \in DecodeThrows(o, m)

\* Cursor::next
NextCall(c) ==
    \E m \in MongocNext(mc[c]) :
       LET o == Stepped(obj[c]) IN
       /\ Settle(c, Decoded(o, m), m)
       /\ thrown' \in IF m.failed THEN {"server"} ELSE DecodeThrows(o, m)

\* Mutant: rewind() is always possible.
MayRewindAlways(o) == TRUE

\* Whether rewind() may show the current document.
MayRewind(o) == o.current = 0

\* Cursor::rewind
RewindCall(c) ==
    \E m \in IF obj[c].advanced THEN {mc[c]} ELSE MongocNext(mc[c]) :
       LET o == [obj[c] EXCEPT !.advanced = TRUE]
           blank == [o EXCEPT !.zchild = Nothing]
       IN \/ /\ ~obj[c].advanced /\ m.failed
             /\ thrown' = "server"
             /\ obj' = [obj EXCEPT ![c] = o] /\ mc' = [mc EXCEPT ![c] = m]
             /\ UNCHANGED <<sess, pool>>
          \/ /\ obj[c].advanced \/ ~m.failed
             /\ ~MayRewind(o)
             /\ thrown' = "logic"
             /\ obj' = [obj EXCEPT ![c] = o] /\ mc' = [mc EXCEPT ![c] = m]
             /\ UNCHANGED <<sess, pool>>
          \/ /\ obj[c].advanced \/ ~m.failed
             /\ MayRewind(o)
             /\ Settle(c, Decoded(blank, m), m)
             /\ thrown' \in DecodeThrows(blank, m)

CursorNext(c) ==
    /\ Idle /\ obj[c].alive
    /\ obj[c].current < MaxIndex
    /\ NextCall(c)
    /\ returned' = NoArray /\ sent' = NoCommand
    /\ UNCHANGED <<minted, inherited, dangling, loop>>

CursorRewind(c) ==
    /\ Idle /\ obj[c].alive
    /\ RewindCall(c)
    /\ returned' = NoArray /\ sent' = NoCommand
    /\ UNCHANGED <<minted, inherited, dangling, loop>>

\* Cursor::setTypeMap replaces visitor_data and, if a document was shown,
\* decodes it again.
SetTypeMap(c, t) ==
    LET o == [obj[c] EXCEPT !.map = t, !.root = t, !.odm = FALSE,
                            !.zchild = Nothing]
        again == obj[c].zchild.doc # 0
    IN /\ Idle /\ obj[c].alive
       /\ obj' = [obj EXCEPT ![c] = IF again THEN Decoded(o, mc[c]) ELSE o]
       /\ thrown' \in IF again THEN DecodeThrows(o, mc[c]) ELSE {"none"}
       /\ returned' = NoArray /\ sent' = NoCommand
       /\ UNCHANGED <<mc, sess, pool, minted, inherited, dangling, loop>>

-------------------------------------------------------------------------------
(* toArray() and the end of a Cursor *)

\* Cursor::toArray: spl_iterator_apply rewinds, then appends current() and
\* calls next() while valid(); an exception makes the call return nothing.
ToArrayBegin(c) ==
    /\ Idle /\ obj[c].alive
    /\ RewindCall(c)
    /\ loop' = IF thrown' = "none" THEN [on |-> c, got |-> <<>>] ELSE NoArray
    /\ returned' = NoArray /\ sent' = NoCommand
    /\ UNCHANGED <<minted, inherited, dangling>>

\* Mutant: the loop does not call next().
ToArrayStepStuck == ~Idle /\ obj[loop.on].zchild.doc # 0 /\ UNCHANGED vars

ToArrayStep ==
    LET c == loop.on IN
    /\ ~Idle /\ obj[c].zchild.doc # 0
    /\ NextCall(c)
    /\ loop' = IF thrown' = "none"
               THEN [loop EXCEPT !.got = Append(@, obj[c].zchild.doc)]
               ELSE NoArray
    /\ UNCHANGED <<minted, inherited, dangling, returned>>
    /\ sent' = NoCommand

ToArrayReturn ==
    /\ ~Idle /\ obj[loop.on].zchild.doc = 0
    /\ returned' = loop
    /\ loop' = NoArray
    /\ UNCHANGED <<obj, mc, sess, pool, minted, inherited, dangling, thrown>>
    /\ sent' = NoCommand

\* A kill of an open server cursor that reads session s after it was freed.
KillDangles(m, t) == m.id /\ m.cs # NULL /\ ~t[m.cs].live /\ ~t[m.cs].ended

\* php_phongo_cursor_free_object destroys the mongoc cursor, which kills an
\* open server cursor in its session, before it drops the session.
FreeCursor(c) ==
    LET s == obj[c].session IN
    /\ Idle /\ obj[c].alive
    /\ dangling' = (dangling \/ KillDangles(mc[c], sess))
    /\ obj' = [obj EXCEPT ![c] = Freed]
    /\ mc' = [mc EXCEPT ![c] = NoMongocCursor]
    /\ sess' = IF s = NULL THEN sess ELSE [sess EXCEPT ![s] = Unref(@)]
    /\ pool' = IF s = NULL THEN pool ELSE pool \cup Pooled(sess[s])
    /\ returned' = NoArray /\ sent' = NoCommand /\ thrown' = "none"
    /\ UNCHANGED <<minted, inherited, loop>>

-------------------------------------------------------------------------------
SessionStep ==
    \E s \in Session : \/ \E l \in Lsid : StartSession(s, l)
                       \/ EndSession(s)
                       \/ UnsetSession(s)

Execute ==
    \/ ExecuteRejected
    \/ \E unack \in Requests :
          \/ \E s \in Session : ExecuteConflict(s, unack)
          \/ \E z \in Choices(unack) :
                \/ CommandFails(unack, z)
                \/ \E c \in Cursor, m \in Replies(z.s) : CommandSucceeds(c, unack, z, m)

Query ==
    \E c \in Cursor, s \in Session \cup {NULL}, tail \in Tailable :
       \E docs \in UNION {[1..k -> Kinds] : k \in 0..MaxDocs} :
          ExecuteQuery(c, s, docs, tail)

Iterate ==
    \E c \in Cursor : \/ CursorNext(c)
                      \/ CursorRewind(c)
                      \/ \E t \in Maps : SetTypeMap(c, t)
                      \/ ToArrayBegin(c)
                      \/ FreeCursor(c)

ToArrayLoop == ToArrayStep \/ ToArrayReturn

Next == SessionStep \/ Execute \/ Query \/ Iterate \/ ToArrayLoop

\* The loop of toArray() is a C loop on the PHP thread: it goes on running.
Spec == Init /\ [][Next]_vars /\ WF_vars(ToArrayLoop)

-------------------------------------------------------------------------------
(* Properties *)

Holders(s) == {c \in Cursor : obj[c].session = s}

\* key() is the number of the result shown, counting from zero, also after
\* results that could not be decoded and when iteration starts with next().
\* On a tailable cursor every fruitless next() makes it run ahead.
KeyIsPosition ==
    \A c \in Cursor :
       obj[c].zchild.doc # 0 =>
          /\ obj[c].current + 1 >= obj[c].zchild.doc
          /\ ~mc[c].tailable => obj[c].current + 1 = obj[c].zchild.doc

\* As long as the server has results for it, a cursor that was created in a
\* session keeps that session from going back to the pool, where another
\* operation would find it, and from being destroyed under its kill; only the
\* program itself can end the session.
SessionOutlivesCursor ==
    /\ ~dangling
    /\ \A c \in Cursor :
          obj[c].alive /\ mc[c].id /\ mc[c].cs # NULL =>
             /\ obj[c].session = mc[c].cs
             /\ sess[mc[c].cs].live \/ sess[mc[c].cs].ended

\* Every reference a Session counts has a holder, so that none leaks when a
\* command fails, and every server session is in the pool or in exactly one
\* live Session.
SessionsAccounted ==
    /\ \A s \in Session :
          sess[s].refs = Cardinality(Holders(s)) + (IF sess[s].var THEN 1 ELSE 0)
    /\ \A s \in Session : sess[s].live => sess[s].lsid \notin pool
    /\ \A s, t \in Session :
          sess[s].live /\ sess[t].live /\ sess[s].lsid = sess[t].lsid => s = t
    /\ minted = pool \cup {sess[s].lsid : s \in {x \in Session : sess[x].live}}

\* No command leaves with both a session and an unacknowledged write concern,
\* be the session explicit or implicit and the write concern the command's or
\* the client's.
NoUnacknowledgedSession == ~(sent.unack /\ sent.lsid # NULL)

\* Unless the cursor has failed, an array that toArray() returns holds every
\* result, in order: next() calls made before can make it throw, but not
\* return less.
ToArrayComplete ==
    LET m == mc[returned.on] IN
    returned.on # NULL /\ ~m.failed /\ ~m.tailable =>
       returned.got = [i \in 1..Len(m.docs) |-> i]

\* "Returns an array of all result documents for this cursor": the same of
\* every cursor.  It does not hold: rewind() sets advanced before it advances a
\* command cursor, so a second toArray() after a failed first advance is empty.
ToArrayReturnsAll ==
    LET m == mc[returned.on] IN
    returned.on # NULL /\ ~m.tailable =>
       returned.got = [i \in 1..Len(m.docs) |-> i]

\* The ODM class found in a document supersedes the default type map and the
\* named root class, and a document in which none is found is what the type
\* map says.  It does not hold where Kinds has both "plain" and "odm": the class
\* stays in visitor_data from one result to the next.
ClassIsOwn ==
    \A c \in Cursor :
       LET d == obj[c].zchild.doc
           kind == mc[c].docs[d]
       IN d # 0 => obj[c].zchild.as =
                      CASE obj[c].map = "native" -> "default"
                        [] obj[c].map # "native" /\ kind = "odm" -> "odm"
                        [] obj[c].map = "class" /\ kind # "odm" -> "class"
                        [] obj[c].map = "none" /\ kind # "odm" -> "default"

\* A next() or rewind() that finds out that the server has nothing left lets
\* go of the session at once, unless it throws.
ReleasedAtExhaustion ==
    [][\A c \in Cursor :
          /\ obj[c].alive /\ obj'[c].alive
          /\ mc'[c] # mc[c] /\ ~mc'[c].id
          /\ thrown' = "none"
          => obj'[c].session = NULL]_vars

\* An error that next() has reported is reported by every later next(): no
\* call makes a failed cursor deliver again.
FailureIsFinal ==
    [][\A c \in Cursor :
          obj[c].alive /\ mc[c].failed /\ obj'[c].alive =>
             /\ mc'[c] = mc[c]
             /\ obj'[c].current # obj[c].current => thrown' = "server"]_vars

\* Every cursor is a stream of results, each taken once and in order.
Stream == INSTANCE ResultStream
             WITH open <- [c \in Cursor |-> obj[c].alive],
                  taken <- [c \in Cursor |-> mc[c].taken],
                  shown <- [c \in Cursor |-> obj[c].zchild.doc]
IsResultStream == Stream!Spec

\* toArray() comes back: results are finite, and on a tailable cursor it ends
\* as soon as the server has nothing new.
ToArrayTerminates == loop.on # NULL ~> loop.on = NULL

================================================================================
