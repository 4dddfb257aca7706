------------------------ MODULE CursorIteration_proofs ------------------------
(***************************************************************************)
(* Proofs about the iteration of Cursors: key() is the position of what is *)
(* shown, toArray() leaves nothing out, a failure is final, and every      *)
(* Cursor is the stream of results that ResultStream specifies; and about  *)
(* the Sessions that operations run in and Cursors keep: each reference is *)
(* counted and dropped once, each server session has one owner, and no     *)
(* Session goes back to the pool under an open Cursor.  All for any number *)
(* of cursors, sessions, results and batches.                              *)
(***************************************************************************)
EXTENDS CursorIteration, FiniteSetTheorems, SequenceTheorems, TLAPS

-------------------------------------------------------------------------------
(* The inductive invariant *)

Docs == UNION {[1..n -> Kinds] : n \in 0..MaxDocs}

\* Types without the bounds that only hold by the invariant.
Obj == [alive : BOOLEAN, advanced : BOOLEAN, current : Nat, zchild : [doc : Nat, as : Forms],
        map : AllMaps, root : AllMaps, odm : BOOLEAN, session : Session \cup {NULL}]

Mc == [docs : Docs, taken : Nat, batch : Nat, current : Nat, id : BOOLEAN, done : BOOLEAN,
       failed : BOOLEAN, tailable : BOOLEAN, cs : Session \cup {NULL}]

\* A mongoc cursor: what it has taken and what is in the client are results of
\* the server, all of them once the server has closed its cursor.
McOK(m) ==
    /\ m \in Mc
    /\ m.taken + m.batch <= Len(m.docs)
    /\ m.current \in {0, m.taken}
    /\ m.done => m.current = 0
    /\ m.failed => m.done
    /\ ~m.failed /\ ~m.id => m.taken + m.batch = Len(m.docs)
    /\ ~m.failed /\ m.done => m.taken = Len(m.docs)

\* A Cursor and its mongoc cursor: where the one is in the other.
CursorOK(o, m) ==
    /\ o \in Obj /\ McOK(m)
    /\ o.zchild.doc \in {0, m.current}
    /\ ~o.advanced => o.current = 0 /\ m.taken = 0 /\ ~m.done
    /\ o.advanced =>
         /\ o.current + 1 >= m.taken
         /\ ~m.tailable => IF m.current # 0 THEN o.current + 1 = m.taken
                           ELSE m.done /\ (~m.failed => o.current = m.taken)

CursorsOK ==
    /\ obj \in [Cursor -> Obj] /\ mc \in [Cursor -> Mc]
    /\ \A c \in Cursor : IF obj[c].alive THEN CursorOK(obj[c], mc[c])
                         ELSE obj[c] = Freed /\ mc[c] = NoMongocCursor

UpTo(n) == [i \in 1..n |-> i]

\* A toArray() call has an array of the results before the one shown.
LoopOK ==
    /\ loop \in [on : Cursor \cup {NULL}, got : Seq(1..MaxDocs)]
    /\ returned \in [on : Cursor \cup {NULL}, got : Seq(1..MaxDocs)]
    /\ ~Idle =>
         LET o == obj[loop.on]
             m == mc[loop.on]
         IN /\ returned.on = NULL
            /\ o.alive /\ o.advanced
            /\ o.zchild.doc # 0 => o.current + 1 = m.taken /\ loop.got = UpTo(m.taken - 1)
            /\ o.zchild.doc = 0 => m.current = 0
            /\ o.zchild.doc = 0 /\ ~m.failed /\ ~m.tailable => loop.got = UpTo(m.taken)

IterInv == CursorsOK /\ LoopOK /\ ToArrayComplete

-------------------------------------------------------------------------------
(* libmongoc's cursor *)

LEMMA DocsFacts ==
    ASSUME NEW d \in Docs
    PROVE  /\ d \in Seq(Kinds) /\ Len(d) \in 0..MaxDocs
           /\ DOMAIN d = 1..Len(d)
  <1>1. PICK n \in 0..MaxDocs : d \in [1..n -> Kinds]
    BY DEF Docs
  <1>2. n \in Nat
    BY BoundsAssumption
  <1> QED BY <1>1, <1>2

\* What mongoc_cursor_next may do: deliver the next result, or none; and then
\* the cursor is done, unless it is tailable.
Advances(m, n) ==
    /\ McOK(n)
    /\ n.docs = m.docs /\ n.tailable = m.tailable /\ n.cs = m.cs
    /\ n.id => m.id
    /\ m.failed => n = m
    /\ m.done => n.failed
    /\ \/ n.current = m.taken + 1 /\ n.taken = m.taken + 1 /\ ~n.failed /\ ~n.done
       \/ n.current = 0 /\ n.taken = m.taken /\ (n.done \/ n.tailable)

LEMMA RefreshedFacts ==
    ASSUME NEW m, McOK(m), ~m.failed, ~m.done, m.batch = 0, m.id,
           NEW n \in Refreshed(m)
    PROVE  Advances(m, n)
  <1> DEFINE Bool == BOOLEAN
             Sessions == Session \cup {NULL}
             left == Len(m.docs) - m.taken
  <1>1. /\ Mc = [docs : Docs, taken : Nat, batch : Nat, current : Nat, id : Bool, done : Bool,
                 failed : Bool, tailable : Bool, cs : Sessions]
        /\ TRUE \in Bool /\ FALSE \in Bool
    BY DEF Mc
  <1>2. m \in Mc /\ Len(m.docs) \in Nat /\ left \in Nat
    BY DocsFacts DEF McOK, Mc
  <1>3. CASE \E i \in BOOLEAN :
               n = [m EXCEPT !.current = 0, !.failed = TRUE, !.done = TRUE, !.id = i]
    <2>1. PICK i \in BOOLEAN :
               n = [m EXCEPT !.current = 0, !.failed = TRUE, !.done = TRUE, !.id = i]
      BY <1>3
    <2>2. i \in Bool
      OBVIOUS
    <2> HIDE DEF Bool, Sessions
    <2>3. /\ n \in Mc /\ n.docs = m.docs /\ n.taken = m.taken /\ n.batch = m.batch
          /\ n.current = 0 /\ n.failed = TRUE /\ n.done = TRUE
          /\ n.tailable = m.tailable /\ n.cs = m.cs
      BY <1>1, <1>2, <2>1, <2>2
    <2> QED BY <2>3 DEF Advances, McOK
  <1>4. ASSUME NEW k \in 0..left, NEW i \in BOOLEAN,
               k < left => i, m.tailable => i, k = 0 /\ i => m.tailable,
               n = Received(m, k, i)
        PROVE  Advances(m, n)
    <2>1. i \in Bool /\ (~i) \in Bool
      OBVIOUS
    <2> HIDE DEF Bool, Sessions
    <2>2. CASE k = 0
      <3>1. n = [m EXCEPT !.current = 0, !.id = i, !.done = ~i]
        BY <1>4, <2>2 DEF Received
      <3> DEFINE ni == ~i
      <3>2. ni \in Bool
        BY <2>1
      <3> HIDE DEF ni
      <3>3. n = [m EXCEPT !.current = 0, !.id = i, !.done = ni]
        BY <3>1 DEF ni
      <3>4. /\ n \in Mc /\ n.docs = m.docs /\ n.taken = m.taken /\ n.batch = m.batch
            /\ n.current = 0 /\ n.failed = m.failed /\ n.done = ni /\ n.id = i
            /\ n.tailable = m.tailable /\ n.cs = m.cs
        BY <1>1, <1>2, <2>1, <3>2, <3>3
      <3>5. ~i => left = 0
        BY <1>2, <1>4, <2>2
      <3>6. ~i => m.taken = Len(m.docs)
        BY <1>1, <1>2, <3>5
      <3>7. n.done => ~i
        BY <3>4 DEF ni
      <3>8. i => m.tailable
        BY <1>4, <2>2
      <3>9. n.done \/ n.tailable
        BY <3>4, <3>8 DEF ni
      <3>10. McOK(n)
        BY <1>2, <3>4, <3>6, <3>7 DEF McOK
      <3> QED BY <3>4, <3>9, <3>10 DEF Advances
    <2>3. CASE k # 0
      <3>1. n = [m EXCEPT !.taken = m.taken + 1, !.current = m.taken + 1, !.batch = k - 1,
                          !.id = i]
        BY <1>4, <2>3 DEF Received
      <3>2. m.taken + 1 \in Nat /\ k - 1 \in Nat
        BY <1>1, <1>2, <1>4, <2>3
      <3>3. /\ n \in Mc /\ n.docs = m.docs /\ n.taken = m.taken + 1 /\ n.batch = k - 1
            /\ n.current = m.taken + 1 /\ n.failed = m.failed /\ n.done = m.done /\ n.id = i
            /\ n.tailable = m.tailable /\ n.cs = m.cs
        BY <1>1, <1>2, <2>1, <3>1, <3>2
      <3>4. n.taken + n.batch <= Len(n.docs)
        BY <1>1, <1>2, <1>4, <3>2, <3>3
      <3>5. ~n.id => n.taken + n.batch = Len(n.docs)
        BY <1>1, <1>2, <1>4, <3>2, <3>3
      <3>6. McOK(n)
        BY <3>3, <3>4, <3>5 DEF McOK
      <3> QED BY <3>3, <3>6 DEF Advances
    <2> QED BY <2>2, <2>3
  <1> QED
    <2>1. \/ \E i \in BOOLEAN :
               n = [m EXCEPT !.current = 0, !.failed = TRUE, !.done = TRUE, !.id = i]
          \/ \E k \in 0..left, i \in BOOLEAN :
               /\ k < left => i
               /\ m.tailable => i
               /\ k = 0 /\ i => m.tailable
               /\ n = Received(m, k, i)
      BY DEF Refreshed
    <2> QED BY <1>3, <1>4, <2>1

LEMMA MongocNextFacts ==
    ASSUME NEW m, McOK(m), NEW n \in MongocNext(m)
    PROVE  Advances(m, n)
  <1> DEFINE Bool == BOOLEAN
             Sessions == Session \cup {NULL}
  <1>1. /\ Mc = [docs : Docs, taken : Nat, batch : Nat, current : Nat, id : Bool, done : Bool,
                 failed : Bool, tailable : Bool, cs : Sessions]
        /\ TRUE \in Bool /\ FALSE \in Bool
    BY DEF Mc
  <1>2. m \in Mc /\ Len(m.docs) \in Nat
    BY DocsFacts DEF McOK, Mc
  <1> HIDE DEF Bool, Sessions
  <1>3. CASE m.failed
    BY <1>3 DEF MongocNext, Advances, McOK
  <1>4. CASE ~m.failed /\ m.done
    <2>1. n = [m EXCEPT !.failed = TRUE]
      BY <1>4 DEF MongocNext
    <2>2. /\ n \in Mc /\ n.docs = m.docs /\ n.taken = m.taken /\ n.batch = m.batch
          /\ n.current = m.current /\ n.failed = TRUE /\ n.done = m.done /\ n.id = m.id
          /\ n.tailable = m.tailable /\ n.cs = m.cs
      BY <1>1, <1>2, <2>1
    <2> QED BY <1>4, <2>2 DEF Advances, McOK
  <1>5. CASE ~m.failed /\ ~m.done /\ m.batch > 0
    <2>1. n = [m EXCEPT !.taken = m.taken + 1, !.current = m.taken + 1, !.batch = m.batch - 1]
      BY <1>5 DEF MongocNext
    <2>2. m.taken + 1 \in Nat /\ m.batch - 1 \in Nat
      BY <1>1, <1>2, <1>5
    <2>3. /\ n \in Mc /\ n.docs = m.docs /\ n.taken = m.taken + 1 /\ n.batch = m.batch - 1
          /\ n.current = m.taken + 1 /\ n.failed = m.failed /\ n.done = m.done /\ n.id = m.id
          /\ n.tailable = m.tailable /\ n.cs = m.cs
      BY <1>1, <1>2, <2>1, <2>2
    <2>4. n.taken + n.batch = m.taken + m.batch
      BY <1>1, <1>2, <2>3
    <2>5. McOK(n)
      BY <1>5, <2>3, <2>4 DEF McOK
    <2> QED BY <1>5, <2>3, <2>5 DEF Advances
  <1>6. CASE ~m.failed /\ ~m.done /\ ~(m.batch > 0) /\ m.id
    <2>1. n \in Refreshed(m) /\ m.batch = 0
      BY <1>1, <1>2, <1>6 DEF MongocNext
    <2> QED BY <1>6, <2>1, RefreshedFacts
  <1>7. CASE ~m.failed /\ ~m.done /\ ~(m.batch > 0) /\ ~m.id
    <2>1. n = [m EXCEPT !.current = 0, !.done = TRUE]
      BY <1>7 DEF MongocNext
    <2>2. /\ n \in Mc /\ n.docs = m.docs /\ n.taken = m.taken /\ n.batch = m.batch
          /\ n.current = 0 /\ n.failed = m.failed /\ n.done = TRUE /\ n.id = m.id
          /\ n.tailable = m.tailable /\ n.cs = m.cs
      BY <1>1, <1>2, <2>1
    <2>3. m.batch = 0 /\ m.taken = Len(m.docs)
      BY <1>1, <1>2, <1>7 DEF McOK
    <2> QED BY <1>7, <2>2, <2>3 DEF Advances, McOK
  <1> QED BY <1>3, <1>4, <1>5, <1>6, <1>7

-------------------------------------------------------------------------------
(* Cursor objects *)

LEMMA SteppedFacts ==
    ASSUME NEW o \in Obj
    PROVE  /\ Stepped(o) \in Obj /\ Stepped(o).alive = o.alive /\ Stepped(o).advanced = TRUE
           /\ Stepped(o).current = (IF o.advanced THEN o.current + 1 ELSE o.current)
           /\ Stepped(o).zchild.doc = 0 /\ Stepped(o).session = o.session
  <1> DEFINE Bool == BOOLEAN
             Sessions == Session \cup {NULL}
             Show == [doc : Nat, as : Forms]
             n == IF o.advanced THEN o.current + 1 ELSE o.current
  <1>1. /\ Obj = [alive : Bool, advanced : Bool, current : Nat, zchild : Show, map : AllMaps,
                  root : AllMaps, odm : Bool, session : Sessions]
        /\ TRUE \in Bool /\ Nothing \in Show /\ Nothing.doc = 0
    BY DEF Obj, Nothing, Forms
  <1> HIDE DEF Bool, Sessions, Show
  <1>2. n \in Nat
    BY <1>1
  <1>3. Stepped(o) = [o EXCEPT !.zchild = Nothing, !.advanced = TRUE, !.current = n]
    BY DEF Stepped
  <1> HIDE DEF n
  <1>4. /\ Stepped(o) \in Obj /\ Stepped(o).alive = o.alive /\ Stepped(o).advanced = TRUE
        /\ Stepped(o).current = n
        /\ Stepped(o).zchild.doc = 0 /\ Stepped(o).session = o.session
    BY <1>1, <1>2, <1>3
  <1> QED BY <1>4 DEF n

\* Decoding shows the current result, or nothing if it is not valid BSON.
LEMMA DecodedFacts ==
    ASSUME NEW o \in Obj, NEW m, McOK(m)
    PROVE  /\ Decoded(o, m) \in Obj /\ Decoded(o, m).alive = o.alive
           /\ Decoded(o, m).advanced = o.advanced /\ Decoded(o, m).current = o.current
           /\ Decoded(o, m).session = o.session
           /\ m.current = 0 => Decoded(o, m) = o
           /\ m.current # 0 => Decoded(o, m).zchild.doc =
                                 IF m.docs[m.current] = "corrupt" THEN 0 ELSE m.current
  <1> DEFINE Bool == BOOLEAN
             Sessions == Session \cup {NULL}
             Show == [doc : Nat, as : Forms]
             kind == m.docs[m.current]
             odm == o.odm \/ kind = "odm"
             root == IF odm /\ o.root = "none" THEN "class" ELSE o.root
             as == IF root # "class" THEN "default" ELSE IF odm THEN "odm" ELSE "class"
             shown == [doc |-> m.current, as |-> as]
  <1>1. /\ Obj = [alive : Bool, advanced : Bool, current : Nat, zchild : Show, map : AllMaps,
                  root : AllMaps, odm : Bool, session : Sessions]
        /\ Nothing \in Show /\ Nothing.doc = 0
    BY DEF Obj, Nothing, Forms
  <1>2. odm \in Bool
    OBVIOUS
  <1>3. root \in AllMaps
    BY <1>1 DEF AllMaps
  <1>4. as \in Forms
    BY DEF Forms
  <1>5. shown \in Show /\ shown.doc = m.current
    BY <1>4 DEF McOK, Mc
  <1>6. CASE m.current = 0
    BY <1>6 DEF Decoded
  <1>7. CASE m.current # 0 /\ kind = "corrupt"
    <2>1. Decoded(o, m) = [o EXCEPT !.zchild = Nothing]
      BY <1>7, Zenon DEF Decoded
    <2> HIDE DEF Bool, Sessions, Show
    <2> QED BY <1>1, <1>7, <2>1
  <1>8. CASE m.current # 0 /\ kind # "corrupt"
    <2>1. Decoded(o, m) = [o EXCEPT !.odm = odm, !.root = root, !.zchild = shown]
      BY <1>8, Zenon DEF Decoded
    <2> HIDE DEF Bool, Sessions, Show, odm, root, shown
    <2> QED BY <1>1, <1>2, <1>3, <1>5, <1>8, <2>1
  <1> QED BY <1>6, <1>7, <1>8

\* The Cursor c has become o, up to its session, with mongoc cursor m.
Becomes(c, o, m) ==
    /\ obj' = [obj EXCEPT ![c] = obj'[c]] /\ mc' = [mc EXCEPT ![c] = m]
    /\ obj'[c] \in Obj
    /\ obj'[c].alive = o.alive /\ obj'[c].advanced = o.advanced
    /\ obj'[c].current = o.current /\ obj'[c].zchild = o.zchild

LEMMA SettleFacts ==
    ASSUME obj \in [Cursor -> Obj], NEW c \in Cursor, NEW o \in Obj, NEW m, Settle(c, o, m)
    PROVE  Becomes(c, o, m)
  <1> DEFINE x == IF ~m.id /\ o.session # NULL THEN [o EXCEPT !.session = NULL] ELSE o
  <1>1. obj' = [obj EXCEPT ![c] = x] /\ mc' = [mc EXCEPT ![c] = m]
    BY Zenon DEF Settle
  <1>2. /\ x \in Obj /\ x.alive = o.alive /\ x.advanced = o.advanced
        /\ x.current = o.current /\ x.zchild = o.zchild
    <2>1. CASE ~m.id /\ o.session # NULL
      <3> DEFINE Bool == BOOLEAN
                 Sessions == Session \cup {NULL}
                 Show == [doc : Nat, as : Forms]
      <3>1. /\ Obj = [alive : Bool, advanced : Bool, current : Nat, zchild : Show,
                      map : AllMaps, root : AllMaps, odm : Bool, session : Sessions]
            /\ NULL \in Sessions
        BY DEF Obj
      <3> HIDE DEF Bool, Sessions, Show
      <3> QED BY <2>1, <3>1
    <2>2. CASE ~(~m.id /\ o.session # NULL)
      BY <2>2
    <2> QED BY <2>1, <2>2
  <1> HIDE DEF x
  <1> QED BY <1>1, <1>2 DEF Becomes

\* Cursor::next
LEMMA NextCallFacts ==
    ASSUME CursorsOK, NEW c \in Cursor, obj[c].alive, NextCall(c)
    PROVE  /\ obj' = [obj EXCEPT ![c] = obj'[c]] /\ mc' = [mc EXCEPT ![c] = mc'[c]]
           /\ CursorOK(obj'[c], mc'[c]) /\ obj'[c].alive /\ obj'[c].advanced
           /\ Advances(mc[c], mc'[c])
           /\ obj'[c].current = (IF obj[c].advanced THEN obj[c].current + 1 ELSE obj[c].current)
           /\ thrown' = "none" => ~mc'[c].failed /\ obj'[c].zchild.doc = mc'[c].current
           /\ mc'[c].failed => thrown' = "server"
  <1> DEFINE o == Stepped(obj[c])
  <1>1. PICK m \in MongocNext(mc[c]) :
               /\ Settle(c, Decoded(o, m), m)
               /\ thrown' \in IF m.failed THEN {"server"} ELSE DecodeThrows(o, m)
    BY DEF NextCall
  <1>2. CursorOK(obj[c], mc[c]) /\ obj \in [Cursor -> Obj] /\ mc \in [Cursor -> Mc]
    BY DEF CursorsOK
  <1>3. Advances(mc[c], m) /\ McOK(m)
    BY <1>2, MongocNextFacts DEF CursorOK, Advances
  <1>4. /\ o \in Obj /\ o.alive = obj[c].alive /\ o.advanced = TRUE /\ o.zchild.doc = 0
        /\ o.current = (IF obj[c].advanced THEN obj[c].current + 1 ELSE obj[c].current)
    BY <1>2, SteppedFacts
  <1> HIDE DEF o
  <1> DEFINE d == Decoded(o, m)
  <1>5. /\ d \in Obj /\ d.alive = o.alive /\ d.advanced = o.advanced /\ d.current = o.current
        /\ m.current = 0 => d = o
        /\ m.current # 0 =>
             d.zchild.doc = IF m.docs[m.current] = "corrupt" THEN 0 ELSE m.current
    BY <1>3, <1>4, DecodedFacts
  <1>6. Settle(c, d, m)
    BY <1>1
  <1> HIDE DEF d
  <1>7. Becomes(c, d, m)
    BY <1>2, <1>5, <1>6, SettleFacts
  <1>8. /\ obj' = [obj EXCEPT ![c] = obj'[c]] /\ mc' = [mc EXCEPT ![c] = mc'[c]]
        /\ mc'[c] = m /\ obj'[c] \in Obj
        /\ obj'[c].alive /\ obj'[c].advanced /\ obj'[c].current = o.current
        /\ obj'[c].zchild.doc = d.zchild.doc
    BY <1>2, <1>4, <1>5, <1>7 DEF Becomes
  <1>9. obj'[c].zchild.doc \in {0, m.current}
    BY <1>4, <1>5, <1>8
  <1>10. CursorOK(obj'[c], m)
    <2>1. obj'[c].current \in Nat /\ m.taken \in Nat /\ mc[c].taken \in Nat /\ obj[c].current \in Nat
      BY <1>2, <1>3, <1>8 DEF Obj, McOK, Mc
    <2>2. obj'[c].current + 1 >= m.taken
      BY <1>2, <1>3, <1>4, <1>8, <2>1 DEF CursorOK, Advances
    <2>3. ~m.tailable => IF m.current # 0 THEN obj'[c].current + 1 = m.taken
                         ELSE m.done /\ (~m.failed => obj'[c].current = m.taken)
      <3> SUFFICES ASSUME ~m.tailable
                   PROVE  IF m.current # 0 THEN obj'[c].current + 1 = m.taken
                          ELSE m.done /\ (~m.failed => obj'[c].current = m.taken)
        OBVIOUS
      <3>1. CASE m.current # 0
        <4>1. m.taken = mc[c].taken + 1 /\ ~mc[c].done /\ ~mc[c].failed
          BY <1>3, <3>1 DEF Advances, McOK
        <4> QED BY <1>2, <1>3, <1>4, <1>8, <2>1, <3>1, <4>1 DEF CursorOK, Advances
      <3>2. CASE m.current = 0
        <4>1. m.taken = mc[c].taken /\ m.done
          BY <1>3, <2>1, <3>2 DEF Advances
        <4>2. ~m.failed => ~mc[c].done
          BY <1>3 DEF Advances
        <4> QED BY <1>2, <1>3, <1>4, <1>8, <2>1, <3>2, <4>1, <4>2 DEF CursorOK, Advances
      <3> QED BY <3>1, <3>2
    <2> QED BY <1>3, <1>8, <1>9, <2>2, <2>3 DEF CursorOK
  <1>11. thrown' = "none" => ~m.failed /\ obj'[c].zchild.doc = m.current
    <2> SUFFICES ASSUME thrown' = "none"
                 PROVE  ~m.failed /\ obj'[c].zchild.doc = m.current
      OBVIOUS
    <2>1. ~m.failed /\ "none" \in DecodeThrows(o, m)
      BY <1>1
    <2>2. m.current # 0 => m.docs[m.current] # "corrupt"
      BY <2>1 DEF DecodeThrows
    <2> QED BY <1>4, <1>5, <1>8, <2>1, <2>2
  <1>12. m.failed => thrown' = "server"
    BY <1>1
  <1> QED BY <1>3, <1>8, <1>10, <1>11, <1>12, <1>4

LEMMA AdvancedFacts ==
    ASSUME NEW o \in Obj
    PROVE  LET a == [o EXCEPT !.advanced = TRUE]
               b == [a EXCEPT !.zchild = Nothing]
           IN /\ a \in Obj /\ a.alive = o.alive /\ a.advanced = TRUE /\ a.current = o.current
              /\ a.zchild = o.zchild /\ a.session = o.session
              /\ b \in Obj /\ b.alive = o.alive /\ b.advanced = TRUE /\ b.current = o.current
              /\ b.zchild.doc = 0 /\ b.session = o.session
  <1> DEFINE Bool == BOOLEAN
             Sessions == Session \cup {NULL}
             Show == [doc : Nat, as : Forms]
  <1>1. /\ Obj = [alive : Bool, advanced : Bool, current : Nat, zchild : Show, map : AllMaps,
                  root : AllMaps, odm : Bool, session : Sessions]
        /\ TRUE \in Bool /\ Nothing \in Show /\ Nothing.doc = 0
    BY DEF Obj, Nothing, Forms
  <1> HIDE DEF Bool, Sessions, Show
  <1> QED BY <1>1

\* Cursor::rewind
LEMMA RewindCallFacts ==
    ASSUME CursorsOK, NEW c \in Cursor, obj[c].alive, RewindCall(c)
    PROVE  /\ obj' = [obj EXCEPT ![c] = obj'[c]] /\ mc' = [mc EXCEPT ![c] = mc'[c]]
           /\ CursorOK(obj'[c], mc'[c]) /\ obj'[c].alive /\ obj'[c].advanced
           /\ obj[c].advanced => mc'[c] = mc[c]
           /\ ~obj[c].advanced => Advances(mc[c], mc'[c])
           /\ obj'[c].current = obj[c].current
           /\ \/ obj'[c].zchild = obj[c].zchild /\ mc'[c].taken = mc[c].taken
              \/ obj[c].current = 0
           /\ thrown' = "none" => /\ obj[c].current = 0
                                  /\ obj'[c].zchild.doc = mc'[c].current
                                  /\ ~obj[c].advanced => ~mc'[c].failed
  <1> DEFINE o == [obj[c] EXCEPT !.advanced = TRUE]
             blank == [o EXCEPT !.zchild = Nothing]
  <1>1. PICK m \in IF obj[c].advanced THEN {mc[c]} ELSE MongocNext(mc[c]) :
            \/ /\ ~obj[c].advanced /\ m.failed
               /\ thrown' = "server"
               /\ obj' = [obj EXCEPT ![c] = o] /\ mc' = [mc EXCEPT ![c] = m]
            \/ /\ obj[c].advanced \/ ~m.failed
               /\ ~MayRewind(o)
               /\ thrown' = "logic"
               /\ obj' = [obj EXCEPT ![c] = o] /\ mc' = [mc EXCEPT ![c] = m]
            \/ /\ obj[c].advanced \/ ~m.failed
               /\ MayRewind(o)
               /\ Settle(c, Decoded(blank, m), m)
               /\ thrown' \in DecodeThrows(blank, m)
    BY Zenon DEF RewindCall
  <1>2. CursorOK(obj[c], mc[c]) /\ obj \in [Cursor -> Obj] /\ mc \in [Cursor -> Mc]
    BY DEF CursorsOK
  <1>3. /\ McOK(m) /\ (obj[c].advanced => m = mc[c])
        /\ ~obj[c].advanced => Advances(mc[c], m)
    BY <1>1, <1>2, MongocNextFacts DEF CursorOK, Advances
  <1>4. /\ o \in Obj /\ o.alive = obj[c].alive /\ o.advanced = TRUE
        /\ o.current = obj[c].current /\ o.zchild = obj[c].zchild
        /\ blank \in Obj /\ blank.alive = obj[c].alive /\ blank.advanced = TRUE
        /\ blank.current = obj[c].current /\ blank.zchild.doc = 0
    BY <1>2, AdvancedFacts
  <1> HIDE DEF o, blank
  <1>5. /\ obj[c].current \in Nat /\ m.taken \in Nat /\ mc[c].taken \in Nat
        /\ obj[c].zchild.doc \in Nat /\ m.current \in Nat
    BY <1>2, <1>3 DEF Obj, McOK, Mc
  \* The position fits the mongoc cursor whatever is shown.
  <1>6. ASSUME NEW x \in Obj, x.advanced, x.current = obj[c].current,
               x.zchild.doc \in {0, m.current}
        PROVE  CursorOK(x, m)
    <2>1. CASE obj[c].advanced
      BY <1>2, <1>3, <1>6, <2>1 DEF CursorOK
    <2>2. CASE ~obj[c].advanced
      <3>1. obj[c].current = 0 /\ mc[c].taken = 0
        BY <1>2, <2>2 DEF CursorOK
      <3>2. x.current + 1 >= m.taken
        BY <1>3, <1>5, <1>6, <2>2, <3>1 DEF Advances
      <3>3. ~m.tailable => IF m.current # 0 THEN x.current + 1 = m.taken
                           ELSE m.done /\ (~m.failed => x.current = m.taken)
        BY <1>3, <1>5, <1>6, <2>2, <3>1 DEF Advances
      <3> QED BY <1>3, <1>6, <3>2, <3>3 DEF CursorOK
    <2> QED BY <2>1, <2>2
  <1>7. CASE /\ ~obj[c].advanced /\ m.failed /\ thrown' = "server"
             /\ obj' = [obj EXCEPT ![c] = o] /\ mc' = [mc EXCEPT ![c] = m]
    <2>1. obj'[c] = o /\ mc'[c] = m
      BY <1>2, <1>7
    <2>2. m.current = 0 /\ m.taken = mc[c].taken
      BY <1>3, <1>7 DEF Advances, McOK
    <2>3. o.zchild.doc = 0
      BY <1>2, <1>4, <1>5, <1>7 DEF CursorOK, McOK
    <2> QED BY <1>3, <1>4, <1>6, <1>7, <2>1, <2>2, <2>3
  <1>8. CASE /\ ~MayRewind(o) /\ thrown' = "logic"
             /\ obj' = [obj EXCEPT ![c] = o] /\ mc' = [mc EXCEPT ![c] = m]
    <2>1. obj'[c] = o /\ mc'[c] = m
      BY <1>2, <1>8
    <2>2. obj[c].advanced /\ m = mc[c]
      BY <1>2, <1>3, <1>4, <1>8 DEF MayRewind, CursorOK
    <2>3. o.zchild.doc \in {0, m.current}
      BY <1>2, <1>4, <2>2 DEF CursorOK
    <2> QED BY <1>3, <1>4, <1>6, <1>8, <2>1, <2>2, <2>3
  <1>9. CASE /\ obj[c].advanced \/ ~m.failed
             /\ MayRewind(o) /\ Settle(c, Decoded(blank, m), m)
             /\ thrown' \in DecodeThrows(blank, m)
    <2> DEFINE d == Decoded(blank, m)
    <2>1. /\ d \in Obj /\ d.alive = blank.alive /\ d.advanced = blank.advanced
          /\ d.current = blank.current
          /\ m.current = 0 => d = blank
          /\ m.current # 0 =>
               d.zchild.doc = IF m.docs[m.current] = "corrupt" THEN 0 ELSE m.current
      BY <1>3, <1>4, DecodedFacts
    <2>2. Settle(c, d, m)
      BY <1>9
    <2> HIDE DEF d
    <2>3. Becomes(c, d, m)
      BY <1>2, <2>1, <2>2, SettleFacts
    <2>4. /\ obj' = [obj EXCEPT ![c] = obj'[c]] /\ mc' = [mc EXCEPT ![c] = mc'[c]]
          /\ mc'[c] = m /\ obj'[c] \in Obj
          /\ obj'[c].alive /\ obj'[c].advanced /\ obj'[c].current = obj[c].current
          /\ obj'[c].zchild.doc = d.zchild.doc
      BY <1>2, <1>4, <2>1, <2>3 DEF Becomes
    <2>5. CursorOK(obj'[c], m)
      BY <1>4, <1>6, <2>1, <2>4
    <2>6. obj[c].current = 0
      BY <1>4, <1>9 DEF MayRewind
    <2>7. thrown' = "none" => obj'[c].zchild.doc = m.current
      <3> SUFFICES ASSUME thrown' = "none"
                   PROVE  obj'[c].zchild.doc = m.current
        OBVIOUS
      <3>1. m.current # 0 => m.docs[m.current] # "corrupt"
        BY <1>9 DEF DecodeThrows
      <3> QED BY <1>4, <2>1, <2>4, <3>1
    <2> QED BY <1>3, <1>9, <2>4, <2>5, <2>6, <2>7
  <1> QED BY <1>1, <1>7, <1>8, <1>9

-------------------------------------------------------------------------------
(* Cursors that are opened *)

LEMMA CursorReplyFacts ==
    ASSUME NEW d \in Docs, NEW n \in Nat, n <= Len(d), NEW tail \in BOOLEAN, NEW i \in BOOLEAN,
           NEW s \in Session \cup {NULL}, ~i => n = Len(d)
    PROVE  LET m == CursorReply(d, n, tail, i, s)
           IN McOK(m) /\ m.taken = 0 /\ m.current = 0 /\ ~m.done /\ ~m.failed /\ m.cs = s
  <1> DEFINE m == CursorReply(d, n, tail, i, s)
  <1>1. /\ m \in Mc /\ m.docs = d /\ m.taken = 0 /\ m.batch = n /\ m.current = 0
        /\ m.done = FALSE /\ m.failed = FALSE /\ m.id = i /\ m.cs = s
    BY DEF CursorReply, Mc
  <1>2. Len(d) \in Nat
    BY DocsFacts
  <1> HIDE DEF m
  <1>3. McOK(m)
    BY <1>1, <1>2 DEF McOK
  <1> QED BY <1>1, <1>3 DEF m

LEMMA RepliesFacts ==
    ASSUME NEW s \in Session \cup {NULL}, NEW m \in Replies(s)
    PROVE  /\ McOK(m) /\ m.taken = 0 /\ m.current = 0 /\ ~m.done /\ ~m.failed
           /\ m.cs \in {s, NULL}
  <1>1. CASE \E k \in Kinds : m = WrappedReply(k)
    <2>1. PICK k \in Kinds : m = CursorReply(<<k>>, 1, FALSE, FALSE, NULL)
      BY <1>1 DEF WrappedReply
    <2>2. <<k>> \in [1..1 -> Kinds] /\ 1 \in 0..MaxDocs /\ Len(<<k>>) = 1
      BY BoundsAssumption
    <2>3. <<k>> \in Docs
      BY <2>2 DEF Docs
    <2>4. /\ m \in Mc /\ m.docs = <<k>> /\ m.taken = 0 /\ m.batch = 1 /\ m.current = 0
          /\ m.done = FALSE /\ m.failed = FALSE /\ m.cs = NULL
      BY <2>1, <2>3 DEF CursorReply, Mc
    <2> QED BY <2>2, <2>4 DEF McOK
  <1>2. CASE \E d \in Docs, n \in 0..MaxDocs, t \in Tailable, i \in BOOLEAN :
               /\ m = CursorReply(d, n, t, i, s)
               /\ m.batch <= Len(m.docs)
               /\ m.batch < Len(m.docs) \/ m.tailable => m.id
    <2>1. PICK d \in Docs, n \in 0..MaxDocs, t \in Tailable, i \in BOOLEAN :
               /\ m = CursorReply(d, n, t, i, s)
               /\ m.batch <= Len(m.docs)
               /\ m.batch < Len(m.docs) \/ m.tailable => m.id
      BY <1>2
    <2>2. m.batch = n /\ m.docs = d /\ m.id = i
      BY <2>1 DEF CursorReply
    <2>3. n \in Nat /\ Len(d) \in Nat /\ t \in BOOLEAN
      BY BoundsAssumption, KindsAssumption, DocsFacts
    <2>4. n <= Len(d) /\ (~i => n = Len(d))
      BY <2>1, <2>2, <2>3
    <2> QED BY <2>1, <2>3, <2>4, CursorReplyFacts
  <1> QED BY <1>1, <1>2 DEF Replies, Docs

LEMMA CursorInitFacts ==
    ASSUME NEW s \in Session \cup {NULL}, NEW adv \in BOOLEAN
    PROVE  LET o == CursorInit(s, adv)
           IN /\ o \in Obj /\ o.alive /\ o.advanced = adv /\ o.current = 0
              /\ o.zchild.doc = 0 /\ o.session = s
  BY DEF CursorInit, Freed, Nothing, Obj, Forms, AllMaps

\* A Cursor is opened where there is none; a query has its first result taken.
Opens(c) ==
    /\ ~obj[c].alive
    /\ obj' = [obj EXCEPT ![c] = obj'[c]] /\ mc' = [mc EXCEPT ![c] = mc'[c]]
    /\ CursorOK(obj'[c], mc'[c]) /\ obj'[c].alive /\ obj'[c].zchild.doc = 0
    /\ mc'[c].taken \in {0, 1} /\ obj'[c].current = 0

LEMMA ChoiceFacts ==
    ASSUME NEW unack, NEW z \in Choices(unack)
    PROVE  z.s \in Session \cup {NULL}
  BY DEF Choices

LEMMA CommandSucceedsFacts ==
    ASSUME CursorsOK, NEW c \in Cursor, NEW unack, NEW z, NEW m, CommandSucceeds(c, unack, z, m)
    PROVE  Opens(c)
  <1>1. /\ ~obj[c].alive /\ m \in Replies(z.s) /\ z.s \in Session \cup {NULL}
        /\ obj' = [obj EXCEPT ![c] = CursorInit(z.s, FALSE)] /\ mc' = [mc EXCEPT ![c] = m]
        /\ obj \in [Cursor -> Obj] /\ mc \in [Cursor -> Mc]
    BY ChoiceFacts DEF CommandSucceeds, CursorsOK
  <1> DEFINE o == CursorInit(z.s, FALSE)
  <1>2. o \in Obj /\ o.alive /\ o.advanced = FALSE /\ o.current = 0 /\ o.zchild.doc = 0
    BY <1>1, CursorInitFacts
  <1>3. McOK(m) /\ m.taken = 0 /\ ~m.done
    BY <1>1, RepliesFacts
  <1>4. obj' = [obj EXCEPT ![c] = o]
    BY <1>1
  <1> HIDE DEF o
  <1>5. CursorOK(o, m)
    BY <1>2, <1>3 DEF CursorOK
  <1> QED BY <1>1, <1>2, <1>3, <1>4, <1>5 DEF Opens

LEMMA ExecuteQueryFacts ==
    ASSUME CursorsOK, NEW c \in Cursor, NEW s \in Session \cup {NULL}, NEW docs \in Docs,
           NEW tail \in Tailable, ExecuteQuery(c, s, docs, tail)
    PROVE  (Opens(c) /\ mc'[c].cs = s) \/ UNCHANGED <<obj, mc>>
  <1> DEFINE r == CursorReply(docs, 0, tail, TRUE, s)
             o == CursorInit(s, TRUE)
  <1>1. ~obj[c].alive /\ obj \in [Cursor -> Obj] /\ mc \in [Cursor -> Mc]
    BY DEF ExecuteQuery, CursorsOK
  <1>2. PICK m \in MongocNext(r) :
               IF m.failed THEN UNCHANGED <<obj, mc>>
               ELSE obj' = [obj EXCEPT ![c] = o] /\ mc' = [mc EXCEPT ![c] = m]
    BY DEF ExecuteQuery
  <1>3. McOK(r) /\ r.taken = 0 /\ ~r.done /\ r.cs = s
    <2>1. tail \in BOOLEAN /\ 0 <= Len(docs)
      BY KindsAssumption, DocsFacts
    <2>2. /\ r \in Mc /\ r.docs = docs /\ r.taken = 0 /\ r.batch = 0 /\ r.current = 0
          /\ r.done = FALSE /\ r.failed = FALSE /\ r.id = TRUE /\ r.cs = s
      BY <2>1 DEF CursorReply, Mc
    <2> HIDE DEF r
    <2> QED BY <2>1, <2>2, DocsFacts DEF McOK
  <1> HIDE DEF r
  <1>4. Advances(r, m)
    BY <1>3, MongocNextFacts
  <1>5. o \in Obj /\ o.alive /\ o.advanced = TRUE /\ o.current = 0 /\ o.zchild.doc = 0
    BY CursorInitFacts
  <1> HIDE DEF o
  <1>6. m.taken \in {0, 1} /\ McOK(m) /\ m.cs = s
    BY <1>3, <1>4 DEF Advances
  <1>7. CursorOK(o, m)
    <2>1. m.taken = 0 => m.current = 0
      BY <1>6 DEF McOK
    <2>2. ~m.tailable => IF m.current # 0 THEN m.taken = 1 ELSE m.done /\ m.taken = 0
      BY <1>3, <1>4, <1>6 DEF Advances
    <2> QED BY <1>5, <1>6, <2>1, <2>2 DEF CursorOK
  <1>8. CASE m.failed
    BY <1>2, <1>8
  <1>9. CASE ~m.failed
    <2>1. obj' = [obj EXCEPT ![c] = o] /\ mc' = [mc EXCEPT ![c] = m]
      BY <1>2, <1>9
    <2> QED BY <1>1, <1>5, <1>6, <1>7, <2>1 DEF Opens
  <1> QED BY <1>8, <1>9

-------------------------------------------------------------------------------
(* The steps *)

\* Nothing but the Cursor c has changed.
Only(c) == obj' = [obj EXCEPT ![c] = obj'[c]] /\ mc' = [mc EXCEPT ![c] = mc'[c]]

LEMMA OnlyOne ==
    ASSUME CursorsOK, NEW c \in Cursor, Only(c), obj'[c].alive, CursorOK(obj'[c], mc'[c])
    PROVE  CursorsOK'
  <1>1. obj'[c] \in Obj /\ mc'[c] \in Mc
    BY DEF CursorOK, McOK
  <1>2. obj' \in [Cursor -> Obj] /\ mc' \in [Cursor -> Mc]
    BY <1>1 DEF CursorsOK, Only
  <1>3. \A d \in Cursor : d # c => obj'[d] = obj[d] /\ mc'[d] = mc[d]
    BY DEF CursorsOK, Only
  <1> QED BY <1>2, <1>3 DEF CursorsOK

LEMMA SetTypeMapFacts ==
    ASSUME CursorsOK, NEW c \in Cursor, NEW t \in Maps, SetTypeMap(c, t)
    PROVE  /\ Only(c) /\ mc'[c] = mc[c] /\ obj'[c].alive /\ CursorOK(obj'[c], mc'[c])
           /\ obj'[c].current = obj[c].current
           /\ obj'[c].zchild.doc \in {0, obj[c].zchild.doc}
           /\ obj'[c].session = obj[c].session
  <1> DEFINE o == [obj[c] EXCEPT !.map = t, !.root = t, !.odm = FALSE, !.zchild = Nothing]
             x == IF obj[c].zchild.doc # 0 THEN Decoded(o, mc[c]) ELSE o
  <1>1. /\ obj \in [Cursor -> Obj] /\ mc \in [Cursor -> Mc] /\ obj[c].alive
        /\ CursorOK(obj[c], mc[c]) /\ t \in AllMaps /\ mc' = mc
    BY KindsAssumption DEF SetTypeMap, CursorsOK
  <1>2. obj' = [obj EXCEPT ![c] = x]
    BY Zenon DEF SetTypeMap
  <1>3. /\ o \in Obj /\ o.alive = obj[c].alive /\ o.advanced = obj[c].advanced
        /\ o.current = obj[c].current /\ o.session = obj[c].session /\ o.zchild.doc = 0
    <2> DEFINE Bool == BOOLEAN
               Sessions == Session \cup {NULL}
               Show == [doc : Nat, as : Forms]
    <2>1. /\ Obj = [alive : Bool, advanced : Bool, current : Nat, zchild : Show,
                    map : AllMaps, root : AllMaps, odm : Bool, session : Sessions]
          /\ FALSE \in Bool /\ Nothing \in Show /\ Nothing.doc = 0
      BY DEF Obj, Nothing, Forms
    <2> HIDE DEF Bool, Sessions, Show
    <2> QED BY <1>1, <2>1
  <1> HIDE DEF o
  <1>4. McOK(mc[c])
    BY <1>1 DEF CursorOK
  <1>5. /\ x \in Obj /\ x.alive = obj[c].alive /\ x.advanced = obj[c].advanced
        /\ x.current = obj[c].current /\ x.session = obj[c].session
        /\ x.zchild.doc \in {0, obj[c].zchild.doc}
    <2>1. CASE obj[c].zchild.doc # 0
      <3>1. x = Decoded(o, mc[c]) /\ mc[c].current = obj[c].zchild.doc
        BY <1>1, <2>1 DEF CursorOK
      <3> HIDE DEF x
      <3> QED BY <1>3, <1>4, <3>1, <2>1, DecodedFacts
    <2>2. CASE obj[c].zchild.doc = 0
      BY <1>3, <2>2
    <2> QED BY <2>1, <2>2
  <1> HIDE DEF x
  <1>6. obj'[c] = x /\ mc'[c] = mc[c]
    BY <1>1, <1>2
  <1>7. CursorOK(x, mc[c])
    BY <1>1, <1>5 DEF CursorOK
  <1>8. Only(c)
    BY <1>1, <1>2, <1>6 DEF Only
  <1> QED BY <1>1, <1>5, <1>6, <1>7, <1>8

LEMMA NoArrayFacts == NoArray \in [on : Cursor \cup {NULL}, got : Seq(1..MaxDocs)] /\ NoArray.on = NULL
  <1>1. <<>> \in Seq(1..MaxDocs)
    BY EmptySeq
  <1> QED BY <1>1 DEF NoArray

\* A call that is not toArray(): what it does to the Cursors is all there is.
LEMMA CallStep ==
    ASSUME IterInv, CursorsOK', Idle, loop' = loop, returned' = NoArray
    PROVE  IterInv'
  <1>1. LoopOK'
    BY NoArrayFacts DEF IterInv, LoopOK, Idle
  <1>2. ToArrayComplete'
    BY NoArrayFacts DEF ToArrayComplete
  <1> QED BY <1>1, <1>2 DEF IterInv

LEMMA SessionStepInv ==
    ASSUME IterInv, SessionStep
    PROVE  IterInv' /\ UNCHANGED <<obj, mc>>
  <1>1. Idle /\ loop' = loop /\ returned' = NoArray /\ obj' = obj /\ mc' = mc
    BY DEF SessionStep, StartSession, EndSession, UnsetSession
  <1>2. CursorsOK'
    BY <1>1 DEF IterInv, CursorsOK
  <1> QED BY <1>1, <1>2, CallStep

\* The calls that open a Cursor.
LEMMA OpensInv ==
    ASSUME IterInv, NEW c \in Cursor, Opens(c), Idle, loop' = loop, returned' = NoArray
    PROVE  IterInv'
  <1>1. CursorsOK'
    BY OnlyOne DEF IterInv, Opens, Only
  <1> QED BY <1>1, CallStep

LEMMA ExecuteInv ==
    ASSUME IterInv, Execute \/ Query
    PROVE  IterInv' /\ (UNCHANGED <<obj, mc>> \/ \E c \in Cursor : Opens(c))
  <1>1. Idle /\ loop' = loop /\ returned' = NoArray
    BY DEF Execute, Query, ExecuteRejected, ExecuteConflict, CommandFails, CommandSucceeds,
           ExecuteQuery
  <1>2. UNCHANGED <<obj, mc>> \/ \E c \in Cursor : Opens(c)
    <2>1. CASE ExecuteRejected
      BY <2>1 DEF ExecuteRejected
    <2>2. ASSUME NEW unack, NEW s \in Session, ExecuteConflict(s, unack)
          PROVE  UNCHANGED <<obj, mc>>
      BY <2>2 DEF ExecuteConflict
    <2>3. ASSUME NEW unack, NEW z, CommandFails(unack, z)
          PROVE  UNCHANGED <<obj, mc>>
      BY <2>3 DEF CommandFails
    <2>4. ASSUME NEW unack, NEW z, NEW c \in Cursor, NEW m, CommandSucceeds(c, unack, z, m)
          PROVE  Opens(c)
      BY <2>4, CommandSucceedsFacts DEF IterInv
    <2>5. ASSUME Query
          PROVE  UNCHANGED <<obj, mc>> \/ \E c \in Cursor : Opens(c)
      <3>1. PICK c \in Cursor, s \in Session \cup {NULL}, tail \in Tailable, docs \in Docs :
                   ExecuteQuery(c, s, docs, tail)
        BY <2>5 DEF Query, Docs
      <3> QED BY <3>1, ExecuteQueryFacts DEF IterInv
    <2> QED BY <2>1, <2>2, <2>3, <2>4, <2>5 DEF Execute
  <1>3. CASE UNCHANGED <<obj, mc>>
    <2>1. CursorsOK'
      BY <1>3 DEF IterInv, CursorsOK
    <2> QED BY <1>1, <1>3, <2>1, CallStep
  <1>4. ASSUME NEW c \in Cursor, Opens(c)
        PROVE  IterInv'
    BY <1>1, <1>4, OpensInv
  <1> QED BY <1>2, <1>3, <1>4

LEMMA FreeCursorFacts ==
    ASSUME CursorsOK, NEW c \in Cursor, FreeCursor(c)
    PROVE  /\ Only(c) /\ obj[c].alive /\ obj'[c] = Freed /\ mc'[c] = NoMongocCursor
           /\ ~obj'[c].alive /\ obj'[c].zchild.doc = 0 /\ mc'[c].taken = 0 /\ CursorsOK'
  <1>1. /\ obj[c].alive /\ obj' = [obj EXCEPT ![c] = Freed]
        /\ mc' = [mc EXCEPT ![c] = NoMongocCursor]
        /\ obj \in [Cursor -> Obj] /\ mc \in [Cursor -> Mc]
    BY DEF FreeCursor, CursorsOK
  <1>2. Freed \in Obj /\ ~Freed.alive /\ Freed.zchild.doc = 0
    BY DEF Freed, Nothing, Obj, Forms, AllMaps
  <1>3. NoMongocCursor \in Mc /\ NoMongocCursor.taken = 0
    <2>1. <<>> \in [1..0 -> Kinds] /\ 0 \in 0..MaxDocs
      BY BoundsAssumption
    <2>2. <<>> \in Docs
      BY <2>1 DEF Docs
    <2> QED BY <2>2 DEF NoMongocCursor, Mc
  <1>4. obj'[c] = Freed /\ mc'[c] = NoMongocCursor
    BY <1>1
  <1>5. Only(c)
    BY <1>1, <1>4 DEF Only
  <1>6. CursorsOK'
    <2>1. obj' \in [Cursor -> Obj] /\ mc' \in [Cursor -> Mc]
      BY <1>1, <1>2, <1>3
    <2>2. \A d \in Cursor : d # c => obj'[d] = obj[d] /\ mc'[d] = mc[d]
      BY <1>1
    <2> QED BY <1>2, <1>4, <2>1, <2>2 DEF CursorsOK
  <1> QED BY <1>1, <1>2, <1>3, <1>4, <1>5, <1>6

-------------------------------------------------------------------------------
(* toArray() *)

LEMMA UpToFacts ==
    ASSUME NEW n \in 0..MaxDocs
    PROVE  /\ UpTo(n) \in Seq(1..MaxDocs)
           /\ n # 0 => UpTo(n) = Append(UpTo(n - 1), n)
  <1>1. n \in Nat
    BY BoundsAssumption
  <1>2. \A i \in 1..n : i \in 1..MaxDocs
    BY <1>1, BoundsAssumption
  <1>3. UpTo(n) \in Seq(1..MaxDocs) /\ Len(UpTo(n)) = n
    BY <1>1, <1>2 DEF UpTo
  <1>4. ASSUME n # 0
        PROVE  UpTo(n) = Append(UpTo(n - 1), n)
    <2> DEFINE k == n - 1
    <2>1. k \in Nat /\ n = k + 1
      BY <1>1, <1>4
    <2>2. UpTo(k) \in Seq(Nat) /\ Len(UpTo(k)) = k
      BY <2>1 DEF UpTo
    <2>3. \A i \in 1..k : UpTo(k)[i] = i
      BY DEF UpTo
    <2>4. UpTo(n) \in Seq(Nat) /\ \A i \in 1..n : UpTo(n)[i] = i
      BY <1>1 DEF UpTo
    <2> HIDE DEF k
    <2>5. /\ Append(UpTo(k), n) \in Seq(Nat) /\ Len(Append(UpTo(k), n)) = n
          /\ \A i \in 1..n : Append(UpTo(k), n)[i] = i
      BY <1>1, <2>1, <2>2, <2>3
    <2>6. UpTo(n) = Append(UpTo(k), n)
      BY <1>3, <2>4, <2>5, SeqEqual
    <2> QED BY <2>6 DEF k
  <1> QED BY <1>3, <1>4

LEMMA ToArrayBeginInv ==
    ASSUME IterInv, NEW c \in Cursor, ToArrayBegin(c)
    PROVE  IterInv'
  <1>1. /\ CursorsOK /\ obj[c].alive /\ RewindCall(c) /\ returned' = NoArray
        /\ loop' = IF thrown' = "none" THEN [on |-> c, got |-> <<>>] ELSE NoArray
    BY DEF IterInv, ToArrayBegin
  <1>2. /\ Only(c) /\ CursorOK(obj'[c], mc'[c]) /\ obj'[c].alive /\ obj'[c].advanced
        /\ obj'[c].current = obj[c].current
        /\ thrown' = "none" => obj[c].current = 0 /\ obj'[c].zchild.doc = mc'[c].current
    BY <1>1, RewindCallFacts DEF Only
  <1>3. CursorsOK'
    BY <1>1, <1>2, OnlyOne
  <1>4. ToArrayComplete'
    BY <1>1, NoArrayFacts DEF ToArrayComplete
  <1>5. <<>> = UpTo(0)
    BY DEF UpTo
  <1>6. LoopOK'
    <2>1. CASE thrown' # "none"
      BY <1>1, <2>1, NoArrayFacts DEF LoopOK, Idle
    <2>2. CASE thrown' = "none"
      <3>1. loop' = [on |-> c, got |-> <<>>] /\ c # NULL
        BY <1>1, <2>2, NullAssumption
      <3>2. loop'.on = c /\ loop'.got = UpTo(0)
        BY <1>5, <3>1
      <3>3. loop' \in [on : Cursor \cup {NULL}, got : Seq(1..MaxDocs)]
        BY <3>1, EmptySeq
      <3>4. returned' \in [on : Cursor \cup {NULL}, got : Seq(1..MaxDocs)] /\ returned'.on = NULL
        BY <1>1, NoArrayFacts
      <3>5. /\ mc'[c].taken \in Nat /\ mc'[c].current \in {0, mc'[c].taken}
            /\ obj'[c].current = 0 /\ mc'[c].taken <= 1
            /\ obj'[c].zchild.doc = mc'[c].current
        BY <1>2, <2>2 DEF CursorOK, McOK, Mc
      <3>6. obj'[c].zchild.doc # 0 => mc'[c].taken = 1
        BY <3>5
      <3>7. /\ obj'[c].zchild.doc = 0 /\ ~mc'[c].failed /\ ~mc'[c].tailable
            => mc'[c].taken = 0
        BY <1>2, <3>5 DEF CursorOK
      <3> QED BY <1>2, <3>2, <3>3, <3>4, <3>5, <3>6, <3>7 DEF LoopOK
    <2> QED BY <2>1, <2>2
  <1> QED BY <1>3, <1>4, <1>6 DEF IterInv

LEMMA ToArrayStepInv ==
    ASSUME IterInv, ToArrayStep
    PROVE  IterInv'
  <1> DEFINE c == loop.on
             m == mc[c]
             n == mc'[c]
  <1>1. /\ CursorsOK /\ LoopOK /\ loop.on # NULL /\ obj[c].zchild.doc # 0 /\ NextCall(c)
        /\ returned' = returned
        /\ loop' = IF thrown' = "none" THEN [loop EXCEPT !.got = Append(@, obj[c].zchild.doc)]
                   ELSE NoArray
    BY DEF IterInv, ToArrayStep, Idle
  <1>2. /\ c \in Cursor /\ obj[c].alive /\ obj[c].advanced /\ returned.on = NULL
        /\ obj[c].current + 1 = m.taken /\ loop.got = UpTo(m.taken - 1)
        /\ loop \in [on : Cursor \cup {NULL}, got : Seq(1..MaxDocs)]
        /\ returned \in [on : Cursor \cup {NULL}, got : Seq(1..MaxDocs)]
    BY <1>1 DEF LoopOK, Idle
  <1>3. /\ Only(c) /\ CursorOK(obj'[c], n) /\ obj'[c].alive /\ obj'[c].advanced
        /\ Advances(m, n) /\ obj'[c].current = obj[c].current + 1
        /\ thrown' = "none" => ~n.failed /\ obj'[c].zchild.doc = n.current
    BY <1>1, <1>2, NextCallFacts DEF Only
  <1>4. CursorsOK'
    BY <1>1, <1>2, <1>3, OnlyOne
  <1>5. ToArrayComplete'
    BY <1>1, <1>2 DEF ToArrayComplete
  <1>6. CursorOK(obj[c], m)
    BY <1>1, <1>2 DEF CursorsOK
  <1>7. obj[c].zchild.doc = m.taken /\ m.taken # 0
    BY <1>1, <1>6 DEF CursorOK, McOK
  <1>8. m.taken \in 0..MaxDocs
    BY <1>6, DocsFacts, BoundsAssumption DEF CursorOK, McOK, Mc
  <1>9. Append(loop.got, obj[c].zchild.doc) = UpTo(m.taken) /\ UpTo(m.taken) \in Seq(1..MaxDocs)
    BY <1>2, <1>7, <1>8, UpToFacts
  <1>10. LoopOK'
    <2>1. CASE thrown' # "none"
      BY <1>1, <1>2, <2>1, NoArrayFacts DEF LoopOK, Idle
    <2>2. CASE thrown' = "none"
      <3>1. loop' = [loop EXCEPT !.got = UpTo(m.taken)]
        BY <1>1, <1>9, <2>2
      <3>2. /\ loop'.on = c /\ loop'.got = UpTo(m.taken)
            /\ loop' \in [on : Cursor \cup {NULL}, got : Seq(1..MaxDocs)]
        BY <1>2, <1>9, <3>1
      <3>3. \/ n.taken = m.taken + 1 /\ n.current # 0
            \/ n.taken = m.taken /\ n.current = 0
        BY <1>3, <1>8, BoundsAssumption DEF Advances
      <3>4. obj'[c].zchild.doc = n.current
        BY <1>3, <2>2
      <3>5. CASE n.taken = m.taken + 1 /\ n.current # 0
        <4>1. n.taken - 1 = m.taken /\ obj'[c].current + 1 = n.taken
          BY <1>2, <1>3, <1>8, <3>5, BoundsAssumption
        <4> QED BY <1>1, <1>2, <1>3, <3>2, <3>4, <3>5, <4>1 DEF LoopOK
      <3>6. CASE n.taken = m.taken /\ n.current = 0
        BY <1>1, <1>2, <1>3, <3>2, <3>4, <3>6 DEF LoopOK
      <3> QED BY <3>3, <3>5, <3>6
    <2> QED BY <2>1, <2>2
  <1> QED BY <1>4, <1>5, <1>10 DEF IterInv

LEMMA ToArrayReturnInv ==
    ASSUME IterInv, ToArrayReturn
    PROVE  IterInv'
  <1> DEFINE c == loop.on
             m == mc[c]
  <1>1. /\ CursorsOK /\ LoopOK /\ c # NULL /\ obj[c].zchild.doc = 0
        /\ returned' = loop /\ loop' = NoArray /\ obj' = obj /\ mc' = mc
    BY DEF IterInv, ToArrayReturn, Idle
  <1>2. /\ c \in Cursor /\ obj[c].alive /\ obj[c].advanced /\ m.current = 0
        /\ ~m.failed /\ ~m.tailable => loop.got = UpTo(m.taken)
        /\ loop \in [on : Cursor \cup {NULL}, got : Seq(1..MaxDocs)]
    BY <1>1 DEF LoopOK, Idle
  <1>3. CursorOK(obj[c], m)
    BY <1>1, <1>2 DEF CursorsOK
  <1>4. ~m.failed /\ ~m.tailable => m.taken = Len(m.docs)
    BY <1>2, <1>3 DEF CursorOK, McOK
  <1>5. ToArrayComplete'
    BY <1>1, <1>2, <1>4 DEF ToArrayComplete, UpTo
  <1>6. LoopOK'
    BY <1>1, <1>2, NoArrayFacts DEF LoopOK, Idle
  <1>7. CursorsOK'
    BY <1>1 DEF CursorsOK
  <1> QED BY <1>5, <1>6, <1>7 DEF IterInv

-------------------------------------------------------------------------------
(* The invariant *)

LEMMA IterateInv ==
    ASSUME IterInv, Iterate
    PROVE  IterInv'
  <1>1. PICK c \in Cursor : \/ CursorNext(c) \/ CursorRewind(c)
                            \/ \E t \in Maps : SetTypeMap(c, t)
                            \/ ToArrayBegin(c) \/ FreeCursor(c)
    BY DEF Iterate
  <1>2. CursorsOK
    BY DEF IterInv
  <1>3. CASE CursorNext(c)
    <2>1. /\ obj[c].alive /\ NextCall(c) /\ Idle /\ loop' = loop /\ returned' = NoArray
      BY <1>3 DEF CursorNext
    <2>2. Only(c) /\ obj'[c].alive /\ CursorOK(obj'[c], mc'[c])
      BY <1>2, <2>1, NextCallFacts DEF Only
    <2> QED BY <1>2, <2>1, <2>2, OnlyOne, CallStep
  <1>4. CASE CursorRewind(c)
    <2>1. /\ obj[c].alive /\ RewindCall(c) /\ Idle /\ loop' = loop /\ returned' = NoArray
      BY <1>4 DEF CursorRewind
    <2>2. Only(c) /\ obj'[c].alive /\ CursorOK(obj'[c], mc'[c])
      BY <1>2, <2>1, RewindCallFacts DEF Only
    <2> QED BY <1>2, <2>1, <2>2, OnlyOne, CallStep
  <1>5. ASSUME NEW t \in Maps, SetTypeMap(c, t)
        PROVE  IterInv'
    <2>1. Idle /\ loop' = loop /\ returned' = NoArray
      BY <1>5 DEF SetTypeMap
    <2>2. Only(c) /\ obj'[c].alive /\ CursorOK(obj'[c], mc'[c])
      BY <1>2, <1>5, SetTypeMapFacts
    <2> QED BY <1>2, <2>1, <2>2, OnlyOne, CallStep
  <1>6. CASE ToArrayBegin(c)
    BY <1>6, ToArrayBeginInv
  <1>7. CASE FreeCursor(c)
    <2>1. Idle /\ loop' = loop /\ returned' = NoArray
      BY <1>7 DEF FreeCursor
    <2> QED BY <1>2, <1>7, <2>1, FreeCursorFacts, CallStep
  <1> QED BY <1>1, <1>3, <1>4, <1>5, <1>6, <1>7

LEMMA InitInv ==
    ASSUME Init
    PROVE  IterInv
  <1>1. /\ obj = [c \in Cursor |-> Freed] /\ mc = [c \in Cursor |-> NoMongocCursor]
        /\ loop = NoArray /\ returned = NoArray
    BY DEF Init
  <1>2. Freed \in Obj /\ ~Freed.alive
    BY DEF Freed, Nothing, Obj, Forms, AllMaps
  <1>3. NoMongocCursor \in Mc
    <2>1. <<>> \in [1..0 -> Kinds] /\ 0 \in 0..MaxDocs
      BY BoundsAssumption
    <2>2. <<>> \in Docs
      BY <2>1 DEF Docs
    <2> QED BY <2>2 DEF NoMongocCursor, Mc
  <1>4. CursorsOK
    BY <1>1, <1>2, <1>3 DEF CursorsOK
  <1>5. LoopOK /\ ToArrayComplete
    BY <1>1, NoArrayFacts DEF LoopOK, ToArrayComplete, Idle
  <1> QED BY <1>4, <1>5 DEF IterInv

LEMMA NextInv ==
    ASSUME IterInv, [Next]_vars
    PROVE  IterInv'
  <1>1. CASE UNCHANGED vars
    BY <1>1 DEF vars, IterInv, CursorsOK, LoopOK, Idle, ToArrayComplete
  <1>2. CASE ToArrayLoop
    BY <1>2, ToArrayStepInv, ToArrayReturnInv DEF ToArrayLoop
  <1> QED BY <1>1, <1>2, SessionStepInv, ExecuteInv, IterateInv DEF Next

\* Of every cursor that Cursor.c iterates, its position and what it shows fit
\* what libmongoc has delivered, and a toArray() call in progress has all of it.
THEOREM Invariant == Spec => []IterInv
  <1>1. Init => IterInv
    BY InitInv
  <1>2. IterInv /\ [Next]_vars => IterInv'
    BY NextInv
  <1> QED BY <1>1, <1>2, PTL DEF Spec

\* key() is the number of the result on show (Cursor::key, Cursor::next).
THEOREM KeysArePositions == Spec => []KeyIsPosition
  <1>1. ASSUME CursorsOK, NEW c \in Cursor, obj[c].zchild.doc # 0
        PROVE  /\ obj[c].current + 1 >= obj[c].zchild.doc
               /\ ~mc[c].tailable => obj[c].current + 1 = obj[c].zchild.doc
    <2>1. obj[c].alive
      BY <1>1 DEF CursorsOK, Freed, Nothing
    <2>2. CursorOK(obj[c], mc[c])
      BY <1>1, <2>1 DEF CursorsOK
    <2>3. obj[c].zchild.doc = mc[c].taken /\ mc[c].current # 0
      BY <1>1, <2>2 DEF CursorOK, McOK
    <2>4. obj[c].advanced
      BY <1>1, <2>2, <2>3 DEF CursorOK
    <2> QED BY <2>2, <2>3, <2>4 DEF CursorOK
  <1>2. IterInv => KeyIsPosition
    BY <1>1 DEF IterInv, KeyIsPosition
  <1> QED BY <1>2, Invariant, PTL

\* The array that Cursor::toArray returns leaves no result out.
THEOREM ToArrayIsComplete == Spec => []ToArrayComplete
  <1>1. IterInv => ToArrayComplete
    BY DEF IterInv
  <1> QED BY <1>1, Invariant, PTL

-------------------------------------------------------------------------------
(* What a step does to one cursor *)

\* A step opens one Cursor, closes one, moves one or leaves all alone.
Moves(c) == /\ Only(c) /\ obj[c].alive /\ obj'[c].alive
            /\ \/ Advances(mc[c], mc'[c]) /\ obj'[c].zchild.doc \in {0, mc'[c].current}
               \/ mc'[c] = mc[c] /\ obj'[c].zchild.doc \in {0, obj[c].zchild.doc}
               \/ /\ mc'[c] = mc[c] /\ obj'[c].zchild.doc = mc[c].current
                  /\ mc[c].taken <= 1
            /\ mc[c].failed => mc'[c] = mc[c]
            /\ mc[c].failed /\ obj'[c].current # obj[c].current => thrown' = "server"

Closes(c) == Only(c) /\ obj[c].alive /\ ~obj'[c].alive /\ obj'[c].zchild.doc = 0
             /\ mc'[c].taken = 0

LEMMA NextMoves ==
    ASSUME CursorsOK, NEW c \in Cursor, obj[c].alive, NextCall(c)
    PROVE  Moves(c)
  <1>1. /\ Only(c) /\ CursorOK(obj'[c], mc'[c]) /\ obj'[c].alive /\ Advances(mc[c], mc'[c])
        /\ mc'[c].failed => thrown' = "server"
    BY NextCallFacts DEF Only
  <1>2. obj'[c].zchild.doc \in {0, mc'[c].current}
    BY <1>1 DEF CursorOK
  <1>3. mc[c].failed => mc'[c] = mc[c]
    BY <1>1 DEF Advances
  <1> QED BY <1>1, <1>2, <1>3 DEF Moves

LEMMA RewindMoves ==
    ASSUME CursorsOK, NEW c \in Cursor, obj[c].alive, RewindCall(c)
    PROVE  Moves(c)
  <1>1. /\ Only(c) /\ CursorOK(obj'[c], mc'[c]) /\ obj'[c].alive /\ obj'[c].advanced
        /\ obj[c].advanced => mc'[c] = mc[c]
        /\ ~obj[c].advanced => Advances(mc[c], mc'[c])
        /\ obj'[c].current = obj[c].current
        /\ \/ obj'[c].zchild = obj[c].zchild /\ mc'[c].taken = mc[c].taken
           \/ obj[c].current = 0
    BY RewindCallFacts DEF Only
  <1>2. obj'[c].zchild.doc \in {0, mc'[c].current}
    BY <1>1 DEF CursorOK
  <1>3. mc[c].failed => mc'[c] = mc[c]
    BY <1>1 DEF Advances
  <1>4. CASE ~obj[c].advanced
    BY <1>1, <1>2, <1>3, <1>4 DEF Moves
  <1>5. CASE obj[c].advanced
    <2>1. mc'[c] = mc[c]
      BY <1>1, <1>5
    <2>2. obj[c].current = 0 => mc[c].taken <= 1
      BY <1>1, <2>1 DEF CursorOK, McOK, Mc
    <2> QED BY <1>1, <1>2, <1>3, <2>1, <2>2 DEF Moves
  <1> QED BY <1>4, <1>5

LEMMA StepCases ==
    ASSUME IterInv, [Next]_vars
    PROVE  \/ UNCHANGED <<obj, mc>>
           \/ \E c \in Cursor : Opens(c) \/ Moves(c) \/ Closes(c)
  <1>1. CASE UNCHANGED vars
    BY <1>1 DEF vars
  <1>2. CASE ToArrayStep
    <2>1. /\ CursorsOK /\ loop.on \in Cursor /\ obj[loop.on].alive /\ NextCall(loop.on)
      BY <1>2 DEF IterInv, LoopOK, ToArrayStep, Idle
    <2> QED BY <2>1, NextMoves
  <1>3. CASE ToArrayReturn
    BY <1>3 DEF ToArrayReturn
  <1>4. CASE Iterate
    <2>1. PICK c \in Cursor : \/ CursorNext(c) \/ CursorRewind(c)
                              \/ \E t \in Maps : SetTypeMap(c, t)
                              \/ ToArrayBegin(c) \/ FreeCursor(c)
      BY <1>4 DEF Iterate
    <2>2. CursorsOK
      BY DEF IterInv
    <2>3. CASE CursorNext(c)
      BY <2>2, <2>3, NextMoves DEF CursorNext
    <2>4. CASE CursorRewind(c) \/ ToArrayBegin(c)
      BY <2>2, <2>4, RewindMoves DEF CursorRewind, ToArrayBegin
    <2>5. ASSUME NEW t \in Maps, SetTypeMap(c, t)
          PROVE  Moves(c)
      <3>1. obj[c].alive
        BY <2>5 DEF SetTypeMap
      <3> QED BY <2>2, <2>5, <3>1, SetTypeMapFacts DEF Moves
    <2>6. CASE FreeCursor(c)
      BY <2>2, <2>6, FreeCursorFacts DEF Closes
    <2> QED BY <2>1, <2>3, <2>4, <2>5, <2>6
  <1> QED BY <1>1, <1>2, <1>3, <1>4, SessionStepInv, ExecuteInv DEF Next, ToArrayLoop

\* Once mongoc_cursor_error has reported a failure, next() keeps reporting it
\* and no call makes the Cursor deliver again.
THEOREM FailuresAreFinal == Spec => FailureIsFinal
  <1> DEFINE Final(c) == obj[c].alive /\ mc[c].failed /\ obj'[c].alive =>
                           /\ mc'[c] = mc[c]
                           /\ obj'[c].current # obj[c].current => thrown' = "server"
  <1>1. ASSUME IterInv, [Next]_vars
        PROVE  \A c \in Cursor : Final(c)
    <2>1. ASSUME NEW c \in Cursor, NEW d \in Cursor, Only(d), c # d
          PROVE  obj'[c] = obj[c] /\ mc'[c] = mc[c]
      BY <1>1, <2>1 DEF IterInv, CursorsOK, Only
    <2>2. CASE UNCHANGED <<obj, mc>>
      BY <2>2
    <2>3. ASSUME NEW d \in Cursor, Opens(d) \/ Moves(d) \/ Closes(d)
          PROVE  \A c \in Cursor : Final(c)
      <3>1. Only(d)
        BY <2>3 DEF Opens, Moves, Closes, Only
      <3>2. Final(d)
        BY <2>3 DEF Opens, Moves, Closes
      <3> QED BY <2>1, <3>1, <3>2
    <2> QED BY <1>1, <2>2, <2>3, StepCases
  <1>2. IterInv /\ [Next]_vars => [\A c \in Cursor : Final(c)]_vars
    BY <1>1
  <1> QED BY <1>2, Invariant, PTL DEF Spec, FailureIsFinal

-------------------------------------------------------------------------------
(* Every Cursor is a stream of results *)

LEMMA StreamBecomes ==
    ASSUME CursorsOK, NEW c \in Cursor, Only(c)
    PROVE  Stream!Becomes(c, obj'[c].alive, mc'[c].taken, obj'[c].zchild.doc)
  <1>1. obj \in [Cursor -> Obj] /\ mc \in [Cursor -> Mc]
    BY DEF CursorsOK
  <1>2. \A d \in Cursor : d # c => obj'[d] = obj[d] /\ mc'[d] = mc[d]
    BY <1>1 DEF Only
  <1> QED BY <1>2 DEF Stream!Becomes

LEMMA StreamStep ==
    ASSUME IterInv, [Next]_vars
    PROVE  [Stream!Next]_(Stream!vars)
  <1>1. CursorsOK
    BY DEF IterInv
  <1>2. CASE UNCHANGED <<obj, mc>>
    BY <1>2 DEF Stream!vars
  <1>3. ASSUME NEW c \in Cursor, Opens(c)
        PROVE  Stream!Open(c)
    <2>1. Only(c) /\ obj'[c].alive = TRUE /\ obj'[c].zchild.doc = 0 /\ mc'[c].taken \in {0, 1}
      BY <1>3 DEF Opens, Only, CursorOK, Obj
    <2>2. Stream!Becomes(c, TRUE, mc'[c].taken, 0)
      BY <1>1, <2>1, StreamBecomes DEF Stream!Becomes
    <2> QED BY <1>3, <2>1, <2>2 DEF Stream!Open, Opens
  <1>4. ASSUME NEW c \in Cursor, Closes(c)
        PROVE  Stream!Close(c)
    <2>1. obj'[c].alive = FALSE
      BY <1>1, <1>4, NextInv DEF Closes, IterInv, CursorsOK, Obj
    <2>2. Stream!Becomes(c, FALSE, 0, 0)
      BY <1>1, <1>4, <2>1, StreamBecomes DEF Closes, Stream!Becomes
    <2> QED BY <1>4, <2>2 DEF Stream!Close, Closes
  <1>5. ASSUME NEW c \in Cursor, Moves(c)
        PROVE  [Stream!Next]_(Stream!vars)
    <2>1. CursorOK(obj[c], mc[c]) /\ obj'[c].alive = TRUE /\ obj[c].alive
      BY <1>1, <1>5, NextInv DEF Moves, IterInv, CursorsOK, Obj
    <2> DEFINE n == mc'[c].taken
               d == obj'[c].zchild.doc
    <2>2. Stream!Becomes(c, TRUE, n, d)
      BY <1>1, <1>5, <2>1, StreamBecomes DEF Moves
    <2>3. \/ n = mc[c].taken + 1 /\ d \in {0, mc[c].taken + 1}
          \/ n = mc[c].taken /\ d = 0
          \/ n = mc[c].taken /\ d = obj[c].zchild.doc
          \/ mc[c].taken = 1 /\ n = 1 /\ d = 1
      <3>1. mc[c].taken \in Nat /\ mc[c].current \in {0, mc[c].taken}
        BY <2>1 DEF CursorOK, McOK, Mc
      <3> QED BY <1>5, <3>1 DEF Moves, Advances
    <2>4. CASE n = mc[c].taken + 1 /\ d \in {0, mc[c].taken + 1}
      BY <2>1, <2>2, <2>4 DEF Stream!Next, Stream!Deliver, Stream!Becomes
    <2>5. CASE n = mc[c].taken /\ d = 0
      BY <2>1, <2>2, <2>5 DEF Stream!Next, Stream!Conceal, Stream!Becomes
    <2>6. CASE mc[c].taken = 1 /\ n = 1 /\ d = 1
      BY <2>1, <2>2, <2>6 DEF Stream!Next, Stream!Restore, Stream!Becomes
    <2>7. CASE n = mc[c].taken /\ d = obj[c].zchild.doc
      <3>1. \A e \in Cursor : /\ obj'[e].alive = obj[e].alive /\ mc'[e].taken = mc[e].taken
                             /\ obj'[e].zchild.doc = obj[e].zchild.doc
        <4>1. \A e \in Cursor : e # c => obj'[e] = obj[e] /\ mc'[e] = mc[e]
          BY <1>1, <1>5 DEF Moves, Only, CursorsOK
        <4>2. obj[c].alive = TRUE
          BY <2>1 DEF CursorOK, Obj
        <4> QED BY <2>1, <2>7, <4>1, <4>2
      <3> QED BY <3>1 DEF Stream!vars
    <2> QED BY <2>3, <2>4, <2>5, <2>6, <2>7
  <1> QED BY <1>2, <1>3, <1>4, <1>5, StepCases DEF Stream!Next

\* Cursor.c over libmongoc's batches and getMores implements the stream of
\* results: each result taken once, in order, and only the last one shown.
THEOREM CursorsAreResultStreams == Spec => IsResultStream
  <1>1. Init => Stream!Init
    BY DEF Init, Stream!Init, Freed, Nothing, NoMongocCursor
  <1>2. IterInv /\ [Next]_vars => [Stream!Next]_(Stream!vars)
    BY StreamStep
  <1> QED BY <1>1, <1>2, Invariant, PTL DEF Spec, IsResultStream, Stream!Spec

-------------------------------------------------------------------------------
(* The Sessions that operations run in and Cursors keep: the invariant *)

SRec == [refs : Nat, var : BOOLEAN, live : BOOLEAN, ended : BOOLEAN, lsid : Lsid \cup {NULL}]

One(b) == IF b THEN 1 ELSE 0

\* The reference counts are right, an object without references is gone, and
\* any other has its client session unless the program ended it.
RecordOK(s) ==
    /\ sess[s].refs = Cardinality(Holders(s)) + One(sess[s].var)
    /\ sess[s].refs = 0 => sess[s] = NoSession
    /\ sess[s].refs # 0 => sess[s].live \/ sess[s].ended

RecordsOK == sess \in [Session -> SRec] /\ \A s \in Session : RecordOK(s)

LiveSessions == {x \in Session : sess[x].live}

\* Every server session is in the pool or in one live Session.
PoolOK ==
    /\ pool \subseteq Lsid
    /\ \A s \in Session : sess[s].live => sess[s].lsid \in Lsid \ pool
    /\ \A s, t \in Session :
          sess[s].live /\ sess[t].live /\ sess[s].lsid = sess[t].lsid => s = t
    /\ minted = pool \cup {sess[s].lsid : s \in LiveSessions}

\* An open server cursor's Cursor holds its session.
BoundOK ==
    \A c \in Cursor : obj[c].alive /\ mc[c].id /\ mc[c].cs # NULL => obj[c].session = mc[c].cs

SessInv == RecordsOK /\ PoolOK /\ BoundOK /\ ~dangling

-------------------------------------------------------------------------------
(* Reference counts *)

\* The Cursors hold what they held; c takes s; c lets go of s.
Kept == \A c \in Cursor : obj'[c].session = obj[c].session
Takes(c, s) == /\ obj[c].session = NULL /\ obj'[c].session = s
               /\ \A d \in Cursor : d # c => obj'[d].session = obj[d].session
LetsGo(c, s) == /\ obj[c].session = s /\ obj'[c].session = NULL
                /\ \A d \in Cursor : d # c => obj'[d].session = obj[d].session

LEMMA HoldersFinite ==
    ASSUME NEW s
    PROVE  /\ IsFiniteSet(Holders(s)) /\ Cardinality(Holders(s)) \in Nat
           /\ IsFiniteSet(Holders(s)') /\ Cardinality(Holders(s)') \in Nat
           /\ Cardinality(Holders(s)) <= Cardinality(Cursor) /\ Cardinality(Cursor) \in Nat
  <1>1. Holders(s) \subseteq Cursor /\ Holders(s)' \subseteq Cursor
    BY DEF Holders
  <1> QED BY <1>1, CursorAssumption, FS_Subset, FS_CardinalityType

LEMMA HoldersKept ==
    ASSUME Kept, NEW s
    PROVE  Holders(s)' = Holders(s)
  BY DEF Kept, Holders

LEMMA HoldersTaken ==
    ASSUME NEW c \in Cursor, NEW s \in Session, Takes(c, s)
    PROVE  /\ Cardinality(Holders(s)') = Cardinality(Holders(s)) + 1
           /\ \A u \in Session : u # s => Holders(u)' = Holders(u)
  <1>1. s # NULL /\ NULL \notin Session
    BY NullAssumption
  <1>2. Holders(s)' = Holders(s) \cup {c} /\ c \notin Holders(s)
    BY <1>1 DEF Takes, Holders
  <1>3. Cardinality(Holders(s)') = Cardinality(Holders(s)) + 1
    BY <1>2, HoldersFinite, FS_AddElement
  <1>4. \A u \in Session : u # s => Holders(u)' = Holders(u)
    BY <1>1 DEF Takes, Holders
  <1> QED BY <1>3, <1>4

LEMMA HoldersLeft ==
    ASSUME NEW c \in Cursor, NEW s \in Session, LetsGo(c, s)
    PROVE  /\ Cardinality(Holders(s)) = Cardinality(Holders(s)') + 1
           /\ \A u \in Session : u # s => Holders(u)' = Holders(u)
  <1>1. s # NULL /\ NULL \notin Session
    BY NullAssumption
  <1>2. Holders(s) = Holders(s)' \cup {c} /\ c \notin Holders(s)'
    BY <1>1 DEF LetsGo, Holders
  <1>3. Cardinality(Holders(s)) = Cardinality(Holders(s)') + 1
    BY <1>2, HoldersFinite, FS_AddElement
  <1>4. \A u \in Session : u # s => Holders(u)' = Holders(u)
    BY <1>1 DEF LetsGo, Holders
  <1> QED BY <1>3, <1>4

\* One Session changes, to t.
LEMMA RecordsStep ==
    ASSUME RecordsOK, NEW s \in Session, NEW t \in SRec, sess' = [sess EXCEPT ![s] = t],
           \A u \in Session : u # s => Holders(u)' = Holders(u),
           t.refs = Cardinality(Holders(s)') + One(t.var),
           t.refs = 0 => t = NoSession, t.refs # 0 => t.live \/ t.ended
    PROVE  RecordsOK'
  <1>1. sess' \in [Session -> SRec] /\ sess'[s] = t
    BY DEF RecordsOK
  <1>2. ASSUME NEW u \in Session
        PROVE  RecordOK(u)'
    <2>1. CASE u = s
      BY <1>1, <2>1 DEF RecordOK
    <2>2. CASE u # s
      <3>1. sess'[u] = sess[u] /\ RecordOK(u) /\ Holders(u)' = Holders(u)
        BY <2>2 DEF RecordsOK
      <3> QED BY <3>1 DEF RecordOK
    <2> QED BY <2>1, <2>2
  <1> QED BY <1>1, <1>2 DEF RecordsOK

LEMMA RecordsSame ==
    ASSUME RecordsOK, Kept, sess' = sess
    PROVE  RecordsOK'
  <1>1. ASSUME NEW u \in Session
        PROVE  RecordOK(u)'
    <2>1. RecordOK(u) /\ Holders(u)' = Holders(u)
      BY HoldersKept DEF RecordsOK
    <2> QED BY <2>1 DEF RecordOK
  <1> QED BY <1>1 DEF RecordsOK

LEMMA NoSessionFacts ==
    NoSession \in SRec /\ NoSession.refs = 0 /\ NoSession.var = FALSE /\ NoSession.live = FALSE
  BY DEF NoSession, SRec

LEMMA UnrefFacts ==
    ASSUME NEW t \in SRec, t.refs # 0
    PROVE  /\ Unref(t) \in SRec
           /\ t.refs = 1 => Unref(t) = NoSession
           /\ t.refs # 1 => /\ Unref(t).refs = t.refs - 1 /\ Unref(t).var = t.var
                            /\ Unref(t).live = t.live /\ Unref(t).ended = t.ended
                            /\ Unref(t).lsid = t.lsid
  <1> DEFINE Bool == BOOLEAN
             Lsids == Lsid \cup {NULL}
  <1>1. SRec = [refs : Nat, var : Bool, live : Bool, ended : Bool, lsid : Lsids]
    BY DEF SRec
  <1> HIDE DEF Bool, Lsids
  <1>2. t.refs \in Nat
    BY <1>1
  <1>3. CASE t.refs = 1
    BY <1>3, NoSessionFacts DEF Unref
  <1>4. CASE t.refs # 1
    <2>1. t.refs > 1 /\ t.refs - 1 \in Nat
      BY <1>2, <1>4
    <2>2. Unref(t) = [t EXCEPT !.refs = t.refs - 1]
      BY <2>1 DEF Unref
    <2> QED BY <1>1, <1>4, <2>1, <2>2
  <1> QED BY <1>3, <1>4

\* A reference added and dropped again.
LEMMA Referenced ==
    ASSUME NEW u \in SRec, u.refs = 1, NEW t, t = [u EXCEPT !.refs = @ + 1]
    PROVE  Unref(t) = u /\ Pooled(t) = {}
  <1> DEFINE Bool == BOOLEAN
             Lsids == Lsid \cup {NULL}
  <1>1. SRec = [refs : Nat, var : Bool, live : Bool, ended : Bool, lsid : Lsids]
    BY DEF SRec
  <1> HIDE DEF Bool, Lsids
  <1>2. t = [u EXCEPT !.refs = 2] /\ t.refs = 2
    BY <1>1
  <1>3. [t EXCEPT !.refs = 1] = u
    BY <1>1, <1>2
  <1>4. t.refs > 1 /\ t.refs # 1 /\ t.refs - 1 = 1
    BY <1>2
  <1> QED BY <1>3, <1>4 DEF Unref, Pooled

-------------------------------------------------------------------------------
(* Server sessions *)

\* The Session s changes, but neither whether it is live nor its id.
LEMMA PoolSame ==
    ASSUME PoolOK, sess \in [Session -> SRec], sess' \in [Session -> SRec], pool' = pool, minted' = minted,
           \A s \in Session : /\ sess'[s].live = sess[s].live
                              /\ sess[s].live => sess'[s].lsid = sess[s].lsid
    PROVE  PoolOK'
  <1>1. LiveSessions' = LiveSessions
    BY DEF LiveSessions
  <1>2. \A s \in LiveSessions : sess'[s].lsid = sess[s].lsid
    BY DEF LiveSessions
  <1>3. {sess'[s].lsid : s \in LiveSessions'} = {sess[s].lsid : s \in LiveSessions}
    BY <1>1, <1>2
  <1> QED BY <1>3 DEF PoolOK

\* The Session s becomes live, with a server session of the pool or a new one.
LEMMA PoolTaken ==
    ASSUME PoolOK, sess \in [Session -> SRec], NEW s \in Session, ~sess[s].live, NEW t \in SRec,
           NEW l \in Available, t.live, t.lsid = l,
           sess' = [sess EXCEPT ![s] = t], pool' = pool \ {l}, minted' = minted \cup {l}
    PROVE  PoolOK'
  <1>1. sess'[s] = t /\ \A u \in Session : u # s => sess'[u] = sess[u]
    OBVIOUS
  <1>2. l \in Lsid /\ \A u \in Session : sess[u].live => sess[u].lsid # l
    <2>1. CASE l \in pool
      BY <2>1 DEF PoolOK
    <2>2. CASE l \in Lsid \ minted
      BY <2>2 DEF PoolOK, LiveSessions
    <2> QED BY <2>1, <2>2 DEF Available
  <1>3. LiveSessions' = LiveSessions \cup {s} /\ s \notin LiveSessions
    BY <1>1 DEF LiveSessions
  <1>4. {sess'[u].lsid : u \in LiveSessions'} = {sess[u].lsid : u \in LiveSessions} \cup {l}
    BY <1>1, <1>3 DEF LiveSessions
  <1>5. minted' = pool' \cup {sess'[u].lsid : u \in LiveSessions'}
    BY <1>4 DEF PoolOK
  <1>6. pool' \subseteq Lsid
    BY DEF PoolOK
  <1>7. \A u \in Session : sess'[u].live => sess'[u].lsid \in Lsid \ pool'
    BY <1>1, <1>2 DEF PoolOK
  <1>8. \A u, v \in Session :
          sess'[u].live /\ sess'[v].live /\ sess'[u].lsid = sess'[v].lsid => u = v
    BY <1>1, <1>2 DEF PoolOK
  <1> QED BY <1>5, <1>6, <1>7, <1>8 DEF PoolOK

\* The Session s is no longer live: its server session goes to the pool.
LEMMA PoolReleased ==
    ASSUME PoolOK, sess \in [Session -> SRec], NEW s \in Session, sess[s].live, NEW t \in SRec,
           ~t.live, sess' = [sess EXCEPT ![s] = t], pool' = pool \cup {sess[s].lsid}, minted' = minted
    PROVE  PoolOK'
  <1>1. sess'[s] = t /\ \A u \in Session : u # s => sess'[u] = sess[u]
    OBVIOUS
  <1>2. sess[s].lsid \in Lsid /\ \A u \in Session : u # s /\ sess[u].live => sess[u].lsid # sess[s].lsid
    BY DEF PoolOK
  <1>3. LiveSessions = LiveSessions' \cup {s} /\ s \notin LiveSessions'
    BY <1>1 DEF LiveSessions
  <1>4. {sess[u].lsid : u \in LiveSessions} = {sess'[u].lsid : u \in LiveSessions'} \cup {sess[s].lsid}
    BY <1>1, <1>3 DEF LiveSessions
  <1>5. minted' = pool' \cup {sess'[u].lsid : u \in LiveSessions'}
    BY <1>4 DEF PoolOK
  <1>6. pool' \subseteq Lsid
    BY <1>2 DEF PoolOK
  <1>7. \A u \in Session : sess'[u].live => sess'[u].lsid \in Lsid \ pool'
    BY <1>1, <1>2 DEF PoolOK
  <1>8. \A u, v \in Session :
          sess'[u].live /\ sess'[v].live /\ sess'[u].lsid = sess'[v].lsid => u = v
    BY <1>1, <1>2 DEF PoolOK
  <1> QED BY <1>5, <1>6, <1>7, <1>8 DEF PoolOK

-------------------------------------------------------------------------------
(* Sessions of the program *)

LEMMA StartedFacts ==
    ASSUME NEW l \in Lsid, NEW v \in BOOLEAN
    PROVE  /\ Started(l, v) \in SRec /\ Started(l, v).refs = 1 /\ Started(l, v).var = v
           /\ Started(l, v).live = TRUE /\ Started(l, v).lsid = l
  BY DEF Started, SRec

LEMMA AvailableFacts ==
    ASSUME PoolOK, NEW l \in Available
    PROVE  l \in Lsid
  BY DEF PoolOK, Available

\* Manager::startSession
LEMMA StartSessionInv ==
    ASSUME RecordsOK, PoolOK, NEW s \in Session, NEW l \in Lsid, StartSession(s, l)
    PROVE  RecordsOK' /\ PoolOK'
  <1>1. /\ sess[s].refs = 0 /\ l \in Available /\ sess' = [sess EXCEPT ![s] = Started(l, TRUE)]
        /\ pool' = pool \ {l} /\ minted' = minted \cup {l} /\ obj' = obj
    BY DEF StartSession
  <1> DEFINE t == Started(l, TRUE)
  <1>2. t \in SRec /\ t.refs = 1 /\ t.var = TRUE /\ t.live = TRUE /\ t.lsid = l
    BY DEF Started, SRec
  <1>3. sess[s] = NoSession /\ ~sess[s].live /\ Cardinality(Holders(s)) = 0
        /\ sess \in [Session -> SRec]
    BY <1>1, NoSessionFacts, HoldersFinite DEF RecordsOK, RecordOK, One
  <1>4. \A u \in Session : Holders(u)' = Holders(u)
    BY <1>1, HoldersKept DEF Kept
  <1>5. sess' = [sess EXCEPT ![s] = t]
    BY <1>1
  <1> HIDE DEF t
  <1>6. /\ t.refs = Cardinality(Holders(s)') + One(t.var)
        /\ t.refs = 0 => t = NoSession
        /\ t.refs # 0 => t.live \/ t.ended
    BY <1>2, <1>3, <1>4 DEF One
  <1>7. RecordsOK'
    BY <1>2, <1>4, <1>5, <1>6, RecordsStep
  <1>8. PoolOK'
    BY <1>1, <1>2, <1>3, <1>5, PoolTaken
  <1> QED BY <1>7, <1>8

\* Session::endSession
LEMMA EndSessionInv ==
    ASSUME RecordsOK, PoolOK, NEW s \in Session, EndSession(s)
    PROVE  RecordsOK' /\ PoolOK'
  <1> DEFINE t == [sess[s] EXCEPT !.live = FALSE, !.ended = TRUE]
             Bool == BOOLEAN
             Lsids == Lsid \cup {NULL}
  <1>1. /\ sess[s].var /\ sess' = [sess EXCEPT ![s].live = FALSE, ![s].ended = TRUE]
        /\ pool' = pool \cup (IF sess[s].live THEN {sess[s].lsid} ELSE {})
        /\ minted' = minted /\ obj' = obj
    BY DEF EndSession
  <1>2. sess \in [Session -> SRec] /\ RecordOK(s)
    BY DEF RecordsOK
  <1>3. /\ SRec = [refs : Nat, var : Bool, live : Bool, ended : Bool, lsid : Lsids]
        /\ TRUE \in Bool /\ FALSE \in Bool
    BY DEF SRec
  <1> HIDE DEF Bool, Lsids
  <1>4. /\ t \in SRec /\ t.refs = sess[s].refs /\ t.var = sess[s].var /\ t.live = FALSE
        /\ t.ended = TRUE
    BY <1>2, <1>3
  <1>5. sess' = [sess EXCEPT ![s] = t]
    BY <1>1, <1>2
  <1> HIDE DEF t
  <1>6. \A u \in Session : Holders(u)' = Holders(u)
    BY <1>1, HoldersKept DEF Kept
  <1>7. t.refs = Cardinality(Holders(s)') + One(t.var) /\ t.refs # 0
    BY <1>1, <1>2, <1>4, <1>6, HoldersFinite DEF RecordOK, One
  <1>8. RecordsOK'
    BY <1>4, <1>5, <1>6, <1>7, RecordsStep
  <1>9. CASE sess[s].live
    BY <1>1, <1>2, <1>4, <1>5, <1>8, <1>9, PoolReleased
  <1>10. CASE ~sess[s].live
    <2>1. pool' = pool /\ sess[s].live = FALSE
      BY <1>1, <1>2, <1>10 DEF SRec
    <2>2. \A u \in Session : /\ sess'[u].live = sess[u].live
                             /\ sess[u].live => sess'[u].lsid = sess[u].lsid
      BY <1>2, <1>4, <1>5, <2>1
    <2> QED BY <1>1, <1>2, <1>8, <2>1, <2>2, PoolSame DEF RecordsOK
  <1> QED BY <1>8, <1>9, <1>10

\* A Session loses one reference and, with the last one, its server session.
LEMMA Unreferenced ==
    ASSUME RecordsOK, PoolOK, NEW s \in Session, NEW r \in SRec,
           r.refs = sess[s].refs, r.live = sess[s].live, r.ended = sess[s].ended,
           r.lsid = sess[s].lsid, sess[s].refs # 0,
           sess[s].refs = Cardinality(Holders(s)') + One(r.var) + 1,
           \A u \in Session : u # s => Holders(u)' = Holders(u),
           sess' = [sess EXCEPT ![s] = Unref(r)], pool' = pool \cup Pooled(sess[s]),
           minted' = minted
    PROVE  RecordsOK' /\ PoolOK'
  <1> DEFINE t == Unref(r)
             n == Cardinality(Holders(s)')
  <1>1. /\ t \in SRec
        /\ r.refs = 1 => t = NoSession
        /\ r.refs # 1 => /\ t.refs = r.refs - 1 /\ t.var = r.var /\ t.live = r.live
                         /\ t.ended = r.ended /\ t.lsid = r.lsid
    BY UnrefFacts
  <1>2. sess \in [Session -> SRec] /\ RecordOK(s) /\ n \in Nat /\ sess' = [sess EXCEPT ![s] = t]
        /\ r.var \in BOOLEAN
    BY HoldersFinite DEF RecordsOK, SRec
  <1> HIDE DEF t
  <1>3. r.refs = n + One(r.var) + 1
    OBVIOUS
  <1> HIDE DEF n
  <1>4. /\ t.refs = n + One(t.var)
        /\ t.refs = 0 => t = NoSession
        /\ t.refs # 0 => t.live \/ t.ended
    <2>1. CASE r.refs = 1
      BY <1>1, <1>2, <1>3, <2>1, NoSessionFacts DEF One
    <2>2. CASE r.refs # 1
      BY <1>1, <1>2, <1>3, <2>2 DEF One, RecordOK
    <2> QED BY <2>1, <2>2
  <1>5. RecordsOK'
    BY <1>1, <1>2, <1>4, RecordsStep DEF n
  <1>6. CASE sess[s].refs = 1 /\ sess[s].live
    <2>1. pool' = pool \cup {sess[s].lsid} /\ ~t.live
      BY <1>1, <1>6, NoSessionFacts DEF Pooled
    <2> QED BY <1>1, <1>2, <1>5, <1>6, <2>1, PoolReleased
  <1>7. CASE ~(sess[s].refs = 1 /\ sess[s].live)
    <2>1. pool' = pool
      BY <1>7 DEF Pooled
    <2>2. t.live = sess[s].live /\ (sess[s].live => t.lsid = sess[s].lsid)
      BY <1>1, <1>2, <1>7, NoSessionFacts DEF SRec
    <2>3. \A u \in Session : /\ sess'[u].live = sess[u].live
                             /\ sess[u].live => sess'[u].lsid = sess[u].lsid
      BY <1>2, <2>2
    <2> QED BY <1>2, <1>5, <2>1, <2>3, PoolSame DEF RecordsOK
  <1> QED BY <1>5, <1>6, <1>7

\* A variable of the program goes out of scope.
LEMMA UnsetSessionInv ==
    ASSUME RecordsOK, PoolOK, NEW s \in Session, UnsetSession(s)
    PROVE  RecordsOK' /\ PoolOK'
  <1> DEFINE r == [sess[s] EXCEPT !.var = FALSE]
             Bool == BOOLEAN
             Lsids == Lsid \cup {NULL}
  <1>1. /\ sess[s].var /\ pool' = pool \cup Pooled(sess[s]) /\ minted' = minted /\ obj' = obj
        /\ sess' = [sess EXCEPT ![s] = Unref(r)]
    BY DEF UnsetSession
  <1>2. sess \in [Session -> SRec] /\ RecordOK(s)
    BY DEF RecordsOK
  <1>3. /\ SRec = [refs : Nat, var : Bool, live : Bool, ended : Bool, lsid : Lsids]
        /\ FALSE \in Bool
    BY DEF SRec
  <1> HIDE DEF Bool, Lsids
  <1>4. /\ r \in SRec /\ r.refs = sess[s].refs /\ r.var = FALSE /\ r.live = sess[s].live
        /\ r.ended = sess[s].ended /\ r.lsid = sess[s].lsid
    BY <1>2, <1>3
  <1> HIDE DEF r
  <1>5. \A u \in Session : Holders(u)' = Holders(u)
    BY <1>1, HoldersKept DEF Kept
  <1>6. /\ sess[s].refs = Cardinality(Holders(s)') + One(r.var) + 1 /\ sess[s].refs # 0
    BY <1>1, <1>2, <1>4, <1>5, HoldersFinite DEF RecordOK, One
  <1> QED BY <1>1, <1>4, <1>5, <1>6, Unreferenced

\* A Cursor lets go of its Session.
LEMMA LetsGoInv ==
    ASSUME RecordsOK, PoolOK, NEW c \in Cursor, NEW s \in Session, LetsGo(c, s),
           sess' = [sess EXCEPT ![s] = Unref(@)], pool' = pool \cup Pooled(sess[s]),
           minted' = minted
    PROVE  RecordsOK' /\ PoolOK'
  <1>1. sess \in [Session -> SRec] /\ RecordOK(s)
    BY DEF RecordsOK
  <1>2. /\ Cardinality(Holders(s)) = Cardinality(Holders(s)') + 1
        /\ \A u \in Session : u # s => Holders(u)' = Holders(u)
    BY HoldersLeft
  <1>3. /\ sess[s].refs = Cardinality(Holders(s)') + One(sess[s].var) + 1 /\ sess[s].refs # 0
    BY <1>1, <1>2, HoldersFinite DEF RecordOK, One
  <1> QED BY <1>1, <1>2, <1>3, Unreferenced

\* An explicit Session gets one more holder.
LEMMA TakesInv ==
    ASSUME RecordsOK, PoolOK, NEW c \in Cursor, NEW s \in Session, Takes(c, s), sess[s].var,
           sess' = [sess EXCEPT ![s].refs = @ + 1], pool' = pool, minted' = minted
    PROVE  RecordsOK' /\ PoolOK'
  <1> DEFINE t == [sess[s] EXCEPT !.refs = sess[s].refs + 1]
             Bool == BOOLEAN
             Lsids == Lsid \cup {NULL}
  <1>1. sess \in [Session -> SRec] /\ RecordOK(s)
    BY DEF RecordsOK
  <1>2. SRec = [refs : Nat, var : Bool, live : Bool, ended : Bool, lsid : Lsids]
    BY DEF SRec
  <1> HIDE DEF Bool, Lsids
  <1>nat. sess[s] \in SRec /\ sess[s].refs \in Nat /\ sess[s].refs + 1 \in Nat
    BY <1>1, <1>2
  <1>3. /\ t \in SRec /\ t.refs = sess[s].refs + 1 /\ t.var = sess[s].var
        /\ t.live = sess[s].live /\ t.ended = sess[s].ended /\ t.lsid = sess[s].lsid
        /\ sess[s].refs \in Nat
    BY <1>2, <1>nat
  <1>4. sess' = [sess EXCEPT ![s] = t]
    BY <1>1
  <1> HIDE DEF t
  <1>5. /\ Cardinality(Holders(s)') = Cardinality(Holders(s)) + 1
        /\ \A u \in Session : u # s => Holders(u)' = Holders(u)
    BY HoldersTaken
  <1>6. /\ t.refs = Cardinality(Holders(s)') + One(t.var) /\ t.refs # 0 /\ (t.live \/ t.ended)
    BY <1>1, <1>3, <1>5, HoldersFinite DEF RecordOK, One
  <1>7. RecordsOK'
    BY <1>3, <1>4, <1>5, <1>6, RecordsStep
  <1>8. \A u \in Session : /\ sess'[u].live = sess[u].live
                           /\ sess[u].live => sess'[u].lsid = sess[u].lsid
    BY <1>1, <1>3, <1>4
  <1>9. PoolOK'
    BY <1>1, <1>7, <1>8, PoolSame DEF RecordsOK
  <1> QED BY <1>7, <1>9

\* Nothing happens to any Session.
LEMMA SessionsSame ==
    ASSUME RecordsOK, PoolOK, Kept, sess' = sess, pool' = pool, minted' = minted
    PROVE  RecordsOK' /\ PoolOK'
  <1>1. RecordsOK'
    BY RecordsSame
  <1>2. PoolOK'
    BY DEF PoolOK, LiveSessions
  <1> QED BY <1>1, <1>2

-------------------------------------------------------------------------------
(* Operations that run in a Session *)

\* An explicit session, none, or an implicit one (phongo_execute_command).
Explicit(z) == z.s \in Session /\ z.owned = FALSE /\ sess[z.s].var /\ sess[z.s].live
               /\ z.lsid = sess[z.s].lsid
Sessionless(z) == z.s = NULL /\ z.owned = FALSE /\ z.lsid = NULL
Implicit(z) == z.s \in Session /\ z.owned = TRUE /\ sess[z.s].refs = 0 /\ z.lsid \in Available

LEMMA ChoiceCases ==
    ASSUME NEW unack, NEW z \in Choices(unack)
    PROVE  /\ Explicit(z) \/ Sessionless(z) \/ Implicit(z)
           /\ unack => z.lsid = NULL
  BY DEF Choices, Explicit, Sessionless, Implicit

\* A Session without references has nothing that its creation could lose.
LEMMA Unborn ==
    ASSUME RecordsOK, NEW s \in Session, sess[s].refs = 0
    PROVE  /\ sess \in [Session -> SRec] /\ sess[s] = NoSession /\ ~sess[s].live
           /\ Cardinality(Holders(s)) = 0
  <1>1. sess \in [Session -> SRec] /\ RecordOK(s)
    BY DEF RecordsOK
  <1>2. sess[s] = NoSession
    BY <1>1 DEF RecordOK
  <1>3. sess[s].var = FALSE /\ ~sess[s].live
    BY <1>2, NoSessionFacts
  <1> QED BY <1>1, <1>2, <1>3, HoldersFinite DEF RecordOK, One

LEMMA CommandFailsInv ==
    ASSUME RecordsOK, PoolOK, NEW unack, NEW z, CommandFails(unack, z)
    PROVE  RecordsOK' /\ PoolOK'
  <1>1. /\ z \in Choices(unack)
        /\ sess' = IF z.s = NULL THEN sess ELSE [sess EXCEPT ![z.s] = Cleaned(Entered(z), z)]
        /\ pool' = IF z.s = NULL THEN pool ELSE CleanedPool(Entered(z), z)
        /\ minted' = IF z.owned THEN minted \cup {z.lsid} ELSE minted
        /\ obj' = obj
    BY DEF CommandFails
  <1>2. Kept /\ NULL \notin Session
    BY <1>1, NullAssumption DEF Kept
  <1>3. CASE Sessionless(z)
    BY <1>1, <1>2, <1>3, SessionsSame DEF Sessionless
  <1>4. CASE Explicit(z)
    <2>1. sess' = [sess EXCEPT ![z.s] = sess[z.s]] /\ pool' = pool \cup {} /\ minted' = minted
      BY <1>1, <1>2, <1>4 DEF Explicit, Cleaned, CleanedPool, Entered, Borrowed
    <2>2. sess' = sess /\ pool' = pool
      BY <2>1 DEF RecordsOK
    <2> QED BY <1>2, <2>1, <2>2, SessionsSame
  <1>5. CASE Implicit(z)
    <2> DEFINE s == z.s
               l == z.lsid
               t == Started(l, FALSE)
    <2>1. s \in Session /\ s # NULL /\ z.owned /\ sess[s].refs = 0 /\ l \in Available
      BY <1>2, <1>5 DEF Implicit
    <2>2. l \in Lsid
      BY <2>1, AvailableFacts
    <2>3. t.refs = 1 /\ t.live = TRUE /\ t.lsid = l /\ t \in SRec
      BY <2>2 DEF Started, SRec
    <2>4. /\ sess' = [sess EXCEPT ![s] = Unref(t)] /\ minted' = minted \cup {l}
          /\ pool' = (pool \ {l}) \cup Pooled(t)
      BY <1>1, <2>1 DEF Cleaned, CleanedPool, Entered, Borrowed
    <2>5. Unref(t) = NoSession /\ Pooled(t) = {l}
      <3> HIDE DEF t
      <3>1. ~(t.refs > 1) /\ t.refs = 1 /\ t.live
        BY <2>3
      <3> QED BY <2>3, <3>1, Zenon DEF Unref, Pooled
    <2>6. sess \in [Session -> SRec] /\ sess[s] = NoSession
      BY <2>1, Unborn
    <2>7. sess' = sess
      BY <2>4, <2>5, <2>6
    <2>8. RecordsOK'
      BY <1>2, <2>7, RecordsSame
    <2>9. pool' = pool \cup {l}
      BY <2>4, <2>5
    <2>10. LiveSessions' = LiveSessions
      BY <2>7 DEF LiveSessions
    <2>11. minted' = pool' \cup {sess'[u].lsid : u \in LiveSessions'}
      BY <2>4, <2>7, <2>9, <2>10 DEF PoolOK
    <2>12. \A u \in Session : sess[u].live => sess[u].lsid # l
      <3>1. CASE l \in pool
        BY <3>1 DEF PoolOK
      <3>2. CASE l \in Lsid \ minted
        BY <3>2 DEF PoolOK, LiveSessions
      <3> QED BY <2>1, <3>1, <3>2 DEF Available
    <2>13. PoolOK'
      BY <2>2, <2>7, <2>9, <2>11, <2>12 DEF PoolOK
    <2> QED BY <2>8, <2>13
  <1> QED BY <1>1, <1>3, <1>4, <1>5, ChoiceCases

LEMMA CommandSucceedsInv ==
    ASSUME CursorsOK, RecordsOK, PoolOK, NEW c \in Cursor, NEW unack, NEW z, NEW m,
           CommandSucceeds(c, unack, z, m)
    PROVE  RecordsOK' /\ PoolOK' /\ obj'[c].session = z.s
  <1> DEFINE t == [Entered(z) EXCEPT !.refs = @ + 1]
  <1>1. /\ z \in Choices(unack) /\ ~obj[c].alive
        /\ obj' = [obj EXCEPT ![c] = CursorInit(z.s, FALSE)]
        /\ IF z.s = NULL THEN UNCHANGED <<sess, pool>>
           ELSE sess' = [sess EXCEPT ![z.s] = Cleaned(t, z)] /\ pool' = CleanedPool(t, z)
        /\ minted' = IF z.owned THEN minted \cup {z.lsid} ELSE minted
    BY DEF CommandSucceeds
  <1>2. obj \in [Cursor -> Obj] /\ obj[c].session = NULL /\ NULL \notin Session
    BY <1>1, NullAssumption DEF CursorsOK, Freed
  <1>3. z.s \in Session \cup {NULL}
    BY <1>1, ChoiceFacts
  <1>4. CursorInit(z.s, FALSE).session = z.s
    BY DEF CursorInit, Freed
  <1>5. obj'[c].session = z.s /\ Takes(c, z.s)
    BY <1>1, <1>2, <1>4 DEF Takes
  <1>6. CASE Sessionless(z)
    <2>1. Kept
      BY <1>2, <1>5, <1>6 DEF Kept, Takes, Sessionless
    <2> QED BY <1>1, <1>5, <1>6, <2>1, SessionsSame DEF Sessionless
  <1>7. CASE Explicit(z)
    <2>1. /\ z.s \in Session /\ z.s # NULL /\ sess[z.s].var /\ ~z.owned
      BY <1>2, <1>7 DEF Explicit
    <2>2. /\ sess' = [sess EXCEPT ![z.s] = [sess[z.s] EXCEPT !.refs = @ + 1]]
          /\ pool' = pool \cup {} /\ minted' = minted
      BY <1>1, <2>1 DEF Cleaned, CleanedPool, Entered, Borrowed
    <2>3. sess' = [sess EXCEPT ![z.s].refs = @ + 1] /\ pool' = pool
      BY <2>2
    <2> QED BY <1>5, <2>1, <2>2, <2>3, TakesInv
  <1>8. CASE Implicit(z)
    <2> DEFINE s == z.s
               l == z.lsid
               u == Started(l, FALSE)
    <2>1. s \in Session /\ s # NULL /\ z.owned /\ sess[s].refs = 0 /\ l \in Available
      BY <1>2, <1>8 DEF Implicit
    <2>2. l \in Lsid
      BY <2>1, AvailableFacts
    <2>3. /\ u \in SRec /\ u.refs = 1 /\ u.var = FALSE /\ u.live = TRUE /\ u.lsid = l
          /\ Unref(t) = u /\ Pooled(t) = {}
      <3>1. /\ u \in SRec /\ u.refs = 1 /\ u.var = FALSE /\ u.live = TRUE /\ u.lsid = l
        BY <2>2 DEF Started, SRec
      <3>2. t = [u EXCEPT !.refs = @ + 1]
        BY <2>1 DEF Entered
      <3> HIDE DEF t, u
      <3> QED BY <3>1, <3>2, Referenced
    <2>4. /\ sess' = [sess EXCEPT ![s] = Unref(t)] /\ minted' = minted \cup {l}
          /\ pool' = (pool \ {l}) \cup Pooled(t)
      BY <1>1, <2>1 DEF Cleaned, CleanedPool, Borrowed
    <2>5. /\ sess \in [Session -> SRec] /\ ~sess[s].live /\ Cardinality(Holders(s)) = 0
      BY <2>1, Unborn
    <2> HIDE DEF t, u
    <2>6. sess' = [sess EXCEPT ![s] = u] /\ pool' = pool \ {l}
      BY <2>3, <2>4
    <2>7. /\ Cardinality(Holders(s)') = Cardinality(Holders(s)) + 1
          /\ \A v \in Session : v # s => Holders(v)' = Holders(v)
      BY <1>5, <2>1, HoldersTaken
    <2>8. /\ u.refs = Cardinality(Holders(s)') + One(u.var)
          /\ u.refs = 0 => u = NoSession
          /\ u.refs # 0 => u.live \/ u.ended
      BY <2>3, <2>5, <2>7 DEF One
    <2>9. RecordsOK'
      BY <2>1, <2>3, <2>6, <2>7, <2>8, RecordsStep
    <2>10. PoolOK'
      BY <2>1, <2>3, <2>4, <2>5, <2>6, PoolTaken
    <2> QED BY <1>5, <2>9, <2>10
  <1> QED BY <1>1, <1>5, <1>6, <1>7, <1>8, ChoiceCases

LEMMA ExecuteQueryInv ==
    ASSUME CursorsOK, RecordsOK, PoolOK, NEW c \in Cursor, NEW s \in Session \cup {NULL},
           NEW docs, NEW tail, ExecuteQuery(c, s, docs, tail)
    PROVE  /\ RecordsOK' /\ PoolOK'
           /\ obj' # obj => obj'[c].session = s
  <1>1. /\ ~obj[c].alive /\ (s # NULL => sess[s].var /\ sess[s].live)
        /\ pool' = pool /\ minted' = minted
        /\ \/ UNCHANGED <<obj, sess>>
           \/ /\ obj' = [obj EXCEPT ![c] = CursorInit(s, TRUE)]
              /\ sess' = IF s = NULL THEN sess ELSE [sess EXCEPT ![s].refs = @ + 1]
    BY DEF ExecuteQuery
  <1>2. obj \in [Cursor -> Obj] /\ obj[c].session = NULL /\ NULL \notin Session
    BY <1>1, NullAssumption DEF CursorsOK, Freed
  <1>3. CASE UNCHANGED <<obj, sess>>
    BY <1>1, <1>3, SessionsSame DEF Kept
  <1>4. CASE /\ obj' = [obj EXCEPT ![c] = CursorInit(s, TRUE)]
             /\ sess' = IF s = NULL THEN sess ELSE [sess EXCEPT ![s].refs = @ + 1]
    <2>1. CursorInit(s, TRUE).session = s
      BY DEF CursorInit, Freed
    <2>2. obj'[c].session = s /\ Takes(c, s)
      BY <1>2, <1>4, <2>1 DEF Takes
    <2>3. CASE s = NULL
      <3>1. Kept
        BY <1>2, <2>2, <2>3 DEF Kept, Takes
      <3> QED BY <1>1, <1>4, <2>2, <2>3, <3>1, SessionsSame
    <2>4. CASE s # NULL
      <3>1. s \in Session /\ sess[s].var /\ sess' = [sess EXCEPT ![s].refs = @ + 1]
        BY <1>1, <1>4, <2>4
      <3> QED BY <1>1, <2>2, <3>1, TakesInv
    <2> QED BY <2>3, <2>4
  <1> QED BY <1>1, <1>3, <1>4

-------------------------------------------------------------------------------
(* Calls on a Cursor *)

\* next() or rewind() leaves the session with the Cursor c, or drops it
\* because the server has no more results (free_session_if_exhausted).
Settled(c) ==
    \/ obj'[c].session = obj[c].session /\ UNCHANGED <<sess, pool>>
    \/ /\ obj[c].session # NULL /\ obj'[c].session = NULL /\ ~mc'[c].id
       /\ sess' = [sess EXCEPT ![obj[c].session] = Unref(@)]
       /\ pool' = pool \cup Pooled(sess[obj[c].session])

LEMMA SettleSession ==
    ASSUME obj \in [Cursor -> Obj], mc \in [Cursor -> Mc], NEW c \in Cursor, NEW o \in Obj,
           NEW m, Settle(c, o, m), o.session = obj[c].session
    PROVE  Settled(c) /\ (~mc'[c].id => obj'[c].session = NULL)
  <1> DEFINE s == o.session
             drop == ~m.id /\ s # NULL
             x == IF drop THEN [o EXCEPT !.session = NULL] ELSE o
  <1>1. /\ obj' = [obj EXCEPT ![c] = x] /\ mc' = [mc EXCEPT ![c] = m]
        /\ sess' = IF drop THEN [sess EXCEPT ![s] = Unref(@)] ELSE sess
        /\ pool' = IF drop THEN pool \cup Pooled(sess[s]) ELSE pool
    BY Zenon DEF Settle
  <1>2. obj'[c] = x /\ mc'[c] = m
    BY <1>1
  <1>3. CASE drop
    <2>1. x.session = NULL
      BY <1>3 DEF Obj
    <2> QED BY <1>1, <1>2, <1>3, <2>1 DEF Settled
  <1>4. CASE ~drop
    BY <1>1, <1>2, <1>4 DEF Settled
  <1> QED BY <1>3, <1>4

LEMMA NextCallSession ==
    ASSUME CursorsOK, NEW c \in Cursor, obj[c].alive, NextCall(c)
    PROVE  Settled(c) /\ (~mc'[c].id => obj'[c].session = NULL)
  <1> DEFINE o == Stepped(obj[c])
  <1>1. PICK m \in MongocNext(mc[c]) : Settle(c, Decoded(o, m), m)
    BY DEF NextCall
  <1>2. CursorOK(obj[c], mc[c]) /\ obj \in [Cursor -> Obj] /\ mc \in [Cursor -> Mc]
    BY DEF CursorsOK
  <1>3. McOK(m)
    BY <1>2, MongocNextFacts DEF CursorOK, Advances
  <1>4. o \in Obj /\ o.session = obj[c].session
    BY <1>2, SteppedFacts
  <1> HIDE DEF o
  <1>5. Decoded(o, m) \in Obj /\ Decoded(o, m).session = obj[c].session
    BY <1>3, <1>4, DecodedFacts
  <1> QED BY <1>1, <1>2, <1>5, SettleSession

LEMMA RewindCallSession ==
    ASSUME CursorsOK, NEW c \in Cursor, obj[c].alive, RewindCall(c)
    PROVE  Settled(c) /\ (thrown' = "none" /\ ~mc'[c].id => obj'[c].session = NULL)
  <1> DEFINE o == [obj[c] EXCEPT !.advanced = TRUE]
             blank == [o EXCEPT !.zchild = Nothing]
  <1>1. PICK m \in IF obj[c].advanced THEN {mc[c]} ELSE MongocNext(mc[c]) :
            \/ /\ thrown' = "server" /\ obj' = [obj EXCEPT ![c] = o] /\ UNCHANGED <<sess, pool>>
            \/ /\ thrown' = "logic" /\ obj' = [obj EXCEPT ![c] = o] /\ UNCHANGED <<sess, pool>>
            \/ Settle(c, Decoded(blank, m), m)
    BY Zenon DEF RewindCall
  <1>2. CursorOK(obj[c], mc[c]) /\ obj \in [Cursor -> Obj] /\ mc \in [Cursor -> Mc]
    BY DEF CursorsOK
  <1>3. McOK(m)
    BY <1>1, <1>2, MongocNextFacts DEF CursorOK, Advances
  <1>4. o.session = obj[c].session /\ blank \in Obj /\ blank.session = obj[c].session
    BY <1>2, AdvancedFacts
  <1> HIDE DEF o, blank
  <1>5. CASE thrown' # "none" /\ obj' = [obj EXCEPT ![c] = o] /\ UNCHANGED <<sess, pool>>
    BY <1>2, <1>4, <1>5 DEF Settled
  <1>6. CASE Settle(c, Decoded(blank, m), m)
    <2>1. Decoded(blank, m) \in Obj /\ Decoded(blank, m).session = obj[c].session
      BY <1>3, <1>4, DecodedFacts
    <2> QED BY <1>2, <1>6, <2>1, SettleSession
  <1> QED BY <1>1, <1>5, <1>6

\* What a step of a Cursor that stays does to the sessions.
Uses(c) == /\ Only(c) /\ obj[c].alive /\ obj'[c].alive /\ Settled(c)
           /\ mc'[c].id => mc[c].id
           /\ mc'[c].cs = mc[c].cs
           /\ mc'[c] # mc[c] /\ ~mc'[c].id /\ thrown' = "none" => obj'[c].session = NULL
           /\ minted' = minted /\ dangling' = dangling

LEMMA OthersKept ==
    ASSUME CursorsOK, NEW c \in Cursor, Only(c)
    PROVE  \A d \in Cursor : d # c => obj'[d] = obj[d] /\ mc'[d] = mc[d]
  BY DEF CursorsOK, Only

LEMMA UsesInv ==
    ASSUME CursorsOK, SessInv, NEW c \in Cursor, Uses(c)
    PROVE  SessInv'
  <1>1. RecordsOK /\ PoolOK /\ BoundOK /\ ~dangling /\ minted' = minted /\ dangling' = dangling
    BY DEF SessInv, Uses
  <1>2. /\ \A d \in Cursor : d # c => obj'[d] = obj[d] /\ mc'[d] = mc[d]
        /\ obj[c].session \in Session \cup {NULL}
    BY OthersKept DEF Uses, CursorsOK, Obj
  <1>3. CASE obj'[c].session = obj[c].session /\ UNCHANGED <<sess, pool>>
    <2>1. Kept
      BY <1>2, <1>3 DEF Kept
    <2>2. RecordsOK' /\ PoolOK'
      BY <1>1, <1>3, <2>1, SessionsSame
    <2>3. BoundOK'
      BY <1>1, <1>2, <1>3 DEF BoundOK, Uses
    <2> QED BY <1>1, <2>2, <2>3 DEF SessInv
  <1>4. CASE /\ obj[c].session # NULL /\ obj'[c].session = NULL /\ ~mc'[c].id
             /\ sess' = [sess EXCEPT ![obj[c].session] = Unref(@)]
             /\ pool' = pool \cup Pooled(sess[obj[c].session])
    <2>1. obj[c].session \in Session /\ LetsGo(c, obj[c].session)
      BY <1>2, <1>4 DEF LetsGo
    <2>2. RecordsOK' /\ PoolOK'
      BY <1>1, <1>4, <2>1, LetsGoInv
    <2>3. BoundOK'
      BY <1>1, <1>2, <1>4 DEF BoundOK
    <2> QED BY <1>1, <2>2, <2>3 DEF SessInv
  <1> QED BY <1>3, <1>4 DEF Uses, Settled

\* php_phongo_cursor_free_object: the session it kills in is still there.
LEMMA FreeCursorInv ==
    ASSUME CursorsOK, SessInv, NEW c \in Cursor, FreeCursor(c)
    PROVE  SessInv'
  <1> DEFINE s == obj[c].session
  <1>1. /\ RecordsOK /\ PoolOK /\ BoundOK /\ ~dangling /\ minted' = minted
        /\ dangling' = (dangling \/ KillDangles(mc[c], sess)) /\ obj[c].alive
        /\ sess' = IF s = NULL THEN sess ELSE [sess EXCEPT ![s] = Unref(@)]
        /\ pool' = IF s = NULL THEN pool ELSE pool \cup Pooled(sess[s])
    BY DEF SessInv, FreeCursor
  <1>2. /\ \A d \in Cursor : d # c => obj'[d] = obj[d] /\ mc'[d] = mc[d]
        /\ s \in Session \cup {NULL} /\ ~obj'[c].alive
    BY FreeCursorFacts, OthersKept DEF CursorsOK, Obj
  <1>3. obj'[c].session = NULL
    BY FreeCursorFacts DEF Freed
  <1>4. ~KillDangles(mc[c], sess)
    <2> SUFFICES ASSUME mc[c].id, mc[c].cs # NULL
                 PROVE  sess[mc[c].cs].live \/ sess[mc[c].cs].ended
      BY DEF KillDangles
    <2>1. s = mc[c].cs /\ s \in Session
      BY <1>1, <1>2 DEF BoundOK
    <2>2. RecordOK(s) /\ c \in Holders(s)
      BY <1>1, <2>1 DEF RecordsOK, Holders
    <2>3. Cardinality(Holders(s)) # 0
      BY <2>2, HoldersFinite, FS_EmptySet
    <2>4. sess[s].refs # 0
      BY <2>2, <2>3, HoldersFinite DEF RecordOK, One
    <2> QED BY <2>1, <2>2, <2>4 DEF RecordOK
  <1>5. BoundOK'
    BY <1>1, <1>2 DEF BoundOK
  <1>6. RecordsOK' /\ PoolOK'
    <2>1. CASE s = NULL
      <3>1. Kept
        BY <1>2, <1>3, <2>1 DEF Kept
      <3> QED BY <1>1, <2>1, <3>1, SessionsSame
    <2>2. CASE s # NULL
      <3>1. s \in Session /\ LetsGo(c, s)
        BY <1>2, <1>3, <2>2 DEF LetsGo
      <3> QED BY <1>1, <2>2, <3>1, LetsGoInv
    <2> QED BY <2>1, <2>2
  <1> QED BY <1>1, <1>4, <1>5, <1>6 DEF SessInv

-------------------------------------------------------------------------------
(* The steps *)

LEMMA SessionStepSess ==
    ASSUME SessInv, SessionStep
    PROVE  SessInv'
  <1>1. RecordsOK /\ PoolOK /\ obj' = obj /\ mc' = mc /\ dangling' = dangling
    BY DEF SessInv, SessionStep, StartSession, EndSession, UnsetSession
  <1>2. RecordsOK' /\ PoolOK'
    BY <1>1, StartSessionInv, EndSessionInv, UnsetSessionInv DEF SessionStep
  <1> QED BY <1>1, <1>2 DEF SessInv, BoundOK

\* A Cursor that is opened in session s.
LEMMA OpensBound ==
    ASSUME CursorsOK, BoundOK, NEW c \in Cursor, Opens(c), NEW s, obj'[c].session = s,
           mc'[c].cs \in {s, NULL}
    PROVE  BoundOK'
  <1>1. \A d \in Cursor : d # c => obj'[d] = obj[d] /\ mc'[d] = mc[d]
    BY OthersKept DEF Opens, Only
  <1> QED BY <1>1 DEF BoundOK

LEMMA ExecuteSess ==
    ASSUME CursorsOK, SessInv, Execute \/ Query
    PROVE  SessInv'
  <1>1. RecordsOK /\ PoolOK /\ BoundOK /\ ~dangling
    BY DEF SessInv
  <1>2. dangling' = dangling
    BY DEF Execute, Query, ExecuteRejected, ExecuteConflict, CommandFails, CommandSucceeds,
           ExecuteQuery
  <1>3. ASSUME UNCHANGED <<obj, mc, sess, pool, minted>>
        PROVE  SessInv'
    BY <1>1, <1>2, <1>3, SessionsSame DEF SessInv, Kept, BoundOK
  <1>4. CASE ExecuteRejected
    BY <1>3, <1>4 DEF ExecuteRejected
  <1>5. ASSUME NEW unack, NEW s \in Session, ExecuteConflict(s, unack)
        PROVE  SessInv'
    BY <1>3, <1>5 DEF ExecuteConflict
  <1>6. ASSUME NEW unack, NEW z, CommandFails(unack, z)
        PROVE  SessInv'
    <2>1. obj' = obj /\ mc' = mc
      BY <1>6 DEF CommandFails
    <2> QED BY <1>1, <1>2, <1>6, <2>1, CommandFailsInv DEF SessInv, BoundOK
  <1>7. ASSUME NEW unack, NEW z, NEW c \in Cursor, NEW m, CommandSucceeds(c, unack, z, m)
        PROVE  SessInv'
    <2>1. RecordsOK' /\ PoolOK' /\ obj'[c].session = z.s
      BY <1>1, <1>7, CommandSucceedsInv
    <2>2. Opens(c)
      BY <1>7, CommandSucceedsFacts
    <2>3. z.s \in Session \cup {NULL} /\ m \in Replies(z.s) /\ mc' = [mc EXCEPT ![c] = m]
      BY <1>7, ChoiceFacts DEF CommandSucceeds
    <2>4. mc'[c].cs \in {z.s, NULL}
      BY <2>3, RepliesFacts DEF CursorsOK
    <2> QED BY <1>1, <1>2, <2>1, <2>2, <2>4, OpensBound DEF SessInv
  <1>8. CASE Query
    <2>1. PICK c \in Cursor, s \in Session \cup {NULL}, tail \in Tailable, docs \in Docs :
                 ExecuteQuery(c, s, docs, tail)
      BY <1>8 DEF Query, Docs
    <2>2. RecordsOK' /\ PoolOK' /\ (obj' # obj => obj'[c].session = s)
      BY <1>1, <2>1, ExecuteQueryInv
    <2>3. CASE UNCHANGED <<obj, mc>>
      BY <1>1, <1>2, <2>2, <2>3 DEF SessInv, BoundOK
    <2>4. CASE Opens(c) /\ mc'[c].cs = s
      <3>1. obj' # obj
        BY <2>4 DEF Opens
      <3> QED BY <1>1, <1>2, <2>2, <2>4, <3>1, OpensBound DEF SessInv
    <2> QED BY <2>1, <2>3, <2>4, ExecuteQueryFacts
  <1> QED BY <1>4, <1>5, <1>6, <1>7, <1>8 DEF Execute

LEMMA NextUses ==
    ASSUME CursorsOK, NEW c \in Cursor, obj[c].alive, NextCall(c),
           minted' = minted, dangling' = dangling
    PROVE  Uses(c)
  BY NextCallFacts, NextCallSession DEF Uses, Only, Advances

LEMMA RewindUses ==
    ASSUME CursorsOK, NEW c \in Cursor, obj[c].alive, RewindCall(c),
           minted' = minted, dangling' = dangling
    PROVE  Uses(c)
  <1>1. /\ Only(c) /\ obj'[c].alive
        /\ obj[c].advanced => mc'[c] = mc[c]
        /\ ~obj[c].advanced => Advances(mc[c], mc'[c])
    BY RewindCallFacts DEF Only
  <1> QED BY <1>1, RewindCallSession DEF Uses, Advances

LEMMA TypeMapUses ==
    ASSUME CursorsOK, NEW c \in Cursor, NEW t \in Maps, SetTypeMap(c, t)
    PROVE  Uses(c)
  <1>1. UNCHANGED <<mc, sess, pool, minted, dangling>> /\ obj[c].alive
    BY DEF SetTypeMap
  <1> QED BY <1>1, SetTypeMapFacts DEF Uses, Settled

\* The steps of a Cursor, but for its end.
LEMMA IterateCases ==
    ASSUME IterInv, Iterate \/ ToArrayLoop
    PROVE  \/ \E c \in Cursor : Uses(c) \/ FreeCursor(c)
           \/ UNCHANGED <<obj, mc, sess, pool, minted, dangling>>
  <1>1. CursorsOK
    BY DEF IterInv
  <1>2. CASE ToArrayStep
    <2>1. /\ loop.on \in Cursor /\ obj[loop.on].alive /\ NextCall(loop.on)
          /\ minted' = minted /\ dangling' = dangling
      BY <1>2 DEF IterInv, LoopOK, ToArrayStep, Idle
    <2> QED BY <1>1, <2>1, NextUses
  <1>3. CASE ToArrayReturn
    BY <1>3 DEF ToArrayReturn
  <1>4. CASE Iterate
    <2>1. PICK c \in Cursor : \/ CursorNext(c) \/ CursorRewind(c)
                              \/ \E t \in Maps : SetTypeMap(c, t)
                              \/ ToArrayBegin(c) \/ FreeCursor(c)
      BY <1>4 DEF Iterate
    <2>2. CASE CursorNext(c)
      BY <1>1, <2>2, NextUses DEF CursorNext
    <2>3. CASE CursorRewind(c) \/ ToArrayBegin(c)
      BY <1>1, <2>3, RewindUses DEF CursorRewind, ToArrayBegin
    <2> QED BY <1>1, <2>1, <2>2, <2>3, TypeMapUses
  <1> QED BY <1>2, <1>3, <1>4 DEF ToArrayLoop

LEMMA NextSess ==
    ASSUME IterInv, SessInv, [Next]_vars
    PROVE  SessInv'
  <1>1. CursorsOK
    BY DEF IterInv
  <1>2. CASE UNCHANGED <<obj, mc, sess, pool, minted, dangling>>
    BY <1>2, SessionsSame DEF SessInv, Kept, BoundOK
  <1>3. CASE Iterate \/ ToArrayLoop
    BY <1>1, <1>2, <1>3, IterateCases, UsesInv, FreeCursorInv
  <1>4. CASE UNCHANGED vars
    BY <1>2, <1>4 DEF vars
  <1> QED BY <1>1, <1>3, <1>4, SessionStepSess, ExecuteSess DEF Next

LEMMA InitSess ==
    ASSUME Init
    PROVE  SessInv
  <1>1. /\ obj = [c \in Cursor |-> Freed] /\ mc = [c \in Cursor |-> NoMongocCursor]
        /\ sess = [s \in Session |-> NoSession] /\ pool = {} /\ minted = {} /\ dangling = FALSE
    BY DEF Init
  <1>2. ASSUME NEW s \in Session
        PROVE  RecordOK(s)
    <2>1. Freed.session = NULL /\ s # NULL
      BY NullAssumption DEF Freed
    <2>2. Holders(s) = {}
      BY <1>1, <2>1 DEF Holders
    <2> QED BY <1>1, <2>2, NoSessionFacts, FS_EmptySet DEF RecordOK, One
  <1>3. RecordsOK
    BY <1>1, <1>2, NoSessionFacts DEF RecordsOK
  <1>4. LiveSessions = {}
    BY <1>1, NoSessionFacts DEF LiveSessions
  <1>5. PoolOK
    BY <1>1, <1>4, NoSessionFacts DEF PoolOK
  <1>6. BoundOK
    BY <1>1 DEF BoundOK, NoMongocCursor
  <1> QED BY <1>1, <1>3, <1>5, <1>6 DEF SessInv

\* Session objects, the pool and the Cursors that hold sessions agree.
THEOREM SessionInvariant == Spec => []SessInv
  <1>1. Init => SessInv
    BY InitSess
  <1>2. IterInv /\ SessInv /\ [Next]_vars => SessInv'
    BY NextSess
  <1> QED BY <1>1, <1>2, Invariant, PTL DEF Spec

\* The reference counts of phongo_execute_command, phongo_cursor_init and
\* php_phongo_cursor_free_object come out even, and no LSID is lost or shared.
THEOREM SessionsAreAccounted == Spec => []SessionsAccounted
  <1>1. SessInv => SessionsAccounted
    BY DEF SessInv, RecordsOK, RecordOK, PoolOK, LiveSessions, SessionsAccounted, One
  <1> QED BY <1>1, SessionInvariant, PTL

\* No session goes back to the pool, and none is destroyed, under a Cursor that
\* still has results on the server.
THEOREM SessionsOutliveCursors == Spec => []SessionOutlivesCursor
  <1>1. ASSUME SessInv, CursorsOK, NEW c \in Cursor, obj[c].alive, mc[c].id, mc[c].cs # NULL
        PROVE  /\ obj[c].session = mc[c].cs
               /\ sess[mc[c].cs].live \/ sess[mc[c].cs].ended
    <2> DEFINE s == mc[c].cs
    <2>1. obj[c].session = s /\ s \in Session
      BY <1>1 DEF SessInv, BoundOK, CursorsOK, Mc
    <2>2. RecordOK(s) /\ c \in Holders(s)
      BY <1>1, <2>1 DEF SessInv, RecordsOK, Holders
    <2>3. sess[s].refs # 0
      BY <2>2, HoldersFinite, FS_EmptySet DEF RecordOK, One
    <2> QED BY <2>1, <2>2, <2>3 DEF RecordOK
  <1>2. SessInv /\ IterInv => SessionOutlivesCursor
    BY <1>1 DEF SessInv, IterInv, SessionOutlivesCursor
  <1> QED BY <1>2, SessionInvariant, Invariant, PTL

\* phongo_execute_command never sends an unacknowledged write in a session.
THEOREM NoUnacknowledgedSessions == Spec => []NoUnacknowledgedSession
  <1>1. Init => NoUnacknowledgedSession
    BY DEF Init, NoUnacknowledgedSession, NoCommand
  <1>2. ASSUME NoUnacknowledgedSession, [Next]_vars
        PROVE  NoUnacknowledgedSession'
    <2>1. ASSUME sent' \in {sent, NoCommand}
          PROVE  NoUnacknowledgedSession'
      BY <1>2, <2>1 DEF NoUnacknowledgedSession, NoCommand
    <2>2. ASSUME NEW unack, NEW z, z \in Choices(unack),
                 sent' = [lsid |-> z.lsid, unack |-> unack]
          PROVE  NoUnacknowledgedSession'
      BY <2>2, ChoiceCases DEF NoUnacknowledgedSession
    <2>3. CASE Execute
      BY <2>1, <2>2, <2>3 DEF Execute, ExecuteRejected, ExecuteConflict, CommandFails,
                              CommandSucceeds
    <2>4. CASE Query
      BY <2>4 DEF Query, ExecuteQuery, NoUnacknowledgedSession
    <2>5. CASE SessionStep
      BY <2>1, <2>5 DEF SessionStep, StartSession, EndSession, UnsetSession
    <2>6. CASE Iterate
      BY <2>1, <2>6 DEF Iterate, CursorNext, CursorRewind, SetTypeMap, ToArrayBegin, FreeCursor
    <2>7. CASE ToArrayLoop
      BY <2>1, <2>7 DEF ToArrayLoop, ToArrayStep, ToArrayReturn
    <2>8. CASE UNCHANGED vars
      BY <2>1, <2>8 DEF vars
    <2> QED BY <1>2, <2>3, <2>4, <2>5, <2>6, <2>7, <2>8 DEF Next
  <1> QED BY <1>1, <1>2, PTL DEF Spec

\* php_phongo_cursor_free_session_if_exhausted: the call that learns that the
\* server cursor is closed lets go of the session.
THEOREM SessionsAreReleased == Spec => ReleasedAtExhaustion
  <1> DEFINE Released(c) == /\ obj[c].alive /\ obj'[c].alive
                            /\ mc'[c] # mc[c] /\ ~mc'[c].id
                            /\ thrown' = "none"
                            => obj'[c].session = NULL
  <1>1. ASSUME IterInv, [Next]_vars
        PROVE  \A c \in Cursor : Released(c)
    <2>1. CursorsOK
      BY <1>1 DEF IterInv
    <2>2. CASE UNCHANGED <<obj, mc>>
      BY <2>2
    <2>3. ASSUME NEW d \in Cursor, Opens(d)
          PROVE  \A c \in Cursor : Released(c)
      BY <2>1, <2>3, OthersKept DEF Opens, Only
    <2>4. ASSUME NEW d \in Cursor, Uses(d)
          PROVE  \A c \in Cursor : Released(c)
      BY <2>1, <2>4, OthersKept DEF Uses
    <2>5. ASSUME NEW d \in Cursor, FreeCursor(d)
          PROVE  \A c \in Cursor : Released(c)
      BY <2>1, <2>5, OthersKept, FreeCursorFacts
    <2>6. CASE UNCHANGED vars
      BY <2>2, <2>6 DEF vars
    <2> QED BY <1>1, <2>2, <2>3, <2>4, <2>5, <2>6, IterateCases, SessionStepInv, ExecuteInv DEF Next
  <1>2. IterInv /\ [Next]_vars => [\A c \in Cursor : Released(c)]_vars
    BY <1>1
  <1> QED BY <1>2, Invariant, PTL DEF Spec, ReleasedAtExhaustion

-------------------------------------------------------------------------------
(* Types *)

\* The parts of the type invariant that no other invariant implies.
Counted == \A c \in Cursor : obj[c].current <= MaxIndex + MaxDocs
Flags == /\ inherited \in BOOLEAN /\ dangling \in BOOLEAN /\ thrown \in Exceptions
         /\ sent \in [lsid : Lsid \cup {NULL}, unack : BOOLEAN]

LEMMA CountedInv ==
    ASSUME IterInv, Counted, [Next]_vars
    PROVE  Counted'
  <1>1. CursorsOK
    BY DEF IterInv
  <1>2. MaxIndex \in Nat /\ MaxDocs \in Nat
    BY BoundsAssumption
  <1>3. CASE UNCHANGED <<obj, mc>>
    BY <1>3 DEF Counted
  <1>4. ASSUME NEW c \in Cursor, Only(c), obj'[c].current <= MaxIndex + MaxDocs
        PROVE  Counted'
    BY <1>1, <1>4, OthersKept DEF Counted
  <1>5. ASSUME NEW c \in Cursor, Opens(c)
        PROVE  Counted'
    BY <1>2, <1>4, <1>5 DEF Opens, Only
  <1>6. ASSUME NEW c \in Cursor, obj[c].alive, NextCall(c),
               obj[c].current < MaxIndex \/ obj[c].current + 1 <= MaxDocs
        PROVE  Counted'
    <2>1. obj[c].current \in Nat
      BY <1>1 DEF CursorsOK, Obj
    <2>2. /\ Only(c)
          /\ obj'[c].current = (IF obj[c].advanced THEN obj[c].current + 1 ELSE obj[c].current)
      BY <1>1, <1>6, NextCallFacts DEF Only
    <2>3. obj'[c].current <= MaxIndex + MaxDocs
      BY <1>2, <1>6, <2>1, <2>2
    <2> QED BY <1>4, <2>2, <2>3
  <1>7. CASE ToArrayStep
    <2> DEFINE c == loop.on
    <2>1. /\ c \in Cursor /\ obj[c].alive /\ NextCall(c) /\ obj[c].current + 1 = mc[c].taken
      BY <1>7 DEF IterInv, LoopOK, ToArrayStep, Idle
    <2>2. McOK(mc[c])
      BY <1>1, <2>1 DEF CursorsOK, CursorOK
    <2>3. mc[c].taken <= MaxDocs
      BY <1>2, <2>2, DocsFacts DEF McOK, Mc
    <2> QED BY <1>6, <2>1, <2>3
  <1>8. CASE ToArrayReturn
    BY <1>3, <1>8 DEF ToArrayReturn
  <1>9. CASE Iterate
    <2>1. PICK c \in Cursor : \/ CursorNext(c) \/ CursorRewind(c)
                              \/ \E t \in Maps : SetTypeMap(c, t)
                              \/ ToArrayBegin(c) \/ FreeCursor(c)
      BY <1>9 DEF Iterate
    <2>2. CASE CursorNext(c)
      BY <1>6, <2>2 DEF CursorNext
    <2>3. CASE CursorRewind(c) \/ ToArrayBegin(c)
      <3>1. Only(c) /\ obj'[c].current = obj[c].current
        BY <1>1, <2>3, RewindCallFacts DEF CursorRewind, ToArrayBegin, Only
      <3> QED BY <1>4, <3>1 DEF Counted
    <2>4. ASSUME NEW t \in Maps, SetTypeMap(c, t)
          PROVE  Counted'
      <3>1. Only(c) /\ obj'[c].current = obj[c].current
        BY <1>1, <2>4, SetTypeMapFacts
      <3> QED BY <1>4, <3>1 DEF Counted
    <2>5. CASE FreeCursor(c)
      <3>1. Only(c) /\ obj'[c].current = 0
        BY <1>1, <2>5, FreeCursorFacts DEF Freed
      <3> QED BY <1>2, <1>4, <3>1
    <2> QED BY <2>1, <2>2, <2>3, <2>4, <2>5
  <1>10. CASE UNCHANGED vars
    BY <1>3, <1>10 DEF vars
  <1> QED BY <1>3, <1>5, <1>7, <1>8, <1>9, <1>10, SessionStepInv, ExecuteInv DEF Next, ToArrayLoop

LEMMA ThrownFacts ==
    ASSUME NEW o, NEW m
    PROVE  DecodeThrows(o, m) \subseteq Exceptions
  BY DEF DecodeThrows, Exceptions

LEMMA FlagsInv ==
    ASSUME IterInv, SessInv, Flags, [Next]_vars
    PROVE  Flags'
  <1> DEFINE Sent == [lsid : Lsid \cup {NULL}, unack : BOOLEAN]
  <1>1. ASSUME NEW c, NextCall(c) \/ RewindCall(c)
        PROVE  thrown' \in Exceptions
    BY <1>1, ThrownFacts DEF NextCall, RewindCall, Exceptions
  <1>2. NoCommand \in Sent /\ {"none", "invalid", "logic", "server"} \subseteq Exceptions
    BY DEF NoCommand, Exceptions
  <1>3. /\ inherited \in BOOLEAN /\ dangling \in BOOLEAN /\ thrown \in Exceptions /\ sent \in Sent
    BY DEF Flags
  <1> HIDE DEF Sent
  <1>4. CASE UNCHANGED vars
    BY <1>3, <1>4 DEF vars, Flags, Sent
  <1>5. CASE SessionStep
    BY <1>2, <1>3, <1>5 DEF SessionStep, StartSession, EndSession, UnsetSession, Flags, Sent
  <1>6. CASE ToArrayLoop
    <2>1. inherited' = inherited /\ dangling' = dangling /\ sent' = NoCommand
      BY <1>6 DEF ToArrayLoop, ToArrayStep, ToArrayReturn
    <2>2. thrown' \in Exceptions
      BY <1>1, <1>3, <1>6 DEF ToArrayLoop, ToArrayStep, ToArrayReturn
    <2> QED BY <1>2, <1>3, <2>1, <2>2 DEF Flags, Sent
  <1>7. CASE Iterate
    <2>1. inherited' = inherited /\ sent' = NoCommand
      BY <1>7 DEF Iterate, CursorNext, CursorRewind, SetTypeMap, ToArrayBegin, FreeCursor
    <2>2. dangling' \in BOOLEAN
      BY <1>3, <1>7 DEF Iterate, CursorNext, CursorRewind, SetTypeMap, ToArrayBegin, FreeCursor
    <2>3. ASSUME NEW c, NEW t, SetTypeMap(c, t)
          PROVE  thrown' \in Exceptions
      BY <1>2, <2>3, ThrownFacts DEF SetTypeMap
    <2>4. thrown' \in Exceptions
      BY <1>1, <1>2, <1>7, <2>3 DEF Iterate, CursorNext, CursorRewind, ToArrayBegin, FreeCursor
    <2> QED BY <1>2, <1>3, <2>1, <2>2, <2>4 DEF Flags, Sent
  <1>8. CASE Execute \/ Query
    <2>1. /\ inherited' = inherited /\ dangling' = dangling
          /\ thrown' \in {"none", "invalid", "logic", "server"}
      BY <1>8 DEF Execute, Query, ExecuteRejected, ExecuteConflict, CommandFails,
                  CommandSucceeds, ExecuteQuery
    <2>2. sess \in [Session -> SRec] /\ Available \subseteq Lsid
      BY AvailableFacts DEF SessInv, RecordsOK
    <2>3. ASSUME NEW unack \in Requests, NEW z \in Choices(unack),
                 sent' = [lsid |-> z.lsid, unack |-> unack]
          PROVE  sent' \in Sent
      <3>1. unack \in BOOLEAN
        <4>1. PICK type \in Types, wc \in WriteConcerns : unack = Unacknowledged(type, wc)
          BY DEF Requests
        <4>2. Unacknowledged(type, wc) \in BOOLEAN
          BY Zenon DEF Unacknowledged
        <4> QED BY <4>1, <4>2
      <3>2. z.lsid \in Lsid \cup {NULL}
        BY <2>2, ChoiceCases DEF Explicit, Sessionless, Implicit, SRec
      <3> QED BY <2>3, <3>1, <3>2 DEF Sent
    <2>4. CASE Query
      <3>1. PICK s \in Session \cup {NULL} :
                   sent' = [lsid |-> IF s = NULL THEN NULL ELSE sess[s].lsid, unack |-> FALSE]
        BY <2>4 DEF Query, ExecuteQuery
      <3>2. s # NULL => sess[s].lsid \in Lsid \cup {NULL}
        BY <2>2 DEF SRec
      <3> QED BY <1>2, <1>3, <2>1, <3>1, <3>2 DEF Flags, Sent
    <2>5. CASE Execute
      <3>1. sent' \in Sent
        BY <1>2, <2>3, <2>5 DEF Execute, ExecuteRejected, ExecuteConflict, CommandFails,
                                CommandSucceeds
      <3> QED BY <1>2, <1>3, <2>1, <3>1 DEF Flags, Sent
    <2> QED BY <1>8, <2>4, <2>5
  <1> QED BY <1>4, <1>5, <1>6, <1>7, <1>8 DEF Next

LEMMA TypesFollow ==
    ASSUME IterInv, SessInv, Counted, Flags
    PROVE  TypeOK
  <1>1. /\ CursorsOK /\ LoopOK /\ RecordsOK /\ PoolOK /\ MaxDocs \in Nat /\ MaxIndex \in Nat
    BY BoundsAssumption DEF IterInv, SessInv
  <1>2. mc \in [Cursor -> MongocCursor] /\ \A c \in Cursor : mc[c].current <= MaxDocs
    <2>1. ASSUME NEW c \in Cursor
          PROVE  mc[c] \in MongocCursor /\ mc[c].current <= MaxDocs
      <3>1. mc[c] \in Mc /\ Len(mc[c].docs) \in 0..MaxDocs
        BY <1>1, DocsFacts DEF CursorsOK, Mc
      <3>2. mc[c].taken + mc[c].batch <= Len(mc[c].docs) /\ mc[c].current \in {0, mc[c].taken}
        <4>1. CASE obj[c].alive
          BY <1>1, <4>1 DEF CursorsOK, CursorOK, McOK
        <4>2. CASE ~obj[c].alive
          BY <1>1, <4>2 DEF CursorsOK, NoMongocCursor
        <4> QED BY <4>1, <4>2
      <3>3. /\ mc[c].taken \in 0..MaxDocs /\ mc[c].batch \in 0..MaxDocs
            /\ mc[c].current \in 0..MaxDocs
        BY <1>1, <3>1, <3>2 DEF Mc
      <3> QED BY <3>1, <3>3 DEF Mc, MongocCursor, Docs
    <2> QED BY <1>1, <2>1 DEF CursorsOK
  <1>3. obj \in [Cursor -> CursorRec]
    <2>1. ASSUME NEW c \in Cursor
          PROVE  obj[c] \in CursorRec
      <3>1. obj[c] \in Obj /\ obj[c].current \in 0..(MaxIndex + MaxDocs + 1)
        BY <1>1 DEF CursorsOK, Obj, Counted
      <3>2. obj[c].zchild.doc <= MaxDocs
        <4>1. CASE obj[c].alive
          BY <1>1, <1>2, <4>1 DEF CursorsOK, CursorOK
        <4>2. CASE ~obj[c].alive
          BY <1>1, <4>2 DEF CursorsOK, Freed, Nothing
        <4> QED BY <4>1, <4>2
      <3>3. obj[c].zchild \in Shown
        BY <1>1, <3>1, <3>2 DEF Obj, Shown
      <3> QED BY <3>1, <3>3 DEF Obj, CursorRec
    <2> QED BY <1>1, <2>1 DEF CursorsOK
  <1>4. sess \in [Session -> SessionRec]
    <2>1. ASSUME NEW s \in Session
          PROVE  sess[s] \in SessionRec
      <3>1. sess[s] \in SRec /\ RecordOK(s)
        BY <1>1 DEF RecordsOK
      <3>2. sess[s].refs \in 0..(Cardinality(Cursor) + 2)
        BY <3>1, HoldersFinite DEF RecordOK, One, SRec
      <3> QED BY <3>1, <3>2 DEF SRec, SessionRec
    <2> QED BY <1>1, <2>1 DEF RecordsOK
  <1>5. pool \subseteq Lsid /\ minted \subseteq Lsid
    BY <1>1 DEF PoolOK, LiveSessions
  <1> QED BY <1>1, <1>2, <1>3, <1>4, <1>5 DEF TypeOK, LoopOK, Flags

\* Every variable keeps its type and the bounds on what it counts.
THEOREM TypeCorrect == Spec => []TypeOK
  <1>1. Init => Counted /\ Flags
    <2>1. ASSUME Init
          PROVE  Counted
      BY <2>1, BoundsAssumption DEF Init, Counted, Freed
    <2>2. ASSUME Init
          PROVE  Flags
      BY <2>2 DEF Init, Flags, NoCommand, Exceptions
    <2> QED BY <2>1, <2>2
  <1>2. IterInv /\ SessInv /\ (Counted /\ Flags) /\ [Next]_vars => (Counted /\ Flags)'
    BY CountedInv, FlagsInv
  <1>3. IterInv /\ SessInv /\ (Counted /\ Flags) => TypeOK
    BY TypesFollow
  <1> QED BY <1>1, <1>2, <1>3, Invariant, SessionInvariant, PTL DEF Spec

================================================================================
