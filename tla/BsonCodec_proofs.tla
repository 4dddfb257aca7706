---------------------------- MODULE BsonCodec_proofs ----------------------------
(***************************************************************************)
(* Proofs about BsonCodec: the field path of the decoder names the place    *)
(* that is visited and is owned by the states of the open documents, and    *)
(* the encoder takes back every mark and every level that it has made.      *)
(***************************************************************************)
EXTENDS BsonCodec, SequenceTheorems, WellFoundedInduction, TLAPS

-------------------------------------------------------------------------------
(* The invariant *)

\* A path has a key allocated for each of its levels.
PathOK(p) == p \in Path /\ p.size <= Len(p.elements)

\* The levels of a path that lead to a document are set, and those above the
\* field visited last are not.
Exact(p) ==
    /\ \A i \in 1..p.size : p.elements[i] \in Key
    /\ \A i \in 1..Len(p.elements) : i > p.size + 1 => p.elements[i] = NULL

\* Elements that others have written, and those that the encoder writes.
Kinds == {(WrittenAs @@ ObjectWrittenAs)[t] : t \in Leaves}
            \cup {"binary", "array", "document", "oid", NULL}
Encoded == [op: {"scalar", "open", "close"}, key: Key \cup {NULL}, kind: Kinds,
            class: Persistable \cup {NULL}]
Named(e) == e.key \in IF e.op \in {"close", "corrupt"} THEN {NULL} ELSE Key
Element == {e \in Elements \cup Encoded : Named(e)}

IsSequence(s) == s \in Seq(Range(s))

\* keys are the keys around each of the first n elements of s.
Traces(keys, s, n) ==
    /\ keys \in [0..n -> Seq(Key)]
    /\ keys[0] = <<>>
    /\ \A i \in 1..n : keys[i] = After(keys[i - 1], s[i])

Visiting ==
    /\ states # <<>>
    /\ PathOK(path) /\ Exact(path)
    /\ path.size = Len(states) - 1
    /\ \E keys : Traces(keys, source, pos) /\ keys[pos] = Parents(path)

DecodeInv ==
    /\ source \in Seq(Element) /\ pos \in 0..Len(source)
    /\ IsSequence(states) /\ refs = Len(states)
    /\ IF decoding = "visiting" THEN Visiting ELSE states = <<>> /\ path = NULL
    /\ thrown = "unsupported" =>
         /\ decoding = "failed" /\ pos > 0
         /\ \E keys : Traces(keys, source, pos) /\ message = Append(keys[pos], source[pos].key)

FrameRec == [node: Node, at: Nat, addId: BOOLEAN, skipOdm: BOOLEAN]

\* Every call but the outermost has marked its own node and gone down a level.
Running ==
    /\ graph \in Graph
    /\ frames # <<>>
    /\ epath.size = Len(frames) - 1
    /\ protected = {frames[i].node : i \in 2..Len(frames)}
    /\ \A i, j \in 2..Len(frames) : frames[i].node = frames[j].node => i = j

EncodeInv ==
    /\ bson \in Seq(Element)
    /\ frames \in Seq(FrameRec)
    /\ PathOK(epath)
    /\ IF encoding = "running" THEN Running ELSE protected = {} /\ epath.size = 0

CodecInv == DecodeInv /\ EncodeInv

-------------------------------------------------------------------------------
(* The path builder *)

\* Allocating for the level of the next field keeps what is there.
LEMMA EnsureFacts ==
    ASSUME NEW p, PathOK(p)
    PROVE  LET q == EnsureAllocation(p, p.size)
           IN /\ q \in Path /\ q.size = p.size /\ p.size < Len(q.elements)
              /\ \A i \in 1..p.size : q.elements[i] = p.elements[i]
              /\ \A i \in 1..Len(q.elements) : i > p.size =>
                   q.elements[i] = NULL \/ (i <= Len(p.elements) /\ q.elements[i] = p.elements[i])
  <1> DEFINE q == EnsureAllocation(p, p.size)
             n == p.size + Expansion
             more == [i \in 1..n |-> IF i <= p.size THEN p.elements[i] ELSE NULL]
  <1>1. p.elements \in Seq(Key \cup {NULL}) /\ p.size \in Nat /\ Len(p.elements) \in Nat
    BY DEF PathOK, Path
  <1>2. CASE p.size < Len(p.elements)
    BY <1>1, <1>2 DEF EnsureAllocation, PathOK
  <1>3. CASE ~(p.size < Len(p.elements))
    <2>1. q = [p EXCEPT !.elements = more]
      BY <1>3 DEF EnsureAllocation
    <2>2. n \in Nat /\ p.size < n
      BY <1>1, ExpansionAssumption
    <2>3. \A i \in 1..p.size : p.elements[i] \in Key \cup {NULL}
      BY <1>1, ElementOfSeq DEF PathOK
    <2>4. more \in [1..n -> Key \cup {NULL}]
      BY <1>1, <2>3
    <2>5. more \in Seq(Key \cup {NULL}) /\ Len(more) = n
      BY <2>2, <2>4, SeqDef, LenProperties
    <2>6. q \in Path /\ q.size = p.size /\ q.elements = more
      BY <2>1, <2>5 DEF PathOK, Path
    <2>7. \A i \in 1..n : more[i] = IF i <= p.size THEN p.elements[i] ELSE NULL
      OBVIOUS
    <2> HIDE DEF more, n, q
    <2>8. /\ \A i \in 1..p.size : q.elements[i] = p.elements[i]
          /\ \A i \in 1..Len(q.elements) : i > p.size => q.elements[i] = NULL
      BY <1>1, <2>2, <2>5, <2>6, <2>7
    <2>9. q \in Path /\ q.size = p.size /\ p.size < Len(q.elements)
      BY <2>2, <2>5, <2>6
    <2> QED BY <2>8, <2>9 DEF q
  <1> QED BY <1>2, <1>3

\* A key that is written is the one above the levels of the path.
LEMMA WriteItemFacts ==
    ASSUME NEW p, PathOK(p), NEW k \in Key
    PROVE  LET q == WriteItem(p, k)
           IN /\ PathOK(q) /\ q.size = p.size /\ p.size < Len(q.elements)
              /\ q.elements[p.size + 1] = k
              /\ \A i \in 1..p.size : q.elements[i] = p.elements[i]
              /\ Exact(p) => Exact(q)
  <1> DEFINE r == EnsureAllocation(p, p.size)
             q == WriteItem(p, k)
  <1>1. /\ r \in Path /\ r.size = p.size /\ p.size < Len(r.elements)
        /\ \A i \in 1..p.size : r.elements[i] = p.elements[i]
        /\ \A i \in 1..Len(r.elements) : i > p.size =>
             r.elements[i] = NULL \/ (i <= Len(p.elements) /\ r.elements[i] = p.elements[i])
    BY EnsureFacts
  <1>2. p.size \in Nat /\ r.elements \in Seq(Key \cup {NULL}) /\ Len(r.elements) \in Nat
    BY <1>1 DEF PathOK, Path
  <1> HIDE DEF r
  <1>3. q = [r EXCEPT !.elements = [r.elements EXCEPT ![p.size + 1] = k]]
    BY <1>1 DEF WriteItem, r, Path
  <1>4. q \in Path /\ q.size = p.size /\ q.elements = [r.elements EXCEPT ![p.size + 1] = k]
        /\ Len(q.elements) = Len(r.elements)
    BY <1>1, <1>2, <1>3, ExceptSeq DEF Path
  <1>5. \A i \in 1..Len(r.elements) :
          q.elements[i] = IF i = p.size + 1 THEN k ELSE r.elements[i]
    BY <1>1, <1>2, <1>4, ExceptSeq
  <1>6. /\ PathOK(q) /\ q.size = p.size /\ p.size < Len(q.elements)
        /\ q.elements[p.size + 1] = k
        /\ \A i \in 1..p.size : q.elements[i] = p.elements[i]
    BY <1>1, <1>2, <1>4, <1>5 DEF PathOK
  <1>7. ASSUME Exact(p)
        PROVE  Exact(q)
    BY <1>1, <1>2, <1>4, <1>5, <1>6, <1>7 DEF Exact
  <1> QED BY <1>6, <1>7

\* Going down a level adds its key.
LEMMA PushFacts ==
    ASSUME NEW p, PathOK(p), NEW k \in Key
    PROVE  LET q == Push(p, k)
           IN /\ PathOK(q) /\ q.size = p.size + 1
              /\ Exact(p) => Exact(q) /\ Parents(q) = Append(Parents(p), k)
  <1> DEFINE r == WriteItem(p, k)
             q == Push(p, k)
  <1>1. /\ PathOK(r) /\ r.size = p.size /\ p.size < Len(r.elements)
        /\ r.elements[p.size + 1] = k
        /\ \A i \in 1..p.size : r.elements[i] = p.elements[i]
        /\ Exact(p) => Exact(r)
    BY WriteItemFacts
  <1> HIDE DEF r
  <1>2. q = [r EXCEPT !.size = p.size + 1]
    BY DEF Push, r
  <1>3. p.size \in Nat /\ p.size <= Len(p.elements) /\ p.elements \in Seq(Key \cup {NULL})
        /\ r.elements \in Seq(Key \cup {NULL}) /\ Len(r.elements) \in Nat /\ Len(p.elements) \in Nat
    BY <1>1 DEF PathOK, Path
  <1>4. PathOK(q) /\ q.size = p.size + 1 /\ q.elements = r.elements
    <2>1. r \in Path /\ p.size + 1 \in Nat
      BY <1>1, <1>3 DEF PathOK
    <2>2. q \in Path /\ q.size = p.size + 1 /\ q.elements = r.elements
      BY <1>2, <2>1 DEF Path
    <2> QED BY <1>1, <1>3, <2>2 DEF PathOK
  <1>5. ASSUME Exact(p)
        PROVE  Exact(q)
    BY <1>1, <1>3, <1>4, <1>5 DEF Exact
  <1>6. Parents(q) = Append(Parents(p), k)
    <2>1. Parents(p) \in Seq(Key \cup {NULL}) /\ Len(Parents(p)) = p.size
          /\ \A i \in 1..p.size : Parents(p)[i] = p.elements[i]
      BY <1>3, SubSeqProperties DEF Parents
    <2>2. Parents(q) \in Seq(Key \cup {NULL}) /\ Len(Parents(q)) = p.size + 1
          /\ \A i \in 1..(p.size + 1) : Parents(q)[i] = r.elements[i]
      BY <1>1, <1>3, <1>4, SubSeqProperties DEF Parents
    <2>3. Append(Parents(p), k) \in Seq(Key \cup {NULL}) /\ Len(Append(Parents(p), k)) = p.size + 1
          /\ \A i \in 1..p.size : Append(Parents(p), k)[i] = p.elements[i]
          /\ Append(Parents(p), k)[p.size + 1] = k
      BY <2>1, AppendProperties
    <2>4. \A i \in 1..(p.size + 1) : Parents(q)[i] = Append(Parents(p), k)[i]
      BY <1>1, <1>3, <2>2, <2>3
    <2> QED BY <2>2, <2>3, <2>4, SeqEqual
  <1> QED BY <1>4, <1>5, <1>6

\* Coming back up takes the key away and leaves nothing above it.
LEMMA PopFacts ==
    ASSUME NEW p, PathOK(p), Exact(p), p.size > 0
    PROVE  LET q == Pop(p)
           IN /\ PathOK(q) /\ Exact(q) /\ q.size = p.size - 1
              /\ Parents(p) # <<>> /\ Parents(q) = Front(Parents(p))
  <1> DEFINE r == EnsureAllocation(p, p.size)
             q == Pop(p)
             n == Len(r.elements)
             keys == [[r.elements EXCEPT ![p.size + 1] = NULL] EXCEPT ![p.size] = NULL]
  <1>1. /\ r \in Path /\ r.size = p.size /\ p.size < Len(r.elements)
        /\ \A i \in 1..p.size : r.elements[i] = p.elements[i]
        /\ \A i \in 1..Len(r.elements) : i > p.size =>
             r.elements[i] = NULL \/ (i <= Len(p.elements) /\ r.elements[i] = p.elements[i])
    BY EnsureFacts
  <1>2. p.size \in Nat /\ p.size <= Len(p.elements) /\ r.elements \in Seq(Key \cup {NULL})
        /\ n \in Nat /\ p.elements \in Seq(Key \cup {NULL}) /\ Len(p.elements) \in Nat
    BY <1>1 DEF PathOK, Path
  <1> HIDE DEF r
  <1>3. q = [r EXCEPT !.elements = keys, !.size = p.size - 1]
    BY <1>1 DEF Pop, r, Path
  <1>4. keys \in Seq(Key \cup {NULL}) /\ Len(keys) = n
        /\ \A i \in 1..n : keys[i] = IF i \in {p.size, p.size + 1} THEN NULL ELSE r.elements[i]
    <2> DEFINE one == [r.elements EXCEPT ![p.size + 1] = NULL]
    <2>1. one \in Seq(Key \cup {NULL}) /\ Len(one) = n
          /\ \A i \in 1..n : one[i] = IF i = p.size + 1 THEN NULL ELSE r.elements[i]
      BY <1>1, <1>2, ExceptSeq
    <2> HIDE DEF one
    <2>2. [one EXCEPT ![p.size] = NULL] \in Seq(Key \cup {NULL})
          /\ Len([one EXCEPT ![p.size] = NULL]) = n
          /\ \A i \in 1..n : [one EXCEPT ![p.size] = NULL][i] = IF i = p.size THEN NULL ELSE one[i]
      BY <1>1, <1>2, <2>1, ExceptSeq
    <2>3. keys = [one EXCEPT ![p.size] = NULL]
      BY DEF one
    <2> HIDE DEF keys, n
    <2> QED BY <1>2, <2>1, <2>2, <2>3
  <1> HIDE DEF keys
  <1>5. q \in Path /\ q.elements = keys /\ q.size = p.size - 1
    <2>1. p.size - 1 \in Nat
      BY <1>2
    <2> HIDE DEF q
    <2> QED BY <1>1, <1>3, <1>4, <2>1 DEF Path
  <1> HIDE DEF q
  <1>6. PathOK(q)
    BY <1>1, <1>2, <1>4, <1>5 DEF PathOK
  <1>7. Exact(q)
    <2>1. ASSUME NEW i \in 1..(p.size - 1)
          PROVE  keys[i] \in Key
      <3>1. i \in 1..n /\ i \in 1..p.size /\ i \notin {p.size, p.size + 1}
        BY <1>1, <1>2
      <3> QED BY <1>1, <1>4, <3>1 DEF Exact
    <2>2. ASSUME NEW i \in 1..n, i > p.size
          PROVE  keys[i] = NULL
      <3>1. CASE i = p.size + 1
        BY <1>4, <3>1
      <3>2. CASE i # p.size + 1
        <4>1. keys[i] = r.elements[i] /\ i > p.size + 1
          BY <1>2, <1>4, <2>2, <3>2
        <4>2. i <= Len(p.elements) => i \in 1..Len(p.elements)
          BY <1>2
        <4> QED BY <1>1, <2>2, <4>1, <4>2 DEF Exact
      <3> QED BY <3>1, <3>2
    <2>3. q.size + 1 = p.size
      BY <1>2, <1>5
    <2> QED BY <1>4, <1>5, <2>1, <2>2, <2>3 DEF Exact
  <1>8. Parents(p) # <<>> /\ Parents(q) = Front(Parents(p))
    <2>1. Parents(p) \in Seq(Key \cup {NULL}) /\ Len(Parents(p)) = p.size
          /\ \A i \in 1..p.size : Parents(p)[i] = p.elements[i]
      BY <1>2, SubSeqProperties DEF Parents
    <2>2. Front(Parents(p)) \in Seq(Key \cup {NULL}) /\ Len(Front(Parents(p))) = p.size - 1
          /\ \A i \in 1..(p.size - 1) : Front(Parents(p))[i] = p.elements[i]
      BY <1>2, <2>1, SubSeqProperties DEF Front
    <2>3. Parents(q) \in Seq(Key \cup {NULL}) /\ Len(Parents(q)) = p.size - 1
          /\ \A i \in 1..(p.size - 1) : Parents(q)[i] = keys[i]
      BY <1>1, <1>2, <1>4, <1>5, SubSeqProperties DEF Parents
    <2>4. \A i \in 1..(p.size - 1) : Parents(q)[i] = Front(Parents(p))[i]
      <3>1. \A i \in 1..(p.size - 1) : /\ i \in 1..n /\ i # p.size /\ i # p.size + 1
                                       /\ i \in 1..p.size
        BY <1>1, <1>2
      <3> QED BY ONLY <1>1, <1>4, <2>2, <2>3, <3>1
    <2>5. Parents(q) = Front(Parents(p))
      BY <2>2, <2>3, <2>4, SeqEqual
    <2> QED BY <1>2, <2>1, <2>5
  <1> QED BY <1>5, <1>6, <1>7, <1>8 DEF q

-------------------------------------------------------------------------------
(* Functions defined by recursion over the levels or the elements *)

LEMMA LeastNumber ==
    ASSUME NEW T \in SUBSET Nat, T # {}
    PROVE  \E n \in T : \A m \in T : n <= m
  <1>1. PICK x \in T : \A y \in T : ~(<<y, x>> \in OpToRel(<, Nat))
    BY WFMin, NatLessThanWellFounded
  <1>2. \A y \in T : ~(y < x)
    BY <1>1 DEF OpToRel
  <1> QED BY <1>2

\* The keys that the elements alone give are the ones that have been traced.
LEMMA EnclosingIs ==
    ASSUME NEW n \in Nat, NEW f, Traces(f, source, n)
    PROVE  Enclosing(n) = f[n]
  <1> DEFINE Def(g) == g = [i \in 0..n |-> IF i = 0 THEN <<>> ELSE After(g[i - 1], source[i])]
  <1>1. Def(f)
    BY DEF Traces
  <1>2. \E g : Def(g) /\ Enclosing(n) = g[n]
    BY <1>1 DEF Enclosing
  <1>3. PICK g : Def(g) /\ Enclosing(n) = g[n]
    BY <1>2
  <1>4. g[0] = <<>> /\ \A i \in 1..n : g[i] = After(g[i - 1], source[i])
    <2> DEFINE h == [i \in 0..n |-> IF i = 0 THEN <<>> ELSE After(g[i - 1], source[i])]
    <2>1. h[0] = <<>> /\ \A i \in 1..n : h[i] = After(g[i - 1], source[i])
      OBVIOUS
    <2>2. g = h
      BY <1>3
    <2> QED BY ONLY <2>1, <2>2
  <1>5. f[0] = <<>> /\ \A i \in 1..n : f[i] = After(f[i - 1], source[i])
    BY DEF Traces
  <1> HIDE DEF Def
  <1> DEFINE T == {i \in 0..n : f[i] # g[i]}
  <1>6. T = {}
    <2> SUFFICES ASSUME T # {}
                 PROVE  FALSE
      OBVIOUS
    <2>1. PICK m \in T : \A i \in T : m <= i
      <3>1. T \in SUBSET Nat
        OBVIOUS
      <3> HIDE DEF T
      <3> QED BY <3>1, LeastNumber
    <2>2. m \in 0..n /\ f[m] # g[m]
      BY <2>1
    <2>3. m \in 1..n /\ m - 1 \in 0..n
      BY ONLY <1>4, <1>5, <2>2, n \in Nat
    <2>4. m - 1 \notin T
      BY <2>1, <2>3
    <2>5. f[m - 1] = g[m - 1]
      BY <2>3, <2>4
    <2> QED BY <1>4, <1>5, <2>2, <2>3, <2>5
  <1> QED BY <1>3, <1>6

\* A path whose levels are set, the field's too, is named in full.
LEMMA AsStringIs ==
    ASSUME NEW p, PathOK(p), p.size < Len(p.elements),
           \A i \in 1..(p.size + 1) : p.elements[i] \in Key
    PROVE  AsString(p) = SubSeq(p.elements, 1, p.size + 1)
  <1> DEFINE n == p.size + 1
             Def(g) == g = [i \in 0..n |-> IF i = 0 THEN <<>> ELSE
                              IF Read(p, i) = NULL THEN g[i - 1]
                              ELSE Append(g[i - 1], Read(p, i))]
             f == [i \in 0..n |-> SubSeq(p.elements, 1, i)]
  <1>1. n \in Nat /\ n <= Len(p.elements) /\ p.elements \in Seq(Key \cup {NULL})
        /\ Len(p.elements) \in Nat
    BY DEF PathOK, Path
  <1>2. \A i \in 1..n : Read(p, i) = p.elements[i] /\ Read(p, i) # NULL
    BY <1>1, KeyAssumption DEF Read
  <1>3. f[0] = <<>>
    BY <1>1, SubSeqEmpty
  <1>4. ASSUME NEW i \in 1..n
        PROVE  f[i] = Append(f[i - 1], Read(p, i))
    <2>1. f[i] = SubSeq(p.elements, 1, i) /\ f[i - 1] = SubSeq(p.elements, 1, i - 1)
      BY <1>1
    <2>2. SubSeq(p.elements, 1, i) \in Seq(Key) /\ Len(SubSeq(p.elements, 1, i)) = i
          /\ \A j \in 1..i : SubSeq(p.elements, 1, i)[j] = p.elements[j]
      BY <1>1, SubSeqProperties
    <2>3. SubSeq(p.elements, 1, i - 1) \in Seq(Key) /\ Len(SubSeq(p.elements, 1, i - 1)) = i - 1
          /\ \A j \in 1..(i - 1) : SubSeq(p.elements, 1, i - 1)[j] = p.elements[j]
      BY <1>1, SubSeqProperties
    <2>4. p.elements[i] \in Key /\ Read(p, i) = p.elements[i]
      BY <1>2
    <2> DEFINE a == Append(SubSeq(p.elements, 1, i - 1), p.elements[i])
    <2>5. a \in Seq(Key) /\ Len(a) = i /\ a[i] = p.elements[i]
          /\ \A j \in 1..(i - 1) : a[j] = p.elements[j]
      BY <2>3, <2>4, AppendProperties
    <2> HIDE DEF a
    <2>6. \A j \in 1..i : SubSeq(p.elements, 1, i)[j] = a[j]
      BY <2>2, <2>5
    <2>7. SubSeq(p.elements, 1, i) = a
      BY <2>2, <2>5, <2>6, SeqEqual
    <2> QED BY <2>1, <2>4, <2>7 DEF a
  <1> HIDE DEF f, n
  <1>5. Def(f)
    <2> DEFINE h == [i \in 0..n |-> IF i = 0 THEN <<>> ELSE
                       IF Read(p, i) = NULL THEN f[i - 1] ELSE Append(f[i - 1], Read(p, i))]
    <2>1. \A i \in 0..n : h[i] = f[i]
      <3>1. h[0] = <<>> /\ \A i \in 1..n : h[i] = Append(f[i - 1], Read(p, i))
        BY <1>1, <1>2
      <3> HIDE DEF h
      <3>2. \A i \in 0..n : i = 0 \/ i \in 1..n
        BY <1>1
      <3> QED BY <1>3, <1>4, <3>1, <3>2
    <2>2. f = [i \in 0..n |-> f[i]] /\ h = [i \in 0..n |-> h[i]]
      BY DEF f
    <2>3. f = h
      BY ONLY <2>1, <2>2, Zenon
    <2> QED BY <2>3
  <1>6. p.elements # <<>>
    BY <1>1 DEF n, PathOK, Path
  <1>7. \E g : Def(g) /\ AsString(p) = g[n]
    BY <1>5, <1>6 DEF AsString, n
  <1>8. PICK g : Def(g) /\ AsString(p) = g[n]
    BY <1>7
  <1>9. g[0] = <<>> /\ \A i \in 1..n : g[i] = Append(g[i - 1], Read(p, i))
    <2> DEFINE h == [i \in 0..n |-> IF i = 0 THEN <<>> ELSE
                       IF Read(p, i) = NULL THEN g[i - 1] ELSE Append(g[i - 1], Read(p, i))]
    <2>1. h[0] = <<>> /\ \A i \in 1..n : h[i] = Append(g[i - 1], Read(p, i))
      BY <1>1, <1>2
    <2>2. g = h
      BY <1>8
    <2> QED BY ONLY <2>1, <2>2
  <1> HIDE DEF Def
  <1> DEFINE T == {i \in 0..n : f[i] # g[i]}
  <1>10. T = {}
    <2> SUFFICES ASSUME T # {}
                 PROVE  FALSE
      OBVIOUS
    <2>1. PICK m \in T : \A i \in T : m <= i
      <3>1. T \in SUBSET Nat
        OBVIOUS
      <3> HIDE DEF T
      <3> QED BY <3>1, LeastNumber
    <2>2. m \in 0..n /\ f[m] # g[m]
      BY <2>1
    <2>3. m \in 1..n /\ m - 1 \in 0..n
      BY ONLY <1>1, <1>3, <1>9, <2>2
    <2>4. m - 1 \notin T
      BY <2>1, <2>3
    <2>5. f[m - 1] = g[m - 1]
      BY <2>3, <2>4
    <2> QED BY <1>4, <1>9, <2>2, <2>3, <2>5
  <1>11. f[n] = g[n]
    BY <1>1, <1>10
  <1>12. f[n] = SubSeq(p.elements, 1, n)
    BY <1>1 DEF f
  <1> QED BY <1>8, <1>11, <1>12 DEF n

-------------------------------------------------------------------------------
(* Sequences *)

LEMMA SequenceFacts ==
    ASSUME NEW s, IsSequence(s), NEW x
    PROVE  /\ Len(s) \in Nat /\ (Len(s) = 0 <=> s = <<>>)
           /\ IsSequence(Append(s, x)) /\ Len(Append(s, x)) = Len(s) + 1
           /\ s # <<>> => /\ IsSequence([s EXCEPT ![Len(s)] = x])
                          /\ Len([s EXCEPT ![Len(s)] = x]) = Len(s)
  <1> DEFINE S == Range(s) \cup {x}
  <1>1. s \in Seq(S)
    BY SeqMonotonic DEF IsSequence
  <1> HIDE DEF S
  <1>2. x \in S
    BY DEF S
  <1>3. Len(s) \in Nat /\ (Len(s) = 0 <=> s = <<>>)
    BY <1>1, EmptySeq, LenProperties
  <1>4. IsSequence(Append(s, x)) /\ Len(Append(s, x)) = Len(s) + 1
    BY <1>1, <1>2, AppendProperties, SeqOfRange DEF IsSequence
  <1>5. ASSUME s # <<>>
        PROVE  IsSequence([s EXCEPT ![Len(s)] = x]) /\ Len([s EXCEPT ![Len(s)] = x]) = Len(s)
    <2>1. Len(s) \in 1..Len(s)
      BY <1>3, <1>5
    <2>2. [s EXCEPT ![Len(s)] = x] \in Seq(S) /\ Len([s EXCEPT ![Len(s)] = x]) = Len(s)
      BY <1>1, <1>2, <2>1, ExceptSeq
    <2> QED BY <2>2, SeqOfRange DEF IsSequence
  <1> QED BY <1>3, <1>4, <1>5

LEMMA FrontFacts ==
    ASSUME NEW S, NEW s \in Seq(S), s # <<>>
    PROVE  /\ Front(s) \in Seq(S) /\ Len(Front(s)) = Len(s) - 1
           /\ \A i \in 1..(Len(s) - 1) : Front(s)[i] = s[i]
  <1> DEFINE n == Len(s) - 1
  <1>1. Len(s) \in Nat \ {0} /\ \A i \in 1..n : s[i] \in S
    BY EmptySeq, ElementOfSeq
  <1>2. n \in Int /\ n >= 0 /\ n - 1 + 1 = n /\ \A i \in 1..n : 1 + i - 1 = i
    BY <1>1
  <1> HIDE DEF n
  <1>3. SubSeq(s, 1, n) \in Seq(S) /\ Len(SubSeq(s, 1, n)) = (IF 1 <= n THEN n - 1 + 1 ELSE 0)
        /\ \A i \in 1..(n - 1 + 1) : SubSeq(s, 1, n)[i] = s[1 + i - 1]
    BY <1>1, <1>2, SubSeqProperties
  <1>4. Len(SubSeq(s, 1, n)) = n /\ \A i \in 1..n : SubSeq(s, 1, n)[i] = s[i]
    BY <1>2, <1>3
  <1> QED BY <1>3, <1>4 DEF Front, n

\* One more element takes the keys one step further.
LEMMA TraceStep ==
    ASSUME NEW s, NEW t, NEW n \in Nat, NEW f, Traces(f, s, n),
           \A i \in 1..n : t[i] = s[i],
           Named(t[n + 1])
    PROVE  \E g : Traces(g, t, n + 1) /\ g[n + 1] = After(f[n], t[n + 1])
  <1> DEFINE last == After(f[n], t[n + 1])
             g == [i \in 0..(n + 1) |-> IF i = n + 1 THEN last ELSE f[i]]
  <1>1. f[n] \in Seq(Key)
    BY DEF Traces
  <1>2. last \in Seq(Key)
    <2>1. CASE t[n + 1].op = "open"
      BY <1>1, <2>1, AppendProperties DEF After, Named
    <2>2. CASE t[n + 1].op = "close" /\ f[n] # <<>>
      <3>1. Len(f[n]) \in Nat /\ \A i \in 1..(Len(f[n]) - 1) : f[n][i] \in Key
        BY <1>1, LenProperties, ElementOfSeq
      <3>2. Front(f[n]) \in Seq(Key)
        BY <3>1, SubSeqProperties DEF Front
      <3> QED BY <2>2, <3>2 DEF After
    <2>3. CASE t[n + 1].op # "open" /\ ~(t[n + 1].op = "close" /\ f[n] # <<>>)
      BY <1>1, <2>3 DEF After
    <2> QED BY <2>1, <2>2, <2>3
  <1> HIDE DEF last
  <1>3. g \in [0..(n + 1) -> Seq(Key)]
    BY <1>2 DEF Traces
  <1>4. g[0] = <<>> /\ g[n + 1] = last
    BY DEF Traces
  <1>5. ASSUME NEW i \in 1..(n + 1)
        PROVE  g[i] = After(g[i - 1], t[i])
    <2>1. CASE i = n + 1
      <3>1. g[i] = last /\ g[i - 1] = f[n]
        BY <2>1
      <3> QED BY <2>1, <3>1 DEF last
    <2>2. CASE i # n + 1
      <3>1. i \in 1..n /\ g[i] = f[i] /\ g[i - 1] = f[i - 1]
        BY <2>2
      <3> QED BY <3>1 DEF Traces
    <2> QED BY <2>1, <2>2
  <1> HIDE DEF g
  <1>6. Traces(g, t, n + 1)
    BY <1>3, <1>4, <1>5 DEF Traces
  <1> QED BY <1>4, <1>6 DEF last

-------------------------------------------------------------------------------
(* The decoder *)

\* The iterator has passed one more element, which is e.
Took(e) ==
    /\ e \in Element
    /\ source' \in Seq(Element) /\ pos' = pos + 1 /\ pos' \in 1..Len(source')
    /\ source'[pos'] = e
    /\ \A i \in 1..pos : source'[i] = source[i]

LEMMA ReadsFacts ==
    ASSUME DecodeInv, NEW e \in Elements \cup {source[i] : i \in DOMAIN source}, Reads(e),
           pos' = pos + 1
    PROVE  Took(e)
  <1>1. source \in Seq(Element) /\ pos \in 0..Len(source) /\ Len(source) \in Nat
        /\ DOMAIN source = 1..Len(source)
    BY LenProperties DEF DecodeInv
  <1>2. e \in Element
    <2>1. CASE e \in Elements
      BY <2>1, ElementsAssumption DEF Element, Named
    <2>2. CASE e \in {source[i] : i \in DOMAIN source}
      BY <1>1, <2>2, ElementOfSeq
    <2> QED BY <2>1, <2>2
  <1>3. CASE pos < Len(source) /\ e = source[pos + 1] /\ source' = source
    BY <1>1, <1>2, <1>3 DEF Took
  <1>4. CASE pos = Len(source) /\ source' = Append(source, e)
    BY <1>1, <1>2, <1>4, AppendProperties DEF Took
  <1> QED BY <1>3, <1>4 DEF Reads

LEMMA ScalarInv ==
    ASSUME DecodeInv, decoding = "visiting", NEW e, Took(e), VisitScalar(e)
    PROVE  DecodeInv'
  <1>1. Visiting /\ IsSequence(states) /\ refs = Len(states) /\ thrown # "unsupported" /\ pos \in Nat
    BY LenProperties DEF DecodeInv
  <1>2. e.key \in Key /\ e.op \notin {"open", "close"} /\ Named(e)
    BY DEF VisitScalar, Took, Element, Named
  <1>3. PICK f : Traces(f, source, pos) /\ f[pos] = Parents(path)
    BY <1>1 DEF Visiting
  <1>4. PICK g : Traces(g, source', pos + 1) /\ g[pos + 1] = After(f[pos], e)
    BY <1>1, <1>2, <1>3, TraceStep DEF Took
  <1>5. g[pos + 1] = Parents(path)
    BY <1>2, <1>3, <1>4 DEF After
  <1>6. path' = WriteItem(path, e.key) /\ PathOK(path) /\ Exact(path)
    BY <1>1 DEF VisitScalar, Visiting
  <1>7. PathOK(path') /\ Exact(path') /\ path'.size = path.size
        /\ \A i \in 1..path.size : path'.elements[i] = path.elements[i]
    BY <1>2, <1>6, WriteItemFacts
  <1>8. Parents(path') = Parents(path)
    <2>1. path.size \in Nat /\ \A i \in 1..path.size : path'.elements[i] \in Key /\ path.elements[i] \in Key
      BY <1>6, <1>7 DEF PathOK, Path, Exact
    <2> DEFINE a == SubSeq(path'.elements, 1, path.size)
               b == SubSeq(path.elements, 1, path.size)
    <2>2. a \in Seq(Key) /\ Len(a) = path.size /\ \A i \in 1..path.size : a[i] = path'.elements[i]
      BY <2>1, SubSeqProperties
    <2>3. b \in Seq(Key) /\ Len(b) = path.size /\ \A i \in 1..path.size : b[i] = path.elements[i]
      BY <2>1, SubSeqProperties
    <2>4. a = b
      BY <1>7, <2>2, <2>3, SeqEqual
    <2>5. Parents(path') = a /\ Parents(path) = b
      BY <1>7, Zenon DEF Parents
    <2> QED BY <2>4, <2>5, Zenon
  <1>9. IsSequence(states') /\ Len(states') = Len(states)
    <2>1. PICK x : states' = [states EXCEPT ![Len(states)] = x]
      BY DEF VisitScalar
    <2>2. states # <<>>
      BY <1>1 DEF Visiting
    <2> QED BY <1>1, <2>1, <2>2, SequenceFacts, Zenon
  <1>10. states' # <<>>
    BY <1>1, <1>9, SequenceFacts DEF Visiting
  <1>11. Visiting'
    BY <1>1, <1>4, <1>5, <1>7, <1>8, <1>9, <1>10 DEF Visiting, Took
  <1>12. decoding' = "visiting" /\ thrown' = thrown /\ refs' = refs
    BY DEF VisitScalar
  <1>13. source' \in Seq(Element) /\ pos' \in 0..Len(source')
    BY DEF Took
  <1> QED BY <1>1, <1>9, <1>11, <1>12, <1>13 DEF DecodeInv

LEMMA BeginInv ==
    ASSUME DecodeInv, decoding = "visiting", NEW e, Took(e), VisitBegin(e)
    PROVE  DecodeInv'
  <1>1. Visiting /\ IsSequence(states) /\ refs = Len(states) /\ thrown # "unsupported" /\ pos \in Nat
    BY LenProperties DEF DecodeInv
  <1>2. e.key \in Key /\ e.op = "open" /\ Named(e)
    BY DEF VisitBegin, Took, Element, Named
  <1>3. PICK f : Traces(f, source, pos) /\ f[pos] = Parents(path)
    BY <1>1 DEF Visiting
  <1>4. PICK g : Traces(g, source', pos + 1) /\ g[pos + 1] = After(f[pos], e)
    BY <1>1, <1>2, <1>3, TraceStep DEF Took
  <1>5. g[pos + 1] = Append(Parents(path), e.key)
    BY <1>2, <1>3, <1>4 DEF After
  <1>6. path' = Push(path, e.key) /\ PathOK(path) /\ Exact(path)
    BY <1>1 DEF VisitBegin, Visiting
  <1>7. PathOK(path') /\ Exact(path') /\ path'.size = path.size + 1
        /\ Parents(path') = Append(Parents(path), e.key)
    BY <1>2, <1>6, PushFacts, Zenon
  <1>8. IsSequence(states') /\ Len(states') = Len(states) + 1
    <2>1. PICK x : states' = Append(states, x)
      BY DEF VisitBegin
    <2> QED BY <1>1, <2>1, SequenceFacts, Zenon
  <1>9. states' # <<>> /\ Len(states) \in Nat /\ path.size = Len(states) - 1
    BY <1>1, <1>8, SequenceFacts DEF Visiting
  <1>10. Visiting'
    BY <1>1, <1>4, <1>5, <1>7, <1>8, <1>9 DEF Visiting, Took
  <1>11. decoding' = "visiting" /\ thrown' = thrown /\ refs' = Len(states')
    BY <1>1, <1>8 DEF VisitBegin
  <1>12. source' \in Seq(Element) /\ pos' \in 0..Len(source')
    BY DEF Took
  <1> QED BY <1>1, <1>8, <1>10, <1>11, <1>12 DEF DecodeInv

LEMMA EndInv ==
    ASSUME DecodeInv, decoding = "visiting", NEW e, Took(e), VisitEnd(e)
    PROVE  DecodeInv'
  <1>1. Visiting /\ IsSequence(states) /\ refs = Len(states) /\ thrown # "unsupported" /\ pos \in Nat
    BY LenProperties DEF DecodeInv
  <1>2. e.op = "close" /\ Named(e) /\ Len(states) > 1
    BY DEF VisitEnd, Took, Element
  <1>3. PICK f : Traces(f, source, pos) /\ f[pos] = Parents(path)
    BY <1>1 DEF Visiting
  <1>4. PICK g : Traces(g, source', pos + 1) /\ g[pos + 1] = After(f[pos], e)
    BY <1>1, <1>2, <1>3, TraceStep DEF Took
  <1>5. path' = Pop(path) /\ PathOK(path) /\ Exact(path) /\ path.size > 0
        /\ Len(states) \in Nat /\ path.size = Len(states) - 1 /\ states # <<>>
    BY <1>1, <1>2, SequenceFacts DEF VisitEnd, Visiting
  <1>6. PathOK(path') /\ Exact(path') /\ path'.size = path.size - 1
        /\ Parents(path) # <<>> /\ Parents(path') = Front(Parents(path))
    BY <1>5, PopFacts, Zenon
  <1>7. g[pos + 1] = Parents(path')
    BY <1>2, <1>3, <1>4, <1>6 DEF After
  <1>8. IsSequence(states') /\ Len(states') = Len(states) - 1
    <2> DEFINE s == Front(states)
    <2>1. IsSequence(s) /\ Len(s) = Len(states) - 1 /\ Len(states) - 1 \in Nat \ {0}
      <3>1. IsSequence(s) /\ Len(s) = Len(states) - 1
        BY <1>1, <1>5, FrontFacts, SeqOfRange DEF IsSequence
      <3>2. Len(states) \in Nat /\ Len(states) > 1
        BY <1>2, <1>5
      <3>3. Len(states) - 1 \in Nat \ {0}
        BY ONLY <3>2
      <3> QED BY <3>1, <3>3
    <2>2. PICK x : states' = [s EXCEPT ![Len(states) - 1] = x]
      BY DEF VisitEnd
    <2> HIDE DEF s
    <2>3. states' = [s EXCEPT ![Len(s)] = x]
      BY <2>1, <2>2
    <2>4. s # <<>>
      BY <2>1, SequenceFacts
    <2>5. IsSequence(states') /\ Len(states') = Len(s)
      BY <2>1, <2>3, <2>4, SequenceFacts, Zenon
    <2> QED BY <2>1, <2>5
  <1>9. states' # <<>>
    BY <1>2, <1>5, <1>8, SequenceFacts
  <1>10. Visiting'
    BY <1>1, <1>4, <1>5, <1>6, <1>7, <1>8, <1>9 DEF Visiting, Took
  <1>11. decoding' = "visiting" /\ thrown' # "unsupported" /\ refs' = Len(states')
    BY <1>1, <1>8 DEF VisitEnd
  <1>12. source' \in Seq(Element) /\ pos' \in 0..Len(source')
    BY DEF Took
  <1> QED BY <1>8, <1>10, <1>11, <1>12 DEF DecodeInv

\* Whatever stops the decoder, the states go and the path with them.
LEMMA StopInv ==
    ASSUME DecodeInv, decoding = "visiting", NEW e, Took(e),
           states' = <<>>, refs' = 0, path' = NULL, decoding' # "visiting",
           thrown' # "unsupported"
    PROVE  DecodeInv'
  <1>1. IsSequence(<<>>) /\ Len(<<>>) = 0
    BY EmptySeq, SeqOfRange DEF IsSequence
  <1>2. source' \in Seq(Element) /\ pos' \in 0..Len(source')
    BY DEF Took
  <1> QED BY <1>1, <1>2 DEF DecodeInv

LEMMA UnsupportedInv ==
    ASSUME DecodeInv, decoding = "visiting", NEW e, Took(e), VisitUnsupported(e)
    PROVE  DecodeInv'
  <1>1. Visiting /\ IsSequence(states) /\ refs = Len(states) /\ pos \in Nat
    BY LenProperties DEF DecodeInv
  <1>2. e.key \in Key /\ e.op = "unsupported" /\ Named(e)
    BY DEF VisitUnsupported, Took, Element, Named
  <1>3. PICK f : Traces(f, source, pos) /\ f[pos] = Parents(path)
    BY <1>1 DEF Visiting
  <1>4. PICK g : Traces(g, source', pos + 1) /\ g[pos + 1] = After(f[pos], e)
    BY <1>1, <1>2, <1>3, TraceStep DEF Took
  <1>5. g[pos + 1] = Parents(path)
    BY <1>2, <1>3, <1>4 DEF After
  <1> DEFINE q == WriteItem(path, e.key)
  <1>6. PathOK(path) /\ Exact(path)
    BY <1>1 DEF Visiting
  <1>7. /\ PathOK(q) /\ q.size = path.size /\ path.size < Len(q.elements)
        /\ q.elements[path.size + 1] = e.key
        /\ \A i \in 1..path.size : q.elements[i] = path.elements[i]
    BY <1>2, <1>6, WriteItemFacts
  <1>8. message' = Append(Parents(path), e.key)
    <2>1. \A i \in 1..(path.size + 1) : q.elements[i] \in Key
      <3>1. path.size \in Nat /\ \A i \in 1..(path.size + 1) : i \in 1..path.size \/ i = path.size + 1
        BY <1>6 DEF PathOK, Path
      <3> QED BY <1>2, <1>6, <1>7, <3>1 DEF Exact
    <2>2. message' = AsString(q)
      BY DEF VisitUnsupported, Stopped
    <2> HIDE DEF q
    <2>3. message' = SubSeq(q.elements, 1, path.size + 1)
      BY <1>7, <2>1, <2>2, AsStringIs
    <2>4. Push(path, e.key) = [q EXCEPT !.size = path.size + 1] /\ q \in Path
      BY <1>7 DEF Push, q, PathOK
    <2>5. Push(path, e.key).size = path.size + 1 /\ Push(path, e.key).elements = q.elements
      BY <2>4 DEF Path
    <2>6. Parents(Push(path, e.key)) = SubSeq(q.elements, 1, path.size + 1)
      BY <2>5, Zenon DEF Parents
    <2>7. Parents(Push(path, e.key)) = Append(Parents(path), e.key)
      BY <1>2, <1>6, PushFacts, Zenon
    <2> QED BY <2>3, <2>6, <2>7, Zenon
  <1>9. states' = <<>> /\ refs' = 0 /\ path' = NULL /\ decoding' = "failed"
    BY <1>1, SequenceFacts DEF VisitUnsupported, Stopped
  <1>10. IsSequence(<<>>) /\ Len(<<>>) = 0
    BY EmptySeq, SeqOfRange DEF IsSequence
  <1>11. source' \in Seq(Element) /\ pos' \in 0..Len(source') /\ pos' > 0 /\ pos' = pos + 1
         /\ source'[pos'] = e
    BY <1>1 DEF Took
  <1>12. \E keys : Traces(keys, source', pos') /\ message' = Append(keys[pos'], source'[pos'].key)
    BY <1>4, <1>5, <1>8, <1>11
  <1> QED BY <1>9, <1>10, <1>11, <1>12 DEF DecodeInv

LEMMA VisitInv ==
    ASSUME DecodeInv, Visit
    PROVE  DecodeInv'
  <1>1. decoding = "visiting" /\ Visiting /\ IsSequence(states) /\ refs = Len(states)
        /\ thrown # "unsupported"
    BY DEF Visit, DecodeInv
  <1>2. PICK e \in Elements \cup {source[i] : i \in DOMAIN source} :
          /\ Reads(e) /\ pos' = pos + 1
          /\ \/ VisitScalar(e) \/ VisitBegin(e) \/ VisitEnd(e)
             \/ VisitCorrupt(e) \/ VisitUnsupported(e) \/ VisitBadScope(e)
             \/ \E trailing \in BOOLEAN : VisitRoot(e, trailing)
    BY DEF Visit
  <1>3. Took(e)
    BY <1>2, ReadsFacts
  <1>4. Len(states) \in Nat
    BY <1>1, SequenceFacts
  <1>5. CASE VisitScalar(e)
    BY <1>1, <1>3, <1>5, ScalarInv
  <1>6. CASE VisitBegin(e)
    BY <1>1, <1>3, <1>6, BeginInv
  <1>7. CASE VisitEnd(e)
    BY <1>1, <1>3, <1>7, EndInv
  <1>8. CASE VisitUnsupported(e)
    BY <1>1, <1>3, <1>8, UnsupportedInv
  <1>9. CASE VisitCorrupt(e)
    <2>1. states' = <<>> /\ refs' = 0 /\ path' = NULL /\ decoding' # "visiting"
          /\ thrown' # "unsupported"
      BY <1>1, <1>4, <1>9 DEF VisitCorrupt, Stopped
    <2> QED BY <1>1, <1>3, <2>1, StopInv
  <1>10. CASE VisitBadScope(e)
    <2>1. states' = <<>> /\ refs' = 0 /\ path' = NULL /\ decoding' # "visiting"
          /\ thrown' # "unsupported"
      BY <1>1, <1>4, <1>10 DEF VisitBadScope, Stopped
    <2> QED BY <1>1, <1>3, <2>1, StopInv
  <1>11. ASSUME NEW trailing \in BOOLEAN, VisitRoot(e, trailing)
         PROVE  DecodeInv'
    <2>1. states' = <<>> /\ refs' = 0 /\ path' = NULL /\ decoding' # "visiting"
          /\ thrown' # "unsupported"
      BY <1>1, <1>4, <1>11 DEF VisitRoot
    <2> QED BY <1>1, <1>3, <2>1, StopInv
  <1> QED BY <1>2, <1>5, <1>6, <1>7, <1>8, <1>9, <1>10, <1>11

-------------------------------------------------------------------------------
(* The encoder *)

\* What the encoder writes.
LEMMA WritesElements ==
    ASSUME NEW k \in Key
    PROVE  /\ Close \in Element
           /\ \A kind \in Kinds : Scalar(k, kind) \in Element
           /\ \A kind \in {"array", "document"} : Open(k, kind) \in Element
           /\ \A class \in Persistable : Pclass(class) \in Element
           /\ \A class \in Persistable : [Pclass(class) EXCEPT !.key = k] \in Element
  <1>1. "binary" \in Kinds /\ "array" \in Kinds /\ "document" \in Kinds /\ NULL \in Kinds
    BY DEF Kinds
  <1>2. ODM \in Key
    BY NamesAssumption
  <1>3. Close \in Element
    BY <1>1 DEF Close, Element, Encoded, Named
  <1>4. \A kind \in Kinds : Scalar(k, kind) \in Element
    BY DEF Scalar, Element, Encoded, Named
  <1>5. \A kind \in {"array", "document"} : Open(k, kind) \in Element
    BY <1>1 DEF Open, Element, Encoded, Named
  <1>6. \A class \in Persistable : Pclass(class) \in Element
    BY <1>1, <1>2 DEF Pclass, Element, Encoded, Named
  <1>7. \A class \in Persistable : [Pclass(class) EXCEPT !.key = k] \in Element
    BY <1>1, <1>2 DEF Pclass, Element, Encoded, Named
  <1> QED BY <1>3, <1>4, <1>5, <1>6, <1>7

\* The innermost call and the field it is at.
LEMMA CurrentFacts ==
    ASSUME EncodeInv, encoding = "running"
    PROVE  /\ Len(frames) \in Nat \ {0} /\ Current \in FrameRec
           /\ graph[Current.node].class \in Persistable
           /\ Fields \in Seq([key: Key, to: Target]) /\ Len(Fields) \in Nat
           /\ Current.at < Len(Fields) => Field.key \in Key /\ Field.to \in Target
  <1>1. Running /\ frames \in Seq(FrameRec)
    BY DEF EncodeInv
  <1>2. Len(frames) \in Nat \ {0}
    BY <1>1, EmptySeq DEF Running
  <1>3. Current \in FrameRec
    BY <1>1, <1>2, ElementOfSeq DEF Current
  <1>4. graph[Current.node].class \in Persistable /\ Fields \in Seq([key: Key, to: Target])
    BY <1>1, <1>3 DEF Running, Graph, FrameRec, Fields
  <1>5. Len(Fields) \in Nat
    BY <1>4, LenProperties
  <1>6. ASSUME Current.at < Len(Fields)
        PROVE  Field \in [key: Key, to: Target]
    <2>1. Current.at \in Nat
      BY <1>3 DEF FrameRec
    <2>2. Current.at + 1 \in 1..Len(Fields)
      BY <1>5, <1>6, <2>1
    <2> QED BY <1>4, <2>2, ElementOfSeq DEF Field
  <1> QED BY <1>2, <1>3, <1>4, <1>5, <1>6

\* A call goes on to its next field.
LEMMA FrameChange ==
    ASSUME EncodeInv, encoding = "running", NEW r \in FrameRec, r.node = Current.node,
           NEW s, s = [frames EXCEPT ![Len(frames)] = r]
    PROVE  /\ s \in Seq(FrameRec) /\ Len(s) = Len(frames)
           /\ \A i \in 1..Len(frames) : s[i].node = frames[i].node
  <1>1. frames \in Seq(FrameRec) /\ Len(frames) \in 1..Len(frames)
    BY CurrentFacts DEF EncodeInv
  <1>2. /\ s \in Seq(FrameRec) /\ Len(s) = Len(frames)
        /\ \A i \in 1..Len(frames) : s[i] = IF i = Len(frames) THEN r ELSE frames[i]
    BY <1>1, ExceptSeq
  <1> QED BY <1>2 DEF Current

\* A step within a call that neither begins nor ends one.
LEMMA WithinInv ==
    ASSUME EncodeInv, encoding = "running",
           NEW r \in FrameRec, r.node = Current.node,
           frames' = [frames EXCEPT ![Len(frames)] = r],
           PathOK(epath'), epath'.size = epath.size,
           bson' \in Seq(Element),
           UNCHANGED <<graph, protected, encoding>>
    PROVE  EncodeInv'
  <1>1. Running /\ Len(frames) \in Nat \ {0}
    BY CurrentFacts DEF EncodeInv
  <1>2. /\ frames' \in Seq(FrameRec) /\ Len(frames') = Len(frames)
        /\ \A i \in 1..Len(frames) : frames'[i].node = frames[i].node
    BY FrameChange
  <1>3. frames' # <<>>
    BY <1>1, <1>2, EmptySeq
  <1>4. \A i \in 2..Len(frames) : frames'[i].node = frames[i].node
    BY ONLY <1>1, <1>2
  <1>5. {frames'[i].node : i \in 2..Len(frames)} = {frames[i].node : i \in 2..Len(frames)}
    BY ONLY <1>4
  <1>6. \A i, j \in 2..Len(frames) : frames'[i].node = frames'[j].node => i = j
    <2>1. \A i, j \in 2..Len(frames) : frames[i].node = frames[j].node => i = j
      BY <1>1 DEF Running
    <2> QED BY ONLY <1>4, <2>1
  <1>7. Running'
    BY <1>1, <1>2, <1>3, <1>5, <1>6 DEF Running
  <1> QED BY <1>2, <1>7 DEF EncodeInv

\* The frame after a field, with or without its _id seen.
LEMMA AdvancedFacts ==
    ASSUME EncodeInv, encoding = "running", Current.at < Len(Fields)
    PROVE  \E r \in FrameRec : r.node = Current.node /\ Advanced(Field) = [frames EXCEPT ![Len(frames)] = r]
  <1> DEFINE n == Current.at + 1
             b == Current.addId /\ Field.key # "_id"
             r == [Current EXCEPT !.at = n, !.addId = b]
  <1>1. Current \in FrameRec /\ n \in Nat /\ b \in BOOLEAN
    BY CurrentFacts DEF FrameRec
  <1>2. r \in FrameRec /\ r.node = Current.node
    <2> HIDE DEF b, n
    <2> QED BY <1>1 DEF FrameRec
  <1>3. frames \in Seq(FrameRec) /\ Len(frames) \in 1..Len(frames)
    BY CurrentFacts DEF EncodeInv
  <1>4. Advanced(Field) = [frames EXCEPT ![Len(frames)] = r]
    BY <1>3, LenProperties DEF Advanced, Current
  <1> QED BY <1>2, <1>4

LEMMA SkipInv ==
    ASSUME EncodeInv, encoding = "running", EncodeSkip \/ EncodeNullByte,
           UNCHANGED <<graph, encoding>>
    PROVE  EncodeInv'
  <1>1. Current \in FrameRec /\ Len(Fields) \in Nat /\ Current.at + 1 \in Nat
    BY CurrentFacts DEF FrameRec
  <1>2. frames \in Seq(FrameRec) /\ Len(frames) \in 1..Len(frames) /\ bson \in Seq(Element) /\ PathOK(epath)
    BY CurrentFacts DEF EncodeInv
  <1>3. UNCHANGED <<epath, protected, bson>>
    BY DEF EncodeSkip, EncodeNullByte
  <1>4. \E r \in FrameRec : r.node = Current.node /\ frames' = [frames EXCEPT ![Len(frames)] = r]
    <2>1. CASE EncodeSkip
      <3> DEFINE n == Current.at + 1
                 r == [Current EXCEPT !.at = n]
      <3>1. frames' = [frames EXCEPT ![Len(frames)] = r]
        BY <1>2, <2>1, LenProperties DEF EncodeSkip, Current
      <3> HIDE DEF n
      <3>2. r \in FrameRec /\ r.node = Current.node
        BY <1>1 DEF FrameRec, n
      <3> QED BY <3>1, <3>2
    <2>2. CASE EncodeNullByte
      <3> DEFINE n == Len(Fields)
                 r == [Current EXCEPT !.at = n, !.addId = FALSE]
      <3>1. frames' = [frames EXCEPT ![Len(frames)] = r]
        BY <1>2, <2>2, LenProperties DEF EncodeNullByte, Current
      <3>2. n \in Nat
        BY <1>1
      <3> HIDE DEF n
      <3>3. r \in FrameRec /\ r.node = Current.node
        BY <1>1, <3>2 DEF FrameRec
      <3> QED BY <3>1, <3>3
    <2> QED BY <2>1, <2>2
  <1> QED BY <1>2, <1>3, <1>4, WithinInv

LEMMA FieldInv ==
    ASSUME EncodeInv, encoding = "running", Current.at < Len(Fields),
           EncodeScalar \/ EncodeRecursion \/ EncodeLeftOut,
           UNCHANGED <<graph, encoding>>
    PROVE  EncodeInv'
  <1>1. bson \in Seq(Element) /\ PathOK(epath)
    BY DEF EncodeInv
  <1>2. Field.key \in Key /\ Field.to \in Target
    BY CurrentFacts
  <1>3. epath' = WriteItem(epath, Field.key) /\ frames' = Advanced(Field) /\ protected' = protected
    BY DEF EncodeScalar, EncodeRecursion, EncodeLeftOut
  <1>4. PathOK(epath') /\ epath'.size = epath.size
    BY <1>1, <1>2, <1>3, WriteItemFacts
  <1>5. bson' \in Seq(Element)
    <2>1. CASE bson' = bson
      BY <1>1, <2>1
    <2>2. CASE EncodeScalar /\ Field.to \notin Unwritable
      <3>1. Field.to \in Leaves \cup Persistable /\ bson' = Append(bson, Written(Field))
        BY <1>2, <2>2 DEF EncodeScalar, Target
      <3>2. Written(Field) \in Element
        <4>1. CASE Field.to \in Persistable
          BY <1>2, <4>1, WritesElements DEF Written
        <4>2. CASE Field.to \notin Persistable
          <5>1. (WrittenAs @@ ObjectWrittenAs)[Field.to] \in Kinds
            BY <3>1, <4>2 DEF Kinds
          <5> QED BY <1>2, <4>2, <5>1, WritesElements DEF Written
        <4> QED BY <4>1, <4>2
      <3> QED BY <1>1, <3>1, <3>2, AppendProperties
    <2> QED BY <2>1, <2>2 DEF EncodeScalar, EncodeRecursion, EncodeLeftOut
  <1>6. PICK r \in FrameRec : r.node = Current.node /\ frames' = [frames EXCEPT ![Len(frames)] = r]
    BY <1>3, AdvancedFacts
  <1> QED BY <1>3, <1>4, <1>5, <1>6, WithinInv

LEMMA EncodeBeginInv ==
    ASSUME EncodeInv, encoding = "running", Current.at < Len(Fields), EncodeBegin,
           UNCHANGED <<graph, encoding>>
    PROVE  EncodeInv'
  <1> DEFINE n == Field.to
             s == Advanced(Field)
  <1>1. Running /\ bson \in Seq(Element) /\ PathOK(epath) /\ Len(frames) \in Nat \ {0}
    BY CurrentFacts DEF EncodeInv
  <1>2. Field.key \in Key /\ n \in Node \ protected
    BY CurrentFacts DEF EncodeBegin
  <1>3. epath' = Push(epath, Field.key)
    BY DEF EncodeBegin
  <1>4. PathOK(epath') /\ epath'.size = epath.size + 1
    BY <1>1, <1>2, <1>3, PushFacts
  <1>5. bson' \in Seq(Element)
    <2>1. graph[n].class \in Persistable
      BY <1>1, <1>2 DEF Running, Graph
    <2>2. /\ Open(Field.key, "array") \in Element /\ Open(Field.key, "document") \in Element
          /\ Pclass(graph[n].class) \in Element
      BY <1>2, <2>1, WritesElements
    <2>3. Begun(n) \in Seq(Element)
      BY <2>2 DEF Begun
    <2> QED BY <1>1, <2>3, ConcatProperties DEF EncodeBegin
  <1>6. PICK r \in FrameRec : r.node = Current.node /\ s = [frames EXCEPT ![Len(frames)] = r]
    BY AdvancedFacts
  <1>7. /\ s \in Seq(FrameRec) /\ Len(s) = Len(frames)
        /\ \A i \in 1..Len(frames) : s[i].node = frames[i].node
    BY <1>6, FrameChange
  <1> HIDE DEF s
  <1>8. Frame(n, FALSE, FALSE) \in FrameRec /\ Frame(n, FALSE, FALSE).node = n
    BY <1>2 DEF Frame, FrameRec
  <1>9. frames' = Append(s, Frame(n, FALSE, FALSE))
    BY DEF EncodeBegin, s
  <1> HIDE DEF n
  <1>10. /\ frames' \in Seq(FrameRec) /\ Len(frames') = Len(frames) + 1 /\ frames' # <<>>
         /\ \A i \in 1..Len(frames) : frames'[i] = s[i]
         /\ frames'[Len(frames) + 1].node = n
    <2> DEFINE x == Frame(n, FALSE, FALSE)
    <2>1. x \in FrameRec /\ x.node = n /\ frames' = Append(s, x)
      BY <1>8, <1>9
    <2> HIDE DEF x
    <2>2. /\ Append(s, x) \in Seq(FrameRec) /\ Append(s, x) # <<>>
          /\ Len(Append(s, x)) = Len(s) + 1
          /\ \A i \in 1..Len(s) : Append(s, x)[i] = s[i]
          /\ Append(s, x)[Len(s) + 1] = x
      BY ONLY <1>7, <2>1, AppendProperties
    <2> QED BY ONLY <1>7, <2>1, <2>2
  <1>11. /\ \A i \in 2..Len(frames) : frames'[i].node = frames[i].node
         /\ frames'[Len(frames) + 1].node = n
    <2>1. \A i \in 2..Len(frames) : i \in 1..Len(frames)
      BY <1>1
    <2> QED BY ONLY <1>7, <1>10, <2>1
  <1>12. /\ protected = {frames[i].node : i \in 2..Len(frames)}
         /\ \A i, j \in 2..Len(frames) : frames[i].node = frames[j].node => i = j
         /\ protected' = protected \cup {n}
    BY <1>1 DEF Running, EncodeBegin, n
  <1>13. \A i : i \in 2..(Len(frames) + 1) <=> i \in 2..Len(frames) \/ i = Len(frames) + 1
    BY <1>1
  <1>14. protected' = {frames'[i].node : i \in 2..(Len(frames) + 1)}
    BY ONLY <1>11, <1>12, <1>13
  <1>15. \A i \in 2..Len(frames) : frames[i].node # n
    BY <1>2, <1>12
  <1>16. \A i, j \in 2..(Len(frames) + 1) : frames'[i].node = frames'[j].node => i = j
    BY ONLY <1>11, <1>12, <1>13, <1>15
  <1>17. Running'
    BY <1>1, <1>4, <1>10, <1>14, <1>16 DEF Running
  <1> QED BY <1>4, <1>5, <1>10, <1>17 DEF EncodeInv

LEMMA EncodeEndInv ==
    ASSUME EncodeInv, encoding = "running", EncodeEnd
    PROVE  EncodeInv'
  <1>1. Running /\ bson \in Seq(Element) /\ PathOK(epath) /\ Len(frames) \in Nat \ {0}
        /\ frames \in Seq(FrameRec)
    BY CurrentFacts DEF EncodeInv
  <1>2. bson' \in Seq(Element)
    <2>1. "oid" \in Kinds /\ "_id" \in Key
      BY NamesAssumption DEF Kinds
    <2>2. Scalar("_id", "oid") \in Element /\ Close \in Element
      BY <2>1, WritesElements
    <2> DEFINE id == IF Current.addId THEN <<Scalar("_id", "oid")>> ELSE <<>>
    <2>3. id \in Seq(Element) /\ <<Close>> \in Seq(Element)
      BY <2>2
    <2>4. bson' = bson \o id \o <<Close>>
      BY DEF EncodeEnd
    <2> HIDE DEF id
    <2> QED BY <1>1, <2>3, <2>4, ConcatProperties
  <1>3. /\ frames' \in Seq(FrameRec) /\ Len(frames') = Len(frames) - 1
        /\ \A i \in 1..(Len(frames) - 1) : frames'[i] = frames[i]
    BY <1>1, FrontFacts DEF EncodeEnd, Running
  <1>4. /\ protected = {frames[i].node : i \in 2..Len(frames)}
        /\ \A i, j \in 2..Len(frames) : frames[i].node = frames[j].node => i = j
        /\ epath.size = Len(frames) - 1
    BY <1>1 DEF Running
  <1>5. CASE Len(frames) = 1
    <2>1. encoding' = "done" /\ epath' = epath /\ protected' = protected
      BY <1>5 DEF EncodeEnd
    <2>2. protected = {} /\ epath.size = 0
      BY <1>4, <1>5
    <2> QED BY <1>1, <1>2, <1>3, <2>1, <2>2 DEF EncodeInv
  <1>6. CASE Len(frames) # 1
    <2>1. /\ epath' = [epath EXCEPT !.size = epath.size - 1] /\ graph' = graph
          /\ protected' = protected \ {frames[Len(frames)].node} /\ encoding' = encoding
      BY <1>6 DEF EncodeEnd, Unprotected, Current
    <2>2. Len(frames) \in Nat /\ Len(frames) > 1 /\ Len(frames) - 1 \in Nat \ {0}
      <3>1. Len(frames) \in Nat \ {0} /\ Len(frames) # 1
        BY <1>1, <1>6
      <3>2. \A n \in Nat \ {0} : n # 1 => n \in Nat /\ n > 1 /\ n - 1 \in Nat \ {0}
        OBVIOUS
      <3> QED BY ONLY <3>1, <3>2
    <2>3. epath \in Path /\ epath.size - 1 \in Nat /\ epath.size <= Len(epath.elements)
          /\ Len(epath.elements) \in Nat /\ epath.size \in Nat
      <3>1. epath \in Path /\ epath.size <= Len(epath.elements)
            /\ Len(epath.elements) \in Nat /\ epath.size \in Nat
        BY <1>1 DEF PathOK, Path
      <3>2. epath.size - 1 \in Nat
        <4>1. epath.size = Len(frames) - 1
          BY <1>4
        <4> QED BY ONLY <2>2, <4>1
      <3> QED BY <3>1, <3>2
    <2>4. epath' \in Path /\ epath'.size = epath.size - 1 /\ epath'.elements = epath.elements
      BY <2>1, <2>3 DEF Path
    <2>5. PathOK(epath') /\ epath'.size = Len(frames) - 1 - 1
      BY <1>4, <2>3, <2>4 DEF PathOK
    <2>6. \A i \in 2..(Len(frames) - 1) : frames'[i].node = frames[i].node
      BY <1>3, <2>2
    <2>7. /\ \A i : i \in 2..Len(frames) <=> i \in 2..(Len(frames) - 1) \/ i = Len(frames)
          /\ \A i \in 2..(Len(frames) - 1) : i # Len(frames)
      BY ONLY <2>2
    <2>8. protected' = {frames[i].node : i \in 2..(Len(frames) - 1)}
      BY ONLY <1>4, <2>1, <2>7
    <2>9. protected' = {frames'[i].node : i \in 2..(Len(frames) - 1)}
      BY ONLY <2>6, <2>8
    <2>10. \A i, j \in 2..(Len(frames) - 1) : frames'[i].node = frames'[j].node => i = j
      BY ONLY <1>4, <2>6, <2>7
    <2>11. frames' # <<>>
      BY <1>3, <2>2, EmptySeq
    <2>12. Running'
      BY <1>1, <1>3, <2>1, <2>5, <2>9, <2>10, <2>11 DEF Running
    <2> QED BY <1>2, <1>3, <2>1, <2>5, <2>12 DEF EncodeInv
  <1> QED BY <1>5, <1>6

LEMMA FromPhpInv ==
    ASSUME EncodeInv, NEW g \in Graphs, NEW addId \in BOOLEAN, FromPhp(g, addId)
    PROVE  EncodeInv'
  <1> DEFINE kind == g[1][g[2]].kind
             n == g[2]
  <1>1. g[1] \in Graph /\ n \in Node
    BY GraphsAssumption
  <1>2. g[1][n].class \in Persistable
    BY <1>1 DEF Graph
  <1>3. bson' \in Seq(Element)
    <2>1. "_id" \in Key
      BY NamesAssumption
    <2>2. Pclass(g[1][n].class) \in Element
      BY <1>2, <2>1, WritesElements
    <2> QED BY <2>2 DEF FromPhp
  <1>4. epath' = Alloc /\ PathOK(Alloc) /\ Alloc.size = 0
    <2>1. <<>> \in Seq(Key \cup {NULL}) /\ Len(<<>>) = 0
      BY EmptySeq
    <2> QED BY <2>1 DEF FromPhp, Alloc, PathOK, Path
  <1>5. encoding = "idle" /\ protected = {} /\ protected' = {}
    BY DEF FromPhp, EncodeInv
  <1>6. CASE kind \in {"throws", "badreturn", "type"}
    <2>1. frames' = <<>> /\ encoding' = "done"
      BY <1>6 DEF FromPhp
    <2> QED BY <1>3, <1>4, <1>5, <2>1, EmptySeq DEF EncodeInv
  <1>7. CASE kind \notin {"throws", "badreturn", "type"}
    <2> DEFINE f == Frame(n, addId, kind = "persistable")
    <2>1. frames' = <<f>> /\ encoding' = "running" /\ graph' = g[1]
      BY <1>7 DEF FromPhp
    <2>2. f \in FrameRec
      <3> DEFINE b == kind = "persistable"
      <3>1. b \in BOOLEAN
        OBVIOUS
      <3> HIDE DEF b
      <3>2. Frame(n, addId, b) \in FrameRec
        BY <1>1, <3>1 DEF Frame, FrameRec
      <3> QED BY <3>2 DEF b
    <2> HIDE DEF f
    <2>3. frames' \in Seq(FrameRec) /\ Len(frames') = 1 /\ frames' # <<>>
      BY <2>1, <2>2
    <2>4. Running'
      BY <1>1, <1>4, <1>5, <2>1, <2>3 DEF Running
    <2> QED BY <1>3, <1>4, <2>1, <2>3, <2>4 DEF EncodeInv
  <1> QED BY <1>6, <1>7

LEMMA EncodeStepInv ==
    ASSUME EncodeInv, Encode
    PROVE  EncodeInv'
  <1>1. encoding = "running"
    BY DEF Encode
  <1>2. CASE EncodeEnd
    BY <1>1, <1>2, EncodeEndInv
  <1>3. CASE EncodeField
    BY <1>1, <1>3, SkipInv, FieldInv, EncodeBeginInv DEF EncodeField
  <1> QED BY <1>2, <1>3 DEF Encode

-------------------------------------------------------------------------------
(* Both together *)

LEMMA InitInv == Init => CodecInv
  <1> SUFFICES ASSUME Init
               PROVE  CodecInv
    OBVIOUS
  <1>1. IsSequence(<<>>) /\ Len(<<>>) = 0
    BY EmptySeq, SeqOfRange DEF IsSequence
  <1>2. \A S : <<>> \in Seq(S)
    BY EmptySeq
  <1>3. DecodeInv
    BY <1>1, <1>2 DEF Init, DecodeInit, DecodeInv
  <1>4. PathOK(Alloc) /\ Alloc.size = 0
    BY <1>1, <1>2 DEF Alloc, PathOK, Path
  <1>5. EncodeInv
    BY <1>2, <1>4 DEF Init, EncodeInit, EncodeInv
  <1> QED BY <1>3, <1>5 DEF CodecInv

\* A call of toPHP() that is given a document reads it from its start.
LEMMA ToPhpInv ==
    ASSUME DecodeInv, NEW given, NEW doc \in Seq(Element), NEW readable \in BOOLEAN,
           ToPhp(given, doc, readable), pos = 0
    PROVE  DecodeInv'
  <1>1. decoding = "idle" /\ states = <<>> /\ path = NULL /\ refs = 0 /\ thrown # "unsupported"
    BY EmptySeq DEF ToPhp, DecodeInv
  <1>2. source' = doc /\ pos' = 0 /\ pos' \in 0..Len(source')
    BY LenProperties DEF ToPhp
  <1>3. IsSequence(<<>>) /\ Len(<<>>) = 0
    BY EmptySeq, SeqOfRange DEF IsSequence
  <1>4. CASE states' = <<>> /\ path' = NULL /\ refs' = 0 /\ decoding' = "failed"
             /\ thrown' \in {"typemap", "reader"}
    BY <1>2, <1>3, <1>4 DEF DecodeInv
  <1>5. CASE states' = <<State("document", <<>>)>> /\ path' = Alloc /\ refs' = 1
             /\ decoding' = "visiting" /\ thrown' = thrown
    <2> DEFINE s == State("document", <<>>)
    <2> HIDE DEF s
    <2>1. states' = <<s>>
      BY <1>5 DEF s
    <2>2. <<s>> \in Seq({s}) /\ Len(<<s>>) = 1 /\ <<s>> # <<>>
      OBVIOUS
    <2>3. IsSequence(states') /\ Len(states') = 1 /\ states' # <<>>
      BY <2>1, <2>2, SeqOfRange DEF IsSequence
    <2>4. PathOK(Alloc) /\ Exact(Alloc) /\ Alloc.size = 0 /\ Parents(Alloc) = <<>>
      <3>1. \A S : <<>> \in Seq(S)
        BY EmptySeq
      <3>2. Alloc.elements = <<>> /\ Alloc.size = 0 /\ Alloc \in Path
        BY <3>1 DEF Alloc, Path
      <3>3. SubSeq(<<>>, 1, 0) = <<>>
        BY SubSeqEmpty
      <3> QED BY <1>3, <3>2, <3>3 DEF PathOK, Exact, Parents
    <2> DEFINE f == [i \in 0..0 |-> <<>>]
    <2>5. Traces(f, source', 0) /\ f[0] = <<>>
      <3>1. <<>> \in Seq(Key)
        BY EmptySeq
      <3> QED BY <3>1 DEF Traces
    <2>6. Visiting'
      BY <1>2, <1>5, <2>3, <2>4, <2>5 DEF Visiting
    <2> QED BY <1>1, <1>2, <1>5, <2>3, <2>6 DEF DecodeInv
  <1> QED BY <1>1, <1>4, <1>5 DEF ToPhp

\* Nothing has been read before the first call.
Unread == decoding = "idle" => pos = 0

LEMMA UnreadStep ==
    ASSUME Unread, [Next]_vars
    PROVE  Unread'
  <1>1. CASE UNCHANGED vars
    BY <1>1 DEF Unread, vars, decodeVars
  <1>2. CASE EncodeStart \/ EncodeStep
    BY <1>2 DEF Unread, EncodeStart, EncodeStep, decodeVars
  <1>3. CASE DecodeOwn \/ DecodeOther
    BY <1>3 DEF Unread, DecodeOwn, DecodeOther, ToPhp
  <1>4. CASE Json
    BY <1>4 DEF Unread, Json, FromJson, ToJson
  <1>5. CASE DecodeStep
    <2>1. decoding = "visiting"
      BY <1>5 DEF DecodeStep, Visit
    <2>2. decoding' # "idle"
      BY <1>5, <2>1 DEF DecodeStep, Visit, VisitScalar, VisitBegin, VisitEnd, VisitCorrupt,
                        VisitUnsupported, VisitBadScope, VisitRoot, Stopped
    <2> QED BY <2>2 DEF Unread
  <1> QED BY <1>1, <1>2, <1>3, <1>4, <1>5 DEF Next

LEMMA StepInv ==
    ASSUME CodecInv, Unread, [Next]_vars
    PROVE  CodecInv'
  <1> USE DEF CodecInv
  <1>1. ASSUME UNCHANGED decodeVars
        PROVE  DecodeInv'
    BY <1>1 DEF decodeVars, DecodeInv, Visiting
  <1>2. ASSUME UNCHANGED encodeVars
        PROVE  EncodeInv'
    BY <1>2 DEF encodeVars, EncodeInv, Running
  <1>3. CASE UNCHANGED vars
    BY <1>1, <1>2, <1>3 DEF vars
  <1>4. CASE EncodeStart
    BY <1>1, <1>4, FromPhpInv DEF EncodeStart
  <1>5. CASE EncodeStep
    BY <1>1, <1>5, EncodeStepInv DEF EncodeStep
  <1>6. CASE DecodeOwn
    <2>1. ToPhp(DefaultMap, bson, TRUE) /\ bson \in Seq(Element) /\ pos = 0
      BY <1>6 DEF DecodeOwn, EncodeInv, Unread, ToPhp
    <2> QED BY <1>2, <1>6, <2>1, ToPhpInv DEF DecodeOwn
  <1>7. CASE DecodeOther
    <2>1. PICK given \in Maps, readable \in BOOLEAN : ToPhp(given, <<>>, readable)
      BY <1>7 DEF DecodeOther
    <2>2. <<>> \in Seq(Element) /\ pos = 0
      BY <2>1, EmptySeq DEF Unread, ToPhp
    <2> QED BY <1>2, <1>7, <2>1, <2>2, ToPhpInv DEF DecodeOther
  <1>8. CASE Json
    <2>1. /\ UNCHANGED <<source, pos, path, refs, states, message>> /\ decoding = "idle"
          /\ decoding' # "visiting" /\ thrown' # "unsupported"
      BY <1>8 DEF Json, FromJson, ToJson
    <2>2. DecodeInv'
      BY <2>1 DEF DecodeInv
    <2> QED BY <1>2, <1>8, <2>2 DEF Json
  <1>9. CASE DecodeStep
    BY <1>2, <1>9, VisitInv DEF DecodeStep
  <1> QED BY <1>3, <1>4, <1>5, <1>6, <1>7, <1>8, <1>9 DEF Next

-------------------------------------------------------------------------------
(* What is reached from a set of nodes *)

LEMMA ReachedFacts ==
    ASSUME NEW g, NEW S \in SUBSET Node
    PROVE  /\ Reached(g, S) \in SUBSET Node
           /\ S \subseteq Reached(g, S)
           /\ \A m \in Reached(g, S) : Contained(g, m, FALSE) \subseteq Reached(g, S)
  <1>1. Reached(g, S) \in SUBSET Node /\ S \subseteq Reached(g, S)
    BY DEF Reached
  <1>2. ASSUME NEW m \in Reached(g, S), NEW n \in Contained(g, m, FALSE)
        PROVE  n \in Reached(g, S)
    <2>1. n \in Node
      BY <1>2 DEF Contained
    <2>2. ASSUME NEW T \in SUBSET Node, S \subseteq T,
                 \A k \in T : Contained(g, k, FALSE) \subseteq T
          PROVE  n \in T
      <3>1. m \in T
        BY <1>2, <2>2 DEF Reached
      <3> QED BY <1>2, <2>2, <3>1
    <2> QED BY <2>1, <2>2 DEF Reached
  <1> QED BY <1>1, <1>2

LEMMA ReachedLeast ==
    ASSUME NEW g, NEW S \in SUBSET Node, NEW T \in SUBSET Node, S \subseteq T,
           \A m \in T : Contained(g, m, FALSE) \subseteq T
    PROVE  Reached(g, S) \subseteq T
  BY DEF Reached

LEMMA ContainedNodes ==
    ASSUME NEW g, NEW n, NEW skip
    PROVE  Contained(g, n, skip) \in SUBSET Node
  BY DEF Contained

\* What is reached from several nodes is reached from one of them.
LEMMA ReachedFromOne ==
    ASSUME NEW g, NEW S \in SUBSET Node, NEW m \in Reached(g, S)
    PROVE  \E n \in S : m \in Reached(g, {n})
  <1> DEFINE T == {k \in Node : \E n \in S : k \in Reached(g, {n})}
  <1>1. \A n \in S : {n} \in SUBSET Node
    OBVIOUS
  <1>2. T \in SUBSET Node /\ S \subseteq T
    BY <1>1, ReachedFacts
  <1>3. ASSUME NEW k \in T
        PROVE  Contained(g, k, FALSE) \subseteq T
    <2>1. PICK n \in S : k \in Reached(g, {n})
      BY <1>3
    <2>2. Contained(g, k, FALSE) \subseteq Reached(g, {n})
      BY <1>1, <2>1, ReachedFacts
    <2> QED BY <2>2, ContainedNodes
  <1> HIDE DEF T
  <1>4. m \in T
    BY <1>2, <1>3, ReachedLeast
  <1> QED BY <1>4 DEF T

\* What is reached from a node is the node, or is reached from what it contains.
LEMMA ReachedFromNode ==
    ASSUME NEW g, NEW n \in Node, NEW m \in Reached(g, {n})
    PROVE  m = n \/ m \in Reached(g, Contained(g, n, FALSE))
  <1> DEFINE C == Contained(g, n, FALSE)
             T == {n} \cup Reached(g, C)
  <1>1. C \in SUBSET Node
    BY ContainedNodes
  <1>2. /\ Reached(g, C) \in SUBSET Node /\ C \subseteq Reached(g, C)
        /\ \A k \in Reached(g, C) : Contained(g, k, FALSE) \subseteq Reached(g, C)
    BY <1>1, ReachedFacts
  <1>3. T \in SUBSET Node /\ {n} \subseteq T
    BY <1>2
  <1>4. \A k \in T : Contained(g, k, FALSE) \subseteq T
    BY <1>2
  <1> HIDE DEF T
  <1>5. m \in T
    BY <1>3, <1>4, ReachedLeast
  <1> QED BY <1>5 DEF T

\* No node that is reached from n contains itself.
Safe(g, n) == \A m \in Reached(g, {n}) : m \notin Reached(g, Contained(g, m, FALSE))

\* A node is safe if all that it contains is.
LEMMA SafeUp ==
    ASSUME NEW g, NEW n \in Node, \A c \in Contained(g, n, FALSE) : Safe(g, c)
    PROVE  Safe(g, n)
  <1> DEFINE C == Contained(g, n, FALSE)
  <1>1. C \in SUBSET Node
    BY ContainedNodes
  <1>2. \A m \in Reached(g, C) : m \notin Reached(g, Contained(g, m, FALSE))
    BY <1>1, ReachedFromOne DEF Safe
  <1>3. n \notin Reached(g, C)
    BY <1>2
  <1> QED BY <1>2, <1>3, ReachedFromNode DEF Safe

-------------------------------------------------------------------------------
(* The encoder refuses the values that contain themselves *)

Entered == Contained(graph, root, graph[root].kind = "persistable")

\* The node that field k of call c refers to, if the call writes it.
To(g, c, k) == g[c.node].fields[k].to
Follows(g, c, k) ==
    /\ To(g, c, k) \in Node
    /\ ~(g[c.node].fields[k].key = PrivateKey /\ g[c.node].kind = "object")
    /\ ~(g[c.node].fields[k].key = ODM /\ c.skipOdm)

\* Each call is on the field that the next one is for.
Nested ==
    /\ root \in Node
    /\ frames[1].node = root /\ frames[1].skipOdm = (graph[root].kind = "persistable")
    /\ \A i \in 1..Len(frames) : frames[i].at <= Len(graph[frames[i].node].fields)
    /\ \A i \in 2..Len(frames) :
         /\ frames[i].skipOdm = FALSE
         /\ frames[i - 1].at > 0
         /\ To(graph, frames[i - 1], frames[i - 1].at) = frames[i].node

\* The calls are for nodes that are reached from the root and each from the ones
\* before it.
Chained ==
    \A i \in 2..Len(frames) :
      /\ frames[i].node \in Reached(graph, Entered)
      /\ \A j \in i..Len(frames) : frames[j].node \in Reached(graph, {frames[i].node})

\* Without an exception so far, all that has been left is safe.
LeftSafe ==
    raised = {} =>
      \A i \in 1..Len(frames) : \A k \in 1..frames[i].at :
        Follows(graph, frames[i], k) =>
          Safe(graph, To(graph, frames[i], k)) \/ (i < Len(frames) /\ k = frames[i].at)

SearchInv ==
    /\ encoding = "running" => Nested /\ Chained /\ LeftSafe
    /\ encoding # "idle" /\ "recursion" \in raised => Cyclic
    /\ encoding = "done" /\ raised = {} => ~Cyclic

\* What the node of a call contains, by its fields.
LEMMA FollowsSame ==
    ASSUME NEW g, NEW c, NEW d, c.node = d.node, c.skipOdm = d.skipOdm, NEW k
    PROVE  /\ To(g, c, k) = To(g, d, k)
           /\ Follows(g, c, k) <=> Follows(g, d, k)
  BY DEF Follows, To

LEMMA FollowedIn ==
    ASSUME NEW g \in Graph, NEW c \in FrameRec, NEW m
    PROVE  m \in Contained(g, c.node, c.skipOdm) <=>
             \E k \in 1..Len(g[c.node].fields) : Follows(g, c, k) /\ To(g, c, k) = m
  <1>1. g[c.node].fields \in Seq([key: Key, to: Target])
    BY DEF Graph, FrameRec
  <1>2. DOMAIN g[c.node].fields = 1..Len(g[c.node].fields)
    BY <1>1, LenProperties
  <1> QED BY <1>2 DEF Contained, Follows, To

\* The field that a call is at.
LEMMA FieldFollows ==
    ASSUME EncodeInv, encoding = "running"
    PROVE  /\ To(graph, Current, Current.at + 1) = Field.to
           /\ Follows(graph, Current, Current.at + 1) <=> Field.to \in Node /\ ~Skipped(Field)
  BY DEF To, Follows, Field, Fields, Skipped

\* A step within a call.
LEMMA WithinSearch ==
    ASSUME EncodeInv, SearchInv, encoding = "running",
           NEW r \in FrameRec, r.node = Current.node, r.skipOdm = Current.skipOdm,
           r.at <= Len(Fields),
           frames' = [frames EXCEPT ![Len(frames)] = r],
           UNCHANGED <<graph, root, encoding>>,
           raised' = {} => /\ raised = {} /\ r.at = Current.at + 1
                           /\ Follows(graph, Current, r.at) => Safe(graph, To(graph, Current, r.at)),
           "recursion" \in raised' => Cyclic
    PROVE  SearchInv'
  <1>1. frames \in Seq(FrameRec) /\ Len(frames) \in Nat \ {0} /\ Len(frames) \in 1..Len(frames)
        /\ Current \in FrameRec
    BY CurrentFacts DEF EncodeInv
  <1>2. /\ Len(frames') = Len(frames)
        /\ \A i \in 1..Len(frames) : frames'[i] = IF i = Len(frames) THEN r ELSE frames[i]
    BY <1>1, ExceptSeq
  <1>3. /\ \A i \in 1..Len(frames) : /\ frames'[i].node = frames[i].node
                                     /\ frames'[i].skipOdm = frames[i].skipOdm
        /\ \A i \in 1..Len(frames) : i < Len(frames) => frames'[i] = frames[i]
    <2>1. r.node = frames[Len(frames)].node /\ r.skipOdm = frames[Len(frames)].skipOdm
      BY DEF Current
    <2>2. \A i \in 1..Len(frames) : i < Len(frames) => i # Len(frames)
      BY ONLY <1>1
    <2> QED BY ONLY <1>2, <2>1, <2>2
  <1>4. Nested /\ Chained /\ LeftSafe
    BY DEF SearchInv
  <1>5. \A i \in 2..Len(frames) : /\ i \in 1..Len(frames) /\ i - 1 \in 1..Len(frames)
                                  /\ i - 1 < Len(frames)
    BY <1>1
  <1>6. Nested'
    <2>1. \A i \in 1..Len(frames) : frames'[i].at <= Len(graph[frames'[i].node].fields)
      <3>1. \A i \in 1..Len(frames) : frames[i].at <= Len(graph[frames[i].node].fields)
        BY <1>4 DEF Nested
      <3>2. r.at <= Len(graph[frames[Len(frames)].node].fields)
        BY DEF Fields, Current
      <3> QED BY ONLY <1>2, <1>3, <3>1, <3>2
    <2>2. \A i \in 2..Len(frames) :
            /\ frames'[i].skipOdm = FALSE
            /\ frames'[i - 1].at > 0
            /\ To(graph, frames'[i - 1], frames'[i - 1].at) = frames'[i].node
      BY <1>3, <1>4, <1>5 DEF Nested
    <2>3. /\ root \in Node /\ frames'[1].node = root
          /\ frames'[1].skipOdm = (graph[root].kind = "persistable")
      BY <1>1, <1>3, <1>4 DEF Nested
    <2> QED BY <1>2, <2>1, <2>2, <2>3 DEF Nested
  <1>7. Chained'
    <2>1. \A i \in 2..Len(frames) : \A j \in i..Len(frames) : j \in 1..Len(frames)
      BY <1>1
    <2>2. \A i \in 2..Len(frames) :
            /\ frames'[i].node \in Reached(graph, Entered)
            /\ \A j \in i..Len(frames) : frames'[j].node \in Reached(graph, {frames'[i].node})
      BY <1>3, <1>4, <1>5, <2>1 DEF Chained
    <2>3. Entered' = Entered
      BY DEF Entered
    <2> QED BY <1>2, <2>2, <2>3 DEF Chained
  <1>8. LeftSafe'
    <2> SUFFICES ASSUME raised' = {}, NEW i \in 1..Len(frames), NEW k \in 1..frames'[i].at,
                        Follows(graph, frames'[i], k)
                 PROVE  \/ Safe(graph, To(graph, frames'[i], k))
                        \/ i < Len(frames) /\ k = frames'[i].at
      BY <1>2 DEF LeftSafe
    <2>1. CASE i < Len(frames)
      BY <1>3, <1>4, <2>1 DEF LeftSafe
    <2>2. CASE i = Len(frames)
      <3>1. frames'[i] = r /\ frames[i] = Current /\ r.at = Current.at + 1 /\ Current.at \in Nat
        BY <1>1, <1>2, <2>2 DEF Current, FrameRec
      <3>2. Follows(graph, Current, k) /\ To(graph, frames'[i], k) = To(graph, Current, k)
        BY <3>1, FollowsSame
      <3>3. CASE k = r.at
        BY <3>2, <3>3
      <3>4. CASE k # r.at
        <4>1. k \in 1..Current.at
          BY <3>1, <3>4
        <4> QED BY <1>4, <2>2, <3>1, <3>2, <4>1 DEF LeftSafe
      <3> QED BY <3>3, <3>4
    <2> QED BY <1>1, <2>1, <2>2
  <1>9. Cyclic' <=> Cyclic
    BY DEF Cyclic
  <1> QED BY <1>6, <1>7, <1>8, <1>9 DEF SearchInv

\* The frame after a field.
LEMMA AdvancedFrame ==
    ASSUME EncodeInv, encoding = "running", Current.at < Len(Fields)
    PROVE  \E r \in FrameRec : /\ r.node = Current.node /\ r.skipOdm = Current.skipOdm
                               /\ r.at = Current.at + 1
                               /\ Advanced(Field) = [frames EXCEPT ![Len(frames)] = r]
  <1> DEFINE n == Current.at + 1
             b == Current.addId /\ Field.key # "_id"
             r == [Current EXCEPT !.at = n, !.addId = b]
  <1>1. Current \in FrameRec /\ n \in Nat /\ b \in BOOLEAN
    BY CurrentFacts DEF FrameRec
  <1>2. r \in FrameRec /\ r.node = Current.node /\ r.skipOdm = Current.skipOdm /\ r.at = n
    <2> HIDE DEF b, n
    <2> QED BY <1>1 DEF FrameRec
  <1>3. frames \in Seq(FrameRec) /\ Len(frames) \in 1..Len(frames)
    BY CurrentFacts DEF EncodeInv
  <1>4. Advanced(Field) = [frames EXCEPT ![Len(frames)] = r]
    BY <1>3, LenProperties DEF Advanced, Current
  <1> QED BY <1>2, <1>4

LEMMA SkipSearch ==
    ASSUME EncodeInv, SearchInv, encoding = "running", Current.at < Len(Fields),
           EncodeSkip \/ EncodeNullByte,
           UNCHANGED <<graph, root, encoding>>
    PROVE  SearchInv'
  <1>1. Current \in FrameRec /\ Len(Fields) \in Nat /\ Current.at \in Nat
    BY CurrentFacts DEF FrameRec
  <1>2. frames \in Seq(FrameRec) /\ Len(frames) \in 1..Len(frames)
    BY CurrentFacts DEF EncodeInv
  <1>3. "recursion" \in raised => Cyclic
    BY DEF SearchInv
  <1>4. CASE EncodeSkip
    <2> DEFINE n == Current.at + 1
               r == [Current EXCEPT !.at = n]
    <2>1. frames' = [frames EXCEPT ![Len(frames)] = r]
      BY <1>2, <1>4, LenProperties DEF EncodeSkip, Current
    <2>2. n \in Nat /\ n <= Len(Fields)
      BY <1>1
    <2>3. raised' = raised /\ ~Follows(graph, Current, n)
      BY <1>4, FieldFollows DEF EncodeSkip
    <2>4. r \in FrameRec /\ r.node = Current.node /\ r.skipOdm = Current.skipOdm /\ r.at = n
      <3> HIDE DEF n
      <3> QED BY <1>1, <2>2 DEF FrameRec
    <2> HIDE DEF r
    <2> QED BY <1>3, <2>1, <2>2, <2>3, <2>4, WithinSearch
  <1>5. CASE EncodeNullByte
    <2> DEFINE n == Len(Fields)
               r == [Current EXCEPT !.at = n, !.addId = FALSE]
    <2>1. frames' = [frames EXCEPT ![Len(frames)] = r]
      BY <1>2, <1>5, LenProperties DEF EncodeNullByte, Current
    <2>2. n \in Nat /\ n <= Len(Fields)
      BY <1>1
    <2>3. raised' # {} /\ ("recursion" \in raised' => "recursion" \in raised)
      BY <1>5 DEF EncodeNullByte
    <2>4. r \in FrameRec /\ r.node = Current.node /\ r.skipOdm = Current.skipOdm /\ r.at = n
      <3> HIDE DEF n
      <3> QED BY <1>1, <2>2 DEF FrameRec
    <2> HIDE DEF r
    <2> QED BY <1>3, <2>1, <2>2, <2>3, <2>4, WithinSearch
  <1> QED BY <1>4, <1>5

\* A field that refers to a node that is being encoded closes a cycle.
LEMMA RecursionIsCyclic ==
    ASSUME EncodeInv, SearchInv, encoding = "running", Current.at < Len(Fields),
           EncodeRecursion
    PROVE  Cyclic
  <1> DEFINE t == Field.to
             x == Current.node
  <1>1. Running /\ Nested /\ Chained /\ Len(frames) \in Nat \ {0} /\ Current \in FrameRec
    BY CurrentFacts DEF EncodeInv, SearchInv
  <1>2. PICK j \in 2..Len(frames) : t = frames[j].node
    BY <1>1 DEF Running, EncodeRecursion
  <1>3. Len(frames) \in 2..Len(frames) /\ Len(frames) \in j..Len(frames) /\ j \in 1..Len(frames)
    BY <1>1, <1>2
  <1>4. x \in Reached(graph, {t}) /\ t \in Reached(graph, Entered)
    BY <1>1, <1>2, <1>3 DEF Chained, Current
  <1>5. t \in Node /\ {t} \in SUBSET Node
    <2>1. frames[j] \in FrameRec
      BY <1>3, ElementOfSeq DEF EncodeInv
    <2> QED BY <1>2, <2>1 DEF FrameRec
  <1>6. t \in Contained(graph, x, FALSE)
    <2>1. Current.at + 1 \in 1..Len(graph[Current.node].fields) /\ Current.skipOdm = FALSE
      <3>1. Current.at \in Nat /\ Len(Fields) \in Nat
        BY CurrentFacts DEF FrameRec
      <3>2. Current.skipOdm = FALSE
        BY <1>1, <1>3 DEF Nested, Current
      <3> QED BY <3>1, <3>2 DEF Fields
    <2>2. Follows(graph, Current, Current.at + 1) /\ To(graph, Current, Current.at + 1) = t
      BY <1>5, FieldFollows DEF EncodeRecursion
    <2>3. graph \in Graph
      BY <1>1 DEF Running
    <2>4. t \in Contained(graph, Current.node, Current.skipOdm)
      BY <1>1, <2>1, <2>2, <2>3, FollowedIn
    <2> QED BY <2>1, <2>4
  <1> HIDE DEF t, x
  <1> DEFINE C == Contained(graph, t, FALSE)
  <1>7. /\ C \subseteq Reached(graph, C)
        /\ \A m \in Reached(graph, C) : Contained(graph, m, FALSE) \subseteq Reached(graph, C)
    BY ContainedNodes, ReachedFacts
  <1>8. x = t \/ x \in Reached(graph, C)
    BY <1>4, <1>5, ReachedFromNode
  <1>9. t \in Reached(graph, C)
    BY <1>6, <1>7, <1>8
  <1> QED BY <1>4, <1>9 DEF Cyclic, Entered

LEMMA FieldSearch ==
    ASSUME EncodeInv, SearchInv, encoding = "running", Current.at < Len(Fields),
           EncodeScalar \/ EncodeRecursion \/ EncodeLeftOut,
           UNCHANGED <<graph, root, encoding>>
    PROVE  SearchInv'
  <1>1. PICK r \in FrameRec : /\ r.node = Current.node /\ r.skipOdm = Current.skipOdm
                              /\ r.at = Current.at + 1
                              /\ frames' = [frames EXCEPT ![Len(frames)] = r]
    BY AdvancedFrame DEF EncodeScalar, EncodeRecursion, EncodeLeftOut
  <1>2. r.at <= Len(Fields)
    BY <1>1, CurrentFacts DEF FrameRec
  <1>3. "recursion" \in raised => Cyclic
    BY DEF SearchInv
  <1>4. CASE EncodeScalar
    <2>1. ~Follows(graph, Current, r.at)
      BY <1>1, <1>4, FieldFollows DEF EncodeScalar
    <2>2. (raised' = {} => raised = {}) /\ ("recursion" \in raised' => "recursion" \in raised)
      BY <1>4 DEF EncodeScalar, Unwritable
    <2> QED BY <1>1, <1>2, <1>3, <2>1, <2>2, WithinSearch
  <1>5. CASE EncodeRecursion
    <2>1. raised' # {}
      BY <1>5 DEF EncodeRecursion
    <2> QED BY <1>1, <1>2, <1>5, <2>1, RecursionIsCyclic, WithinSearch
  <1>6. CASE EncodeLeftOut
    <2>1. graph \in Graph /\ Field.to \in Node
      BY <1>6 DEF EncodeInv, Running, EncodeLeftOut
    <2>2. graph[Field.to].kind # "recursion"
      BY <2>1 DEF Graph
    <2>3. raised' # {} /\ ("recursion" \in raised' => "recursion" \in raised)
      BY <1>6, <2>2 DEF EncodeLeftOut
    <2> QED BY <1>1, <1>2, <1>3, <2>3, WithinSearch
  <1> QED BY <1>4, <1>5, <1>6

LEMMA BeginSearch ==
    ASSUME EncodeInv, SearchInv, encoding = "running", Current.at < Len(Fields), EncodeBegin,
           UNCHANGED <<graph, root, encoding>>
    PROVE  SearchInv'
  <1> DEFINE n == Field.to
             L == Len(frames)
             s == Advanced(Field)
             f == Frame(n, FALSE, FALSE)
  <1>1. /\ L \in Nat \ {0} /\ L \in 1..L /\ frames \in Seq(FrameRec) /\ Current \in FrameRec
        /\ graph \in Graph /\ Current = frames[L]
    BY CurrentFacts DEF EncodeInv, Running, Current
  <1>2. Nested /\ Chained /\ LeftSafe /\ ("recursion" \in raised => Cyclic)
    BY DEF SearchInv
  <1>3. PICK r \in FrameRec : /\ r.node = Current.node /\ r.skipOdm = Current.skipOdm
                              /\ r.at = Current.at + 1
                              /\ s = [frames EXCEPT ![L] = r]
    BY AdvancedFrame
  <1>4. /\ Len(s) = L /\ s \in Seq(FrameRec)
        /\ \A i \in 1..L : s[i] = IF i = L THEN r ELSE frames[i]
    BY <1>1, <1>3, ExceptSeq
  <1>5. n \in Node /\ f \in FrameRec /\ f.node = n /\ f.at = 0 /\ f.skipOdm = FALSE
    BY DEF EncodeBegin, Frame, FrameRec
  <1>6. frames' = Append(s, f) /\ raised' = raised
    BY DEF EncodeBegin
  <1>7. /\ To(graph, Current, r.at) = n /\ Follows(graph, Current, r.at)
        /\ Current.at \in Nat /\ r.at \in 1..Len(graph[Current.node].fields)
    <2>1. To(graph, Current, r.at) = n /\ Follows(graph, Current, r.at)
      BY <1>3, <1>5, FieldFollows DEF EncodeBegin
    <2>2. Current.at \in Nat /\ Len(Fields) \in Nat
      BY CurrentFacts DEF FrameRec
    <2> QED BY <1>3, <2>1, <2>2 DEF Fields
  <1>8. n \in Contained(graph, Current.node, Current.skipOdm)
    BY <1>1, <1>7, FollowedIn
  <1> HIDE DEF s, f, n
  <1>9. /\ Len(frames') = L + 1
        /\ \A i \in 1..L : frames'[i] = s[i]
        /\ frames'[L + 1] = f
    <2>1. /\ Len(Append(s, f)) = Len(s) + 1
          /\ \A i \in 1..Len(s) : Append(s, f)[i] = s[i]
          /\ Append(s, f)[Len(s) + 1] = f
      BY <1>4, <1>5, AppendProperties
    <2> QED BY <1>4, <1>6, <2>1
  <1>10. /\ \A i \in 1..L : /\ frames'[i].node = frames[i].node
                            /\ frames'[i].skipOdm = frames[i].skipOdm
         /\ \A i \in 1..L : i < L => frames'[i] = frames[i]
         /\ frames'[L] = r
    <2>1. \A i \in 1..L : i < L => i # L
      BY ONLY <1>1
    <2> QED BY ONLY <1>1, <1>3, <1>4, <1>9, <2>1
  <1>11. /\ \A i : i \in 1..(L + 1) <=> i \in 1..L \/ i = L + 1
         /\ \A i : i \in 2..(L + 1) <=> i \in 2..L \/ i = L + 1
         /\ \A i \in 2..L : i \in 1..L /\ i - 1 \in 1..L /\ i - 1 < L
         /\ (L + 1) - 1 = L /\ 1 \in 1..L /\ L < L + 1
    BY ONLY <1>1
  <1>12. Nested'
    <2>1. \A i \in 1..L : frames'[i].at <= Len(graph[frames'[i].node].fields)
      <3>1. \A i \in 1..L : frames[i].at <= Len(graph[frames[i].node].fields)
        BY <1>2 DEF Nested
      <3>2. r.at <= Len(graph[r.node].fields)
        BY <1>3, <1>7
      <3> QED BY ONLY <1>1, <1>4, <1>9, <3>1, <3>2
    <2>2. f.at <= Len(graph[f.node].fields)
      <3>1. graph[n].fields \in Seq([key: Key, to: Target])
        BY <1>1, <1>5 DEF Graph
      <3> QED BY <1>5, <3>1, LenProperties
    <2>3. \A i \in 2..L :
            /\ frames'[i].skipOdm = FALSE
            /\ frames'[i - 1].at > 0
            /\ To(graph, frames'[i - 1], frames'[i - 1].at) = frames'[i].node
      BY <1>2, <1>10, <1>11 DEF Nested
    <2>4. f.skipOdm = FALSE /\ r.at > 0 /\ To(graph, r, r.at) = f.node
      BY <1>3, <1>5, <1>7, FollowsSame
    <2>5. /\ root \in Node /\ frames'[1].node = root
          /\ frames'[1].skipOdm = (graph[root].kind = "persistable")
      BY <1>2, <1>10, <1>11 DEF Nested
    <2>6. \A i \in 1..(L + 1) : frames'[i].at <= Len(graph[frames'[i].node].fields)
      BY ONLY <1>9, <1>11, <2>1, <2>2
    <2>7. \A i \in 2..(L + 1) :
            /\ frames'[i].skipOdm = FALSE
            /\ frames'[i - 1].at > 0
            /\ To(graph, frames'[i - 1], frames'[i - 1].at) = frames'[i].node
      BY ONLY <1>9, <1>10, <1>11, <2>3, <2>4
    <2> QED BY <1>9, <2>5, <2>6, <2>7 DEF Nested
  <1>13. Chained'
    <2>1. Entered' = Entered /\ Entered \in SUBSET Node
      BY ContainedNodes DEF Entered
    <2>2. /\ \A i \in 2..L : frames'[i].node \in Reached(graph, Entered)
          /\ \A i \in 2..L : \A j \in i..L : frames'[j].node \in Reached(graph, {frames'[i].node})
      <3>1. \A i \in 2..L : \A j \in i..L : j \in 1..L
        BY ONLY <1>1
      <3> QED BY <1>2, <1>10, <1>11, <3>1 DEF Chained
    <2>3. n \in Reached(graph, Entered)
      <3>1. CASE L = 1
        <4>1. Current.node = root /\ Current.skipOdm = (graph[root].kind = "persistable")
          BY <1>1, <1>2, <3>1 DEF Nested
        <4>2. n \in Entered
          BY ONLY <1>8, <4>1 DEF Entered
        <4> QED BY <2>1, <4>2, ReachedFacts
      <3>2. CASE L # 1
        <4>1. L \in 2..L
          <5>1. L \in Nat \ {0}
            BY <1>1
          <5> HIDE DEF L
          <5> QED BY <3>2, <5>1
        <4>2. Current.skipOdm = FALSE /\ Current.node \in Reached(graph, Entered)
          BY <1>1, <1>2, <4>1 DEF Nested, Chained
        <4> QED BY <1>8, <2>1, <4>2, ReachedFacts
      <3> QED BY <3>1, <3>2
    <2>4. \A i \in 2..L : n \in Reached(graph, {frames'[i].node})
      <3> SUFFICES ASSUME NEW i \in 2..L
                   PROVE  n \in Reached(graph, {frames[i].node})
        BY <1>10, <1>11
      <3>1. L \in 2..L /\ L \in i..L /\ i \in 1..L
        BY <1>1
      <3>2. Current.skipOdm = FALSE /\ Current.node \in Reached(graph, {frames[i].node})
        BY <1>1, <1>2, <3>1 DEF Nested, Chained
      <3>3. {frames[i].node} \in SUBSET Node
        <4>1. frames[i] \in FrameRec
          BY <1>1, <3>1, ElementOfSeq
        <4> QED BY <4>1 DEF FrameRec
      <3> QED BY <1>8, <3>2, <3>3, ReachedFacts
    <2>5. n \in Reached(graph, {n})
      <3>1. {n} \in SUBSET Node
        BY <1>5
      <3> QED BY <3>1, ReachedFacts
    <2>6. \A i \in 2..(L + 1) :
            /\ frames'[i].node \in Reached(graph, Entered)
            /\ \A j \in i..(L + 1) : frames'[j].node \in Reached(graph, {frames'[i].node})
      <3>1. /\ \A i \in 2..L : \A j : j \in i..(L + 1) <=> j \in i..L \/ j = L + 1
            /\ \A j \in (L + 1)..(L + 1) : j = L + 1
        BY ONLY <1>1
      <3>2. frames'[L + 1].node = n
        BY ONLY <1>5, <1>9
      <3> QED BY ONLY <1>11, <2>2, <2>3, <2>4, <2>5, <3>1, <3>2
    <2> QED BY <1>9, <2>1, <2>6 DEF Chained
  <1>14. LeftSafe'
    <2> SUFFICES ASSUME raised' = {}, NEW i \in 1..(L + 1), NEW k \in 1..frames'[i].at,
                        Follows(graph, frames'[i], k)
                 PROVE  \/ Safe(graph, To(graph, frames'[i], k))
                        \/ i < L + 1 /\ k = frames'[i].at
      BY <1>9 DEF LeftSafe
    <2>1. CASE i = L + 1
      <3>1. frames'[i].at = 0
        BY <1>5, <1>9, <2>1
      <3> QED BY <3>1
    <2>2. CASE i = L /\ k # r.at
      <3>1. k \in 1..Current.at /\ k # Current.at + 1
        BY <1>3, <1>7, <1>10, <2>2
      <3>2. Follows(graph, Current, k) /\ To(graph, frames'[i], k) = To(graph, Current, k)
        BY <1>3, <1>10, <2>2, FollowsSame
      <3> QED BY <1>1, <1>2, <1>6, <2>2, <3>1, <3>2 DEF LeftSafe
    <2>3. CASE i = L /\ k = r.at
      BY <1>1, <1>10, <2>3
    <2>4. CASE i \in 1..L /\ i # L
      <3>1. i < L /\ frames'[i] = frames[i] /\ i < L + 1
        BY <1>1, <1>10, <2>4
      <3> QED BY <1>2, <1>6, <2>4, <3>1 DEF LeftSafe
    <2> QED BY <1>11, <2>1, <2>2, <2>3, <2>4
  <1>15. Cyclic' <=> Cyclic
    BY DEF Cyclic
  <1> QED BY <1>2, <1>6, <1>12, <1>13, <1>14, <1>15 DEF SearchInv

LEMMA EndSearch ==
    ASSUME EncodeInv, SearchInv, encoding = "running", EncodeEnd
    PROVE  SearchInv'
  <1> DEFINE L == Len(frames)
             c == Current
  <1>1. /\ L \in Nat \ {0} /\ L \in 1..L /\ frames \in Seq(FrameRec) /\ c \in FrameRec
        /\ graph \in Graph /\ c = frames[L] /\ frames # <<>>
    BY CurrentFacts DEF EncodeInv, Running, Current
  <1>2. Nested /\ Chained /\ LeftSafe /\ ("recursion" \in raised => Cyclic)
    BY DEF SearchInv
  <1>3. /\ Len(frames') = L - 1
        /\ \A i \in 1..(L - 1) : frames'[i] = frames[i]
    BY <1>1, FrontFacts DEF EncodeEnd
  <1>4. UNCHANGED <<graph, root, raised>> /\ c.at = Len(graph[c.node].fields)
    BY DEF EncodeEnd, Fields
  <1>5. raised = {} => \A m \in Contained(graph, c.node, c.skipOdm) : Safe(graph, m)
    <2> SUFFICES ASSUME raised = {}, NEW m \in Contained(graph, c.node, c.skipOdm)
                 PROVE  Safe(graph, m)
      OBVIOUS
    <2>1. \E k \in 1..Len(graph[c.node].fields) : Follows(graph, c, k) /\ To(graph, c, k) = m
      <3> HIDE DEF c
      <3> QED BY <1>1, FollowedIn
    <2>2. PICK k \in 1..c.at : Follows(graph, c, k) /\ To(graph, c, k) = m
      BY ONLY <1>4, <2>1
    <2> QED BY <1>1, <1>2, <2>2 DEF LeftSafe
  <1>6. (Cyclic' <=> Cyclic) /\ Entered' = Entered
    BY <1>4 DEF Cyclic, Entered
  <1> HIDE DEF c
  <1>7. CASE L = 1
    <2>1. encoding' = "done"
      BY <1>7 DEF EncodeEnd
    <2>2. raised = {} => ~Cyclic
      <3> SUFFICES ASSUME raised = {}, NEW n \in Reached(graph, Entered)
                   PROVE  n \notin Reached(graph, Contained(graph, n, FALSE))
        BY DEF Cyclic, Entered
      <3>1. c.node = root /\ c.skipOdm = (graph[root].kind = "persistable")
        BY <1>1, <1>2, <1>7 DEF Nested
      <3>2. \A m \in Entered : Safe(graph, m)
        BY <1>5, <3>1 DEF Entered
      <3>3. Entered \in SUBSET Node
        BY ContainedNodes DEF Entered
      <3>4. PICK m \in Entered : n \in Reached(graph, {m})
        BY <3>3, ReachedFromOne
      <3> QED BY <3>2, <3>4 DEF Safe
    <2> QED BY <1>2, <1>4, <1>6, <2>1, <2>2 DEF SearchInv
  <1>8. CASE L # 1
    <2>1. encoding' = "running" /\ L \in 2..L /\ L - 1 \in 1..(L - 1) /\ L - 1 \in Nat \ {0}
      <3>1. encoding' = "running"
        BY <1>8 DEF EncodeEnd
      <3>2. \A m \in Nat \ {0} : m # 1 => m \in 2..m /\ m - 1 \in 1..(m - 1) /\ m - 1 \in Nat \ {0}
        OBVIOUS
      <3> QED BY ONLY <1>1, <1>8, <3>1, <3>2
    <2>2. /\ \A i \in 1..(L - 1) : i \in 1..L /\ i < L
          /\ \A i \in 2..(L - 1) : i \in 2..L /\ i \in 1..(L - 1) /\ i - 1 \in 1..(L - 1)
          /\ \A i \in 2..(L - 1) : \A j \in i..(L - 1) : j \in i..L /\ j \in 1..(L - 1)
          /\ 1 \in 1..(L - 1)
      BY ONLY <2>1
    <2>3. Nested'
      <3>1. \A i \in 1..(L - 1) : frames'[i].at <= Len(graph[frames'[i].node].fields)
        BY <1>2, <1>3, <2>2 DEF Nested
      <3>2. \A i \in 2..(L - 1) :
              /\ frames'[i].skipOdm = FALSE
              /\ frames'[i - 1].at > 0
              /\ To(graph, frames'[i - 1], frames'[i - 1].at) = frames'[i].node
        BY <1>2, <1>3, <2>2 DEF Nested
      <3>3. /\ root \in Node /\ frames'[1].node = root
            /\ frames'[1].skipOdm = (graph[root].kind = "persistable")
        BY <1>2, <1>3, <2>2 DEF Nested
      <3> QED BY <1>3, <1>4, <3>1, <3>2, <3>3 DEF Nested
    <2>4. Chained'
      <3>1. \A i \in 2..(L - 1) :
              /\ frames'[i].node \in Reached(graph, Entered)
              /\ \A j \in i..(L - 1) : frames'[j].node \in Reached(graph, {frames'[i].node})
        BY <1>2, <1>3, <2>2 DEF Chained
      <3> QED BY <1>3, <1>4, <1>6, <3>1 DEF Chained
    <2>5. LeftSafe'
      <3> SUFFICES ASSUME raised = {}, NEW i \in 1..(L - 1), NEW k \in 1..frames[i].at,
                          Follows(graph, frames[i], k)
                   PROVE  \/ Safe(graph, To(graph, frames[i], k))
                          \/ i < L - 1 /\ k = frames[i].at
        BY <1>3, <1>4 DEF LeftSafe
      <3>1. Safe(graph, To(graph, frames[i], k)) \/ k = frames[i].at
        BY <1>2, <2>2 DEF LeftSafe
      <3>2. CASE i = L - 1 /\ k = frames[i].at
        <4>1. To(graph, frames[i], k) = c.node /\ c.skipOdm = FALSE
          BY <1>1, <1>2, <2>1, <3>2 DEF Nested
        <4>2. c.node \in Node
          BY <1>1 DEF FrameRec
        <4> QED BY <1>5, <4>1, <4>2, SafeUp
      <3>3. i = L - 1 \/ i < L - 1
        BY <2>1
      <3> QED BY <3>1, <3>2, <3>3
    <2> QED BY <1>2, <1>4, <1>6, <2>1, <2>3, <2>4, <2>5 DEF SearchInv
  <1> QED BY <1>7, <1>8

LEMMA FromPhpSearch ==
    ASSUME NEW g \in Graphs, NEW addId \in BOOLEAN, FromPhp(g, addId)
    PROVE  SearchInv'
  <1> DEFINE kind == g[1][g[2]].kind
  <1>1. g[1] \in Graph /\ g[2] \in Node /\ graph' = g[1] /\ root' = g[2]
    BY GraphsAssumption DEF FromPhp
  <1>2. CASE kind \in {"throws", "badreturn", "type"}
    <2>1. encoding' = "done" /\ raised' = {kind}
      BY <1>2 DEF FromPhp
    <2> QED BY <1>2, <2>1 DEF SearchInv
  <1>3. CASE kind \notin {"throws", "badreturn", "type"}
    <2> DEFINE f == Frame(g[2], addId, kind = "persistable")
    <2>1. frames' = <<f>> /\ encoding' = "running" /\ raised' = {}
      BY <1>3 DEF FromPhp
    <2>2. f.node = g[2] /\ f.at = 0 /\ f.skipOdm = (kind = "persistable")
      BY DEF Frame
    <2>3. Len(g[1][g[2]].fields) \in Nat
      <3>1. g[1][g[2]].fields \in Seq([key: Key, to: Target])
        BY <1>1 DEF Graph
      <3> QED BY <3>1, LenProperties
    <2> HIDE DEF f
    <2>4. Len(frames') = 1 /\ frames'[1] = f
      BY <2>1
    <2>5. \A i : (i \in 1..1 <=> i = 1) /\ i \notin 2..1
      OBVIOUS
    <2>6. Nested'
      <3>1. \A i \in 1..1 : frames'[i].at <= Len(g[1][frames'[i].node].fields)
        BY <2>2, <2>3, <2>4, <2>5
      <3>2. frames'[1].node = root' /\ frames'[1].skipOdm = (graph'[root'].kind = "persistable")
        BY <1>1, <2>2, <2>4
      <3> QED BY <1>1, <2>4, <2>5, <3>1, <3>2 DEF Nested
    <2>7. Chained'
      BY <2>4, <2>5 DEF Chained
    <2>8. LeftSafe'
      <3>1. \A i \in 1..1 : \A k \in 1..frames'[i].at : FALSE
        BY <2>2, <2>4, <2>5
      <3> QED BY <2>4, <3>1 DEF LeftSafe
    <2> QED BY <2>1, <2>6, <2>7, <2>8 DEF SearchInv
  <1> QED BY <1>2, <1>3

LEMMA SearchStep ==
    ASSUME CodecInv, SearchInv, [Next]_vars
    PROVE  SearchInv'
  <1>1. CASE UNCHANGED encodeVars
    <2>1. (Nested' <=> Nested) /\ (Chained' <=> Chained) /\ (LeftSafe' <=> LeftSafe)
      BY <1>1 DEF encodeVars, Nested, Chained, LeftSafe, Entered
    <2>2. Cyclic' <=> Cyclic
      BY <1>1 DEF encodeVars, Cyclic
    <2> QED BY <1>1, <2>1, <2>2 DEF encodeVars, SearchInv
  <1>2. CASE EncodeStart
    BY <1>2, FromPhpSearch DEF EncodeStart
  <1>3. CASE EncodeStep
    <2>1. EncodeInv /\ encoding = "running"
      BY <1>3 DEF EncodeStep, Encode, CodecInv
    <2>2. CASE EncodeEnd
      BY <2>1, <2>2, EndSearch
    <2>3. CASE EncodeField
      BY <2>1, <2>3, SkipSearch, FieldSearch, BeginSearch DEF EncodeField
    <2> QED BY <1>3, <2>2, <2>3 DEF EncodeStep, Encode
  <1>4. Next => UNCHANGED encodeVars \/ EncodeStart \/ EncodeStep
    BY DEF Next, DecodeOwn, DecodeOther, Json, DecodeStep
  <1> QED BY <1>1, <1>2, <1>3, <1>4 DEF vars

-------------------------------------------------------------------------------
(* Theorems *)

\* What the encoder and the decoder keep up, for any graph, document and depth.
THEOREM Invariant == Spec => []CodecInv
  <1>1. Init => Unread
    BY DEF Init, DecodeInit, Unread
  <1>2. Unread /\ [Next]_vars => Unread'
    BY UnreadStep
  <1>3. CodecInv /\ Unread /\ [Next]_vars => CodecInv'
    BY StepInv
  <1> QED BY <1>1, <1>2, <1>3, InitInv, PTL DEF Spec

\* The field path that the decoder's states share has one reference for each
\* of them, and is freed with the last, whatever stops the decoder and at
\* whatever depth (bson_state_copy_ctor and _dtor).
THEOREM PathsAreOwned == Spec => []PathOwned
  <1>1. ASSUME CodecInv
        PROVE  PathOwned
    <2>1. IsSequence(states) /\ refs = Len(states)
      BY <1>1 DEF CodecInv, DecodeInv
    <2>2. Len(states) = 0 <=> states = <<>>
      BY <2>1, SequenceFacts
    <2>3. decoding = "visiting" => states # <<>> /\ path \in Path
      BY <1>1 DEF CodecInv, DecodeInv, Visiting, PathOK
    <2>4. decoding # "visiting" => states = <<>> /\ path = NULL
      BY <1>1 DEF CodecInv, DecodeInv
    <2>5. NULL \notin Path
      BY KeyAssumption
    <2> QED BY <2>1, <2>2, <2>3, <2>4, <2>5 DEF PathOwned
  <1> QED BY <1>1, Invariant, PTL

\* While a document is visited the field path is that of the place visited, for
\* any nesting and any growth of the allocation, and the report of an element
\* that is not supported names that element (field_path_push, _pop, _as_string).
THEOREM FieldPathsAreExact == Spec => []FieldPathExact
  <1>1. ASSUME CodecInv
        PROVE  FieldPathExact
    <2>1. pos \in Nat
      BY <1>1, LenProperties DEF CodecInv, DecodeInv
    <2>2. ASSUME decoding = "visiting"
          PROVE  /\ Parents(path) = Enclosing(pos)
                 /\ \A i \in DOMAIN path.elements : i > path.size + 1 => path.elements[i] = NULL
      <3>1. Visiting
        BY <1>1, <2>2 DEF CodecInv, DecodeInv
      <3>2. PICK f : Traces(f, source, pos) /\ f[pos] = Parents(path)
        BY <3>1 DEF Visiting
      <3>3. Enclosing(pos) = f[pos]
        BY <2>1, <3>2, EnclosingIs
      <3>4. DOMAIN path.elements = 1..Len(path.elements)
        BY <3>1, LenProperties DEF Visiting, PathOK, Path
      <3> QED BY <3>1, <3>2, <3>3, <3>4 DEF Visiting, Exact
    <2>3. ASSUME thrown = "unsupported"
          PROVE  message = Append(Enclosing(pos), source[pos].key)
      <3>1. PICK f : Traces(f, source, pos) /\ message = Append(f[pos], source[pos].key)
        BY <1>1, <2>3 DEF CodecInv, DecodeInv
      <3> QED BY <2>1, <3>1, EnclosingIs
    <2> QED BY <2>2, <2>3 DEF FieldPathExact
  <1> QED BY <1>1, Invariant, PTL

\* However the encoder ends, with exceptions on the way or without, it has taken
\* every mark off again and its path is back at the top.
THEOREM MarksAreTakenOff == Spec => []NothingMarked
  <1>1. CodecInv => NothingMarked
    BY DEF CodecInv, EncodeInv, NothingMarked
  <1> QED BY <1>1, Invariant, PTL

\* The encoder refuses a value for recursion exactly when it contains itself, for
\* graphs of any size and shape, with parts shared in any way, although it keeps
\* no record of what it has left, and leaves no marks (apply_protection_begin
\* and _end).
THEOREM RecursionIsDetected == Spec => []RecursionDetected
  <1>1. Init => SearchInv
    BY DEF Init, EncodeInit, SearchInv
  <1>2. CodecInv /\ SearchInv /\ [Next]_vars => SearchInv'
    BY SearchStep
  <1>3. Spec => []SearchInv
    BY <1>1, <1>2, Invariant, PTL DEF Spec
  <1>4. SearchInv /\ NothingMarked => RecursionDetected
    <2> SUFFICES ASSUME SearchInv, NothingMarked, encoding = "done", raised \subseteq {"recursion"}
                 PROVE  raised # {} <=> Cyclic
      BY DEF RecursionDetected
    <2>1. raised # {} => "recursion" \in raised
      OBVIOUS
    <2> QED BY <2>1 DEF SearchInv
  <1> QED BY <1>3, <1>4, MarksAreTakenOff, PTL

================================================================================
