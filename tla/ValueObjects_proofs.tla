-------------------------- MODULE ValueObjects_proofs --------------------------
(***************************************************************************)
(* Proofs about the value objects, for integers of any width and for texts, *)
(* tag sets and arrays of any size: whatever calls an object has been        *)
(* through, it holds a value that its class accepts, and that value is read  *)
(* back from every form in which it is written.                             *)
(***************************************************************************)
EXTENDS ValueObjects, FiniteSetTheorems, SequenceTheorems, WellFoundedInduction, TLAPS

-------------------------------------------------------------------------------
(* Induction over the prefixes of a text *)

LEMMA LeastOf ==
    ASSUME NEW T \in SUBSET Nat, T # {}
    PROVE  \E x \in T : \A y \in T : x <= y
  <1>1. PICK x \in T : \A y \in T : ~(<<y, x>> \in OpToRel(<, Nat))
    BY WFMin, NatLessThanWellFounded
  <1>2. ASSUME NEW y \in T, y < x
        PROVE  FALSE
    <2>1. y \in Nat /\ x \in Nat
      OBVIOUS
    <2>2. <<y, x>> \in OpToRel(<, Nat)
      BY <1>2, <2>1 DEF OpToRel
    <2> QED BY <1>1, <2>2
  <1>3. \A y \in T : x <= y
    BY <1>2
  <1> QED BY <1>3

LEMMA PrefixInduction ==
    ASSUME NEW L \in Nat, NEW G \in SUBSET (0..L), 0 \in G,
           \A n \in 1..L : n - 1 \in G => n \in G
    PROVE  G = 0..L
  <1> DEFINE T == (0..L) \ G
  <1> SUFFICES ASSUME T # {}
               PROVE  FALSE
    OBVIOUS
  <1>1. PICK x \in T : \A y \in T : x <= y
    <2>1. T \in SUBSET Nat
      OBVIOUS
    <2> HIDE DEF T
    <2> QED BY <2>1, LeastOf
  <1>2. x \in 1..L
    OBVIOUS
  <1> QED BY <1>1, <1>2

LEMMA NextUpTo ==
    ASSUME NEW L \in Nat, NEW c \in 0 .. L, c # L
    PROVE  c + 1 \in 1 .. L
  OBVIOUS

LEMMA NotBelow ==
    ASSUME NEW a \in Nat, NEW b \in Nat, NEW c \in Nat, a >= b, b > c
    PROVE  ~(a <= c)
  OBVIOUS

-------------------------------------------------------------------------------
(* Texts *)

LEMMA TextFacts ==
    ASSUME NEW t \in Seq(Nat)
    PROVE  /\ Len(t) \in Nat /\ DOMAIN t = 1..Len(t)
           /\ \A i \in 1..Len(t) : t[i] \in Nat
           /\ t = [i \in 1..Len(t) |-> t[i]]
  BY LenProperties, ElementOfSeq

\* CString keeps what comes before the first null byte.
LEMMA CStringFacts ==
    ASSUME NEW t \in Seq(Nat)
    PROVE  /\ CString(t) \in Seq(Nat) /\ NulFree(CString(t))
           /\ NulFree(t) => CString(t) = t
  <1> DEFINE L == Len(t)
             Ends(n) == NulFree(SubSeq(t, 1, n)) /\ (n = L \/ t[n + 1] = Nul)
             c == CHOOSE n \in 0 .. L : Ends(n)
             T == {n \in 0 .. L : n = L \/ t[n + 1] = Nul}
  <1>1. L \in Nat /\ DOMAIN t = 1..L /\ \A i \in 1..L : t[i] \in Nat
    BY TextFacts
  <1>2. \A n \in 0 .. L : /\ SubSeq(t, 1, n) \in Seq(Nat) /\ DOMAIN SubSeq(t, 1, n) = 1..n
                          /\ \A i \in 1..n : SubSeq(t, 1, n)[i] = t[i]
    <2> TAKE n \in 0 .. L
    <2>1. /\ n \in Nat /\ SubSeq(t, 1, n) = [i \in 1..n |-> t[i]]
          /\ \A i \in 1..n : i \in 1..L
      BY <1>1
    <2>2. \A i \in 1..n : t[i] \in Nat
      BY <1>1, <2>1
    <2>3. [i \in 1..n |-> t[i]] \in Seq(Nat)
      BY <2>1, <2>2
    <2> QED BY <2>1, <2>3
  <1>3. \E n \in 0 .. L : Ends(n)
    <2>1. PICK n \in 0 .. L : n \in T /\ \A m \in T : n <= m
      <3>1. T \in SUBSET Nat /\ L \in T /\ T \in SUBSET (0 .. L)
        BY <1>1
      <3> HIDE DEF T
      <3>2. \E n \in T : \A m \in T : n <= m
        BY <3>1, LeastOf
      <3> QED BY <3>1, <3>2
    <2>2. \A i \in 1..n : t[i] # Nul
      <3> SUFFICES ASSUME NEW i \in 1..n, t[i] = Nul
                   PROVE  FALSE
        OBVIOUS
      <3>1. i - 1 \in 0 .. L /\ (i - 1) + 1 = i /\ ~(n <= i - 1)
        BY <1>1
      <3>2. i - 1 \in T
        BY <3>1
      <3> HIDE DEF T
      <3> QED BY ONLY <2>1, <3>1, <3>2
    <2>3. NulFree(SubSeq(t, 1, n))
      BY <1>2, <2>1, <2>2 DEF NulFree
    <2> QED BY <2>1, <2>3
  <1>4. CString(t) = SubSeq(t, 1, c)
    BY DEF CString
  <1>5. c \in 0 .. L /\ Ends(c)
    BY <1>3
  <1> HIDE DEF c
  <1>6. CString(t) \in Seq(Nat) /\ NulFree(CString(t))
    BY <1>2, <1>4, <1>5
  <1>7. ASSUME NulFree(t)
        PROVE  CString(t) = t
    <2>1. c = L
      <3>1. CASE c # L
        <4>1. t[c + 1] = Nul
          BY <1>5, <3>1
        <4>2. c \in 0 .. L
          BY <1>5
        <4>3. c + 1 \in 1..L
          BY <1>1, <3>1, <4>2, NextUpTo
        <4> QED BY <1>1, <1>7, <4>1, <4>3 DEF NulFree
      <3> QED BY <3>1
    <2>2. SubSeq(t, 1, L) = t
      <3>1. L \in 0 .. L
        BY <1>1
      <3>2. /\ SubSeq(t, 1, L) = [i \in DOMAIN SubSeq(t, 1, L) |-> SubSeq(t, 1, L)[i]]
            /\ DOMAIN SubSeq(t, 1, L) = 1..L
            /\ \A i \in 1..L : SubSeq(t, 1, L)[i] = t[i]
        <4>1. SubSeq(t, 1, L) \in Seq(Nat)
          BY <1>2, <3>1
        <4>2. SubSeq(t, 1, L) = [i \in 1..Len(SubSeq(t, 1, L)) |-> SubSeq(t, 1, L)[i]]
          BY <4>1, TextFacts
        <4>3. DOMAIN SubSeq(t, 1, L) = 1..Len(SubSeq(t, 1, L))
          BY <4>1, TextFacts
        <4> QED BY <1>2, <3>1, <4>2, <4>3
      <3>3. t = [i \in 1..L |-> t[i]]
        BY TextFacts
      <3> QED BY ONLY <3>2, <3>3
    <2> QED BY <1>4, <2>1, <2>2
  <1> QED BY <1>6, <1>7

\* The positions 1..n in the order of their characters.
Arranges(p, t, n) ==
    /\ p \in [1..n -> 1..n]
    /\ \A i, j \in 1..n : p[i] = p[j] => i = j
    /\ \A i, j \in 1..n : i < j => t[p[i]] <= t[p[j]]

LEMMA Arranged ==
    ASSUME NEW t \in Seq(Nat)
    PROVE  \E p : Arranges(p, t, Len(t))
  <1> DEFINE L == Len(t)
             G == {n \in 0..L : \E p : Arranges(p, t, n)}
  <1>1. L \in Nat /\ \A i \in 1..L : t[i] \in Nat
    BY TextFacts
  <1>2. 0 \in G
    <2>1. Arranges([i \in 1..0 |-> i], t, 0)
      BY DEF Arranges
    <2> QED BY <1>1, <2>1
  <1>3. ASSUME NEW n \in 1..L, n - 1 \in G
        PROVE  n \in G
    <2>1. PICK p : Arranges(p, t, n - 1)
      BY <1>3
    <2>2. /\ p \in [1..(n - 1) -> 1..(n - 1)]
          /\ \A i, j \in 1..(n - 1) : p[i] = p[j] => i = j
          /\ \A i, j \in 1..(n - 1) : i < j => t[p[i]] <= t[p[j]]
      BY <2>1 DEF Arranges
    <2>3. /\ n \in Nat /\ t[n] \in Nat
          /\ \A i \in 1..(n - 1) : p[i] \in 1..(n - 1) /\ p[i] # n /\ t[p[i]] \in Nat
      <3>1. \A j \in 1..(n - 1) : j \in 1..L /\ j # n
        BY <1>1
      <3>2. \A i \in 1..(n - 1) : p[i] \in 1..(n - 1)
        BY <2>2
      <3> QED BY <1>1, <3>1, <3>2
    <2> DEFINE T == {k \in 1..n : k = n \/ t[p[k]] > t[n]}
    <2>4. PICK k \in T : \A m \in T : k <= m
      <3>1. T \in SUBSET Nat /\ n \in T
        BY <1>1
      <3> HIDE DEF T
      <3> QED BY <3>1, LeastOf
    <2>5. k \in 1..n /\ (k = n \/ t[p[k]] > t[n])
      BY <2>4
    <2>6. \A i \in 1..(k - 1) : i \in 1..(n - 1) /\ t[p[i]] <= t[n]
      <3> TAKE i \in 1..(k - 1)
      <3>1. i \in 1..n /\ i # n /\ i \in 1..(n - 1) /\ i < k
        BY <1>1, <2>5
      <3>2. i \notin T
        BY <2>4, <3>1
      <3> QED BY <2>3, <3>1, <3>2
    <2>7. \A i \in k..(n - 1) : i \in 1..(n - 1) /\ t[n] <= t[p[i]]
      <3> TAKE i \in k..(n - 1)
      <3>1. i \in 1..(n - 1) /\ k \in 1..(n - 1) /\ k <= i
        BY <1>1, <2>5
      <3>2. t[p[k]] > t[n]
        BY <2>5, <3>1
      <3>3. t[p[k]] \in Nat /\ t[p[i]] \in Nat /\ t[n] \in Nat
        BY <2>3, <3>1
      <3>4. CASE k = i
        BY ONLY <3>1, <3>2, <3>3, <3>4
      <3>5. CASE k < i
        <4>1. t[p[k]] <= t[p[i]]
          BY <2>2, <3>1, <3>5
        <4> QED BY ONLY <3>1, <3>2, <3>3, <4>1
      <3> QED BY <3>1, <3>4, <3>5
    <2> DEFINE q == [i \in 1..n |-> IF i < k THEN p[i] ELSE IF i = k THEN n ELSE p[i - 1]]
    <2>8. \A i \in 1..n : /\ i < k => i \in 1..(k - 1) /\ i \in 1..(n - 1) /\ q[i] = p[i]
                          /\ i = k => q[i] = n
                          /\ i > k => i - 1 \in k..(n - 1) /\ i - 1 \in 1..(n - 1) /\ q[i] = p[i - 1]
      BY <2>3, <2>5
    <2>9. q \in [1..n -> 1..n]
      BY <2>3, <2>5, <2>8
    <2> HIDE DEF q, T
    <2>10. ASSUME NEW i \in 1..n, NEW j \in 1..n, i < j
           PROVE  t[q[i]] <= t[q[j]] /\ q[i] # q[j]
      <3>1. CASE j < k
        <4>1. i < k /\ i \in 1..(n - 1) /\ j \in 1..(n - 1) /\ q[i] = p[i] /\ q[j] = p[j]
          BY <2>5, <2>8, <2>10, <3>1
        <4> QED BY <2>2, <2>10, <4>1
      <3>2. CASE j = k
        <4>1. i < k /\ i \in 1..(k - 1) /\ q[i] = p[i] /\ q[j] = n
          BY <2>5, <2>8, <2>10, <3>2
        <4> QED BY <2>3, <2>6, <4>1
      <3>3. CASE j > k /\ i < k
        <4>1. /\ i \in 1..(k - 1) /\ i \in 1..(n - 1) /\ q[i] = p[i]
              /\ j - 1 \in 1..(n - 1) /\ q[j] = p[j - 1] /\ i < j - 1
          BY <2>5, <2>8, <2>10, <3>3
        <4> QED BY <2>2, <4>1
      <3>4. CASE j > k /\ i = k
        <4>1. q[i] = n /\ j - 1 \in k..(n - 1) /\ q[j] = p[j - 1]
          BY <2>8, <3>4
        <4> QED BY <2>3, <2>7, <4>1
      <3>5. CASE j > k /\ i > k
        <4>1. /\ i - 1 \in 1..(n - 1) /\ q[i] = p[i - 1]
              /\ j - 1 \in 1..(n - 1) /\ q[j] = p[j - 1] /\ i - 1 < j - 1
          BY <2>5, <2>8, <2>10, <3>5
        <4> QED BY <2>2, <4>1
      <3> QED BY <2>5, <3>1, <3>2, <3>3, <3>4, <3>5
    <2>11. \A i, j \in 1..n : q[i] = q[j] => i = j
      <3> SUFFICES ASSUME NEW i \in 1..n, NEW j \in 1..n, q[i] = q[j], i # j
                   PROVE  FALSE
        OBVIOUS
      <3>1. i < j \/ j < i
        OBVIOUS
      <3> QED BY <2>10, <3>1
    <2>12. Arranges(q, t, n)
      BY <2>9, <2>10, <2>11 DEF Arranges
    <2> QED BY <1>1, <2>12
  <1>4. G = 0..L
    <2> HIDE DEF G
    <2>1. G \in SUBSET (0..L)
      BY DEF G
    <2> QED BY <1>1, <1>2, <1>3, <2>1, PrefixInduction
  <1> QED BY <1>1, <1>4

LEMMA SortedFacts ==
    ASSUME NEW t \in Seq(Nat)
    PROVE  \E p : /\ Arranges(p, t, Len(t))
                  /\ Sorted(t) = [i \in 1..Len(t) |-> t[p[i]]]
                  /\ Sorted(t) \in Seq(Nat) /\ InOrder(Sorted(t))
                  /\ NulFree(t) => NulFree(Sorted(t))
  <1> DEFINE L == Len(t)
             p == CHOOSE q \in [DOMAIN t -> DOMAIN t] : Sorts(q, t)
  <1>1. L \in Nat /\ DOMAIN t = 1..L /\ \A i \in 1..L : t[i] \in Nat
    BY TextFacts
  <1>2. \A q \in [1..L -> 1..L] : Sorts(q, t) <=> Arranges(q, t, L)
    BY <1>1 DEF Sorts, Arranges, InOrder
  <1>3. \E q \in [DOMAIN t -> DOMAIN t] : Sorts(q, t)
    <2>1. PICK q : Arranges(q, t, L)
      BY Arranged
    <2>2. q \in [1..L -> 1..L]
      BY <2>1 DEF Arranges
    <2> QED BY <1>1, <1>2, <2>1, <2>2
  <1>4. p \in [1..L -> 1..L] /\ Sorts(p, t)
    BY <1>1, <1>3
  <1>5. Arranges(p, t, L)
    BY <1>2, <1>4
  <1>6. Sorted(t) = [i \in 1..L |-> t[p[i]]]
    BY <1>1 DEF Sorted
  <1> HIDE DEF p
  <1>7. \A i \in 1..L : p[i] \in 1..L /\ t[p[i]] \in Nat
    BY <1>1, <1>4
  <1>8. Sorted(t) \in Seq(Nat)
    BY <1>1, <1>6, <1>7
  <1>9. InOrder(Sorted(t))
    BY <1>1, <1>4, <1>6 DEF Sorts
  <1>10. NulFree(t) => NulFree(Sorted(t))
    BY <1>1, <1>6, <1>7 DEF NulFree
  <1> QED BY <1>5, <1>6, <1>8, <1>9, <1>10

\* A text in order stays as it is.
LEMMA SortedAgain ==
    ASSUME NEW t \in Seq(Nat), InOrder(t)
    PROVE  Sorted(t) = t
  <1> DEFINE L == Len(t)
  <1>1. /\ L \in Nat /\ DOMAIN t = 1..L /\ t = [i \in 1..L |-> t[i]]
        /\ \A i \in 1..L : t[i] \in Nat
    BY TextFacts
  <1>2. \A i, j \in 1..L : i < j => t[i] <= t[j]
    BY <1>1 DEF InOrder
  <1>3. PICK p : Arranges(p, t, L) /\ Sorted(t) = [i \in 1..L |-> t[p[i]]]
    BY SortedFacts
  <1>4. /\ p \in [1..L -> 1..L]
        /\ \A i, j \in 1..L : p[i] = p[j] => i = j
        /\ \A i, j \in 1..L : i < j => t[p[i]] <= t[p[j]]
    BY <1>3 DEF Arranges
  <1>5. ASSUME NEW i \in 1..L
        PROVE  t[p[i]] = t[i]
    <2>1. p[i] \in 1..L /\ t[i] \in Nat /\ t[p[i]] \in Nat
      BY <1>1, <1>4
    <2>2. CASE t[p[i]] < t[i]
      <3> DEFINE f == [m \in 1..i |-> p[m]]
      <3>1. \A m \in 1..i : p[m] \in 1..(i - 1)
        <4> TAKE m \in 1..i
        <4>1. m \in 1..L /\ p[m] \in 1..L /\ t[p[m]] \in Nat
          BY <1>1, <1>4
        <4>2. t[p[m]] <= t[p[i]]
          BY <1>4, <2>1, <4>1
        <4>3. ~(p[m] >= i)
          <5>1. p[m] >= i => t[i] <= t[p[m]]
            BY <1>2, <2>1, <4>1
          <5> QED BY <2>1, <2>2, <4>1, <4>2, <5>1
        <4> QED BY <4>1, <4>3
      <3>2. f \in [1..i -> 1..(i - 1)]
        BY <3>1
      <3>3. /\ IsFiniteSet(1..i) /\ IsFiniteSet(1..(i - 1))
            /\ Cardinality(1..i) = i /\ Cardinality(1..(i - 1)) = i - 1
        BY FS_Interval
      <3>4. \E x, y \in 1..i : x # y /\ f[x] = f[y]
        <4> HIDE DEF f
        <4>1. Cardinality(1..(i - 1)) < Cardinality(1..i)
          BY <3>3
        <4> QED BY <3>2, <3>3, <4>1, FS_PigeonHole
      <3> QED BY <1>4, <3>4
    <2>3. CASE t[p[i]] > t[i]
      <3> DEFINE f == [m \in i..L |-> p[m]]
      <3>1. \A m \in i..L : p[m] \in (i + 1)..L
        <4> TAKE m \in i..L
        <4>1. m \in 1..L /\ p[m] \in 1..L /\ t[p[m]] \in Nat
          BY <1>1, <1>4
        <4>2. t[p[m]] >= t[p[i]]
          BY <1>4, <2>1, <4>1
        <4>3. ~(p[m] <= i)
          <5>1. CASE p[m] = i
            BY ONLY <2>1, <2>3, <4>1, <4>2, <5>1
          <5>2. CASE p[m] < i
            <6>1. t[p[m]] <= t[i]
              BY <1>2, <4>1, <5>2
            <6> HIDE DEF f
            <6> QED BY <2>1, <2>3, <4>1, <4>2, <6>1, NotBelow
          <5> QED BY <4>1, <5>1, <5>2
        <4> QED BY <4>1, <4>3
      <3>2. f \in [i..L -> (i + 1)..L]
        BY <3>1
      <3>3. /\ IsFiniteSet(i..L) /\ IsFiniteSet((i + 1)..L)
            /\ Cardinality(i..L) = L - i + 1 /\ Cardinality((i + 1)..L) = L - i
        <4>1. i \in Int /\ L \in Int /\ i + 1 \in Int /\ i <= L
          BY <1>1
        <4>2. IsFiniteSet(i..L) /\ Cardinality(i..L) = L - i + 1
          BY <4>1, FS_Interval
        <4>3. IsFiniteSet((i + 1)..L) /\ Cardinality((i + 1)..L) = L - i
          BY <4>1, FS_Interval
        <4> QED BY <4>2, <4>3
      <3>4. \E x, y \in i..L : x # y /\ f[x] = f[y]
        <4> HIDE DEF f
        <4>1. Cardinality((i + 1)..L) < Cardinality(i..L)
          BY <1>1, <3>3
        <4> QED BY <3>2, <3>3, <4>1, FS_PigeonHole
      <3> QED BY <1>4, <3>4
    <2> QED BY <2>1, <2>2, <2>3
  <1> QED BY <1>1, <1>3, <1>5

-------------------------------------------------------------------------------
(* The values of each class *)

NulFrees == {t \in Seq(Nat) : NulFree(t)}
InOrders == {t \in NulFrees : InOrder(t)}
Flags == [bool : BOOLEAN] \cup {NULL}
Tags == ([string : Int] \cup [text : Names]) \ {Majority}
Ws == [int : -3 .. Int32Max] \cup [tag : Tags]

TimestampValues == [increment : 0 .. Uint32Max, timestamp : 0 .. Uint32Max]
UTCDateTimeValues == [milliseconds : Int64s]
Int64Values == [integer : Int64s]
BinaryValues ==
    {v \in [data : Names, type : 0 .. Uint8Max] : v.type \in UuidTypes => v.data \in UuidSized}
ObjectIdValues == {v \in [oid : DOMAIN OidOf] : OidOf[v.oid] = v.oid}
Decimal128Values == {v \in [dec : DOMAIN DecimalOf] : DecimalOf[v.dec] = v.dec}
RegexValues == [pattern : NulFrees, flags : InOrders]
JavascriptValues == [code : NulFrees, scope : Documents \cup {NULL}]
SymbolValues == [symbol : NulFrees]
DBPointerValues == [ref : NulFrees, id : DOMAIN OidOf]
WriteConcernValues ==
    {v \in [w : Ws, j : BOOLEAN \cup {NULL}, wtimeout : 0 .. Int64Max] :
       v.j = TRUE => v.w \notin UnacknowledgedW}
ReadPreferenceValues ==
    {v \in [mode : ModeNames, tags : Seq(Documents),
            maxStaleness : {NoStaleness} \cup (MinStaleness .. Int32Max), hedge : Documents] :
       v.mode = "primary" => v = NewReadPreference("primary")}
ReadConcernValues == [level : NulFrees \cup {NULL}]
ServerApiValues == [version : {Version1}, strict : Flags, deprecationErrors : Flags]
CursorIdValues == [id : Int64s]

Values(class) ==
    CASE class = "Timestamp" -> TimestampValues
      [] class = "UTCDateTime" -> UTCDateTimeValues
      [] class = "Binary" -> BinaryValues
      [] class = "Int64" -> Int64Values
      [] class = "ObjectId" -> ObjectIdValues
      [] class = "Decimal128" -> Decimal128Values
      [] class = "Regex" -> RegexValues
      [] class = "Javascript" -> JavascriptValues
      [] class = "Symbol" -> SymbolValues
      [] class = "DBPointer" -> DBPointerValues
      [] class = "WriteConcern" -> WriteConcernValues
      [] class = "ReadPreference" -> ReadPreferenceValues
      [] class = "ReadConcern" -> ReadConcernValues
      [] class = "ServerApi" -> ServerApiValues
      [] class = "CursorId" -> CursorIdValues

\* An object of these classes never is without a value.
AlwaysHolding == BsonClasses \ {"Decimal128"}

Holds(class, v) == v \in Values(class) \/ (v = NULL /\ class \notin AlwaysHolding)

\* What a call must come to on an object that holds old.
Sound(class, old, outcome) ==
    /\ outcome.result \in {"done", "thrown", "aborted"}
    /\ outcome.result = "done" => outcome.native \in Values(class)
    /\ outcome.result = "thrown" /\ Holds(class, old) => Holds(class, outcome.native)

LEMMA SoundForms ==
    ASSUME NEW class, NEW old
    PROVE  /\ Sound(class, old, Thrown(old))
           /\ \A v \in Values(class) : Sound(class, old, Done(v))
           /\ \A v : Sound(class, old, Aborted(v))
  BY DEF Sound, Thrown, Done, Aborted

LEMMA ValuesOf ==
    /\ Values("Timestamp") = TimestampValues
    /\ Values("UTCDateTime") = UTCDateTimeValues
    /\ Values("Binary") = BinaryValues
    /\ Values("Int64") = Int64Values
    /\ Values("ObjectId") = ObjectIdValues
    /\ Values("Decimal128") = Decimal128Values
    /\ Values("Regex") = RegexValues
    /\ Values("Javascript") = JavascriptValues
    /\ Values("Symbol") = SymbolValues
    /\ Values("DBPointer") = DBPointerValues
    /\ Values("WriteConcern") = WriteConcernValues
    /\ Values("ReadPreference") = ReadPreferenceValues
    /\ Values("ReadConcern") = ReadConcernValues
    /\ Values("ServerApi") = ServerApiValues
    /\ Values("CursorId") = CursorIdValues
  BY DEF Values

LEMMA ValuesAreValid ==
    ASSUME NEW class \in Classes, NEW v \in Values(class)
    PROVE  Valid(class, v)
  <1>1. CASE class = "Timestamp"
    <2>1. v \in TimestampValues
      BY <1>1, ValuesOf
    <2>2. {v.increment, v.timestamp} \subseteq 0 .. Uint32Max
      BY <2>1 DEF TimestampValues
    <2> QED BY ONLY <1>1, <2>2 DEF Valid
  <1>2. CASE class = "UTCDateTime"
    <2>1. v \in UTCDateTimeValues
      BY <1>2, ValuesOf
    <2>2. v.milliseconds \in Int64s
      BY <2>1 DEF UTCDateTimeValues
    <2> QED BY ONLY <1>2, <2>2 DEF Valid
  <1>3. CASE class = "Binary"
    <2>1. v \in BinaryValues
      BY <1>3, ValuesOf
    <2>2. v.type \in 0 .. Uint8Max /\ (v.type \in UuidTypes => v.data \in UuidSized)
      BY <2>1 DEF BinaryValues
    <2> QED BY ONLY <1>3, <2>2 DEF Valid
  <1>4. CASE class = "Int64"
    <2>1. v \in Int64Values
      BY <1>4, ValuesOf
    <2>2. \A field \in DOMAIN v : v[field] \in Int64s
      BY <2>1 DEF Int64Values
    <2> QED BY ONLY <1>4, <2>2 DEF Valid
  <1>5. CASE class = "ObjectId"
    <2>1. v \in ObjectIdValues
      BY <1>5, ValuesOf
    <2>2. v.oid \in DOMAIN OidOf /\ OidOf[v.oid] = v.oid
      BY <2>1 DEF ObjectIdValues
    <2> QED BY ONLY <1>5, <2>2 DEF Valid
  <1>6. CASE class = "Decimal128"
    <2>1. v \in Decimal128Values
      BY <1>6, ValuesOf
    <2>2. v.dec \in DOMAIN DecimalOf /\ DecimalOf[v.dec] = v.dec
      BY <2>1 DEF Decimal128Values
    <2> QED BY ONLY <1>6, <2>2 DEF Valid
  <1>7. CASE class = "Regex"
    <2>1. v \in RegexValues
      BY <1>7, ValuesOf
    <2>2. NulFree(v.pattern) /\ NulFree(v.flags) /\ InOrder(v.flags)
      BY <2>1 DEF RegexValues, NulFrees, InOrders
    <2> QED BY ONLY <1>7, <2>2 DEF Valid
  <1>8. CASE class = "Javascript"
    <2>1. v \in JavascriptValues
      BY <1>8, ValuesOf
    <2>2. NulFree(v.code)
      BY <2>1 DEF JavascriptValues, NulFrees
    <2> QED BY ONLY <1>8, <2>2 DEF Valid
  <1>9. CASE class = "Symbol"
    <2>1. v \in SymbolValues
      BY <1>9, ValuesOf
    <2>2. NulFree(v.symbol)
      BY <2>1 DEF SymbolValues, NulFrees
    <2> QED BY ONLY <1>9, <2>2 DEF Valid
  <1>10. CASE class = "DBPointer"
    <2>1. v \in DBPointerValues
      BY <1>10, ValuesOf
    <2>2. NulFree(v.ref) /\ v.id \in DOMAIN OidOf
      BY <2>1 DEF DBPointerValues, NulFrees
    <2> QED BY ONLY <1>10, <2>2 DEF Valid
  <1>11. CASE class = "WriteConcern"
    <2>1. v \in WriteConcernValues
      BY <1>11, ValuesOf
    <2>2. /\ v.wtimeout \in 0 .. Int64Max /\ v.w \in Ws
          /\ v.j = TRUE => v.w \notin UnacknowledgedW
      BY <2>1 DEF WriteConcernValues
    <2>3. "int" \in DOMAIN v.w => v.w.int \in -3 .. Int32Max
      BY <2>2 DEF Ws
    <2> QED BY ONLY <1>11, <2>2, <2>3 DEF Valid
  <1>12. CASE class = "ReadPreference"
    <2>1. v \in ReadPreferenceValues
      BY <1>12, ValuesOf
    <2>2. v.maxStaleness \in {NoStaleness} \cup (MinStaleness .. Int32Max)
      BY <2>1 DEF ReadPreferenceValues
    <2>3. v.mode = "primary" => /\ v.tags = <<>> /\ v.hedge = NoDocument
                                /\ v.maxStaleness = NoStaleness
      BY <2>1 DEF ReadPreferenceValues, NewReadPreference
    <2> QED BY ONLY <1>12, <2>2, <2>3 DEF Valid
  <1>13. CASE class = "ReadConcern"
    <2>1. v \in ReadConcernValues
      BY <1>13, ValuesOf
    <2>2. v.level # NULL => NulFree(v.level)
      BY <2>1 DEF ReadConcernValues, NulFrees
    <2> QED BY ONLY <1>13, <2>2 DEF Valid
  <1>14. CASE class = "ServerApi"
    <2>1. v \in ServerApiValues
      BY <1>14, ValuesOf
    <2>2. v.version = Version1
      BY <2>1 DEF ServerApiValues
    <2> QED BY ONLY <1>14, <2>2 DEF Valid
  <1>15. CASE class = "CursorId"
    <2>1. v \in CursorIdValues
      BY <1>15, ValuesOf
    <2>2. \A field \in DOMAIN v : v[field] \in Int64s
      BY <2>1 DEF CursorIdValues
    <2> QED BY ONLY <1>15, <2>2 DEF Valid
  <1> QED BY <1>1, <1>2, <1>3, <1>4, <1>5, <1>6, <1>7, <1>8, <1>9, <1>10, <1>11, <1>12,
             <1>13, <1>14, <1>15 DEF Classes, BsonClasses, SettingClasses

-------------------------------------------------------------------------------
(* What PHP gives *)

AreFields(class, h) == \A k \in DOMAIN h : IsZval(class, h[k])

LEMMA FieldFacts ==
    ASSUME NEW class, NEW h, AreFields(class, h), NEW key
    PROVE  /\ IsZval(class, Field(h, key))
           /\ Field(h, key) # NULL => key \in DOMAIN h /\ h[key] = Field(h, key)
  BY DEF AreFields, Field, IsZval

LEMMA ArgFacts ==
    ASSUME NEW class \in Classes \ {"ReadPreference"}, NEW args, AreArgs(class, args)
    PROVE  /\ Len(args) \in Nat /\ DOMAIN args = 1 .. Len(args)
           /\ \A i \in 1 .. Len(args) : IsZval(class, args[i])
           /\ class # "ReadConcern" => IsZval(class, args[1])
           /\ class \in {"Timestamp", "Binary"} => IsZval(class, args[2])
  BY DEF AreArgs, IsList

LEMMA LongFacts ==
    ASSUME NEW class, NEW z, IsZval(class, z)
    PROVE  /\ Is("long", z) => z.long \in Int64s
           /\ Is("string", z) => z.string \in Int
           /\ Is("double", z) => z.double \in Int
           /\ Is("date", z) => z.date \in Time
           /\ Is("now", z) => z.now \in Time
           /\ ParsesAsInt64(z) => z.string \in Int64s
  BY DEF IsZval, Is, ParsesAsInt64, Int64s

LEMMA CharFacts ==
    ASSUME NEW class, NEW z, IsZval(class, z), Is("text", z)
    PROVE  /\ class \in CharClasses => z.text \in Seq(Nat)
           /\ class \notin CharClasses => z.text \in Names
  BY DEF IsZval, Is

-------------------------------------------------------------------------------
(* Numbers *)

LEMMA WidthFacts ==
    /\ Int32Max \in Nat /\ Int32Max > 0 /\ Int64Max \in Nat
    /\ Uint32Max = 2 * Int32Max + 1 /\ Int64Max > Uint32Max /\ Int64Max > Int32Max
  BY WidthAssumption DEF Uint32Max

LEMMA WrappedFacts ==
    ASSUME NEW n \in Int, NEW max \in Nat
    PROVE  /\ Wrapped(n, max) \in -max - 1 .. max
           /\ n \in -max - 1 .. max => Wrapped(n, max) = n
  <1>1. Wrapped(n, max) \in -max - 1 .. max
    BY DEF Wrapped
  <1>2. n \in -max - 1 .. max => Wrapped(n, max) = n
    BY DEF Wrapped
  <1> QED BY <1>1, <1>2

LEMMA QuotientFacts ==
    ASSUME NEW n \in Int, NEW d \in Nat \ {0}
    PROVE  /\ Quotient(n, d) \in Int /\ Remainder(n, d) \in Int
           /\ Quotient(n * d, d) = n
           /\ Quotient(n, d) * d + Remainder(n, d) = n
  <1>1. \A m \in Nat : m \div d \in Nat
    OBVIOUS
  <1>2. -n \in Int /\ (n >= 0 \/ -n \in Nat)
    OBVIOUS
  <1>3. Quotient(n, d) \in Int
    BY <1>1, <1>2 DEF Quotient
  <1>4. \A q \in Int : d * q \in Int /\ q * d = d * q
    OBVIOUS
  <1>5. Remainder(n, d) \in Int
    BY <1>3, <1>4 DEF Remainder
  <1>6. Quotient(n, d) * d + Remainder(n, d) = n
    BY <1>3, <1>4 DEF Remainder
  <1>7. \A m \in Nat : (m * d) \div d = m
    OBVIOUS
  <1>8. CASE n >= 0
    <2>1. n \in Nat /\ n * d >= 0
      BY <1>8
    <2> QED BY <1>3, <1>5, <1>6, <1>7, <2>1 DEF Quotient
  <1>9. CASE n < 0
    <2>1. -n \in Nat /\ -(n * d) = (-n) * d /\ ~(n * d >= 0)
      BY <1>9
    <2>2. (-(n * d)) \div d = -n
      BY <1>7, <2>1
    <2>3. Quotient(n * d, d) = n
      BY <2>1, <2>2 DEF Quotient
    <2> QED BY <1>3, <1>5, <1>6, <2>3
  <1> QED BY <1>8, <1>9

-------------------------------------------------------------------------------
(* The numeric classes, from arguments and from arrays *)

LEMMA TimestampInitSound ==
    ASSUME NEW old, NEW i \in Int, NEW t \in Int
    PROVE  Sound("Timestamp", old, TimestampInit(old, i, t))
  <1>1. CASE {i, t} \subseteq 0 .. Uint32Max
    <2>1. [increment |-> i, timestamp |-> t] \in Values("Timestamp")
      BY <1>1, ValuesOf DEF TimestampValues
    <2> QED BY <1>1, <2>1, SoundForms DEF TimestampInit
  <1>2. CASE ~({i, t} \subseteq 0 .. Uint32Max)
    BY <1>2, SoundForms DEF TimestampInit
  <1> QED BY <1>1, <1>2

LEMMA TimestampFromStringSound ==
    ASSUME NEW old, NEW i, NEW t
    PROVE  Sound("Timestamp", old, TimestampFromString(old, i, t))
  <1>1. CASE ParsesAsInt64(i) /\ ParsesAsInt64(t)
    <2>1. i.string \in Int /\ t.string \in Int
      BY <1>1, WidthFacts DEF ParsesAsInt64
    <2> QED BY <1>1, <2>1, TimestampInitSound DEF TimestampFromString
  <1>2. CASE ~(ParsesAsInt64(i) /\ ParsesAsInt64(t))
    BY <1>2, SoundForms DEF TimestampFromString
  <1> QED BY <1>1, <1>2

LEMMA LongIsInt ==
    Int64s \subseteq Int
  BY WidthFacts DEF Int64s

LEMMA TimestampSound ==
    ASSUME NEW old
    PROVE  /\ \A args : AreArgs("Timestamp", args) =>
                Sound("Timestamp", old, TimestampConstruct(old, args))
           /\ \A h : AreFields("Timestamp", h) =>
                Sound("Timestamp", old, TimestampFromHash(old, h))
  <1>1. ASSUME NEW args, AreArgs("Timestamp", args)
        PROVE  Sound("Timestamp", old, TimestampConstruct(old, args))
    <2>1. IsZval("Timestamp", args[1]) /\ IsZval("Timestamp", args[2])
      BY <1>1, ArgFacts DEF Classes, BsonClasses
    <2>2. CASE Is("long", args[1]) /\ Is("long", args[2])
      <3>1. args[1].long \in Int /\ args[2].long \in Int
        BY <2>1, <2>2, LongFacts, LongIsInt
      <3> QED BY <2>2, <3>1, TimestampInitSound DEF TimestampConstruct
    <2>3. CASE ~(Is("long", args[1]) /\ Is("long", args[2]))
      BY <2>3, TimestampFromStringSound, SoundForms DEF TimestampConstruct
    <2> QED BY <2>2, <2>3
  <1>2. ASSUME NEW h, AreFields("Timestamp", h)
        PROVE  Sound("Timestamp", old, TimestampFromHash(old, h))
    <2> DEFINE i == Field(h, "increment")
               t == Field(h, "timestamp")
    <2>1. IsZval("Timestamp", i) /\ IsZval("Timestamp", t)
      BY <1>2, FieldFacts
    <2>2. CASE Is("long", i) /\ Is("long", t)
      <3>1. i.long \in Int /\ t.long \in Int
        BY <2>1, <2>2, LongFacts, LongIsInt
      <3> QED BY <2>2, <3>1, TimestampInitSound DEF TimestampFromHash, IsString
    <2>3. CASE ~(Is("long", i) /\ Is("long", t))
      BY <2>3, TimestampFromStringSound, SoundForms DEF TimestampFromHash
    <2> QED BY <2>2, <2>3
  <1> QED BY <1>1, <1>2

LEMMA OneType ==
    ASSUME NEW class, NEW z, IsZval(class, z), NEW type, Is(type, z)
    PROVE  DOMAIN z = {type} /\ \A other : Is(other, z) => other = type
  <1>1. z # NULL /\ type \in DOMAIN z
    BY DEF Is
  <1>2. \E x : DOMAIN z = {x}
    BY <1>1, Zenon DEF IsZval
  <1>3. DOMAIN z = {type}
    BY <1>1, <1>2
  <1> QED BY <1>3 DEF Is

LEMMA LongOrString ==
    ASSUME NEW class, NEW z, IsZval(class, z)
    PROVE  /\ Is("long", z) => DOMAIN z = {"long"} /\ ~IsString(z)
           /\ IsString(z) => ~Is("long", z)
  <1>1. ASSUME Is("long", z)
        PROVE  DOMAIN z = {"long"}
    BY <1>1, OneType
  <1> QED BY <1>1 DEF Is, IsString

LEMMA UTCDateTimeFromStringSound ==
    ASSUME NEW old, NEW z
    PROVE  Sound("UTCDateTime", old, UTCDateTimeFromString(old, z))
  <1>1. CASE ParsesAsInt64(z)
    <2>1. [milliseconds |-> z.string] \in Values("UTCDateTime")
      BY <1>1, ValuesOf DEF ParsesAsInt64, UTCDateTimeValues, Int64s
    <2> QED BY <1>1, <2>1, SoundForms DEF UTCDateTimeFromString, UTCDateTimeInit
  <1>2. CASE ~ParsesAsInt64(z)
    BY <1>2, SoundForms DEF UTCDateTimeFromString
  <1> QED BY <1>1, <1>2

LEMMA UTCDateTimeInitSound ==
    ASSUME NEW old, NEW ms \in Int64s
    PROVE  Sound("UTCDateTime", old, UTCDateTimeInit(ms))
  <1>1. [milliseconds |-> ms] \in Values("UTCDateTime")
    BY ValuesOf DEF UTCDateTimeValues
  <1> QED BY <1>1, SoundForms DEF UTCDateTimeInit

LEMMA TimeFacts ==
    ASSUME NEW t \in Time
    PROVE  Wrapped(t.sec * Kilo + Quotient(t.usec, Kilo), Int64Max) \in Int64s
  <1>1. t.sec \in Int /\ t.usec \in Int /\ Kilo \in Nat \ {0}
    BY KiloAssumption DEF Time
  <1>2. t.sec * Kilo \in Int /\ Quotient(t.usec, Kilo) \in Int
    <2>1. t.sec * Kilo \in Int
      BY <1>1
    <2>2. Quotient(t.usec, Kilo) \in Int
      BY <1>1, QuotientFacts
    <2> QED BY <2>1, <2>2
  <1>3. t.sec * Kilo + Quotient(t.usec, Kilo) \in Int
    BY <1>2
  <1> QED BY <1>3, WrappedFacts, WidthFacts DEF Int64s

LEMMA UTCDateTimeSound ==
    ASSUME NEW old
    PROVE  /\ \A args : AreArgs("UTCDateTime", args) =>
                Sound("UTCDateTime", old, UTCDateTimeConstruct(old, args))
           /\ \A h : AreFields("UTCDateTime", h) =>
                Sound("UTCDateTime", old, UTCDateTimeFromHash(old, h))
  <1>1. ASSUME NEW args, AreArgs("UTCDateTime", args)
        PROVE  Sound("UTCDateTime", old, UTCDateTimeConstruct(old, args))
    <2> DEFINE z == args[1]
    <2>1. IsZval("UTCDateTime", z)
      BY <1>1, ArgFacts DEF Classes, BsonClasses
    <2> USE DEF UTCDateTimeConstruct
    <2>2. CASE Is("now", z)
      <3>1. UTCDateTimeConstruct(old, args) = UTCDateTimeFromCurrentTime(z.now)
        BY <2>1, <2>2, OneType DEF IsString
      <3> QED BY <2>1, <2>2, <3>1, LongFacts, TimeFacts, UTCDateTimeInitSound
              DEF UTCDateTimeFromCurrentTime
    <2>3. CASE Is("date", z)
      <3>1. UTCDateTimeConstruct(old, args) = UTCDateTimeFromDate(z.date)
        BY <2>1, <2>3, OneType DEF IsString
      <3> QED BY <2>1, <2>3, <3>1, LongFacts, TimeFacts, UTCDateTimeInitSound
              DEF UTCDateTimeFromDate
    <2>4. CASE Is("long", z)
      <3>1. UTCDateTimeConstruct(old, args) = UTCDateTimeInit(z.long)
        BY <2>1, <2>4, OneType DEF IsString
      <3> QED BY <2>1, <2>4, <3>1, LongFacts, UTCDateTimeInitSound
    <2>5. CASE Is("double", z)
      <3>1. UTCDateTimeConstruct(old, args) = UTCDateTimeFromString(old, [string |-> z.double])
        BY <2>1, <2>5, OneType DEF IsString
      <3> QED BY <3>1, UTCDateTimeFromStringSound
    <2>6. CASE IsString(z)
      <3>1. UTCDateTimeConstruct(old, args) = UTCDateTimeFromString(old, z)
        BY <2>1, <2>6, OneType DEF IsString
      <3> QED BY <3>1, UTCDateTimeFromStringSound
    <2>7. CASE ~(\/ Is("now", z) \/ Is("date", z) \/ Is("long", z) \/ Is("double", z)
                 \/ IsString(z))
      BY <2>7, SoundForms
    <2> QED BY <2>2, <2>3, <2>4, <2>5, <2>6, <2>7
  <1>2. ASSUME NEW h, AreFields("UTCDateTime", h)
        PROVE  Sound("UTCDateTime", old, UTCDateTimeFromHash(old, h))
    <2> DEFINE z == Field(h, "milliseconds")
    <2>1. IsZval("UTCDateTime", z)
      BY <1>2, FieldFacts
    <2> USE DEF UTCDateTimeFromHash
    <2>2. CASE Is("long", z)
      <3>1. UTCDateTimeFromHash(old, h) = UTCDateTimeInit(z.long)
        BY <2>1, <2>2, OneType DEF IsString
      <3> QED BY <2>1, <2>2, <3>1, LongFacts, UTCDateTimeInitSound
    <2>3. CASE IsString(z)
      <3>1. UTCDateTimeFromHash(old, h) = UTCDateTimeFromString(old, z)
        BY <2>1, <2>3, OneType DEF IsString
      <3> QED BY <3>1, UTCDateTimeFromStringSound
    <2>4. CASE ~(Is("long", z) \/ IsString(z))
      BY <2>4, SoundForms
    <2> QED BY <2>2, <2>3, <2>4
  <1> QED BY <1>1, <1>2

LEMMA Int64Sound ==
    ASSUME NEW old, NEW h, AreFields("Int64", h)
    PROVE  Sound("Int64", old, Int64FromHash(old, h))
  <1>1. \A z : ParsesAsInt64(z) => [integer |-> z.string] \in Values("Int64")
    BY ValuesOf DEF ParsesAsInt64, Int64Values, Int64s
  <1>2. \A z : Sound("Int64", old, Int64FromString(old, z))
    BY <1>1, SoundForms DEF Int64FromString, Int64Init
  <1> QED BY <1>2, SoundForms DEF Int64FromHash

LEMMA CursorIdSound ==
    ASSUME NEW old, NEW h, AreFields("CursorId", h)
    PROVE  Sound("CursorId", old, CursorIdFromHash(old, h))
  <1>1. \A z : ParsesAsInt64(z) => [id |-> z.string] \in Values("CursorId")
    BY ValuesOf DEF ParsesAsInt64, CursorIdValues, Int64s
  <1>2. \A z : Sound("CursorId", old, CursorIdFromString(old, z))
    BY <1>1, SoundForms DEF CursorIdFromString
  <1> QED BY <1>2, SoundForms DEF CursorIdFromHash

LEMMA BinarySound ==
    ASSUME NEW old
    PROVE  /\ \A args : AreArgs("Binary", args) =>
                Sound("Binary", old, BinaryConstruct(old, args))
           /\ \A h : AreFields("Binary", h) => Sound("Binary", old, BinaryFromHash(old, h))
  <1>1. \A data \in Names : \A type : Sound("Binary", old, BinaryInit(old, data, type))
    <2> TAKE data \in Names
    <2> TAKE type
    <2>1. CASE type \in 0 .. Uint8Max /\ (type \in UuidTypes => data \in UuidSized)
      <3>1. [data |-> data, type |-> type] \in Values("Binary")
        BY <2>1, ValuesOf DEF BinaryValues
      <3> QED BY <2>1, <3>1, SoundForms DEF BinaryInit
    <2>2. CASE ~(type \in 0 .. Uint8Max /\ (type \in UuidTypes => data \in UuidSized))
      BY <2>2, SoundForms DEF BinaryInit
    <2> QED BY <2>1, <2>2
  <1>2. \A z : IsZval("Binary", z) /\ Is("text", z) => z.text \in Names
    BY CharFacts DEF CharClasses
  <1>3. ASSUME NEW args, AreArgs("Binary", args)
        PROVE  Sound("Binary", old, BinaryConstruct(old, args))
    <2>1. IsZval("Binary", args[1])
      BY <1>3, ArgFacts DEF Classes, BsonClasses
    <2> QED BY <1>1, <1>2, <2>1, SoundForms DEF BinaryConstruct
  <1>4. ASSUME NEW h, AreFields("Binary", h)
        PROVE  Sound("Binary", old, BinaryFromHash(old, h))
    <2>1. /\ IsZval("Binary", Field(h, "data"))
          /\ Field(h, "data") # NULL => h["data"] = Field(h, "data")
      BY <1>4, FieldFacts
    <2>2. Is("text", Field(h, "data")) => h["data"].text \in Names
      BY <1>2, <2>1 DEF Is
    <2> QED BY <1>1, <2>2, SoundForms DEF BinaryFromHash
  <1> QED BY <1>3, <1>4

-------------------------------------------------------------------------------
(* The classes of texts, from arguments and from arrays *)

LEMMA TextFieldFacts ==
    ASSUME NEW class \in CharClasses, NEW h, AreFields(class, h), NEW key,
           Is("text", Field(h, key))
    PROVE  key \in DOMAIN h /\ h[key].text \in Seq(Nat)
  <1>1. IsZval(class, Field(h, key)) /\ key \in DOMAIN h /\ h[key] = Field(h, key)
    BY FieldFacts DEF Is
  <1> QED BY <1>1, CharFacts

LEMMA TextArgFacts ==
    ASSUME NEW class \in CharClasses, NEW args, AreArgs(class, args),
           NEW i \in 1 .. Len(args), Is("text", args[i])
    PROVE  args[i].text \in Seq(Nat)
  <1>1. IsZval(class, args[i])
    BY ArgFacts DEF Classes, BsonClasses, SettingClasses, CharClasses
  <1> QED BY <1>1, CharFacts

LEMMA FirstArg ==
    ASSUME NEW class \in Classes \ {"ReadPreference", "ReadConcern"}, NEW args,
           AreArgs(class, args)
    PROVE  1 \in 1 .. Len(args) /\ IsZval(class, args[1])
  BY ArgFacts DEF AreArgs

LEMMA ObjectIdSound ==
    ASSUME NEW old
    PROVE  /\ \A args : AreArgs("ObjectId", args) =>
                Sound("ObjectId", old, ObjectIdConstruct(old, args))
           /\ \A h : AreFields("ObjectId", h) => Sound("ObjectId", old, ObjectIdFromHash(old, h))
  <1>1. \A t : Sound("ObjectId", old, ObjectIdFromHexString(old, t))
    <2> TAKE t
    <2>1. CASE t \in DOMAIN OidOf
      <3>1. [oid |-> OidOf[t]] \in Values("ObjectId")
        BY <2>1, ParseAssumption, ValuesOf DEF ObjectIdValues
      <3> QED BY <2>1, <3>1, SoundForms DEF ObjectIdFromHexString
    <2>2. CASE t \notin DOMAIN OidOf
      BY <2>2, SoundForms DEF ObjectIdFromHexString
    <2> QED BY <2>1, <2>2
  <1>2. ASSUME NEW args, AreArgs("ObjectId", args)
        PROVE  Sound("ObjectId", old, ObjectIdConstruct(old, args))
    <2>1. IsZval("ObjectId", args[1])
      BY <1>2, FirstArg DEF Classes, BsonClasses
    <2>2. CASE Is("generated", args[1])
      <3>1. ObjectIdConstruct(old, args) = ObjectIdInit(args[1].generated)
        BY <2>1, <2>2, OneType DEF ObjectIdConstruct
      <3>2. args[1].generated \in DOMAIN OidOf /\ OidOf[args[1].generated] = args[1].generated
        BY <2>1, <2>2 DEF IsZval, Is
      <3>3. [oid |-> args[1].generated] \in Values("ObjectId")
        BY <3>2, ValuesOf DEF ObjectIdValues
      <3> QED BY <3>1, <3>3, SoundForms DEF ObjectIdInit
    <2>3. CASE ~Is("generated", args[1])
      BY <1>1, <2>3, SoundForms DEF ObjectIdConstruct
    <2> QED BY <2>2, <2>3
  <1>3. \A h : Sound("ObjectId", old, ObjectIdFromHash(old, h))
    BY <1>1, SoundForms DEF ObjectIdFromHash
  <1> QED BY <1>2, <1>3

LEMMA Decimal128Sound ==
    ASSUME NEW old
    PROVE  /\ \A args : Sound("Decimal128", old, Decimal128Construct(old, args))
           /\ \A h : Sound("Decimal128", old, Decimal128FromHash(old, h))
  <1>1. \A t : Sound("Decimal128", old, Decimal128Init(old, t))
    <2> TAKE t
    <2>1. CASE CString(t) \in DOMAIN DecimalOf
      <3>1. [dec |-> DecimalOf[CString(t)]] \in Values("Decimal128")
        BY <2>1, ParseAssumption, ValuesOf DEF Decimal128Values
      <3> QED BY <2>1, <3>1, SoundForms DEF Decimal128Init
    <2>2. CASE CString(t) \notin DOMAIN DecimalOf
      <3>1. Holds("Decimal128", NULL)
        BY DEF Holds, AlwaysHolding
      <3>2. [dec |-> NaN] \in Values("Decimal128")
        BY ParseAssumption, ValuesOf DEF Decimal128Values
      <3>3. Holds("Decimal128", [dec |-> NaN])
        BY <3>2 DEF Holds
      <3>4. Decimal128Init(old, t) = Thrown(IF old = NULL THEN NULL ELSE [dec |-> NaN])
        BY <2>2 DEF Decimal128Init
      <3> QED BY <3>1, <3>3, <3>4 DEF Sound, Thrown
    <2> QED BY <2>1, <2>2
  <1> QED BY <1>1, SoundForms DEF Decimal128Construct, Decimal128FromHash

LEMMA RegexInitSound ==
    ASSUME NEW old, NEW p \in Seq(Nat), NEW f \in Seq(Nat)
    PROVE  Sound("Regex", old, RegexInit(old, p, f))
  <1>1. CASE ~NulFree(p)
    BY <1>1, SoundForms DEF RegexInit
  <1>2. CASE NulFree(p) /\ ~NulFree(f)
    <2>1. ASSUME Holds("Regex", old)
          PROVE  Holds("Regex", [pattern |-> p, flags |-> IF old = NULL THEN NULL ELSE old.flags])
      <3>1. old \in RegexValues
        BY <2>1, ValuesOf DEF Holds, AlwaysHolding, BsonClasses
      <3>2. old.flags \in InOrders /\ old \in [pattern : Seq(Nat), flags : Seq(Nat)]
        BY <3>1 DEF RegexValues, NulFrees, InOrders
      <3>3. old # NULL
        BY <3>2, NullAssumption
      <3>4. [pattern |-> p, flags |-> old.flags] \in RegexValues
        BY <1>2, <3>2 DEF RegexValues, NulFrees
      <3> QED BY <3>3, <3>4, ValuesOf DEF Holds
    <2> QED BY <1>2, <2>1 DEF RegexInit, Sound, Thrown
  <1>3. CASE NulFree(p) /\ NulFree(f)
    <2>1. Sorted(f) \in Seq(Nat) /\ NulFree(Sorted(f)) /\ InOrder(Sorted(f))
      BY <1>3, SortedFacts
    <2>2. [pattern |-> p, flags |-> Sorted(f)] \in Values("Regex")
      BY <1>3, <2>1, ValuesOf DEF RegexValues, NulFrees, InOrders
    <2> QED BY <1>3, <2>2, SoundForms DEF RegexInit
  <1> QED BY <1>1, <1>2, <1>3

LEMMA RegexSound ==
    ASSUME NEW old
    PROVE  /\ \A args : AreArgs("Regex", args) => Sound("Regex", old, RegexConstruct(old, args))
           /\ \A h : AreFields("Regex", h) => Sound("Regex", old, RegexFromHash(old, h))
  <1>1. ASSUME NEW args, AreArgs("Regex", args)
        PROVE  Sound("Regex", old, RegexConstruct(old, args))
    <2>1. CASE \A i \in DOMAIN args : Is("text", args[i])
      <3>1. /\ Len(args) \in Nat /\ DOMAIN args = 1 .. Len(args) /\ 1 \in 1 .. Len(args)
            /\ "Regex" \in CharClasses
        BY <1>1, FirstArg, ArgFacts DEF Classes, BsonClasses, CharClasses
      <3>2. args[1].text \in Seq(Nat)
        BY <1>1, <2>1, <3>1, TextArgFacts
      <3>3. Len(args) = 2 => args[2].text \in Seq(Nat)
        BY <1>1, <2>1, <3>1, TextArgFacts
      <3>4. <<>> \in Seq(Nat)
        OBVIOUS
      <3> QED BY <2>1, <3>2, <3>3, <3>4, RegexInitSound DEF RegexConstruct
    <2>2. CASE ~\A i \in DOMAIN args : Is("text", args[i])
      BY <2>2, SoundForms DEF RegexConstruct
    <2> QED BY <2>1, <2>2
  <1>2. ASSUME NEW h, AreFields("Regex", h)
        PROVE  Sound("Regex", old, RegexFromHash(old, h))
    <2>1. \A key : Is("text", Field(h, key)) => h[key].text \in Seq(Nat)
      BY <1>2, TextFieldFacts DEF CharClasses
    <2> QED BY <2>1, RegexInitSound, SoundForms DEF RegexFromHash
  <1> QED BY <1>1, <1>2

LEMMA ScopeFacts ==
    ASSUME NEW class, NEW z, IsZval(class, z), Is("object", z) \/ Is("array", z)
    PROVE  DocumentOf(z) \in Documents \cup {NULL}
  BY DEF IsZval, Is, DocumentOf

LEMMA JavascriptInitSound ==
    ASSUME NEW old, NEW code \in Seq(Nat), NEW scope, IsZval("Javascript", scope)
    PROVE  Sound("Javascript", old, JavascriptInit(old, code, scope))
  <1> DEFINE refused == \/ scope # NULL /\ ~Is("object", scope) /\ ~Is("array", scope)
                        \/ ~NulFree(code)
  <1>1. CASE refused
    BY <1>1, SoundForms DEF JavascriptInit
  <1>2. CASE ~refused /\ scope = NULL
    <2>1. [code |-> code, scope |-> NULL] \in Values("Javascript")
      BY <1>2, ValuesOf DEF JavascriptValues, NulFrees
    <2> QED BY <1>2, <2>1, SoundForms DEF JavascriptInit
  <1>3. CASE ~refused /\ scope # NULL
    <2>1. DocumentOf(scope) \in Documents \cup {NULL}
      BY <1>3, ScopeFacts
    <2>2. \A d \in Documents : [code |-> code, scope |-> d] \in Values("Javascript")
      BY <1>3, ValuesOf DEF JavascriptValues, NulFrees
    <2>3. Holds("Javascript", [code |-> code, scope |-> NoDocument])
      BY <2>2, DocumentsAssumption DEF Holds
    <2>4. CASE DocumentOf(scope) = NULL
      <3>1. JavascriptInit(old, code, scope) = Thrown([code |-> code, scope |-> NoDocument])
        BY <1>3, <2>4 DEF JavascriptInit
      <3> QED BY <2>3, <3>1 DEF Sound, Thrown
    <2>5. CASE DocumentOf(scope) # NULL
      <3>1. JavascriptInit(old, code, scope) = Done([code |-> code, scope |-> DocumentOf(scope)])
        BY <1>3, <2>5 DEF JavascriptInit
      <3> QED BY <2>1, <2>2, <2>5, <3>1, SoundForms
    <2> QED BY <2>4, <2>5
  <1> QED BY <1>1, <1>2, <1>3

LEMMA JavascriptSound ==
    ASSUME NEW old
    PROVE  /\ \A args : AreArgs("Javascript", args) =>
                Sound("Javascript", old, JavascriptConstruct(old, args))
           /\ \A h : AreFields("Javascript", h) =>
                Sound("Javascript", old, JavascriptFromHash(old, h))
  <1>1. ASSUME NEW args, AreArgs("Javascript", args)
        PROVE  Sound("Javascript", old, JavascriptConstruct(old, args))
    <2>1. CASE Is("text", args[1])
      <3>1. /\ Len(args) \in Nat /\ 1 \in 1 .. Len(args)
            /\ \A i \in 1 .. Len(args) : IsZval("Javascript", args[i])
        BY <1>1, FirstArg, ArgFacts DEF Classes, BsonClasses
      <3>2. args[1].text \in Seq(Nat)
        BY <1>1, <2>1, <3>1, TextArgFacts DEF CharClasses
      <3>3. IsZval("Javascript", IF Len(args) = 2 THEN args[2] ELSE NULL)
        BY <3>1 DEF IsZval
      <3> QED BY <2>1, <3>2, <3>3, JavascriptInitSound DEF JavascriptConstruct
    <2>2. CASE ~Is("text", args[1])
      BY <2>2, SoundForms DEF JavascriptConstruct
    <2> QED BY <2>1, <2>2
  <1>2. ASSUME NEW h, AreFields("Javascript", h)
        PROVE  Sound("Javascript", old, JavascriptFromHash(old, h))
    <2>1. Is("text", Field(h, "code")) => h["code"].text \in Seq(Nat)
      BY <1>2, TextFieldFacts DEF CharClasses
    <2>2. IsZval("Javascript", Field(h, "scope"))
      BY <1>2, FieldFacts
    <2> QED BY <2>1, <2>2, JavascriptInitSound, SoundForms DEF JavascriptFromHash
  <1> QED BY <1>1, <1>2

LEMMA SymbolSound ==
    ASSUME NEW old, NEW h, AreFields("Symbol", h)
    PROVE  Sound("Symbol", old, SymbolFromHash(old, h))
  <1>1. \A t \in Seq(Nat) : Sound("Symbol", old, SymbolInit(old, t))
    BY SoundForms, ValuesOf DEF SymbolInit, SymbolValues, NulFrees
  <1>2. Is("text", Field(h, "symbol")) => h["symbol"].text \in Seq(Nat)
    BY TextFieldFacts DEF CharClasses
  <1> QED BY <1>1, <1>2, SoundForms DEF SymbolFromHash

LEMMA DBPointerSound ==
    ASSUME NEW old, NEW h, AreFields("DBPointer", h)
    PROVE  Sound("DBPointer", old, DBPointerFromHash(old, h))
  <1>1. \A t \in Seq(Nat) : \A id : Sound("DBPointer", old, DBPointerInit(old, t, id))
    <2> TAKE t \in Seq(Nat)
    <2> TAKE id
    <2>1. CASE NulFree(t) /\ id \in DOMAIN OidOf
      <3>1. [ref |-> t, id |-> id] \in Values("DBPointer")
        BY <2>1, ValuesOf DEF DBPointerValues, NulFrees
      <3> QED BY <2>1, <3>1, SoundForms DEF DBPointerInit
    <2>2. CASE ~(NulFree(t) /\ id \in DOMAIN OidOf)
      BY <2>2, SoundForms DEF DBPointerInit
    <2> QED BY <2>1, <2>2
  <1>2. Is("text", Field(h, "ref")) => h["ref"].text \in Seq(Nat)
    BY TextFieldFacts DEF CharClasses
  <1> QED BY <1>1, <1>2, SoundForms DEF DBPointerFromHash

-------------------------------------------------------------------------------
(* The settings, from arguments and from arrays *)

LEMMA ZvalForms ==
    ASSUME NEW class, NEW z, IsZval(class, z)
    PROVE  /\ Is("bool", z) => z \in [bool : BOOLEAN]
           /\ Is("string", z) => z \in [string : Int]
           /\ Is("text", z) /\ class \notin CharClasses => z \in [text : Names]
  <1>1. z # NULL => z = [type \in DOMAIN z |-> z[type]]
    BY DEF IsZval
  <1>2. ASSUME Is("bool", z)
        PROVE  z \in [bool : BOOLEAN]
    <2>1. DOMAIN z = {"bool"} /\ z # NULL
      BY <1>2, OneType DEF Is
    <2>2. z.bool \in BOOLEAN
      BY <1>2 DEF IsZval, Is
    <2> QED BY <1>1, <2>1, <2>2
  <1>3. ASSUME Is("string", z)
        PROVE  z \in [string : Int]
    <2>1. DOMAIN z = {"string"} /\ z # NULL
      BY <1>3, OneType DEF Is
    <2>2. z.string \in Int
      BY <1>3, LongFacts
    <2> QED BY <1>1, <2>1, <2>2
  <1>4. ASSUME Is("text", z), class \notin CharClasses
        PROVE  z \in [text : Names]
    <2>1. DOMAIN z = {"text"} /\ z # NULL
      BY <1>4, OneType DEF Is
    <2>2. z.text \in Names
      BY <1>4, CharFacts
    <2> QED BY <1>1, <2>1, <2>2
  <1> QED BY <1>2, <1>3, <1>4

LEMMA SettingsMayBeEmpty ==
    \A class \in SettingClasses \cup {"CursorId"} : Holds(class, NULL)
  BY DEF Holds, AlwaysHolding, SettingClasses, BsonClasses

LEMMA ReadConcernSound ==
    ASSUME NEW old
    PROVE  /\ \A args : AreArgs("ReadConcern", args) =>
                Sound("ReadConcern", old, ReadConcernConstruct(old, args))
           /\ \A h : AreFields("ReadConcern", h) =>
                Sound("ReadConcern", old, ReadConcernFromHash(old, h))
  <1>1. Sound("ReadConcern", old, Done(NewReadConcern))
    <2>1. NewReadConcern \in Values("ReadConcern")
      BY ValuesOf DEF NewReadConcern, ReadConcernValues
    <2> QED BY <2>1, SoundForms
  <1>2. \A t \in Seq(Nat) : Sound("ReadConcern", old, Done(SetLevel(NewReadConcern, t)))
    <2> TAKE t \in Seq(Nat)
    <2>1. CString(t) \in NulFrees
      BY CStringFacts DEF NulFrees
    <2>2. SetLevel(NewReadConcern, t) \in Values("ReadConcern")
      BY <2>1, ValuesOf DEF SetLevel, NewReadConcern, ReadConcernValues
    <2> QED BY <2>2, SoundForms
  <1>3. ASSUME NEW args, AreArgs("ReadConcern", args)
        PROVE  Sound("ReadConcern", old, ReadConcernConstruct(old, args))
    <2>1. CASE args \in {<<>>, <<NULL>>}
      <3>1. ~(args # <<>> /\ Is("text", args[1]))
        BY <2>1 DEF Is
      <3> QED BY <1>1, <2>1, <3>1 DEF ReadConcernConstruct
    <2>2. CASE args \notin {<<>>, <<NULL>>} /\ args # <<>> /\ Is("text", args[1])
      <3>1. Len(args) \in Nat /\ args = [i \in 1 .. Len(args) |-> args[i]]
        BY <1>3 DEF AreArgs, IsList
      <3>2. Len(args) # 0
        BY <2>2, <3>1
      <3>3. 1 \in 1 .. Len(args)
        BY <3>1, <3>2
      <3>4. args[1].text \in Seq(Nat)
        BY <1>3, <2>2, <3>3, TextArgFacts DEF CharClasses
      <3>5. ReadConcernConstruct(old, args) = Done(SetLevel(NewReadConcern, args[1].text))
        BY <2>2 DEF ReadConcernConstruct
      <3> QED BY <1>2, <3>4, <3>5
    <2>3. CASE args \notin {<<>>, <<NULL>>} /\ ~(args # <<>> /\ Is("text", args[1]))
      BY <2>3, SoundForms DEF ReadConcernConstruct
    <2> QED BY <2>1, <2>2, <2>3
  <1>4. ASSUME NEW h, AreFields("ReadConcern", h)
        PROVE  Sound("ReadConcern", old, ReadConcernFromHash(old, h))
    <2>1. CASE "level" \notin DOMAIN h
      <3>1. ~Is("text", Field(h, "level"))
        BY <2>1 DEF Is, Field
      <3> QED BY <1>1, <2>1, <3>1 DEF ReadConcernFromHash
    <2>2. CASE "level" \in DOMAIN h /\ Is("text", Field(h, "level"))
      <3>1. h["level"].text \in Seq(Nat)
        BY <1>4, <2>2, TextFieldFacts DEF CharClasses
      <3> QED BY <1>2, <2>2, <3>1 DEF ReadConcernFromHash
    <2>3. CASE "level" \in DOMAIN h /\ ~Is("text", Field(h, "level"))
      <3>1. ReadConcernFromHash(old, h) = Thrown(NULL)
        BY <2>3 DEF ReadConcernFromHash
      <3> QED BY <3>1, SettingsMayBeEmpty DEF Sound, Thrown, SettingClasses
    <2> QED BY <2>1, <2>2, <2>3
  <1> QED BY <1>3, <1>4

LEMMA ServerApiSound ==
    ASSUME NEW old
    PROVE  /\ \A args : AreArgs("ServerApi", args) =>
                Sound("ServerApi", old, ServerApiConstruct(old, args))
           /\ \A h : AreFields("ServerApi", h) =>
                Sound("ServerApi", old, ServerApiFromHash(old, h))
  <1>1. \A z : IsZval("ServerApi", z) /\ BoolOrNull(z) => z \in Flags
    BY ZvalForms DEF BoolOrNull, Flags
  <1>2. \A version : \A a, b \in Flags : Sound("ServerApi", old, ServerApiCreate(old, version, a, b))
    <2> TAKE version
    <2> TAKE a, b \in Flags
    <2>1. [version |-> Version1, strict |-> a, deprecationErrors |-> b] \in Values("ServerApi")
      BY ValuesOf DEF ServerApiValues
    <2> QED BY <2>1, SoundForms DEF ServerApiCreate
  <1>3. ASSUME NEW args, AreArgs("ServerApi", args)
        PROVE  Sound("ServerApi", old, ServerApiConstruct(old, args))
    <2> DEFINE given(i) == IF Len(args) >= i THEN args[i] ELSE NULL
    <2>1. IsZval("ServerApi", given(2)) /\ IsZval("ServerApi", given(3))
      <3>1. Len(args) \in Nat /\ \A i \in 1 .. Len(args) : IsZval("ServerApi", args[i])
        BY <1>3, ArgFacts DEF Classes, SettingClasses
      <3>2. IsZval("ServerApi", NULL)
        BY DEF IsZval
      <3> QED BY <3>1, <3>2
    <2> HIDE DEF given
    <2>2. CASE Is("text", args[1]) /\ BoolOrNull(given(2)) /\ BoolOrNull(given(3))
      <3>1. given(2) \in Flags /\ given(3) \in Flags
        BY <1>1, <2>1, <2>2
      <3>2. ServerApiConstruct(old, args)
              = ServerApiCreate(old, args[1].text, given(2), given(3))
        BY <2>2 DEF ServerApiConstruct, given
      <3> QED BY <1>2, <3>1, <3>2
    <2>3. CASE ~(Is("text", args[1]) /\ BoolOrNull(given(2)) /\ BoolOrNull(given(3)))
      BY <2>3, SoundForms DEF ServerApiConstruct, given
    <2> QED BY <2>2, <2>3
  <1>4. ASSUME NEW h, AreFields("ServerApi", h)
        PROVE  Sound("ServerApi", old, ServerApiFromHash(old, h))
    <2>1. IsZval("ServerApi", Field(h, "strict")) /\ IsZval("ServerApi", Field(h, "deprecationErrors"))
      BY <1>4, FieldFacts
    <2> QED BY <1>1, <1>2, <2>1, SoundForms DEF ServerApiFromHash
  <1> QED BY <1>3, <1>4

\* A step of a call that may be followed by others.
Stage(outcome, done, thrown) ==
    /\ outcome.result \in {"done", "thrown", "aborted"}
    /\ outcome.result = "done" => outcome.native \in done
    /\ outcome.result = "thrown" => outcome.native \in thrown

LEMMA StageForms ==
    ASSUME NEW S, NEW T
    PROVE  /\ \A v \in S : Stage(Done(v), S, T)
           /\ \A v \in T : Stage(Thrown(v), S, T)
           /\ \A v : Stage(Aborted(v), S, T)
           /\ \A o : Stage(o, S, T) => Stage(OrDestroyed(o), S, {NULL})
           /\ \A o, U, V : Stage(o, S, T) /\ S \subseteq U /\ T \subseteq V => Stage(o, U, V)
  BY DEF Stage, Done, Thrown, Aborted, OrDestroyed

LEMMA StageIsSound ==
    ASSUME NEW class \in SettingClasses, NEW old, NEW o,
           Stage(o, Values(class), Values(class) \cup {NULL})
    PROVE  Sound(class, old, o)
  <1>1. \A v \in Values(class) \cup {NULL} : Holds(class, v)
    BY SettingsMayBeEmpty DEF Holds
  <1> QED BY <1>1 DEF Stage, Sound

\* A write concern before its final check.
WriteConcernStages ==
    {v \in [w : Ws, j : BOOLEAN \cup {NULL}, wtimeout : Int64s] :
       v.j = TRUE => v.w \notin UnacknowledgedW}

LEMMA WriteConcernStagesFacts ==
    /\ WriteConcernValues \subseteq WriteConcernStages
    /\ NewWriteConcern \in WriteConcernValues
  <1>1. 0 .. Int64Max \subseteq Int64s
    BY WidthFacts DEF Int64s
  <1>2. WriteConcernValues \subseteq WriteConcernStages
    BY <1>1 DEF WriteConcernValues, WriteConcernStages
  <1>3. DefaultW \in Ws /\ 0 \in 0 .. Int64Max
    BY WidthFacts DEF DefaultW, Ws
  <1>4. NewWriteConcern \in WriteConcernValues
    BY <1>3, NullAssumption DEF NewWriteConcern, WriteConcernValues
  <1> QED BY <1>2, <1>4

LEMMA SetWFacts ==
    ASSUME NEW z, IsZval("WriteConcern", z)
    PROVE  Stage(SetW(NewWriteConcern, z), WriteConcernValues, WriteConcernValues)
  <1>1. ASSUME NEW w \in Ws
        PROVE  [NewWriteConcern EXCEPT !.w = w] \in WriteConcernValues
    <2>1. 0 \in 0 .. Int64Max
      BY WidthFacts
    <2> QED BY <2>1, NullAssumption DEF NewWriteConcern, WriteConcernValues
  <1>2. CASE Is("long", z) /\ z.long >= -3
    <2> DEFINE narrow == Wrapped(z.long, Int32Max)
    <2>1. z.long \in Int
      BY <1>2, LongFacts, LongIsInt
    <2>2. narrow \in Int /\ narrow <= Int32Max
      BY <2>1, WrappedFacts, WidthFacts
    <2> HIDE DEF narrow
    <2>3. ~(z = Majority) /\ ~IsString(z)
      <3>1. DOMAIN z = {"long"} /\ ~IsString(z)
        BY <1>2, LongOrString
      <3> QED BY <3>1 DEF Majority
    <2>4. SetW(NewWriteConcern, z) =
            IF narrow >= -3 THEN Done([NewWriteConcern EXCEPT !.w = [int |-> narrow]])
                            ELSE Aborted(NewWriteConcern)
      BY <1>2, <2>3 DEF SetW, narrow
    <2>5. narrow >= -3 => [int |-> narrow] \in Ws
      BY <2>2, WidthFacts DEF Ws
    <2> QED BY <1>1, <2>4, <2>5, StageForms
  <1>3. CASE z = Majority
    <2>1. ~Is("long", z) /\ MajorityW \in Ws
      BY <1>3, WidthFacts DEF Is, Majority, MajorityW, Ws
    <2>2. SetW(NewWriteConcern, z) = Done([NewWriteConcern EXCEPT !.w = MajorityW])
      BY <1>3, <2>1 DEF SetW
    <2> QED BY <1>1, <2>1, <2>2, StageForms
  <1>4. CASE IsString(z) /\ z # Majority
    <2>1. ~Is("long", z)
      BY <1>4, OneType DEF IsString
    <2>2. z \in Tags
      BY <1>4, ZvalForms DEF IsString, Tags, CharClasses
    <2>3. [tag |-> z] \in Ws
      BY <2>2 DEF Ws
    <2>4. SetW(NewWriteConcern, z) = Done([NewWriteConcern EXCEPT !.w = [tag |-> z]])
      BY <1>4, <2>1 DEF SetW
    <2> QED BY <1>1, <2>3, <2>4, StageForms
  <1>5. CASE ~(Is("long", z) /\ z.long >= -3) /\ z # Majority /\ ~IsString(z)
    <2>1. SetW(NewWriteConcern, z) = Thrown(NewWriteConcern)
      BY <1>5 DEF SetW
    <2> QED BY <2>1, StageForms, WriteConcernStagesFacts
  <1> QED BY <1>2, <1>3, <1>4, <1>5

LEMMA SetJournalFacts ==
    ASSUME NEW on \in BOOLEAN
    PROVE  /\ \A v \in WriteConcernValues :
                Stage(SetJournal(v, on), WriteConcernValues, WriteConcernValues)
           /\ \A v \in WriteConcernStages :
                Stage(SetJournal(v, on), WriteConcernStages, WriteConcernStages)
  <1>1. ASSUME NEW v \in WriteConcernValues
        PROVE  Stage(SetJournal(v, on), WriteConcernValues, WriteConcernValues)
    <2>1. ~(on /\ v.w \in UnacknowledgedW) => [v EXCEPT !.j = on] \in WriteConcernValues
      BY <1>1 DEF WriteConcernValues
    <2> QED BY <2>1, StageForms DEF SetJournal
  <1>2. ASSUME NEW v \in WriteConcernStages
        PROVE  Stage(SetJournal(v, on), WriteConcernStages, WriteConcernStages)
    <2>1. ~(on /\ v.w \in UnacknowledgedW) => [v EXCEPT !.j = on] \in WriteConcernStages
      BY <1>2 DEF WriteConcernStages
    <2> QED BY <2>1, StageForms DEF SetJournal
  <1> QED BY <1>1, <1>2

LEMMA SetWtimeoutFacts ==
    ASSUME NEW ms \in Int64s, NEW v \in WriteConcernValues
    PROVE  Stage(SetWtimeout(v, ms), WriteConcernValues, WriteConcernValues)
  <1>1. ~(ms < 0) => ms \in 0 .. Int64Max
    BY WidthFacts DEF Int64s
  <1>2. ~(ms < 0) => [v EXCEPT !.wtimeout = ms] \in WriteConcernValues
    BY <1>1 DEF WriteConcernValues
  <1> QED BY <1>2, StageForms DEF SetWtimeout

LEMMA CheckWriteConcernFacts ==
    /\ \A v \in WriteConcernValues : CheckWriteConcern(v) = Done(v)
    /\ \A v \in WriteConcernStages :
         Stage(CheckWriteConcern(v), WriteConcernValues, WriteConcernStages)
  <1>1. \A v \in WriteConcernValues : CheckWriteConcern(v) = Done(v)
    BY WidthFacts DEF WriteConcernValues, CheckWriteConcern, WriteConcernIsValid
  <1>2. \A v \in WriteConcernStages :
          Stage(CheckWriteConcern(v), WriteConcernValues, WriteConcernStages)
    <2> TAKE v \in WriteConcernStages
    <2>1. CASE WriteConcernIsValid(v)
      <3>1. v.wtimeout \in 0 .. Int64Max
        BY <2>1, WidthFacts DEF WriteConcernStages, WriteConcernIsValid, Int64s
      <3>2. v \in WriteConcernValues
        BY <3>1 DEF WriteConcernStages, WriteConcernValues
      <3> QED BY <2>1, <3>2, StageForms DEF CheckWriteConcern
    <2>2. CASE ~WriteConcernIsValid(v)
      BY <2>2, StageForms DEF CheckWriteConcern
    <2> QED BY <2>1, <2>2
  <1> QED BY <1>1, <1>2

LEMMA IsTrueBoolean ==
    ASSUME NEW z
    PROVE  IsTrue(z) \in BOOLEAN
  BY DEF IsTrue

LEMMA WriteConcernConstructSound ==
    ASSUME NEW old, NEW args, AreArgs("WriteConcern", args)
    PROVE  Sound("WriteConcern", old, WriteConcernConstruct(old, args))
  <1> DEFINE V == WriteConcernValues
             o1 == SetW(NewWriteConcern, args[1])
             o2 == IF o1.result = "done"
                     THEN IF Len(args) = 3 /\ args[3] # NULL
                            THEN SetJournal(o1.native, IsTrue(args[3])) ELSE Done(o1.native)
                     ELSE o1
             o3 == IF o2.result = "done"
                     THEN IF Len(args) >= 2
                            THEN SetWtimeout(o2.native, args[2].long) ELSE Done(o2.native)
                     ELSE o2
             o4 == IF o3.result = "done" THEN CheckWriteConcern(o3.native) ELSE o3
  <1>1. CASE Len(args) >= 2 /\ ~Is("long", args[2])
    <2>1. WriteConcernConstruct(old, args) = Thrown(old)
      BY <1>1 DEF WriteConcernConstruct
    <2> QED BY <2>1, SoundForms
  <1>2. CASE ~(Len(args) >= 2 /\ ~Is("long", args[2]))
    <2>1. WriteConcernConstruct(old, args) = o4
      BY <1>2 DEF WriteConcernConstruct, Then, If
    <2>2. /\ IsZval("WriteConcern", args[1])
          /\ Len(args) >= 2 => args[2].long \in Int64s
      <3>1. /\ Len(args) \in Nat /\ IsZval("WriteConcern", args[1])
            /\ \A i \in 1 .. Len(args) : IsZval("WriteConcern", args[i])
        BY ArgFacts DEF Classes, SettingClasses
      <3>2. Len(args) >= 2 => 2 \in 1 .. Len(args)
        BY <3>1
      <3> QED BY <1>2, <3>1, <3>2, LongFacts
    <2>3. Stage(o1, V, V)
      BY <2>2, SetWFacts
    <2> HIDE DEF o1
    <2>4. Stage(o2, V, V)
      <3>1. o1.result = "done" => o1.native \in V
        BY <2>3 DEF Stage
      <3> QED BY <2>3, <3>1, SetJournalFacts, IsTrueBoolean, StageForms
    <2> HIDE DEF o2
    <2>5. Stage(o3, V, V)
      <3>1. o2.result = "done" => o2.native \in V
        BY <2>4 DEF Stage
      <3> QED BY <2>2, <2>4, <3>1, SetWtimeoutFacts, StageForms
    <2> HIDE DEF o3
    <2>6. Stage(o4, V, V)
      <3>1. o3.result = "done" => o3.native \in V
        BY <2>5 DEF Stage
      <3> QED BY <2>5, <3>1, CheckWriteConcernFacts, StageForms
    <2> HIDE DEF o4
    <2>7. Stage(o4, V, V \cup {NULL})
      BY <2>6 DEF Stage
    <2> QED BY <2>1, <2>7, StageIsSound, ValuesOf DEF SettingClasses
  <1> QED BY <1>1, <1>2

LEMMA WriteConcernFromHashSound ==
    ASSUME NEW old, NEW h, AreFields("WriteConcern", h)
    PROVE  Sound("WriteConcern", old, WriteConcernFromHash(old, h))
  <1> DEFINE V == WriteConcernValues
             S == WriteConcernStages
             z == h["wtimeout"]
             timeout(wc) ==
               CASE Is("long", z) -> OrDestroyed(SetWtimeout(wc, z.long))
                 [] IsString(z) -> IF ParsesAsInt64(z) THEN Done([wc EXCEPT !.wtimeout = z.string])
                                                       ELSE Thrown(wc)
                 [] OTHER -> Thrown(NULL)
             journal(wc) == OrDestroyed(IF Is("bool", h["j"]) THEN SetJournal(wc, h["j"].bool)
                                                              ELSE Thrown(wc))
             o1 == IF "w" \in DOMAIN h THEN OrDestroyed(SetW(NewWriteConcern, h["w"]))
                                       ELSE Done(NewWriteConcern)
             o2 == IF o1.result = "done"
                     THEN IF "wtimeout" \in DOMAIN h THEN timeout(o1.native) ELSE Done(o1.native)
                     ELSE o1
             o3 == IF o2.result = "done"
                     THEN IF "j" \in DOMAIN h THEN journal(o2.native) ELSE Done(o2.native)
                     ELSE o2
             o4 == IF o3.result = "done" THEN OrDestroyed(CheckWriteConcern(o3.native)) ELSE o3
  <1>1. WriteConcernFromHash(old, h) = o4
    BY DEF WriteConcernFromHash, Then, If
  <1>2. \A k \in DOMAIN h : IsZval("WriteConcern", h[k])
    BY DEF AreFields
  <1>3. Stage(o1, V, V \cup {NULL})
    <2>1. CASE "w" \in DOMAIN h
      <3>1. Stage(SetW(NewWriteConcern, h["w"]), V, V)
        BY <1>2, <2>1, SetWFacts
      <3>2. Stage(OrDestroyed(SetW(NewWriteConcern, h["w"])), V, {NULL})
        BY <3>1, StageForms
      <3> QED BY <2>1, <3>2 DEF Stage
    <2>2. CASE "w" \notin DOMAIN h
      BY <2>2, WriteConcernStagesFacts, StageForms
    <2> QED BY <2>1, <2>2
  <1> HIDE DEF o1
  <1>4. ASSUME NEW v \in V, "wtimeout" \in DOMAIN h
        PROVE  Stage(timeout(v), S, V \cup {NULL})
    <2>1. IsZval("WriteConcern", z)
      BY <1>2, <1>4
    <2>2. CASE Is("long", z)
      <3>1. ~IsString(z) /\ z.long \in Int64s
        <4>1. ~IsString(z)
          BY <2>1, <2>2, LongOrString
        <4>2. z.long \in Int64s
          BY <2>1, <2>2, LongFacts
        <4> QED BY <4>1, <4>2
      <3>2. Stage(SetWtimeout(v, z.long), V, V)
        BY <3>1, SetWtimeoutFacts
      <3>3. Stage(OrDestroyed(SetWtimeout(v, z.long)), V, {NULL})
        BY <3>2, StageForms
      <3>4. timeout(v) = OrDestroyed(SetWtimeout(v, z.long))
        BY <2>2, <3>1
      <3> QED BY <3>3, <3>4, WriteConcernStagesFacts DEF Stage
    <2>3. CASE IsString(z)
      <3>1. ~Is("long", z)
        BY <2>1, <2>3, LongOrString
      <3>2. timeout(v) = IF ParsesAsInt64(z) THEN Done([v EXCEPT !.wtimeout = z.string])
                                             ELSE Thrown(v)
        BY <2>3, <3>1
      <3>3. ParsesAsInt64(z) => [v EXCEPT !.wtimeout = z.string] \in S
        BY <2>1, LongFacts DEF WriteConcernValues, WriteConcernStages
      <3> HIDE DEF timeout
      <3>4. CASE ParsesAsInt64(z)
        <4>1. timeout(v) = Done([v EXCEPT !.wtimeout = z.string])
          BY <3>2, <3>4
        <4>2. Stage(Done([v EXCEPT !.wtimeout = z.string]), S, V \cup {NULL})
          BY <3>3, <3>4, StageForms
        <4> QED BY <4>1, <4>2
      <3>5. CASE ~ParsesAsInt64(z)
        <4>1. timeout(v) = Thrown(v)
          BY <3>2, <3>5
        <4>2. Stage(Thrown(v), S, V \cup {NULL})
          BY StageForms
        <4> QED BY <4>1, <4>2
      <3> QED BY <3>4, <3>5
    <2>4. CASE ~Is("long", z) /\ ~IsString(z)
      <3>1. timeout(v) = Thrown(NULL)
        BY <2>4
      <3> QED BY <3>1, StageForms
    <2> QED BY <2>2, <2>3, <2>4
  <1> HIDE DEF timeout
  <1>5. Stage(o2, S, V \cup {NULL})
    <2>1. o1.result = "done" => o1.native \in V /\ o1.native \in S
      BY <1>3, WriteConcernStagesFacts DEF Stage
    <2>2. Stage(o1, S, V \cup {NULL})
      BY <1>3, WriteConcernStagesFacts, StageForms
    <2> QED BY <1>4, <2>1, <2>2, StageForms
  <1> HIDE DEF o2
  <1>6. ASSUME NEW v \in S, "j" \in DOMAIN h
        PROVE  Stage(journal(v), S, {NULL})
    <2>1. Is("bool", h["j"]) => h["j"].bool \in BOOLEAN
      BY <1>2, <1>6 DEF IsZval, Is
    <2>2. Stage(IF Is("bool", h["j"]) THEN SetJournal(v, h["j"].bool) ELSE Thrown(v), S, S)
      BY <2>1, SetJournalFacts, StageForms
    <2> QED BY <2>2, StageForms
  <1> HIDE DEF journal
  <1>7. Stage(o3, S, V \cup {NULL})
    <2>1. o2.result = "done" => o2.native \in S
      BY <1>5 DEF Stage
    <2>2. \A v \in S : "j" \in DOMAIN h => Stage(journal(v), S, V \cup {NULL})
      BY <1>6 DEF Stage
    <2> QED BY <1>5, <2>1, <2>2, StageForms
  <1> HIDE DEF o3
  <1>8. Stage(o4, V, V \cup {NULL})
    <2>1. o3.result = "done" => o3.native \in S
      BY <1>7 DEF Stage
    <2>2. \A v \in S : Stage(OrDestroyed(CheckWriteConcern(v)), V, {NULL})
      BY CheckWriteConcernFacts, StageForms
    <2> QED BY <1>7, <2>1, <2>2 DEF Stage
  <1> HIDE DEF o4
  <1> QED BY <1>1, <1>8, StageIsSound, ValuesOf DEF SettingClasses

LEMMA ReadPreferenceMakes ==
    /\ \A mode \in ModeNames : NewReadPreference(mode) \in ReadPreferenceValues
    /\ \A v \in ReadPreferenceValues : \A n \in MinStaleness .. Int32Max :
         v.mode # "primary" => [v EXCEPT !.maxStaleness = n] \in ReadPreferenceValues
    /\ \A v \in ReadPreferenceValues : [v EXCEPT !.maxStaleness = NoStaleness] \in ReadPreferenceValues
    /\ \A v \in ReadPreferenceValues : \A d \in Documents :
         v.mode # "primary" => [v EXCEPT !.hedge = d] \in ReadPreferenceValues
    /\ \A v \in ReadPreferenceValues : \A t \in Seq(Documents) :
         (v.mode = "primary" => t = <<>>) => [v EXCEPT !.tags = t] \in ReadPreferenceValues
  <1> USE DEF ReadPreferenceValues
  <1>1. \A mode \in ModeNames : NewReadPreference(mode) \in ReadPreferenceValues
    <2>1. <<>> \in Seq(Documents) /\ NoDocument \in Documents
      BY DocumentsAssumption
    <2> QED BY <2>1 DEF NewReadPreference
  <1>2. ASSUME NEW v \in ReadPreferenceValues, NEW n \in MinStaleness .. Int32Max, v.mode # "primary"
        PROVE  [v EXCEPT !.maxStaleness = n] \in ReadPreferenceValues
    BY <1>2
  <1>3. ASSUME NEW v \in ReadPreferenceValues
        PROVE  [v EXCEPT !.maxStaleness = NoStaleness] \in ReadPreferenceValues
    BY <1>3 DEF NewReadPreference
  <1>4. ASSUME NEW v \in ReadPreferenceValues, NEW d \in Documents, v.mode # "primary"
        PROVE  [v EXCEPT !.hedge = d] \in ReadPreferenceValues
    BY <1>4
  <1>5. ASSUME NEW v \in ReadPreferenceValues, NEW t \in Seq(Documents), v.mode = "primary" => t = <<>>
        PROVE  [v EXCEPT !.tags = t] \in ReadPreferenceValues
    BY <1>5 DEF NewReadPreference
  <1> QED BY <1>1, <1>2, <1>3, <1>4, <1>5

LEMMA SetTagsFacts ==
    ASSUME NEW v \in ReadPreferenceValues, NEW tags, IsList(tags),
           \A i \in DOMAIN tags : IsTagSet(tags[i])
    PROVE  Stage(SetTags(v, tags), ReadPreferenceValues, ReadPreferenceValues)
  <1> DEFINE n == Len(tags)
             p == PrepTagSets(tags)
             d == [i \in DOMAIN p |-> DocumentOf(p[i])]
             fine == /\ \A i \in DOMAIN p : EncodesAsDocument(p[i])
                     /\ v.mode = "primary" => p = <<>>
  <1>1. n \in Nat /\ DOMAIN tags = 1 .. n
    BY DEF IsList
  <1>2. /\ DOMAIN p = 1 .. n
        /\ \A i \in 1 .. n :
             p[i] = IF Is("array", tags[i]) THEN [object |-> tags[i].array] ELSE tags[i]
    BY <1>1 DEF PrepTagSets
  <1>3. ASSUME fine
        PROVE  [v EXCEPT !.tags = d] \in ReadPreferenceValues
    <2>1. \A i \in 1 .. n : DocumentOf(p[i]) \in Documents
      <3> TAKE i \in 1 .. n
      <3>1. /\ EncodesAsDocument(p[i]) /\ IsTagSet(tags[i])
            /\ p[i] = IF Is("array", tags[i]) THEN [object |-> tags[i].array] ELSE tags[i]
        BY <1>1, <1>2, <1>3
      <3> HIDE DEF p
      <3>2. CASE Is("array", tags[i])
        <4>1. tags[i].array \in Documents /\ p[i] = [object |-> tags[i].array]
          BY <3>1, <3>2 DEF IsTagSet
        <4>2. Is("object", p[i])
          BY <3>1, <4>1 DEF EncodesAsDocument, Is
        <4> QED BY <4>1, <4>2 DEF DocumentOf
      <3>3. CASE ~Is("array", tags[i])
        BY <3>1, <3>3 DEF EncodesAsDocument, IsTagSet, DocumentOf
      <3> QED BY <3>2, <3>3
    <2>2. d = [i \in 1 .. n |-> DocumentOf(p[i])]
      BY <1>2
    <2> HIDE DEF d, p
    <2>3. d \in Seq(Documents)
      BY <1>1, <2>1, <2>2
    <2>4. v.mode = "primary" => d = <<>>
      <3> SUFFICES ASSUME v.mode = "primary"
                   PROVE  d = <<>>
        OBVIOUS
      <3>1. 1 .. n = {}
        BY <1>2, <1>3
      <3>2. n = 0
        BY <1>1, <3>1
      <3>3. Len(d) = 0
        BY <2>2, <3>2
      <3> QED BY <2>3, <3>3, EmptySeq
    <2> QED BY <2>3, <2>4, ReadPreferenceMakes
  <1>4. SetTags(v, tags) = IF fine THEN Done([v EXCEPT !.tags = d]) ELSE Thrown(v)
    BY DEF SetTags
  <1> HIDE DEF fine, d, p
  <1> QED BY <1>3, <1>4, StageForms

LEMMA SetMaxStalenessFacts ==
    ASSUME NEW v \in ReadPreferenceValues, NEW n
    PROVE  Stage(SetMaxStaleness(v, n), ReadPreferenceValues, ReadPreferenceValues)
  BY ReadPreferenceMakes, StageForms DEF SetMaxStaleness

LEMMA SetHedgeFacts ==
    ASSUME NEW v \in ReadPreferenceValues, NEW z, IsZval("ReadPreference", z)
    PROVE  Stage(SetHedge(v, z), ReadPreferenceValues, ReadPreferenceValues)
  <1>1. CASE (Is("array", z) \/ Is("object", z)) /\ v.mode # "primary" /\ DocumentOf(z) # NULL
    <2>1. DocumentOf(z) \in Documents
      BY <1>1, ScopeFacts
    <2>2. [v EXCEPT !.hedge = DocumentOf(z)] \in ReadPreferenceValues
      BY <1>1, <2>1, ReadPreferenceMakes
    <2> QED BY <1>1, <2>2, StageForms DEF SetHedge
  <1>2. CASE ~((Is("array", z) \/ Is("object", z)) /\ v.mode # "primary" /\ DocumentOf(z) # NULL)
    BY <1>2, StageForms DEF SetHedge
  <1> QED BY <1>1, <1>2

LEMMA CheckReadPreferenceFacts ==
    ASSUME NEW v \in ReadPreferenceValues
    PROVE  CheckReadPreference(v) = Done(v)
  <1>1. v.mode = "primary" => v = NewReadPreference("primary")
    BY DEF ReadPreferenceValues
  <1>2. v.maxStaleness \in {NoStaleness} \cup (MinStaleness .. Int32Max)
    BY DEF ReadPreferenceValues
  <1>3. v.maxStaleness = NoStaleness \/ v.maxStaleness > 0
    BY <1>2, StalenessAssumption, WidthFacts DEF NoStaleness
  <1> QED BY <1>1, <1>3 DEF CheckReadPreference, ReadPreferenceIsValid

LEMMA ModeOfFacts ==
    ASSUME NEW z
    PROVE  ModeOf(z) = NULL \/ ModeOf(z) \in ModeNames
  <1>1. \A n \in DOMAIN Modes : Modes[n] \in ModeNames
    BY DEF ModeNames
  <1> QED BY <1>1 DEF ModeOf

LEMMA ReadPreferenceConstructSound ==
    ASSUME NEW old, NEW args, AreArgs("ReadPreference", args)
    PROVE  Sound("ReadPreference", old, ReadPreferenceConstruct(old, args))
  <1> DEFINE V == ReadPreferenceValues
             mode == ModeOf(args[1])
             options == IF Len(args) = 3 THEN args[3] ELSE <<>>
             refused == mode = NULL \/ (Len(args) >= 2 /\ args[2] # NULL /\ ~Is("list", args[2]))
             o1 == IF Len(args) >= 2 /\ args[2] # NULL
                     THEN SetTags(NewReadPreference(mode), args[2].list)
                     ELSE Done(NewReadPreference(mode))
             o2 == IF o1.result = "done"
                     THEN IF "maxStalenessSeconds" \in DOMAIN options
                            THEN SetMaxStaleness(o1.native, ToLong(options["maxStalenessSeconds"]))
                            ELSE Done(o1.native)
                     ELSE o1
             o3 == IF o2.result = "done"
                     THEN IF "hedge" \in DOMAIN options
                            THEN SetHedge(o2.native, options["hedge"]) ELSE Done(o2.native)
                     ELSE o2
             o4 == IF o3.result = "done" THEN CheckReadPreference(o3.native) ELSE o3
  <1>1. CASE refused
    <2>1. ReadPreferenceConstruct(old, args) = Thrown(old)
      BY <1>1 DEF ReadPreferenceConstruct
    <2> QED BY <2>1, SoundForms
  <1>2. CASE ~refused
    <2>1. ReadPreferenceConstruct(old, args) = o4
      BY <1>2 DEF ReadPreferenceConstruct, Then, If
    <2>2. /\ Len(args) \in Nat /\ DOMAIN args = 1 .. Len(args)
          /\ \A i \in DOMAIN args : IF i = 3 THEN \A k \in DOMAIN args[i] : IsZval("ReadPreference", args[i][k])
                                             ELSE IsZval("ReadPreference", args[i])
      BY DEF AreArgs, IsList
    <2>3. "hedge" \in DOMAIN options => IsZval("ReadPreference", options["hedge"])
      <3>1. CASE Len(args) = 3
        <4>1. 3 \in DOMAIN args /\ options = args[3]
          BY <2>2, <3>1
        <4> QED BY <2>2, <4>1
      <3>2. CASE Len(args) # 3
        BY <3>2
      <3> QED BY <3>1, <3>2
    <2> HIDE DEF options
    <2>4. NewReadPreference(mode) \in V
      BY <1>2, ModeOfFacts, ReadPreferenceMakes
    <2>5. Stage(o1, V, V)
      <3>1. CASE Len(args) >= 2 /\ args[2] # NULL
        <4>1. 2 \in DOMAIN args /\ Is("list", args[2])
          BY <1>2, <2>2, <3>1
        <4>2. IsZval("ReadPreference", args[2])
          BY <2>2, <4>1
        <4>3. IsList(args[2].list) /\ \A i \in DOMAIN args[2].list : IsTagSet(args[2].list[i])
          BY <4>1, <4>2 DEF IsZval, Is
        <4>4. Stage(SetTags(NewReadPreference(mode), args[2].list), V, V)
          BY <2>4, <4>3, SetTagsFacts
        <4> QED BY <3>1, <4>4
      <3>2. CASE ~(Len(args) >= 2 /\ args[2] # NULL)
        BY <2>4, <3>2, StageForms
      <3> QED BY <3>1, <3>2
    <2> HIDE DEF o1
    <2>6. Stage(o2, V, V)
      <3>1. o1.result = "done" => o1.native \in V
        BY <2>5 DEF Stage
      <3> QED BY <2>5, <3>1, SetMaxStalenessFacts, StageForms
    <2> HIDE DEF o2
    <2>7. Stage(o3, V, V)
      <3>1. o2.result = "done" => o2.native \in V
        BY <2>6 DEF Stage
      <3> QED BY <2>3, <2>6, <3>1, SetHedgeFacts, StageForms
    <2> HIDE DEF o3
    <2>8. Stage(o4, V, V)
      <3>1. o3.result = "done" => o3.native \in V
        BY <2>7 DEF Stage
      <3> QED BY <2>7, <3>1, CheckReadPreferenceFacts, StageForms
    <2> HIDE DEF o4
    <2>9. Stage(o4, V, V \cup {NULL})
      BY <2>8 DEF Stage
    <2> QED BY <2>1, <2>9, StageIsSound, ValuesOf DEF SettingClasses
  <1> QED BY <1>1, <1>2

LEMMA ReadPreferenceFromHashSound ==
    ASSUME NEW old, NEW h, AreFields("ReadPreference", h)
    PROVE  Sound("ReadPreference", old, ReadPreferenceFromHash(old, h))
  <1> DEFINE V == ReadPreferenceValues
             mode == IF IsString(Field(h, "mode")) THEN ModeOf(h["mode"]) ELSE NULL
             z == h["maxStalenessSeconds"]
             o1 == IF "tags" \in DOMAIN h
                     THEN IF Is("list", h["tags"])
                            THEN SetTags(NewReadPreference(mode), h["tags"].list)
                            ELSE Thrown(NewReadPreference(mode))
                     ELSE Done(NewReadPreference(mode))
             o2 == IF o1.result = "done"
                     THEN IF "maxStalenessSeconds" \in DOMAIN h
                            THEN IF Is("long", z) THEN SetMaxStaleness(o1.native, z.long)
                                                  ELSE Thrown(o1.native)
                            ELSE Done(o1.native)
                     ELSE o1
             o3 == IF o2.result = "done"
                     THEN IF "hedge" \in DOMAIN h
                            THEN SetHedge(o2.native, h["hedge"]) ELSE Done(o2.native)
                     ELSE o2
             o4 == IF o3.result = "done" THEN CheckReadPreference(o3.native) ELSE o3
  <1>1. CASE mode = NULL
    <2>1. ReadPreferenceFromHash(old, h) = Thrown(old)
      BY <1>1 DEF ReadPreferenceFromHash
    <2> QED BY <2>1, SoundForms
  <1>2. CASE mode # NULL
    <2>1. ReadPreferenceFromHash(old, h) = OrDestroyed(o4)
      BY <1>2 DEF ReadPreferenceFromHash, Then, If
    <2>2. \A k \in DOMAIN h : IsZval("ReadPreference", h[k])
      BY DEF AreFields
    <2>3. NewReadPreference(mode) \in V
      BY <1>2, ModeOfFacts, ReadPreferenceMakes
    <2> HIDE DEF mode
    <2>4. Stage(o1, V, V)
      <3>1. CASE "tags" \in DOMAIN h /\ Is("list", h["tags"])
        <4>1. IsZval("ReadPreference", h["tags"])
          BY <2>2, <3>1
        <4>2. IsList(h["tags"].list) /\ \A i \in DOMAIN h["tags"].list : IsTagSet(h["tags"].list[i])
          BY <3>1, <4>1 DEF IsZval, Is
        <4>3. Stage(SetTags(NewReadPreference(mode), h["tags"].list), V, V)
          BY <2>3, <4>2, SetTagsFacts
        <4> QED BY <3>1, <4>3
      <3>2. CASE ~("tags" \in DOMAIN h /\ Is("list", h["tags"]))
        BY <2>3, <3>2, StageForms
      <3> QED BY <3>1, <3>2
    <2> HIDE DEF o1
    <2>5. Stage(o2, V, V)
      <3>1. o1.result = "done" => o1.native \in V
        BY <2>4 DEF Stage
      <3> QED BY <2>4, <3>1, SetMaxStalenessFacts, StageForms
    <2> HIDE DEF o2
    <2>6. Stage(o3, V, V)
      <3>1. o2.result = "done" => o2.native \in V
        BY <2>5 DEF Stage
      <3> QED BY <2>2, <2>5, <3>1, SetHedgeFacts, StageForms
    <2> HIDE DEF o3
    <2>7. Stage(o4, V, V)
      <3>1. o3.result = "done" => o3.native \in V
        BY <2>6 DEF Stage
      <3> QED BY <2>6, <3>1, CheckReadPreferenceFacts, StageForms
    <2> HIDE DEF o4
    <2>8. Stage(OrDestroyed(o4), V, V \cup {NULL})
      <3>1. Stage(OrDestroyed(o4), V, {NULL})
        BY <2>7, StageForms
      <3> QED BY <3>1 DEF Stage
    <2> QED BY <2>1, <2>8, StageIsSound, ValuesOf DEF SettingClasses
  <1> QED BY <1>1, <1>2

-------------------------------------------------------------------------------
(* Any class *)

LEMMA ConstructSound ==
    ASSUME NEW class \in Constructible, NEW old, NEW args, AreArgs(class, args)
    PROVE  Sound(class, old, Construct(class, old, args))
  <1>1. CASE class = "Timestamp"
    <2>1. Construct(class, old, args) = TimestampConstruct(old, args)
      BY ONLY <1>1 DEF Construct
    <2> QED BY <1>1, <2>1, TimestampSound
  <1>2. CASE class = "UTCDateTime"
    <2>1. Construct(class, old, args) = UTCDateTimeConstruct(old, args)
      BY ONLY <1>2 DEF Construct
    <2> QED BY <1>2, <2>1, UTCDateTimeSound
  <1>3. CASE class = "Binary"
    <2>1. Construct(class, old, args) = BinaryConstruct(old, args)
      BY ONLY <1>3 DEF Construct
    <2> QED BY <1>3, <2>1, BinarySound
  <1>4. CASE class = "ObjectId"
    <2>1. Construct(class, old, args) = ObjectIdConstruct(old, args)
      BY ONLY <1>4 DEF Construct
    <2> QED BY <1>4, <2>1, ObjectIdSound
  <1>5. CASE class = "Decimal128"
    <2>1. Construct(class, old, args) = Decimal128Construct(old, args)
      BY ONLY <1>5 DEF Construct
    <2> QED BY <1>5, <2>1, Decimal128Sound
  <1>6. CASE class = "Regex"
    <2>1. Construct(class, old, args) = RegexConstruct(old, args)
      BY ONLY <1>6 DEF Construct
    <2> QED BY <1>6, <2>1, RegexSound
  <1>7. CASE class = "Javascript"
    <2>1. Construct(class, old, args) = JavascriptConstruct(old, args)
      BY ONLY <1>7 DEF Construct
    <2> QED BY <1>7, <2>1, JavascriptSound
  <1>8. CASE class = "WriteConcern"
    <2>1. Construct(class, old, args) = WriteConcernConstruct(old, args)
      BY ONLY <1>8 DEF Construct
    <2> QED BY <1>8, <2>1, WriteConcernConstructSound
  <1>9. CASE class = "ReadPreference"
    <2>1. Construct(class, old, args) = ReadPreferenceConstruct(old, args)
      BY ONLY <1>9 DEF Construct
    <2> QED BY <1>9, <2>1, ReadPreferenceConstructSound
  <1>10. CASE class = "ReadConcern"
    <2>1. Construct(class, old, args) = ReadConcernConstruct(old, args)
      BY ONLY <1>10 DEF Construct
    <2> QED BY <1>10, <2>1, ReadConcernSound
  <1>11. CASE class = "ServerApi"
    <2>1. Construct(class, old, args) = ServerApiConstruct(old, args)
      BY ONLY <1>11 DEF Construct
    <2> QED BY <1>11, <2>1, ServerApiSound
  <1> QED BY <1>1, <1>2, <1>3, <1>4, <1>5, <1>6, <1>7, <1>8, <1>9, <1>10, <1>11
      DEF Constructible, Classes, BsonClasses, SettingClasses

LEMMA InitFromHashSound ==
    ASSUME NEW class \in Classes, NEW old, NEW h, AreFields(class, h)
    PROVE  Sound(class, old, InitFromHash(class, old, h))
  <1>1. CASE class = "Timestamp"
    <2>1. InitFromHash(class, old, h) = TimestampFromHash(old, h)
      BY ONLY <1>1 DEF InitFromHash
    <2> QED BY <1>1, <2>1, TimestampSound
  <1>2. CASE class = "UTCDateTime"
    <2>1. InitFromHash(class, old, h) = UTCDateTimeFromHash(old, h)
      BY ONLY <1>2 DEF InitFromHash
    <2> QED BY <1>2, <2>1, UTCDateTimeSound
  <1>3. CASE class = "Binary"
    <2>1. InitFromHash(class, old, h) = BinaryFromHash(old, h)
      BY ONLY <1>3 DEF InitFromHash
    <2> QED BY <1>3, <2>1, BinarySound
  <1>4. CASE class = "Int64"
    <2>1. InitFromHash(class, old, h) = Int64FromHash(old, h)
      BY ONLY <1>4 DEF InitFromHash
    <2> QED BY <1>4, <2>1, Int64Sound
  <1>5. CASE class = "ObjectId"
    <2>1. InitFromHash(class, old, h) = ObjectIdFromHash(old, h)
      BY ONLY <1>5 DEF InitFromHash
    <2> QED BY <1>5, <2>1, ObjectIdSound
  <1>6. CASE class = "Decimal128"
    <2>1. InitFromHash(class, old, h) = Decimal128FromHash(old, h)
      BY ONLY <1>6 DEF InitFromHash
    <2> QED BY <1>6, <2>1, Decimal128Sound
  <1>7. CASE class = "Regex"
    <2>1. InitFromHash(class, old, h) = RegexFromHash(old, h)
      BY ONLY <1>7 DEF InitFromHash
    <2> QED BY <1>7, <2>1, RegexSound
  <1>8. CASE class = "Javascript"
    <2>1. InitFromHash(class, old, h) = JavascriptFromHash(old, h)
      BY ONLY <1>8 DEF InitFromHash
    <2> QED BY <1>8, <2>1, JavascriptSound
  <1>9. CASE class = "Symbol"
    <2>1. InitFromHash(class, old, h) = SymbolFromHash(old, h)
      BY ONLY <1>9 DEF InitFromHash
    <2> QED BY <1>9, <2>1, SymbolSound
  <1>10. CASE class = "DBPointer"
    <2>1. InitFromHash(class, old, h) = DBPointerFromHash(old, h)
      BY ONLY <1>10 DEF InitFromHash
    <2> QED BY <1>10, <2>1, DBPointerSound
  <1>11. CASE class = "WriteConcern"
    <2>1. InitFromHash(class, old, h) = WriteConcernFromHash(old, h)
      BY ONLY <1>11 DEF InitFromHash
    <2> QED BY <1>11, <2>1, WriteConcernFromHashSound
  <1>12. CASE class = "ReadPreference"
    <2>1. InitFromHash(class, old, h) = ReadPreferenceFromHash(old, h)
      BY ONLY <1>12 DEF InitFromHash
    <2> QED BY <1>12, <2>1, ReadPreferenceFromHashSound
  <1>13. CASE class = "ReadConcern"
    <2>1. InitFromHash(class, old, h) = ReadConcernFromHash(old, h)
      BY ONLY <1>13 DEF InitFromHash
    <2> QED BY <1>13, <2>1, ReadConcernSound
  <1>14. CASE class = "ServerApi"
    <2>1. InitFromHash(class, old, h) = ServerApiFromHash(old, h)
      BY ONLY <1>14 DEF InitFromHash
    <2> QED BY <1>14, <2>1, ServerApiSound
  <1>15. CASE class = "CursorId"
    <2>1. InitFromHash(class, old, h) = CursorIdFromHash(old, h)
      BY ONLY <1>15 DEF InitFromHash
    <2> QED BY <1>15, <2>1, CursorIdSound
  <1> QED BY <1>1, <1>2, <1>3, <1>4, <1>5, <1>6, <1>7, <1>8, <1>9, <1>10,
             <1>11, <1>12, <1>13, <1>14, <1>15
      DEF Classes, BsonClasses, SettingClasses

\* A clone holds what its original does, unless the call ends the process.
LEMMA ClonedHolds ==
    ASSUME NEW class \in BsonClasses, NEW v, Holds(class, v)
    PROVE  \/ Cloned(class, v) = Done(v)
           \/ Cloned(class, v).result = "aborted"
  <1>1. CASE class = "Timestamp"
    <2>1. Cloned(class, v) = TimestampCloned(v)
      BY ONLY <1>1 DEF Cloned
    <2>2. v \in TimestampValues
      BY <1>1, ValuesOf DEF Holds, AlwaysHolding, BsonClasses
    <2> QED BY <2>1, <2>2 DEF TimestampCloned, TimestampInit, TimestampValues
  <1>2. CASE class = "UTCDateTime"
    <2>1. Cloned(class, v) = UTCDateTimeCloned(v)
      BY ONLY <1>2 DEF Cloned
    <2>2. v \in UTCDateTimeValues
      BY <1>2, ValuesOf DEF Holds, AlwaysHolding, BsonClasses
    <2> QED BY <2>1, <2>2 DEF UTCDateTimeCloned, UTCDateTimeInit, UTCDateTimeValues
  <1>3. CASE class = "Binary"
    <2>1. Cloned(class, v) = BinaryCloned(v)
      BY ONLY <1>3 DEF Cloned
    <2>2. v \in BinaryValues
      BY <1>3, ValuesOf DEF Holds, AlwaysHolding, BsonClasses
    <2> QED BY <2>1, <2>2 DEF BinaryCloned, BinaryInit, BinaryValues
  <1>4. CASE class = "Int64"
    <2>1. Cloned(class, v) = Int64Cloned(v)
      BY ONLY <1>4 DEF Cloned
    <2>2. v \in Int64Values
      BY <1>4, ValuesOf DEF Holds, AlwaysHolding, BsonClasses
    <2> QED BY <2>1, <2>2 DEF Int64Cloned, Int64Init, Int64Values
  <1>5. CASE class = "ObjectId"
    <2>1. Cloned(class, v) = ObjectIdCloned(v)
      BY ONLY <1>5 DEF Cloned
    <2>2. v \in ObjectIdValues
      BY <1>5, ValuesOf DEF Holds, AlwaysHolding, BsonClasses
    <2> QED BY <2>1, <2>2 DEF ObjectIdCloned, ObjectIdValues
  <1>6. CASE class = "Decimal128"
    <2>1. Cloned(class, v) = Decimal128Cloned(v)
      BY ONLY <1>6 DEF Cloned
    <2> QED BY <2>1 DEF Decimal128Cloned
  <1>7. CASE class = "Regex"
    <2>1. Cloned(class, v) = RegexCloned(v)
      BY ONLY <1>7 DEF Cloned
    <2>2. v \in RegexValues
      BY <1>7, ValuesOf DEF Holds, AlwaysHolding, BsonClasses
    <2>3. /\ NulFree(v.pattern) /\ NulFree(v.flags) /\ v.flags \in Seq(Nat) /\ InOrder(v.flags)
          /\ v = [pattern |-> v.pattern, flags |-> v.flags]
      BY <2>2 DEF RegexValues, NulFrees, InOrders
    <2>4. Sorted(v.flags) = v.flags
      BY <2>3, SortedAgain
    <2> QED BY <2>1, <2>3, <2>4 DEF RegexCloned, RegexInit
  <1>8. CASE class = "Javascript"
    <2>1. Cloned(class, v) = JavascriptCloned(v)
      BY ONLY <1>8 DEF Cloned
    <2>2. v \in JavascriptValues
      BY <1>8, ValuesOf DEF Holds, AlwaysHolding, BsonClasses
    <2>3. NulFree(v.code) /\ v = [code |-> v.code, scope |-> v.scope]
      BY <2>2 DEF JavascriptValues, NulFrees
    <2>4. JavascriptInit(NULL, v.code, NULL).native = [code |-> v.code, scope |-> NULL]
      BY <2>3 DEF JavascriptInit, Done
    <2>5. CASE v.scope = NULL
      BY <2>1, <2>5 DEF JavascriptCloned, Aborted
    <2>6. CASE v.scope # NULL
      <3>1. [[code |-> v.code, scope |-> NULL] EXCEPT !.scope = v.scope] = v
        BY <2>3
      <3> QED BY <2>1, <2>4, <2>6, <3>1 DEF JavascriptCloned
    <2> QED BY <2>5, <2>6
  <1>9. CASE class = "Symbol"
    <2>1. Cloned(class, v) = SymbolCloned(v)
      BY ONLY <1>9 DEF Cloned
    <2>2. v \in SymbolValues
      BY <1>9, ValuesOf DEF Holds, AlwaysHolding, BsonClasses
    <2> QED BY <2>1, <2>2 DEF SymbolCloned, SymbolInit, SymbolValues, NulFrees
  <1>10. CASE class = "DBPointer"
    <2>1. Cloned(class, v) = DBPointerCloned(v)
      BY ONLY <1>10 DEF Cloned
    <2>2. v \in DBPointerValues
      BY <1>10, ValuesOf DEF Holds, AlwaysHolding, BsonClasses
    <2> QED BY <2>1, <2>2 DEF DBPointerCloned, DBPointerInit, DBPointerValues, NulFrees
  <1> QED BY <1>1, <1>2, <1>3, <1>4, <1>5, <1>6, <1>7, <1>8, <1>9, <1>10
      DEF BsonClasses

-------------------------------------------------------------------------------
(* The invariant *)

\* An object is of one of the classes, and holds a value of its class, or none
\* where that may be.
ObjectInv ==
    object # NULL =>
      /\ object = [class |-> object.class, native |-> object.native,
                   properties |-> object.properties]
      /\ object.class \in Classes
      /\ ~crashed => Holds(object.class, object.native)

IInv == crashed \in BOOLEAN /\ ObjectInv

\* What the program passes to the methods.
LEMMA Passed ==
    /\ \A class \in Constructible : \A args \in Args[class] : AreArgs(class, args)
    /\ \A class \in Classes : \A h \in Hashes[class] : AreFields(class, h)
  BY ArgsAssumption DEF AreFields

LEMMA CreateKeeps ==
    ASSUME NEW class \in Classes, NEW outcome,
           outcome.result = "done" => Holds(class, outcome.native), Create(class, outcome)
    PROVE  IInv'
  <1>1. /\ object' = IF outcome.result = "done"
                       THEN [class |-> class, native |-> outcome.native, properties |-> NULL]
                       ELSE NULL
        /\ crashed' \in BOOLEAN
    BY DEF Create
  <1>2. CASE outcome.result = "done"
    <2>1. /\ object'.class = class /\ object'.native = outcome.native
          /\ object' = [class |-> object'.class, native |-> object'.native,
                        properties |-> object'.properties]
      BY <1>1, <1>2
    <2> QED BY <1>1, <1>2, <2>1 DEF IInv, ObjectInv
  <1>3. CASE outcome.result # "done"
    BY <1>1, <1>3 DEF IInv, ObjectInv
  <1> QED BY <1>2, <1>3

LEMMA ReinitializeKeeps ==
    ASSUME IInv, Exists, NEW outcome, Sound(object.class, object.native, outcome),
           Reinitialize(outcome)
    PROVE  IInv'
  <1>1. /\ object = [class |-> object.class, native |-> object.native,
                     properties |-> object.properties]
        /\ object.class \in Classes /\ Holds(object.class, object.native)
    BY DEF IInv, ObjectInv, Exists
  <1>2. object' = [object EXCEPT !.native = outcome.native]
        /\ crashed' = (outcome.result = "aborted")
    BY DEF Reinitialize
  <1>3. object' = [class |-> object.class, native |-> outcome.native,
                   properties |-> object.properties]
    BY <1>1, <1>2
  <1>4. ~crashed' => Holds(object.class, outcome.native)
    BY <1>1, <1>2 DEF Sound, Holds
  <1>5. /\ object'.class = object.class /\ object'.native = outcome.native
        /\ object'.properties = object.properties /\ crashed' \in BOOLEAN
    BY <1>2, <1>3
  <1> QED BY <1>1, <1>3, <1>4, <1>5 DEF IInv, ObjectInv

LEMMA NextKeeps ==
    ASSUME IInv, [Next]_vars
    PROVE  IInv'
  <1>1. ASSUME NEW class \in Constructible, New(class)
        PROVE  IInv'
    <2>1. PICK args \in Args[class] : Create(class, Construct(class, NULL, args))
      BY <1>1 DEF New
    <2>2. Sound(class, NULL, Construct(class, NULL, args))
      BY Passed, ConstructSound
    <2>3. class \in Classes
      BY DEF Constructible
    <2> QED BY <2>1, <2>2, <2>3, CreateKeeps DEF Sound, Holds
  <1>2. ASSUME NEW class \in Classes, UnserializeNew(class) \/ SetState(class)
        PROVE  IInv'
    <2>1. PICK h \in Hashes[class] : Create(class, InitFromHash(class, NULL, h))
      BY <1>2 DEF UnserializeNew, SetState, FromHash
    <2>2. Sound(class, NULL, InitFromHash(class, NULL, h))
      BY Passed, InitFromHashSound
    <2> QED BY <2>1, <2>2, CreateKeeps DEF Sound, Holds
  <1>3. ASSUME NEW class \in SettingClasses, UnserializeEmpty(class)
        PROVE  IInv'
    <2>1. class \in Classes /\ Done(NULL).native = NULL /\ Holds(class, NULL)
      BY SettingsMayBeEmpty DEF Classes, Done
    <2> QED BY <1>3, <2>1, CreateKeeps DEF UnserializeEmpty
  <1>4. ASSUME ConstructAgain
        PROVE  IInv'
    <2>1. PICK args \in Args[object.class] :
            Reinitialize(Construct(object.class, object.native, args))
      BY <1>4 DEF ConstructAgain
    <2>2. Exists /\ object.class \in Constructible
      BY <1>4 DEF ConstructAgain
    <2>3. Sound(object.class, object.native, Construct(object.class, object.native, args))
      BY <2>1, <2>2, Passed, ConstructSound
    <2> QED BY <2>1, <2>2, <2>3, ReinitializeKeeps
  <1>5. ASSUME Unserialize
        PROVE  IInv'
    <2>1. PICK h \in Hashes[object.class] :
            Reinitialize(InitFromHash(object.class, object.native, h))
      BY <1>5 DEF Unserialize
    <2>2. Exists /\ object.class \in Classes
      BY <1>5 DEF Unserialize, Exists, IInv, ObjectInv
    <2>3. Sound(object.class, object.native, InitFromHash(object.class, object.native, h))
      BY <2>1, <2>2, Passed, InitFromHashSound
    <2> QED BY <2>1, <2>2, <2>3, ReinitializeKeeps
  <1>6. ASSUME GetProperties
        PROVE  IInv'
    <2>1. /\ object = [class |-> object.class, native |-> object.native,
                       properties |-> object.properties]
          /\ object.class \in Classes /\ Holds(object.class, object.native)
      BY <1>6 DEF IInv, ObjectInv, Exists, GetProperties
    <2>2. object' = [object EXCEPT !.properties = Kept] /\ crashed' \in BOOLEAN
      BY <1>6 DEF GetProperties
    <2>3. object' = [class |-> object.class, native |-> object.native, properties |-> Kept]
      BY <2>1, <2>2
    <2>4. /\ object'.class = object.class /\ object'.native = object.native
          /\ object'.properties = Kept
      BY <2>3
    <2> QED BY <2>1, <2>2, <2>3, <2>4 DEF IInv, ObjectInv
  <1>7. ASSUME Clone
        PROVE  IInv'
    <2> DEFINE outcome == Cloned(object.class, object.native)
    <2>1. /\ object.class \in Classes /\ Holds(object.class, object.native)
          /\ object.class \in BsonClasses
      BY <1>7 DEF IInv, ObjectInv, Exists, Clone
    <2>2. /\ object' = [class |-> object.class, native |-> outcome.native, properties |-> NULL]
          /\ crashed' = (outcome.result = "aborted")
      BY <1>7 DEF Clone
    <2>3. outcome = Done(object.native) \/ outcome.result = "aborted"
      BY <2>1, ClonedHolds
    <2>4. outcome.result # "aborted" => outcome.native = object.native
      BY <2>3 DEF Done
    <2> HIDE DEF outcome
    <2>5. /\ object'.class = object.class /\ object'.native = outcome.native
          /\ object'.properties = NULL
      BY <2>2
    <2> QED BY <2>1, <2>2, <2>4, <2>5 DEF IInv, ObjectInv
  <1>8. ASSUME Get
        PROVE  IInv'
    BY <1>8 DEF IInv, ObjectInv, Exists, Get
  <1>9. ASSUME Free
        PROVE  IInv'
    BY <1>9 DEF IInv, ObjectInv, Exists, Free
  <1>10. ASSUME UNCHANGED vars
         PROVE  IInv'
    BY <1>10 DEF IInv, ObjectInv, vars
  <1> QED BY <1>1, <1>2, <1>3, <1>4, <1>5, <1>6, <1>7, <1>8, <1>9, <1>10 DEF Next, SetStateClasses

\* Whatever calls an object goes through, it has one of the classes and holds a
\* value that is well-formed for it; only a setting, a CursorId or a Decimal128
\* can be without one.
THEOREM ObjectsAreWellFormed == Spec => []IInv
  <1>1. Init => IInv
    BY DEF Init, IInv, ObjectInv
  <1>2. IInv /\ [Next]_vars => IInv'
    BY NextKeeps
  <1> QED BY <1>1, <1>2, PTL DEF Spec

\* An object of the driver's value classes only ever holds a value that its class
\* accepts, for integers of any width and texts of any length: after its
\* constructor, __set_state(), unserialize() and clone, and after a second
\* initialization, which may be refused half way.
THEOREM ValuesStayValid == Spec => []AlwaysValid
  <1>1. IInv => AlwaysValid
    <2> SUFFICES ASSUME IInv, object # NULL, object.native # NULL, ~crashed
                 PROVE  Valid(object.class, object.native)
      BY DEF AlwaysValid
    <2>1. object.class \in Classes /\ object.native \in Values(object.class)
      BY DEF IInv, ObjectInv, Holds
    <2> QED BY <2>1, ValuesAreValid
  <1> QED BY <1>1, ObjectsAreWellFormed, PTL

-------------------------------------------------------------------------------
(* What is written, read again *)

LEMMA NotNull ==
    /\ \A n \in Int : [long |-> n] # NULL /\ [string |-> n] # NULL
    /\ \A t \in Seq(Nat) : [text |-> t] # NULL
    /\ \A t \in Names : [text |-> t] # NULL
    /\ \A d \in Documents : [object |-> d] # NULL /\ [array |-> d] # NULL /\ d # NULL
    /\ \A t \in Time : [date |-> t] # NULL
    /\ \A b \in BOOLEAN : [bool |-> b] # NULL /\ b # NULL
    /\ \A m \in ModeNames : [text |-> m] # NULL /\ m # NULL
  <1>1. /\ \A n \in Int : [long |-> n] \in [long : Int] /\ [string |-> n] \in [string : Int]
        /\ \A t \in Seq(Nat) : [text |-> t] \in [text : Seq(Nat)]
        /\ \A t \in Names : [text |-> t] \in [text : Names]
        /\ \A d \in Documents : [object |-> d] \in [object : Documents] /\ [array |-> d] \in [array : Documents]
        /\ \A t \in Time : [date |-> t] \in [date : Time]
        /\ \A b \in BOOLEAN : [bool |-> b] \in [bool : BOOLEAN]
    OBVIOUS
  <1>2. ModeNames \subseteq Names
    BY DocumentsAssumption
  <1> QED BY <1>1, <1>2, NullAssumption

\* h is a form of v that is read again as v.
ReadAs(class, v, h) ==
    h = [k \in DOMAIN h |-> h[k]] /\ InitFromHash(class, NULL, h) = Done(v)

LEMMA TimestampReadsBack ==
    ASSUME NEW v \in TimestampValues
    PROVE  TimestampFromHash(NULL, TimestampProperties(v)) = Done(v)
  <1> DEFINE h == TimestampProperties(v)
             i == [string |-> v.increment]
             t == [string |-> v.timestamp]
  <1>1. /\ v = [increment |-> v.increment, timestamp |-> v.timestamp]
        /\ v.increment \in 0 .. Uint32Max /\ v.timestamp \in 0 .. Uint32Max
    BY DEF TimestampValues
  <1>2. \A n \in 0 .. Uint32Max : n \in Int /\ n \in -Int64Max - 1 .. Int64Max
    BY WidthFacts
  <1>3. Field(h, "increment") = i /\ Field(h, "timestamp") = t
    BY DEF Field, TimestampProperties
  <1>4. i # NULL /\ t # NULL
    BY <1>1, <1>2, NotNull
  <1>5. ParsesAsInt64(i) /\ ParsesAsInt64(t) /\ IsString(i) /\ IsString(t) /\ ~Is("long", i)
    BY <1>1, <1>2, <1>4 DEF ParsesAsInt64, IsString, Is
  <1>6. TimestampFromHash(NULL, h) = TimestampFromString(NULL, i, t)
    BY <1>3, <1>5 DEF TimestampFromHash
  <1>7. TimestampFromString(NULL, i, t) = TimestampInit(NULL, v.increment, v.timestamp)
    BY <1>5 DEF TimestampFromString
  <1>8. TimestampInit(NULL, v.increment, v.timestamp) = Done(v)
    BY <1>1 DEF TimestampInit
  <1> QED BY <1>6, <1>7, <1>8

LEMMA Int64Facts ==
    ASSUME NEW n \in Int64s
    PROVE  /\ n \in Int /\ n \in -Int64Max - 1 .. Int64Max
           /\ [string |-> n] # NULL /\ ParsesAsInt64([string |-> n]) /\ IsString([string |-> n])
           /\ ~Is("long", [string |-> n])
  <1>1. n \in Int /\ n \in -Int64Max - 1 .. Int64Max
    BY LongIsInt DEF Int64s
  <1>2. [string |-> n] # NULL
    BY <1>1, NotNull
  <1> QED BY <1>1, <1>2 DEF ParsesAsInt64, IsString, Is

LEMMA UTCDateTimeReadsBack ==
    ASSUME NEW v \in UTCDateTimeValues
    PROVE  /\ UTCDateTimeFromHash(NULL, UTCDateTimeProperties(v)) = Done(v)
           /\ UTCDateTimeConstruct(NULL, <<ToDateTime(v)>>) = Done(v)
  <1> DEFINE n == v.milliseconds
             h == UTCDateTimeProperties(v)
  <1>1. v = [milliseconds |-> n] /\ n \in Int64s
    BY DEF UTCDateTimeValues
  <1>2. Field(h, "milliseconds") = [string |-> n]
    BY DEF Field, UTCDateTimeProperties
  <1>3. UTCDateTimeFromHash(NULL, h) = UTCDateTimeFromString(NULL, [string |-> n])
    BY <1>1, <1>2, Int64Facts DEF UTCDateTimeFromHash
  <1>4. UTCDateTimeFromString(NULL, [string |-> n]) = Done(v)
    BY <1>1, Int64Facts DEF UTCDateTimeFromString, UTCDateTimeInit
  <1> DEFINE q == Quotient(n, Kilo)
             r == Remainder(n, Kilo)
             date == [sec |-> q, usec |-> r * Kilo]
  <1>5. n \in Int /\ n \in -Int64Max - 1 .. Int64Max /\ Kilo \in Nat \ {0}
    BY <1>1, Int64Facts, KiloAssumption
  <1>6. q \in Int /\ r \in Int /\ q * Kilo + r = n
    BY <1>5, QuotientFacts
  <1>7. Quotient(r * Kilo, Kilo) = r
    BY <1>5, <1>6, QuotientFacts
  <1> HIDE DEF q, r
  <1>8. r * Kilo \in Int
    BY <1>5, <1>6
  <1>9. date \in Time /\ [date |-> date] # NULL
    <2>1. date \in Time
      BY <1>6, <1>8 DEF Time
    <2> QED BY <2>1, NotNull
  <1>10. ToDateTime(v) = [date |-> date]
    BY DEF ToDateTime, q, r
  <1>11. UTCDateTimeConstruct(NULL, <<[date |-> date]>>) = UTCDateTimeFromDate(date)
    <2>1. <<[date |-> date]>>[1] = [date |-> date]
      OBVIOUS
    <2> HIDE DEF date
    <2>2. Is("date", [date |-> date]) /\ \A type : Is(type, [date |-> date]) => type = "date"
      BY <1>9 DEF Is
    <2> QED BY <2>1, <2>2 DEF UTCDateTimeConstruct, IsString
  <1>12. UTCDateTimeFromDate(date) = UTCDateTimeInit(Wrapped(n, Int64Max))
    BY <1>6, <1>7 DEF UTCDateTimeFromDate
  <1>13. Wrapped(n, Int64Max) = n
    BY <1>5, WrappedFacts, WidthFacts
  <1> QED BY <1>1, <1>3, <1>4, <1>10, <1>11, <1>12, <1>13 DEF UTCDateTimeInit

LEMMA Int64ReadsBack ==
    ASSUME NEW v \in Int64Values
    PROVE  Int64FromHash(NULL, Int64Properties(v)) = Done(v)
  <1>1. v = [integer |-> v.integer] /\ v.integer \in Int64s
    BY DEF Int64Values
  <1>2. /\ Field(Int64Properties(v), "integer") = [string |-> v.integer]
        /\ Int64Properties(v)["integer"] = [string |-> v.integer]
    BY DEF Field, Int64Properties
  <1>3. Int64FromHash(NULL, Int64Properties(v)) = Int64FromString(NULL, [string |-> v.integer])
    BY <1>1, <1>2, Int64Facts DEF Int64FromHash
  <1> QED BY <1>1, <1>3, Int64Facts DEF Int64FromString, Int64Init

LEMMA CursorIdReadsBack ==
    ASSUME NEW v \in CursorIdValues
    PROVE  CursorIdFromHash(NULL, CursorIdProperties(v, TRUE)) = Done(v)
  <1>1. v = [id |-> v.id] /\ v.id \in Int64s
    BY DEF CursorIdValues
  <1>2. /\ Field(CursorIdProperties(v, TRUE), "id") = [string |-> v.id]
        /\ CursorIdProperties(v, TRUE)["id"] = [string |-> v.id]
    BY DEF Field, CursorIdProperties
  <1>3. CursorIdFromHash(NULL, CursorIdProperties(v, TRUE))
          = CursorIdFromString(NULL, [string |-> v.id])
    BY <1>1, <1>2, Int64Facts DEF CursorIdFromHash
  <1> QED BY <1>1, <1>3, Int64Facts DEF CursorIdFromString

LEMMA BinaryReadsBack ==
    ASSUME NEW v \in BinaryValues
    PROVE  BinaryFromHash(NULL, BinaryProperties(v)) = Done(v)
  <1> DEFINE h == BinaryProperties(v)
  <1>1. /\ v = [data |-> v.data, type |-> v.type] /\ v.data \in Names /\ v.type \in 0 .. Uint8Max
        /\ v.type \in UuidTypes => v.data \in UuidSized
    BY DEF BinaryValues
  <1>2. /\ Field(h, "data") = [text |-> v.data] /\ h["data"] = [text |-> v.data]
        /\ Field(h, "type") = [long |-> v.type] /\ h["type"] = [long |-> v.type]
    BY DEF Field, BinaryProperties
  <1>3. [text |-> v.data] # NULL /\ [long |-> v.type] # NULL
    <2>1. v.type \in Int
      BY <1>1
    <2> QED BY <1>1, <2>1, NotNull
  <1>4. Is("text", [text |-> v.data]) /\ Is("long", [long |-> v.type])
    BY <1>3 DEF Is
  <1>5. BinaryFromHash(NULL, h) = BinaryInit(NULL, v.data, v.type)
    BY <1>2, <1>4 DEF BinaryFromHash
  <1> QED BY <1>1, <1>5 DEF BinaryInit

LEMMA TextField ==
    ASSUME NEW t \in Seq(Nat)
    PROVE  Is("text", [text |-> t]) /\ [text |-> t].text = t
  BY NotNull DEF Is

LEMMA ObjectIdReadsBack ==
    ASSUME NEW v \in ObjectIdValues
    PROVE  ObjectIdFromHash(NULL, ObjectIdProperties(v)) = Done(v)
  <1> DEFINE h == ObjectIdProperties(v)
  <1>1. v = [oid |-> v.oid] /\ v.oid \in DOMAIN OidOf /\ OidOf[v.oid] = v.oid
    BY DEF ObjectIdValues
  <1>2. v.oid \in Seq(Nat)
    BY <1>1, ParseAssumption
  <1>3. Field(h, "oid") = [text |-> v.oid] /\ h["oid"] = [text |-> v.oid]
    BY DEF Field, ObjectIdProperties
  <1>4. ObjectIdFromHash(NULL, h) = ObjectIdFromHexString(NULL, v.oid)
    BY <1>2, <1>3, TextField DEF ObjectIdFromHash
  <1> QED BY <1>1, <1>4 DEF ObjectIdFromHexString

LEMMA Decimal128ReadsBack ==
    ASSUME NEW v \in Decimal128Values
    PROVE  Decimal128FromHash(NULL, Decimal128Properties(v)) = Done(v)
  <1> DEFINE h == Decimal128Properties(v)
  <1>1. v = [dec |-> v.dec] /\ v.dec \in DOMAIN DecimalOf /\ DecimalOf[v.dec] = v.dec
    BY DEF Decimal128Values
  <1>2. v.dec \in Seq(Nat) /\ NulFree(v.dec)
    BY <1>1, ParseAssumption
  <1>3. Field(h, "dec") = [text |-> v.dec] /\ h["dec"] = [text |-> v.dec]
    BY DEF Field, Decimal128Properties
  <1>4. Decimal128FromHash(NULL, h) = Decimal128Init(NULL, v.dec)
    BY <1>2, <1>3, TextField DEF Decimal128FromHash
  <1>5. CString(v.dec) = v.dec
    BY <1>2, CStringFacts
  <1> QED BY <1>1, <1>4, <1>5 DEF Decimal128Init

LEMMA RegexReadsBack ==
    ASSUME NEW v \in RegexValues
    PROVE  RegexFromHash(NULL, RegexProperties(v)) = Done(v)
  <1> DEFINE h == RegexProperties(v)
  <1>1. /\ v = [pattern |-> v.pattern, flags |-> v.flags]
        /\ v.pattern \in Seq(Nat) /\ NulFree(v.pattern)
        /\ v.flags \in Seq(Nat) /\ NulFree(v.flags) /\ InOrder(v.flags)
    BY DEF RegexValues, NulFrees, InOrders
  <1>2. /\ Field(h, "pattern") = [text |-> v.pattern] /\ h["pattern"] = [text |-> v.pattern]
        /\ Field(h, "flags") = [text |-> v.flags] /\ h["flags"] = [text |-> v.flags]
    BY DEF Field, RegexProperties
  <1>3. RegexFromHash(NULL, h) = RegexInit(NULL, v.pattern, v.flags)
    BY <1>1, <1>2, TextField DEF RegexFromHash
  <1>4. Sorted(v.flags) = v.flags
    BY <1>1, SortedAgain
  <1> QED BY <1>1, <1>3, <1>4 DEF RegexInit

LEMMA JavascriptReadsBack ==
    ASSUME NEW v \in JavascriptValues
    PROVE  /\ JavascriptFromHash(NULL, JavascriptProperties(v)) = Done(v)
           /\ JavascriptSerialized(v) = JavascriptProperties(v)
  <1> DEFINE scope == IF v.scope = NULL THEN NULL ELSE [object |-> v.scope]
             h == JavascriptProperties(v)
  <1>1. /\ v = [code |-> v.code, scope |-> v.scope] /\ v.scope \in Documents \cup {NULL}
        /\ v.code \in Seq(Nat) /\ NulFree(v.code)
    BY DEF JavascriptValues, NulFrees
  <1>2. CString(v.code) = v.code
    BY <1>1, CStringFacts
  <1>3. h = [code |-> [text |-> v.code], scope |-> scope]
    BY <1>2 DEF JavascriptProperties
  <1>4. JavascriptSerialized(v) = h
    BY <1>3 DEF JavascriptSerialized
  <1>5. /\ Field(h, "code") = [text |-> v.code] /\ h["code"] = [text |-> v.code]
        /\ Field(h, "scope") = scope
    BY <1>3 DEF Field
  <1>6. JavascriptFromHash(NULL, h) = JavascriptInit(NULL, v.code, scope)
    BY <1>1, <1>5, TextField DEF JavascriptFromHash
  <1> HIDE DEF h
  <1>7. CASE v.scope = NULL
    <2>1. JavascriptInit(NULL, v.code, NULL) = Done([code |-> v.code, scope |-> NULL])
      BY <1>1 DEF JavascriptInit
    <2>2. scope = NULL /\ v = [code |-> v.code, scope |-> NULL]
      BY <1>1, <1>7
    <2> HIDE DEF scope
    <2> QED BY <1>4, <1>6, <2>1, <2>2 DEF h
  <1>8. CASE v.scope # NULL
    <2>1. v.scope \in Documents /\ scope = [object |-> v.scope] /\ scope # NULL
      BY <1>1, <1>8, NotNull
    <2>2. Is("object", scope) /\ DocumentOf(scope) = v.scope
      BY <2>1 DEF Is, DocumentOf
    <2> HIDE DEF scope
    <2>3. JavascriptInit(NULL, v.code, scope) = Done([code |-> v.code, scope |-> v.scope])
      BY <1>1, <1>8, <2>1, <2>2 DEF JavascriptInit
    <2> QED BY <1>1, <1>4, <1>6, <2>3 DEF h
  <1> QED BY <1>7, <1>8

LEMMA SymbolReadsBack ==
    ASSUME NEW v \in SymbolValues
    PROVE  /\ SymbolFromHash(NULL, SymbolProperties(v)) = Done(v)
           /\ SymbolSerialized(v) = SymbolProperties(v)
  <1> DEFINE h == SymbolProperties(v)
  <1>1. v = [symbol |-> v.symbol] /\ v.symbol \in Seq(Nat) /\ NulFree(v.symbol)
    BY DEF SymbolValues, NulFrees
  <1>2. CString(v.symbol) = v.symbol
    BY <1>1, CStringFacts
  <1>3. h = [symbol |-> [text |-> v.symbol]]
    BY <1>2 DEF SymbolProperties
  <1>4. Field(h, "symbol") = [text |-> v.symbol] /\ h["symbol"] = [text |-> v.symbol]
    BY <1>3 DEF Field
  <1>5. SymbolFromHash(NULL, h) = SymbolInit(NULL, v.symbol)
    BY <1>1, <1>4, TextField DEF SymbolFromHash
  <1> QED BY <1>1, <1>3, <1>5 DEF SymbolInit, SymbolSerialized

LEMMA DBPointerReadsBack ==
    ASSUME NEW v \in DBPointerValues
    PROVE  /\ DBPointerFromHash(NULL, DBPointerProperties(v)) = Done(v)
           /\ DBPointerSerialized(v) = DBPointerProperties(v)
  <1> DEFINE h == DBPointerProperties(v)
  <1>1. /\ v = [ref |-> v.ref, id |-> v.id] /\ v.ref \in Seq(Nat) /\ NulFree(v.ref)
        /\ v.id \in DOMAIN OidOf
    BY DEF DBPointerValues, NulFrees
  <1>2. CString(v.ref) = v.ref /\ v.id \in Seq(Nat)
    BY <1>1, CStringFacts, ParseAssumption
  <1>3. h = [ref |-> [text |-> v.ref], id |-> [text |-> v.id]]
    BY <1>2 DEF DBPointerProperties
  <1>4. /\ Field(h, "ref") = [text |-> v.ref] /\ h["ref"] = [text |-> v.ref]
        /\ Field(h, "id") = [text |-> v.id] /\ h["id"] = [text |-> v.id]
    BY <1>3 DEF Field
  <1>5. DBPointerFromHash(NULL, h) = DBPointerInit(NULL, v.ref, v.id)
    BY <1>1, <1>2, <1>4, TextField DEF DBPointerFromHash
  <1> QED BY <1>1, <1>3, <1>5 DEF DBPointerInit, DBPointerSerialized

LEMMA ReadConcernReadsBack ==
    ASSUME NEW v \in ReadConcernValues
    PROVE  ReadConcernFromHash(NULL, ReadConcernProperties(v)) = Done(v)
  <1> DEFINE h == ReadConcernProperties(v)
  <1>1. v = [level |-> v.level] /\ v.level \in NulFrees \cup {NULL}
    BY DEF ReadConcernValues
  <1>2. CASE v.level = NULL
    <2>1. h = <<>> /\ "level" \notin DOMAIN h
      BY <1>2 DEF ReadConcernProperties
    <2>2. ~Is("text", Field(h, "level"))
      BY <2>1 DEF Is, Field
    <2> QED BY <1>1, <1>2, <2>1, <2>2 DEF ReadConcernFromHash, NewReadConcern
  <1>3. CASE v.level # NULL
    <2>1. v.level \in Seq(Nat) /\ NulFree(v.level)
      BY <1>1, <1>3 DEF NulFrees
    <2>2. CString(v.level) = v.level
      BY <2>1, CStringFacts
    <2>3. h = [level |-> [text |-> v.level]]
      BY <1>3 DEF ReadConcernProperties
    <2>4. "level" \in DOMAIN h /\ Field(h, "level") = [text |-> v.level] /\ h["level"] = [text |-> v.level]
      BY <2>3 DEF Field
    <2>5. ReadConcernFromHash(NULL, h) = Done(SetLevel(NewReadConcern, v.level))
      BY <2>1, <2>4, TextField DEF ReadConcernFromHash
    <2>6. SetLevel(NewReadConcern, v.level) = v
      BY <1>1, <2>2 DEF SetLevel, NewReadConcern
    <2> QED BY <2>5, <2>6
  <1> QED BY <1>2, <1>3

LEMMA ServerApiReadsBack ==
    ASSUME NEW v \in ServerApiValues
    PROVE  ServerApiFromHash(NULL, ServerApiProperties(v)) = Done(v)
  <1> DEFINE h == ServerApiProperties(v)
  <1>1. /\ v = [version |-> v.version, strict |-> v.strict, deprecationErrors |-> v.deprecationErrors]
        /\ v.version = Version1 /\ v.strict \in Flags /\ v.deprecationErrors \in Flags
    BY DEF ServerApiValues
  <1>2. \A z \in Flags : BoolOrNull(z)
    BY DEF Flags, BoolOrNull, Is
  <1>3. Version1 \in Seq(Nat) /\ NulFree(Version1)
    BY DEF Version1, NulFree, Nul
  <1>4. CString(Version1) = Version1
    BY <1>3, CStringFacts
  <1>5. /\ Field(h, "version") = [text |-> Version1] /\ h["version"] = [text |-> Version1]
        /\ Field(h, "strict") = v.strict /\ Field(h, "deprecationErrors") = v.deprecationErrors
    BY <1>1 DEF Field, ServerApiProperties
  <1>6. ServerApiFromHash(NULL, h)
          = ServerApiCreate(NULL, Version1, v.strict, v.deprecationErrors)
    BY <1>1, <1>2, <1>3, <1>5, TextField DEF ServerApiFromHash
  <1> QED BY <1>1, <1>4, <1>6 DEF ServerApiCreate

\* The fields of a write concern that is written.
LEMMA WOfFacts ==
    ASSUME NEW v \in WriteConcernValues
    PROVE  /\ DOMAIN WOf(v) \in {{}, {"w"}}
           /\ "w" \in DOMAIN WOf(v) =>
                SetW(NewWriteConcern, WOf(v)["w"]) = Done([NewWriteConcern EXCEPT !.w = v.w])
           /\ "w" \notin DOMAIN WOf(v) => v.w = DefaultW
  <1>1. v.w \in Ws
    BY DEF WriteConcernValues
  <1>2. CASE v.w \in [tag : Tags]
    <2>1. v.w = [tag |-> v.w.tag] /\ v.w.tag \in Tags /\ DOMAIN v.w = {"tag"}
      BY <1>2
    <2>2. v.w # MajorityW /\ v.w # DefaultW
      BY <2>1 DEF MajorityW, DefaultW
    <2>3. WOf(v) = [w |-> v.w.tag]
      BY <2>1, <2>2 DEF WOf
    <2> DEFINE z == v.w.tag
    <2>4. /\ z # Majority /\ z # NULL
          /\ DOMAIN z = {"string"} \/ DOMAIN z = {"text"}
      <3>1. z \in [string : Int] \/ z \in [text : Names]
        BY <2>1 DEF Tags
      <3>2. z # Majority
        BY <2>1 DEF Tags
      <3>3. z # NULL
        BY <3>1, NullAssumption
      <3> QED BY <3>1, <3>2, <3>3
    <2> HIDE DEF z
    <2>5. IsString(z) /\ ~Is("long", z)
      BY <2>4 DEF IsString, Is
    <2>6. SetW(NewWriteConcern, z) = Done([NewWriteConcern EXCEPT !.w = [tag |-> z]])
      BY <2>4, <2>5 DEF SetW
    <2>7. v.w = [tag |-> z] /\ WOf(v) = [w |-> z]
      BY <2>1, <2>3 DEF z
    <2> QED BY <2>6, <2>7
  <1>3. CASE v.w \in [int : -3 .. Int32Max]
    <2> DEFINE n == v.w.int
    <2>1. v.w = [int |-> n] /\ n \in -3 .. Int32Max /\ "tag" \notin DOMAIN v.w
      BY <1>3
    <2> HIDE DEF n
    <2>2. CASE n = -3
      <3>1. v.w = MajorityW /\ v.w # DefaultW
        BY <2>1, <2>2 DEF MajorityW, DefaultW
      <3>2. WOf(v) = [w |-> Majority]
        BY <2>1, <3>1 DEF WOf
      <3>3. ~Is("long", Majority)
        BY DEF Is, Majority
      <3>4. SetW(NewWriteConcern, Majority) = Done([NewWriteConcern EXCEPT !.w = MajorityW])
        BY <3>3 DEF SetW
      <3> QED BY <3>1, <3>2, <3>4
    <2>3. CASE n = -2
      <3>1. v.w = DefaultW /\ v.w # MajorityW
        BY <2>1, <2>3 DEF MajorityW, DefaultW
      <3>2. WOf(v) = <<>>
        BY <2>1, <3>1 DEF WOf
      <3> QED BY <3>1, <3>2
    <2>4. CASE n # -3 /\ n # -2
      <3>1. v.w # DefaultW /\ v.w # MajorityW
        BY <2>1, <2>4 DEF MajorityW, DefaultW
      <3>2. WOf(v) = [w |-> [long |-> n]]
        BY <2>1, <3>1 DEF WOf, n
      <3> DEFINE z == [long |-> n]
      <3>3. n \in Int /\ n >= -3 /\ n \in -Int32Max - 1 .. Int32Max
        BY <2>1, <2>4, WidthFacts
      <3>4. z.long = n /\ DOMAIN z = {"long"} /\ z # NULL /\ z # Majority
        BY <3>3, NotNull DEF Majority
      <3> HIDE DEF z
      <3>5. Is("long", z) /\ ~IsString(z)
        BY <3>4 DEF Is, IsString
      <3>6. Wrapped(z.long, Int32Max) = n
        BY <3>3, <3>4, WrappedFacts, WidthFacts
      <3>7. SetW(NewWriteConcern, z) = Done([NewWriteConcern EXCEPT !.w = [int |-> n]])
        BY <3>3, <3>4, <3>5, <3>6 DEF SetW
      <3>8. WOf(v) = [w |-> z] /\ v.w = [int |-> n]
        BY <2>1, <3>2 DEF z
      <3> QED BY <3>7, <3>8
    <2> QED BY <2>2, <2>3, <2>4
  <1> QED BY <1>1, <1>2, <1>3 DEF Ws

LEMMA WtimeoutOfFacts ==
    ASSUME NEW v \in WriteConcernValues, NEW portable \in BOOLEAN
    PROVE  LET f == WtimeoutOf(v, portable)
               z == f["wtimeout"]
           IN /\ DOMAIN f \in {{}, {"wtimeout"}}
              /\ "wtimeout" \notin DOMAIN f => v.wtimeout = 0
              /\ "wtimeout" \in DOMAIN f =>
                   \/ Is("long", z) /\ ~IsString(z) /\ z.long = v.wtimeout
                   \/ IsString(z) /\ ~Is("long", z) /\ ParsesAsInt64(z) /\ z.string = v.wtimeout
  <1> DEFINE n == v.wtimeout
             f == WtimeoutOf(v, portable)
  <1>1. n \in 0 .. Int64Max
    BY DEF WriteConcernValues
  <1>2. n \in Int64s /\ n \in Int /\ Int32Max > 0 /\ Int32Max \in Nat
    BY <1>1, WidthFacts DEF Int64s
  <1>3. CASE n = 0
    <2>1. f = <<>>
      BY <1>2, <1>3 DEF WtimeoutOf
    <2> QED BY <1>3, <2>1
  <1>4. CASE n # 0 /\ portable /\ n > Int32Max
    <2>1. f = [wtimeout |-> [string |-> n]]
      BY <1>4 DEF WtimeoutOf
    <2>2. ParsesAsInt64([string |-> n]) /\ IsString([string |-> n]) /\ ~Is("long", [string |-> n])
      BY <1>2, Int64Facts
    <2> QED BY <2>1, <2>2
  <1>5. CASE n # 0 /\ ~(portable /\ n > Int32Max)
    <2>1. f = [wtimeout |-> [long |-> n]]
      BY <1>5 DEF WtimeoutOf
    <2>2. [long |-> n] # NULL
      BY <1>2, NotNull
    <2>3. Is("long", [long |-> n]) /\ ~IsString([long |-> n])
      BY <2>2 DEF Is, IsString
    <2> QED BY <2>1, <2>3
  <1> QED BY <1>3, <1>4, <1>5

LEMMA JournalOfFacts ==
    ASSUME NEW v \in WriteConcernValues
    PROVE  LET f == JournalOf(v)
           IN /\ DOMAIN f \in {{}, {"j"}}
              /\ "j" \notin DOMAIN f => v.j = NULL
              /\ "j" \in DOMAIN f =>
                   v.j \in BOOLEAN /\ Is("bool", f["j"]) /\ f["j"].bool = v.j
  <1> DEFINE f == JournalOf(v)
  <1>1. v.j \in BOOLEAN \cup {NULL}
    BY DEF WriteConcernValues
  <1>2. CASE v.j = NULL
    <2>1. f = <<>>
      BY <1>2 DEF JournalOf
    <2> QED BY <1>2, <2>1
  <1>3. CASE v.j # NULL
    <2>1. f = [j |-> [bool |-> v.j]] /\ v.j \in BOOLEAN
      BY <1>1, <1>3 DEF JournalOf
    <2>2. Is("bool", [bool |-> v.j])
      BY <2>1, NotNull DEF Is
    <2> QED BY <2>1, <2>2
  <1> QED BY <1>2, <1>3

LEMMA WriteConcernReadsBack ==
    ASSUME NEW v \in WriteConcernValues, NEW portable \in BOOLEAN
    PROVE  WriteConcernFromHash(NULL, WriteConcernProperties(v, portable)) = Done(v)
  <1> DEFINE h == WriteConcernProperties(v, portable)
             N == NewWriteConcern
             z == h["wtimeout"]
             timeout(wc) ==
               CASE Is("long", z) -> OrDestroyed(SetWtimeout(wc, z.long))
                 [] IsString(z) -> IF ParsesAsInt64(z) THEN Done([wc EXCEPT !.wtimeout = z.string])
                                                       ELSE Thrown(wc)
                 [] OTHER -> Thrown(NULL)
             journal(wc) == OrDestroyed(IF Is("bool", h["j"]) THEN SetJournal(wc, h["j"].bool)
                                                              ELSE Thrown(wc))
             o1 == IF "w" \in DOMAIN h THEN OrDestroyed(SetW(N, h["w"])) ELSE Done(N)
             o2 == IF o1.result = "done"
                     THEN IF "wtimeout" \in DOMAIN h THEN timeout(o1.native) ELSE Done(o1.native)
                     ELSE o1
             o3 == IF o2.result = "done"
                     THEN IF "j" \in DOMAIN h THEN journal(o2.native) ELSE Done(o2.native)
                     ELSE o2
             o4 == IF o3.result = "done" THEN OrDestroyed(CheckWriteConcern(o3.native)) ELSE o3
  <1>1. WriteConcernFromHash(NULL, h) = o4
    BY DEF WriteConcernFromHash, Then, If
  <1>2. /\ v = [w |-> v.w, j |-> v.j, wtimeout |-> v.wtimeout]
        /\ v.wtimeout \in 0 .. Int64Max
        /\ v.j = TRUE => v.w \notin UnacknowledgedW
    BY DEF WriteConcernValues
  <1> DEFINE a == WOf(v)
             b == JournalOf(v)
             c == WtimeoutOf(v, portable)
             ab == Over(a, b)
  <1>3. /\ DOMAIN a \in {{}, {"w"}} /\ DOMAIN b \in {{}, {"j"}} /\ DOMAIN c \in {{}, {"wtimeout"}}
        /\ h = Over(ab, c)
    BY WOfFacts, JournalOfFacts, WtimeoutOfFacts DEF WriteConcernProperties
  <1> HIDE DEF a, b, c, h
  <1>4. /\ DOMAIN ab = DOMAIN a \cup DOMAIN b
        /\ "w" \in DOMAIN a => ab["w"] = a["w"]
        /\ "j" \in DOMAIN b => ab["j"] = b["j"]
    <2>1. "j" \notin DOMAIN a
      BY <1>3
    <2> QED BY <2>1 DEF Over
  <1> HIDE DEF ab
  <1>5. /\ DOMAIN h = DOMAIN ab \cup DOMAIN c
        /\ "w" \in DOMAIN ab => h["w"] = ab["w"]
        /\ "j" \in DOMAIN ab => h["j"] = ab["j"]
        /\ "wtimeout" \in DOMAIN c => h["wtimeout"] = c["wtimeout"]
    <2>1. "wtimeout" \notin DOMAIN ab
      BY <1>3, <1>4
    <2> QED BY <1>3, <2>1 DEF Over
  <1>6. /\ "w" \in DOMAIN h <=> "w" \in DOMAIN a
        /\ "j" \in DOMAIN h <=> "j" \in DOMAIN b
        /\ "wtimeout" \in DOMAIN h <=> "wtimeout" \in DOMAIN c
    BY <1>3, <1>4, <1>5
  <1>7. /\ "w" \in DOMAIN h => h["w"] = a["w"]
        /\ "j" \in DOMAIN h => h["j"] = b["j"]
        /\ "wtimeout" \in DOMAIN h => h["wtimeout"] = c["wtimeout"]
    BY <1>4, <1>5, <1>6
  <1>8. o1 = Done([N EXCEPT !.w = v.w])
    <2>1. CASE "w" \in DOMAIN h
      <3>1. SetW(N, h["w"]) = Done([N EXCEPT !.w = v.w])
        BY <1>6, <1>7, <2>1, WOfFacts DEF a
      <3> QED BY <2>1, <3>1 DEF OrDestroyed, Done
    <2>2. CASE "w" \notin DOMAIN h
      <3>1. v.w = DefaultW
        BY <1>6, <2>2, WOfFacts DEF a
      <3>2. [N EXCEPT !.w = v.w] = N
        BY <3>1 DEF NewWriteConcern
      <3> QED BY <2>2, <3>2
    <2> QED BY <2>1, <2>2
  <1> HIDE DEF o1
  <1> DEFINE v1 == [w |-> v.w, j |-> NULL, wtimeout |-> 0]
             v2 == [w |-> v.w, j |-> NULL, wtimeout |-> v.wtimeout]
  <1>9. o1.result = "done" /\ o1.native = v1
    BY <1>8 DEF Done, NewWriteConcern
  <1>10. o2 = Done(v2)
    <2>1. CASE "wtimeout" \notin DOMAIN h
      <3>1. v.wtimeout = 0
        BY <1>6, <2>1, WtimeoutOfFacts DEF c
      <3> QED BY <1>9, <2>1, <3>1
    <2>2. CASE "wtimeout" \in DOMAIN h
      <3>1. \/ Is("long", z) /\ ~IsString(z) /\ z.long = v.wtimeout
            \/ IsString(z) /\ ~Is("long", z) /\ ParsesAsInt64(z) /\ z.string = v.wtimeout
        <4>1. z = c["wtimeout"] /\ "wtimeout" \in DOMAIN c
          BY <1>6, <1>7, <2>2
        <4> QED BY <4>1, WtimeoutOfFacts DEF c
      <3>2. [v1 EXCEPT !.wtimeout = v.wtimeout] = v2 /\ ~(v.wtimeout < 0)
        BY <1>2, WidthFacts
      <3> HIDE DEF v1, v2
      <3>3. timeout(v1) = Done(v2)
        <4>1. CASE Is("long", z) /\ ~IsString(z) /\ z.long = v.wtimeout
          <5>1. timeout(v1) = OrDestroyed(SetWtimeout(v1, v.wtimeout))
            BY <4>1
          <5>2. SetWtimeout(v1, v.wtimeout) = Done(v2)
            BY <3>2 DEF SetWtimeout
          <5> QED BY <5>1, <5>2 DEF OrDestroyed, Done
        <4>2. CASE IsString(z) /\ ~Is("long", z) /\ ParsesAsInt64(z) /\ z.string = v.wtimeout
          <5>1. timeout(v1) = Done([v1 EXCEPT !.wtimeout = z.string])
            BY <4>2
          <5> QED BY <3>2, <4>2, <5>1
        <4> QED BY <3>1, <4>1, <4>2
      <3> HIDE DEF timeout
      <3> QED BY <1>9, <2>2, <3>3
    <2> QED BY <2>1, <2>2
  <1> HIDE DEF o2, timeout
  <1>11. o2.result = "done" /\ o2.native = v2
    BY <1>10 DEF Done
  <1>12. o3 = Done(v)
    <2>1. CASE "j" \notin DOMAIN h
      <3>1. v.j = NULL
        BY <1>6, <2>1, JournalOfFacts DEF b
      <3> QED BY <1>2, <1>11, <2>1, <3>1
    <2>2. CASE "j" \in DOMAIN h
      <3>1. v.j \in BOOLEAN /\ Is("bool", h["j"]) /\ h["j"].bool = v.j
        BY <1>6, <1>7, <2>2, JournalOfFacts DEF b
      <3>2. [v2 EXCEPT !.j = v.j] = v /\ v2.w = v.w
        BY <1>2
      <3>3. SetJournal(v2, v.j) = Done(v)
        BY <1>2, <3>1, <3>2 DEF SetJournal
      <3> HIDE DEF v2
      <3>4. journal(v2) = Done(v)
        BY <3>1, <3>3 DEF OrDestroyed, Done
      <3> HIDE DEF journal
      <3> QED BY <1>11, <2>2, <3>4
    <2> QED BY <2>1, <2>2
  <1> HIDE DEF o3, journal
  <1>13. o3.result = "done" /\ o3.native = v /\ CheckWriteConcern(v) = Done(v)
    BY <1>12, CheckWriteConcernFacts DEF Done
  <1>14. o4 = Done(v)
    BY <1>13 DEF OrDestroyed, Done
  <1> HIDE DEF o4
  <1> QED BY <1>1, <1>14 DEF h

\* The tag sets of a read preference that is written.
LEMMA TagsOfFacts ==
    ASSUME NEW v \in ReadPreferenceValues, NEW rp \in ReadPreferenceValues, NEW debug \in BOOLEAN,
           v.mode = "primary" => v.tags = <<>>, rp.mode = v.mode
    PROVE  /\ Is("list", TagsOf(v, debug))
           /\ SetTags(rp, TagsOf(v, debug).list) = Done([rp EXCEPT !.tags = v.tags])
  <1> DEFINE n == Len(v.tags)
             list == TagsOf(v, debug).list
             p == PrepTagSets(list)
  <1>1. v.tags \in Seq(Documents)
    BY DEF ReadPreferenceValues
  <1>2. /\ n \in Nat /\ DOMAIN v.tags = 1 .. n /\ v.tags = [i \in 1 .. n |-> v.tags[i]]
        /\ \A i \in 1 .. n : v.tags[i] \in Documents
    BY <1>1, LenProperties, ElementOfSeq
  <1>3. list = [i \in 1 .. n |-> IF debug THEN [array |-> v.tags[i]] ELSE [object |-> v.tags[i]]]
    BY <1>2 DEF TagsOf
  <1>4. Is("list", TagsOf(v, debug))
    <2>1. \A i \in 1 .. n : (IF debug THEN [array |-> v.tags[i]] ELSE [object |-> v.tags[i]])
                              \in [object : Documents] \cup [array : Documents]
      BY <1>2
    <2> HIDE DEF list
    <2>2. list \in Seq([object : Documents] \cup [array : Documents])
      BY <1>2, <1>3, <2>1
    <2>3. TagsOf(v, debug) = [list |-> list]
      BY DEF TagsOf, list
    <2>4. [list |-> list] \in [list : Seq([object : Documents] \cup [array : Documents])]
      BY <2>2
    <2>5. [list |-> list] # NULL
      BY <2>4, NullAssumption
    <2> QED BY <2>3, <2>5 DEF Is
  <1> HIDE DEF list
  <1>5. DOMAIN list = 1 .. n
    BY <1>3
  <1>6. ASSUME NEW i \in 1 .. n
        PROVE  p[i] = [object |-> v.tags[i]]
    <2>1. p[i] = IF Is("array", list[i]) THEN [object |-> list[i].array] ELSE list[i]
      BY <1>5 DEF PrepTagSets
    <2>2. [array |-> v.tags[i]] # NULL
      BY <1>2, NotNull
    <2>3. CASE debug
      <3>1. list[i] = [array |-> v.tags[i]]
        BY <1>3, <2>3
      <3> QED BY <2>1, <2>2, <3>1 DEF Is
    <2>4. CASE ~debug
      <3>1. list[i] = [object |-> v.tags[i]]
        BY <1>3, <2>4
      <3> QED BY <2>1, <3>1 DEF Is
    <2> QED BY <2>3, <2>4
  <1>7. DOMAIN p = 1 .. n /\ p = [i \in 1 .. n |-> p[i]]
    BY <1>5 DEF PrepTagSets
  <1> HIDE DEF p
  <1>8. \A i \in DOMAIN p : EncodesAsDocument(p[i]) /\ DocumentOf(p[i]) = v.tags[i]
    <2> SUFFICES ASSUME NEW i \in 1 .. n
                 PROVE  EncodesAsDocument(p[i]) /\ DocumentOf(p[i]) = v.tags[i]
      BY <1>7
    <2>1. p[i] = [object |-> v.tags[i]] /\ p[i] # NULL
      BY <1>2, <1>6, NotNull
    <2> QED BY <2>1 DEF EncodesAsDocument, DocumentOf, Is
  <1>9. [i \in DOMAIN p |-> DocumentOf(p[i])] = v.tags
    BY <1>2, <1>7, <1>8
  <1>10. rp.mode = "primary" => p = <<>>
    <2> SUFFICES ASSUME rp.mode = "primary"
                 PROVE  p = <<>>
      OBVIOUS
    <2>1. v.tags = <<>>
      OBVIOUS
    <2>2. n = 0
      BY <2>1
    <2>3. p = [i \in 1 .. 0 |-> p[i]]
      BY <1>7, <2>2
    <2>4. p \in Seq(Nat) /\ Len(p) = 0
      BY <2>3
    <2> QED BY <2>4, EmptySeq
  <1>11. SetTags(rp, list)
           = IF /\ \A i \in DOMAIN p : EncodesAsDocument(p[i])
                /\ rp.mode = "primary" => p = <<>>
               THEN Done([rp EXCEPT !.tags = [i \in DOMAIN p |-> DocumentOf(p[i])]])
               ELSE Thrown(rp)
    BY DEF SetTags, p
  <1>12. SetTags(rp, list) = Done([rp EXCEPT !.tags = v.tags])
    BY <1>8, <1>9, <1>10, <1>11
  <1> QED BY <1>4, <1>12 DEF list

\* The fields of a read preference that is written.
LEMMA ReadPreferenceFields ==
    ASSUME NEW v \in ReadPreferenceValues, NEW debug \in BOOLEAN
    PROVE  LET h == ReadPreferenceHash(v, debug)
           IN /\ "mode" \in DOMAIN h /\ h["mode"] = [text |-> v.mode]
              /\ IF v.tags = <<>> THEN "tags" \notin DOMAIN h
                                  ELSE "tags" \in DOMAIN h /\ h["tags"] = TagsOf(v, debug)
              /\ IF v.maxStaleness = NoStaleness
                   THEN "maxStalenessSeconds" \notin DOMAIN h
                   ELSE /\ "maxStalenessSeconds" \in DOMAIN h
                        /\ h["maxStalenessSeconds"] = [long |-> v.maxStaleness]
              /\ IF v.hedge = NoDocument THEN "hedge" \notin DOMAIN h
                                         ELSE "hedge" \in DOMAIN h /\ h["hedge"] = [object |-> v.hedge]
  <1> DEFINE a == [mode |-> [text |-> v.mode]]
             b == IF v.tags = <<>> THEN <<>> ELSE [tags |-> TagsOf(v, debug)]
             c == IF v.maxStaleness = NoStaleness THEN <<>>
                  ELSE [maxStalenessSeconds |-> [long |-> v.maxStaleness]]
             d == IF v.hedge = NoDocument THEN <<>> ELSE [hedge |-> [object |-> v.hedge]]
             ab == Over(a, b)
             abc == Over(ab, c)
             h == Over(abc, d)
  <1>1. ReadPreferenceHash(v, debug) = h
    BY DEF ReadPreferenceHash
  <1>2. DOMAIN a = {"mode"} /\ a["mode"] = [text |-> v.mode]
    OBVIOUS
  <1>3. IF v.tags = <<>> THEN DOMAIN b = {} ELSE DOMAIN b = {"tags"} /\ b["tags"] = TagsOf(v, debug)
    OBVIOUS
  <1>4. IF v.maxStaleness = NoStaleness THEN DOMAIN c = {}
        ELSE /\ DOMAIN c = {"maxStalenessSeconds"}
             /\ c["maxStalenessSeconds"] = [long |-> v.maxStaleness]
    OBVIOUS
  <1>5. IF v.hedge = NoDocument THEN DOMAIN d = {}
        ELSE DOMAIN d = {"hedge"} /\ d["hedge"] = [object |-> v.hedge]
    OBVIOUS
  <1> HIDE DEF a, b, c, d
  <1>6. /\ DOMAIN ab = DOMAIN a \cup DOMAIN b
        /\ ab["mode"] = [text |-> v.mode]
        /\ "tags" \in DOMAIN b => ab["tags"] = b["tags"]
    BY <1>2 DEF Over
  <1>7. "maxStalenessSeconds" \notin DOMAIN ab /\ "hedge" \notin DOMAIN ab
    BY <1>2, <1>3, <1>6
  <1> HIDE DEF ab
  <1>8. /\ DOMAIN abc = DOMAIN a \cup DOMAIN b \cup DOMAIN c
        /\ abc["mode"] = [text |-> v.mode]
        /\ "tags" \in DOMAIN b => abc["tags"] = b["tags"]
        /\ "maxStalenessSeconds" \in DOMAIN c =>
             abc["maxStalenessSeconds"] = c["maxStalenessSeconds"]
    BY <1>2, <1>6, <1>7 DEF Over
  <1>9. "hedge" \notin DOMAIN abc
    BY <1>2, <1>3, <1>4, <1>8
  <1> HIDE DEF abc
  <1>10. /\ DOMAIN h = DOMAIN a \cup DOMAIN b \cup DOMAIN c \cup DOMAIN d
         /\ h["mode"] = [text |-> v.mode]
         /\ "tags" \in DOMAIN b => h["tags"] = b["tags"]
         /\ "maxStalenessSeconds" \in DOMAIN c =>
              h["maxStalenessSeconds"] = c["maxStalenessSeconds"]
         /\ "hedge" \in DOMAIN d => h["hedge"] = d["hedge"]
    BY <1>2, <1>8, <1>9 DEF Over
  <1> HIDE DEF h
  <1>11. "mode" \in DOMAIN h /\ h["mode"] = [text |-> v.mode]
    BY <1>2, <1>10
  <1>12. IF v.tags = <<>> THEN "tags" \notin DOMAIN h
                          ELSE "tags" \in DOMAIN h /\ h["tags"] = TagsOf(v, debug)
    BY <1>2, <1>3, <1>4, <1>5, <1>10
  <1>13. IF v.maxStaleness = NoStaleness
           THEN "maxStalenessSeconds" \notin DOMAIN h
           ELSE /\ "maxStalenessSeconds" \in DOMAIN h
                /\ h["maxStalenessSeconds"] = [long |-> v.maxStaleness]
    BY <1>2, <1>3, <1>4, <1>5, <1>10
  <1>14. IF v.hedge = NoDocument THEN "hedge" \notin DOMAIN h
                                 ELSE "hedge" \in DOMAIN h /\ h["hedge"] = [object |-> v.hedge]
    BY <1>2, <1>3, <1>4, <1>5, <1>10
  <1> QED BY <1>1, <1>11, <1>12, <1>13, <1>14

LEMMA ReadPreferenceReadsBack ==
    ASSUME NEW v \in ReadPreferenceValues, NEW debug \in BOOLEAN
    PROVE  ReadPreferenceFromHash(NULL, ReadPreferenceHash(v, debug)) = Done(v)
  <1> DEFINE h == ReadPreferenceHash(v, debug)
             mode == IF IsString(Field(h, "mode")) THEN ModeOf(h["mode"]) ELSE NULL
             z == h["maxStalenessSeconds"]
             o1 == IF "tags" \in DOMAIN h
                     THEN IF Is("list", h["tags"])
                            THEN SetTags(NewReadPreference(mode), h["tags"].list)
                            ELSE Thrown(NewReadPreference(mode))
                     ELSE Done(NewReadPreference(mode))
             o2 == IF o1.result = "done"
                     THEN IF "maxStalenessSeconds" \in DOMAIN h
                            THEN IF Is("long", z) THEN SetMaxStaleness(o1.native, z.long)
                                                  ELSE Thrown(o1.native)
                            ELSE Done(o1.native)
                     ELSE o1
             o3 == IF o2.result = "done"
                     THEN IF "hedge" \in DOMAIN h
                            THEN SetHedge(o2.native, h["hedge"]) ELSE Done(o2.native)
                     ELSE o2
             o4 == IF o3.result = "done" THEN CheckReadPreference(o3.native) ELSE o3
             N == NewReadPreference(v.mode)
             v1 == [N EXCEPT !.tags = v.tags]
             v2 == [v1 EXCEPT !.maxStaleness = v.maxStaleness]
  <1>1. /\ v = [mode |-> v.mode, tags |-> v.tags, maxStaleness |-> v.maxStaleness, hedge |-> v.hedge]
        /\ v.mode \in ModeNames /\ v.hedge \in Documents
        /\ v.maxStaleness \in {NoStaleness} \cup (MinStaleness .. Int32Max)
        /\ v.mode = "primary" => /\ v.tags = <<>> /\ v.hedge = NoDocument
                                 /\ v.maxStaleness = NoStaleness
    BY DEF ReadPreferenceValues, NewReadPreference
  <1>2. N \in ReadPreferenceValues /\ N.mode = v.mode
    BY <1>1, ReadPreferenceMakes DEF NewReadPreference
  <1>3. /\ v1 = [mode |-> v.mode, tags |-> v.tags, maxStaleness |-> NoStaleness, hedge |-> NoDocument]
        /\ v2 = [mode |-> v.mode, tags |-> v.tags, maxStaleness |-> v.maxStaleness, hedge |-> NoDocument]
    <2>1. v1 = [mode |-> v.mode, tags |-> v.tags, maxStaleness |-> NoStaleness, hedge |-> NoDocument]
      BY DEF NewReadPreference
    <2> HIDE DEF v1
    <2> QED BY <2>1
  <1>4. mode = v.mode /\ mode # NULL
    <2>1. Field(h, "mode") = [text |-> v.mode] /\ h["mode"] = [text |-> v.mode]
      BY ReadPreferenceFields DEF Field
    <2> HIDE DEF h
    <2>2. [text |-> v.mode] # NULL /\ v.mode # NULL
      BY <1>1, NotNull
    <2> DEFINE m == [text |-> v.mode]
    <2>3. IsString(m) /\ Is("text", m) /\ ~Is("long", m) /\ m.text = v.mode
      BY <2>2 DEF IsString, Is
    <2> HIDE DEF m
    <2>4. ModeOf(m) = v.mode
      BY <1>1, <2>3 DEF ModeOf
    <2> QED BY <2>1, <2>2, <2>3, <2>4 DEF m
  <1>5. ReadPreferenceFromHash(NULL, h) = OrDestroyed(o4)
    <2> HIDE DEF h
    <2> QED BY <1>4 DEF ReadPreferenceFromHash, Then, If
  <1> HIDE DEF mode
  <1>6. o1 = Done(v1)
    <2>1. CASE v.tags = <<>>
      <3>1. "tags" \notin DOMAIN h
        BY <2>1, ReadPreferenceFields
      <3>2. N = v1
        BY <1>3, <2>1 DEF NewReadPreference
      <3> HIDE DEF h, v1
      <3> QED BY <1>4, <3>1, <3>2
    <2>2. CASE v.tags # <<>>
      <3>1. "tags" \in DOMAIN h /\ h["tags"] = TagsOf(v, debug)
        BY <2>2, ReadPreferenceFields
      <3>2. Is("list", TagsOf(v, debug)) /\ SetTags(N, TagsOf(v, debug).list) = Done(v1)
        BY <1>1, <1>2, TagsOfFacts
      <3> HIDE DEF h, v1
      <3> QED BY <1>4, <3>1, <3>2
    <2> QED BY <2>1, <2>2
  <1> HIDE DEF o1
  <1>7. o1.result = "done" /\ o1.native = v1
    BY <1>6 DEF Done
  <1>8. o2 = Done(v2)
    <2>1. CASE v.maxStaleness = NoStaleness
      <3>1. "maxStalenessSeconds" \notin DOMAIN h
        BY <2>1, ReadPreferenceFields
      <3>2. v1 = v2
        BY <1>3, <2>1
      <3> HIDE DEF h, v1, v2
      <3> QED BY <1>7, <3>1, <3>2
    <2>2. CASE v.maxStaleness # NoStaleness
      <3>1. "maxStalenessSeconds" \in DOMAIN h /\ z = [long |-> v.maxStaleness]
        BY <2>2, ReadPreferenceFields
      <3>2. v.maxStaleness \in MinStaleness .. Int32Max /\ v1.mode # "primary"
        BY <1>1, <1>3, <2>2
      <3>3. v.maxStaleness \in Int
        BY <3>2, StalenessAssumption, WidthFacts
      <3>4. Is("long", z) /\ z.long = v.maxStaleness
        <4>1. [long |-> v.maxStaleness] # NULL
          BY <3>3, NotNull
        <4> HIDE DEF h
        <4> QED BY <3>1, <4>1 DEF Is
      <3> HIDE DEF h, v1
      <3>5. SetMaxStaleness(v1, v.maxStaleness) = Done(v2)
        BY <3>2 DEF SetMaxStaleness
      <3> HIDE DEF v2
      <3> QED BY <1>7, <3>1, <3>4, <3>5
    <2> QED BY <2>1, <2>2
  <1> HIDE DEF o2
  <1>9. o2.result = "done" /\ o2.native = v2
    BY <1>8 DEF Done
  <1>10. o3 = Done(v)
    <2>1. CASE v.hedge = NoDocument
      <3>1. "hedge" \notin DOMAIN h
        BY <2>1, ReadPreferenceFields
      <3>2. v2 = v
        BY <1>1, <1>3, <2>1
      <3> HIDE DEF h, v2
      <3> QED BY <1>9, <3>1, <3>2
    <2>2. CASE v.hedge # NoDocument
      <3>1. "hedge" \in DOMAIN h /\ h["hedge"] = [object |-> v.hedge]
        BY <2>2, ReadPreferenceFields
      <3>2. v2.mode # "primary" /\ [v2 EXCEPT !.hedge = v.hedge] = v
        BY <1>1, <1>3, <2>2
      <3> DEFINE d == [object |-> v.hedge]
      <3>3. d # NULL /\ v.hedge # NULL
        BY <1>1, NotNull
      <3>4. Is("object", d) /\ DocumentOf(d) = v.hedge
        BY <3>3 DEF Is, DocumentOf
      <3> HIDE DEF h, v2, d
      <3>5. SetHedge(v2, d) = Done(v)
        BY <3>2, <3>3, <3>4 DEF SetHedge
      <3> QED BY <1>9, <3>1, <3>5 DEF d
    <2> QED BY <2>1, <2>2
  <1> HIDE DEF o3
  <1>11. o3.result = "done" /\ o3.native = v /\ CheckReadPreference(v) = Done(v)
    BY <1>10, CheckReadPreferenceFacts DEF Done
  <1>12. OrDestroyed(o4) = Done(v)
    BY <1>11 DEF OrDestroyed, Done
  <1> HIDE DEF o4, h
  <1> QED BY <1>5, <1>12 DEF h

\* What each form of a value is read back as, by class.
LEMMA FormsReadBack ==
    ASSUME NEW class \in Classes, NEW v \in Values(class), v # NULL
    PROVE  /\ Serialized(class, v) # NULL => InitFromHash(class, NULL, Serialized(class, v)) = Done(v)
           /\ InitFromHash(class, NULL, Properties(class, v, TRUE)) = Done(v)
           /\ class # "CursorId" => ReadAs(class, v, Properties(class, v, FALSE))
           /\ class = "UTCDateTime" => UTCDateTimeConstruct(NULL, <<ToDateTime(v)>>) = Done(v)
  <1>1. CASE class = "Timestamp"
    <2>1. v \in TimestampValues
      BY <1>1, ValuesOf
    <2>2. Serialized(class, v) = TimestampSerialized(v)
      BY ONLY <1>1 DEF Serialized
    <2>3. /\ Properties(class, v, TRUE) = TimestampProperties(v)
          /\ Properties(class, v, FALSE) = TimestampProperties(v)
      BY ONLY <1>1, v # NULL DEF Properties
    <2>4. \A h : InitFromHash(class, NULL, h) = TimestampFromHash(NULL, h)
      BY ONLY <1>1 DEF InitFromHash
    <2>5. TimestampProperties(v) = [k \in DOMAIN TimestampProperties(v) |-> TimestampProperties(v)[k]]
      BY DEF TimestampProperties
    <2>6. TimestampFromHash(NULL, TimestampProperties(v)) = Done(v)
      BY <2>1, TimestampReadsBack
    <2> QED BY ONLY <1>1, <2>2, <2>3, <2>4, <2>5, <2>6 DEF TimestampSerialized, ReadAs
  <1>2. CASE class = "UTCDateTime"
    <2>1. v \in UTCDateTimeValues
      BY <1>2, ValuesOf
    <2>2. Serialized(class, v) = UTCDateTimeSerialized(v)
      BY ONLY <1>2 DEF Serialized
    <2>3. /\ Properties(class, v, TRUE) = UTCDateTimeProperties(v)
          /\ Properties(class, v, FALSE) = UTCDateTimeProperties(v)
      BY ONLY <1>2, v # NULL DEF Properties
    <2>4. \A h : InitFromHash(class, NULL, h) = UTCDateTimeFromHash(NULL, h)
      BY ONLY <1>2 DEF InitFromHash
    <2>5. UTCDateTimeProperties(v) = [k \in DOMAIN UTCDateTimeProperties(v) |-> UTCDateTimeProperties(v)[k]]
      BY DEF UTCDateTimeProperties
    <2>6. UTCDateTimeFromHash(NULL, UTCDateTimeProperties(v)) = Done(v)
      BY <2>1, UTCDateTimeReadsBack
    <2>7. UTCDateTimeConstruct(NULL, <<ToDateTime(v)>>) = Done(v)
      BY <2>1, UTCDateTimeReadsBack
    <2> QED BY ONLY <1>2, <2>2, <2>3, <2>4, <2>5, <2>6, <2>7 DEF UTCDateTimeSerialized, ReadAs
  <1>3. CASE class = "Binary"
    <2>1. v \in BinaryValues
      BY <1>3, ValuesOf
    <2>2. Serialized(class, v) = BinarySerialized(v)
      BY ONLY <1>3 DEF Serialized
    <2>3. /\ Properties(class, v, TRUE) = BinaryProperties(v)
          /\ Properties(class, v, FALSE) = BinaryProperties(v)
      BY ONLY <1>3, v # NULL DEF Properties
    <2>4. \A h : InitFromHash(class, NULL, h) = BinaryFromHash(NULL, h)
      BY ONLY <1>3 DEF InitFromHash
    <2>5. BinaryProperties(v) = [k \in DOMAIN BinaryProperties(v) |-> BinaryProperties(v)[k]]
      BY DEF BinaryProperties
    <2>6. BinaryFromHash(NULL, BinaryProperties(v)) = Done(v)
      BY <2>1, BinaryReadsBack
    <2> QED BY ONLY <1>3, <2>2, <2>3, <2>4, <2>5, <2>6 DEF BinarySerialized, ReadAs
  <1>4. CASE class = "Int64"
    <2>1. v \in Int64Values
      BY <1>4, ValuesOf
    <2>2. Serialized(class, v) = Int64Serialized(v)
      BY ONLY <1>4 DEF Serialized
    <2>3. /\ Properties(class, v, TRUE) = Int64Properties(v)
          /\ Properties(class, v, FALSE) = Int64Properties(v)
      BY ONLY <1>4, v # NULL DEF Properties
    <2>4. \A h : InitFromHash(class, NULL, h) = Int64FromHash(NULL, h)
      BY ONLY <1>4 DEF InitFromHash
    <2>5. Int64Properties(v) = [k \in DOMAIN Int64Properties(v) |-> Int64Properties(v)[k]]
      BY DEF Int64Properties
    <2>6. Int64FromHash(NULL, Int64Properties(v)) = Done(v)
      BY <2>1, Int64ReadsBack
    <2> QED BY ONLY <1>4, <2>2, <2>3, <2>4, <2>5, <2>6 DEF Int64Serialized, ReadAs
  <1>5. CASE class = "ObjectId"
    <2>1. v \in ObjectIdValues
      BY <1>5, ValuesOf
    <2>2. Serialized(class, v) = ObjectIdSerialized(v)
      BY ONLY <1>5 DEF Serialized
    <2>3. /\ Properties(class, v, TRUE) = ObjectIdProperties(v)
          /\ Properties(class, v, FALSE) = ObjectIdProperties(v)
      BY ONLY <1>5, v # NULL DEF Properties
    <2>4. \A h : InitFromHash(class, NULL, h) = ObjectIdFromHash(NULL, h)
      BY ONLY <1>5 DEF InitFromHash
    <2>5. ObjectIdProperties(v) = [k \in DOMAIN ObjectIdProperties(v) |-> ObjectIdProperties(v)[k]]
      BY DEF ObjectIdProperties
    <2>6. ObjectIdFromHash(NULL, ObjectIdProperties(v)) = Done(v)
      BY <2>1, ObjectIdReadsBack
    <2> QED BY ONLY <1>5, <2>2, <2>3, <2>4, <2>5, <2>6 DEF ObjectIdSerialized, ReadAs
  <1>6. CASE class = "Decimal128"
    <2>1. v \in Decimal128Values
      BY <1>6, ValuesOf
    <2>2. Serialized(class, v) = Decimal128Serialized(v)
      BY ONLY <1>6 DEF Serialized
    <2>3. /\ Properties(class, v, TRUE) = Decimal128Properties(v)
          /\ Properties(class, v, FALSE) = Decimal128Properties(v)
      BY ONLY <1>6, v # NULL DEF Properties
    <2>4. \A h : InitFromHash(class, NULL, h) = Decimal128FromHash(NULL, h)
      BY ONLY <1>6 DEF InitFromHash
    <2>5. Decimal128Properties(v) = [k \in DOMAIN Decimal128Properties(v) |-> Decimal128Properties(v)[k]]
      BY DEF Decimal128Properties
    <2>6. Decimal128FromHash(NULL, Decimal128Properties(v)) = Done(v)
      BY <2>1, Decimal128ReadsBack
    <2> QED BY ONLY <1>6, <2>2, <2>3, <2>4, <2>5, <2>6 DEF Decimal128Serialized, ReadAs
  <1>7. CASE class = "Regex"
    <2>1. v \in RegexValues
      BY <1>7, ValuesOf
    <2>2. Serialized(class, v) = RegexSerialized(v)
      BY ONLY <1>7 DEF Serialized
    <2>3. /\ Properties(class, v, TRUE) = RegexProperties(v)
          /\ Properties(class, v, FALSE) = RegexProperties(v)
      BY ONLY <1>7, v # NULL DEF Properties
    <2>4. \A h : InitFromHash(class, NULL, h) = RegexFromHash(NULL, h)
      BY ONLY <1>7 DEF InitFromHash
    <2>5. RegexProperties(v) = [k \in DOMAIN RegexProperties(v) |-> RegexProperties(v)[k]]
      BY DEF RegexProperties
    <2>6. RegexFromHash(NULL, RegexProperties(v)) = Done(v)
      BY <2>1, RegexReadsBack
    <2> QED BY ONLY <1>7, <2>2, <2>3, <2>4, <2>5, <2>6 DEF RegexSerialized, ReadAs
  <1>8. CASE class = "Javascript"
    <2>1. v \in JavascriptValues
      BY <1>8, ValuesOf
    <2>2. Serialized(class, v) = JavascriptSerialized(v)
      BY ONLY <1>8 DEF Serialized
    <2>3. /\ Properties(class, v, TRUE) = JavascriptProperties(v)
          /\ Properties(class, v, FALSE) = JavascriptProperties(v)
      BY ONLY <1>8, v # NULL DEF Properties
    <2>4. \A h : InitFromHash(class, NULL, h) = JavascriptFromHash(NULL, h)
      BY ONLY <1>8 DEF InitFromHash
    <2>5. JavascriptProperties(v) = [k \in DOMAIN JavascriptProperties(v) |-> JavascriptProperties(v)[k]]
      BY DEF JavascriptProperties
    <2>6. JavascriptFromHash(NULL, JavascriptProperties(v)) = Done(v)
      BY <2>1, JavascriptReadsBack
    <2>7. JavascriptSerialized(v) = JavascriptProperties(v)
      BY <2>1, JavascriptReadsBack
    <2> QED BY ONLY <1>8, <2>2, <2>3, <2>4, <2>5, <2>6, <2>7 DEF ReadAs
  <1>9. CASE class = "Symbol"
    <2>1. v \in SymbolValues
      BY <1>9, ValuesOf
    <2>2. Serialized(class, v) = SymbolSerialized(v)
      BY ONLY <1>9 DEF Serialized
    <2>3. /\ Properties(class, v, TRUE) = SymbolProperties(v)
          /\ Properties(class, v, FALSE) = SymbolProperties(v)
      BY ONLY <1>9, v # NULL DEF Properties
    <2>4. \A h : InitFromHash(class, NULL, h) = SymbolFromHash(NULL, h)
      BY ONLY <1>9 DEF InitFromHash
    <2>5. SymbolProperties(v) = [k \in DOMAIN SymbolProperties(v) |-> SymbolProperties(v)[k]]
      BY DEF SymbolProperties
    <2>6. SymbolFromHash(NULL, SymbolProperties(v)) = Done(v)
      BY <2>1, SymbolReadsBack
    <2>7. SymbolSerialized(v) = SymbolProperties(v)
      BY <2>1, SymbolReadsBack
    <2> QED BY ONLY <1>9, <2>2, <2>3, <2>4, <2>5, <2>6, <2>7 DEF ReadAs
  <1>10. CASE class = "DBPointer"
    <2>1. v \in DBPointerValues
      BY <1>10, ValuesOf
    <2>2. Serialized(class, v) = DBPointerSerialized(v)
      BY ONLY <1>10 DEF Serialized
    <2>3. /\ Properties(class, v, TRUE) = DBPointerProperties(v)
          /\ Properties(class, v, FALSE) = DBPointerProperties(v)
      BY ONLY <1>10, v # NULL DEF Properties
    <2>4. \A h : InitFromHash(class, NULL, h) = DBPointerFromHash(NULL, h)
      BY ONLY <1>10 DEF InitFromHash
    <2>5. DBPointerProperties(v) = [k \in DOMAIN DBPointerProperties(v) |-> DBPointerProperties(v)[k]]
      BY DEF DBPointerProperties
    <2>6. DBPointerFromHash(NULL, DBPointerProperties(v)) = Done(v)
      BY <2>1, DBPointerReadsBack
    <2>7. DBPointerSerialized(v) = DBPointerProperties(v)
      BY <2>1, DBPointerReadsBack
    <2> QED BY ONLY <1>10, <2>2, <2>3, <2>4, <2>5, <2>6, <2>7 DEF ReadAs
  <1>11. CASE class = "WriteConcern"
    <2>1. v \in WriteConcernValues
      BY <1>11, ValuesOf
    <2>2. Serialized(class, v) = WriteConcernSerialized(v)
      BY ONLY <1>11 DEF Serialized
    <2>3. /\ Properties(class, v, TRUE) = WriteConcernProperties(v, TRUE)
          /\ Properties(class, v, FALSE) = WriteConcernProperties(v, FALSE)
      BY ONLY <1>11, v # NULL DEF Properties
    <2>4. \A h : InitFromHash(class, NULL, h) = WriteConcernFromHash(NULL, h)
      BY ONLY <1>11 DEF InitFromHash
    <2>5. WriteConcernProperties(v, FALSE) = [k \in DOMAIN WriteConcernProperties(v, FALSE) |-> WriteConcernProperties(v, FALSE)[k]]
      BY DEF WriteConcernProperties, Over
    <2>6. \A b \in BOOLEAN : WriteConcernFromHash(NULL, WriteConcernProperties(v, b)) = Done(v)
      BY <2>1, WriteConcernReadsBack
    <2> QED BY ONLY <1>11, <2>2, <2>3, <2>4, <2>5, <2>6 DEF WriteConcernSerialized, ReadAs
  <1>12. CASE class = "ReadPreference"
    <2>1. v \in ReadPreferenceValues
      BY <1>12, ValuesOf
    <2>2. Serialized(class, v) = ReadPreferenceSerialized(v)
      BY ONLY <1>12 DEF Serialized
    <2>3. /\ Properties(class, v, TRUE) = ReadPreferenceProperties(v)
          /\ Properties(class, v, FALSE) = ReadPreferenceProperties(v)
      BY ONLY <1>12, v # NULL DEF Properties
    <2>4. \A h : InitFromHash(class, NULL, h) = ReadPreferenceFromHash(NULL, h)
      BY ONLY <1>12 DEF InitFromHash
    <2>5. ReadPreferenceProperties(v) = [k \in DOMAIN ReadPreferenceProperties(v) |-> ReadPreferenceProperties(v)[k]]
      BY DEF ReadPreferenceProperties, ReadPreferenceHash, Over
    <2>6. \A b \in BOOLEAN : ReadPreferenceFromHash(NULL, ReadPreferenceHash(v, b)) = Done(v)
      BY <2>1, ReadPreferenceReadsBack
    <2> QED BY ONLY <1>12, <2>2, <2>3, <2>4, <2>5, <2>6
            DEF ReadPreferenceSerialized, ReadPreferenceProperties, ReadAs
  <1>13. CASE class = "ReadConcern"
    <2>1. v \in ReadConcernValues
      BY <1>13, ValuesOf
    <2>2. Serialized(class, v) = ReadConcernSerialized(v)
      BY ONLY <1>13 DEF Serialized
    <2>3. /\ Properties(class, v, TRUE) = ReadConcernProperties(v)
          /\ Properties(class, v, FALSE) = ReadConcernProperties(v)
      BY ONLY <1>13, v # NULL DEF Properties
    <2>4. \A h : InitFromHash(class, NULL, h) = ReadConcernFromHash(NULL, h)
      BY ONLY <1>13 DEF InitFromHash
    <2>5. ReadConcernProperties(v) = [k \in DOMAIN ReadConcernProperties(v) |-> ReadConcernProperties(v)[k]]
      BY DEF ReadConcernProperties
    <2>6. ReadConcernFromHash(NULL, ReadConcernProperties(v)) = Done(v)
      BY <2>1, ReadConcernReadsBack
    <2> QED BY ONLY <1>13, <2>2, <2>3, <2>4, <2>5, <2>6 DEF ReadConcernSerialized, ReadAs
  <1>14. CASE class = "ServerApi"
    <2>1. v \in ServerApiValues
      BY <1>14, ValuesOf
    <2>2. Serialized(class, v) = ServerApiSerialized(v)
      BY ONLY <1>14 DEF Serialized
    <2>3. /\ Properties(class, v, TRUE) = ServerApiProperties(v)
          /\ Properties(class, v, FALSE) = ServerApiProperties(v)
      BY ONLY <1>14, v # NULL DEF Properties
    <2>4. \A h : InitFromHash(class, NULL, h) = ServerApiFromHash(NULL, h)
      BY ONLY <1>14 DEF InitFromHash
    <2>5. ServerApiProperties(v) = [k \in DOMAIN ServerApiProperties(v) |-> ServerApiProperties(v)[k]]
      BY DEF ServerApiProperties
    <2>6. ServerApiFromHash(NULL, ServerApiProperties(v)) = Done(v)
      BY <2>1, ServerApiReadsBack
    <2> QED BY ONLY <1>14, <2>2, <2>3, <2>4, <2>5, <2>6 DEF ServerApiSerialized, ReadAs
  <1>15. CASE class = "CursorId"
    <2>1. v \in CursorIdValues
      BY <1>15, ValuesOf
    <2>2. Serialized(class, v) = CursorIdSerialized(v)
      BY ONLY <1>15 DEF Serialized
    <2>3. /\ Properties(class, v, TRUE) = CursorIdProperties(v, TRUE)
          /\ Properties(class, v, FALSE) = CursorIdProperties(v, FALSE)
      BY ONLY <1>15, v # NULL DEF Properties
    <2>4. \A h : InitFromHash(class, NULL, h) = CursorIdFromHash(NULL, h)
      BY ONLY <1>15 DEF InitFromHash
    <2> QED BY ONLY <1>15, <2>1, <2>2, <2>3, <2>4, CursorIdReadsBack DEF CursorIdSerialized
  <1> QED BY <1>1, <1>2, <1>3, <1>4, <1>5, <1>6, <1>7, <1>8, <1>9, <1>10,
             <1>11, <1>12, <1>13, <1>14, <1>15
      DEF Classes, BsonClasses, SettingClasses

\* The hash that is kept is the form of the current value when it has no other
\* keys than that.
LEMMA KeptIsCurrent ==
    ASSUME NEW current, current = [k \in DOMAIN current |-> current[k]],
           current = Properties(object.class, object.native, FALSE),
           DOMAIN Kept = DOMAIN current
    PROVE  Kept = current
  <1>1. CASE object.properties = NULL
    BY <1>1 DEF Kept
  <1>2. CASE object.properties # NULL
    <2>1. Kept = Over(current, object.properties)
      BY <1>2 DEF Kept
    <2>2. /\ \A k \in DOMAIN current : Over(current, object.properties)[k] = current[k]
          /\ Over(current, object.properties)
               = [k \in DOMAIN Over(current, object.properties) |-> Over(current, object.properties)[k]]
      BY DEF Over
    <2> QED BY <2>1, <2>2
  <1> QED BY <1>1, <1>2

\* A value that an object holds is read back as the same value, without an
\* exception, from serialize() and __serialize(), from var_export() of the classes
\* with a __set_state() that reads it (all but Int64, Symbol, DBPointer and
\* CursorId) - also with the properties hash that the object has kept, when that
\* has the current keys - and a UTCDateTime from its toDateTime(), whichever calls came before and for
\* integers, texts, tag sets and documents of any size.
THEOREM ValuesReadBack == Spec => []ReadsBack
  <1>1. IInv => ReadsBack
    <2> SUFFICES ASSUME IInv, object # NULL, object.native # NULL, ~crashed
                 PROVE  LET class == object.class
                            serialized == Serialized(class, object.native)
                            same(h) == InitFromHash(class, NULL, h) = Done(object.native)
                        IN /\ serialized # NULL => same(serialized)
                           /\ same(Properties(class, object.native, TRUE))
                           /\ /\ class \in SetStateClasses \ {"CursorId"}
                              /\ DOMAIN Kept = DOMAIN Properties(class, object.native, FALSE)
                              => same(Kept)
                           /\ class = "UTCDateTime" =>
                                UTCDateTimeConstruct(NULL, <<ToDateTime(object.native)>>)
                                  = Done(object.native)
      BY DEF ReadsBack
    <2>1. object.class \in Classes /\ object.native \in Values(object.class)
      BY DEF IInv, ObjectInv, Holds
    <2> DEFINE class == object.class
               v == object.native
    <2>2. /\ Serialized(class, v) # NULL => InitFromHash(class, NULL, Serialized(class, v)) = Done(v)
          /\ InitFromHash(class, NULL, Properties(class, v, TRUE)) = Done(v)
          /\ class # "CursorId" => ReadAs(class, v, Properties(class, v, FALSE))
          /\ class = "UTCDateTime" => UTCDateTimeConstruct(NULL, <<ToDateTime(v)>>) = Done(v)
      BY <2>1, FormsReadBack
    <2>3. ASSUME class \in SetStateClasses \ {"CursorId"}, DOMAIN Kept = DOMAIN Properties(class, v, FALSE)
          PROVE  InitFromHash(class, NULL, Kept) = Done(v)
      <3> DEFINE current == Properties(class, v, FALSE)
      <3>1. current = [k \in DOMAIN current |-> current[k]] /\ InitFromHash(class, NULL, current) = Done(v)
        BY <2>2, <2>3 DEF ReadAs
      <3>2. Kept = current
        BY <2>3, <3>1, KeptIsCurrent
      <3> QED BY <3>1, <3>2
    <2> QED BY <2>2, <2>3
  <1> QED BY <1>1, ObjectsAreWellFormed, PTL

================================================================================
