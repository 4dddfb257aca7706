--------------------------- MODULE UriOptions_proofs ---------------------------
(***************************************************************************)
(* Proofs about the constructor of Manager, for any number of calls and any *)
(* lists of options: the outcome is a function of the arguments, in which   *)
(* the order of most options does not count, and every client is configured *)
(* consistently and as asked.                                              *)
(*                                                                         *)
(* Each loop over the options is followed through the list of its           *)
(* intermediate results, and what it comes to is shown by induction over    *)
(* the prefixes of the options.                                            *)
(***************************************************************************)
EXTENDS UriOptions, FiniteSetTheorems, SequenceTheorems, WellFoundedInduction, TLAPS

-------------------------------------------------------------------------------
(* Induction over the prefixes of a list *)

LEMMA PrefixInduction ==
    ASSUME NEW L \in Nat, NEW G \in SUBSET (0..L), 0 \in G,
           \A n \in 1..L : n - 1 \in G => n \in G
    PROVE  G = 0..L
  <1> DEFINE T == (0..L) \ G
  <1> SUFFICES ASSUME T # {}
               PROVE  FALSE
    OBVIOUS
  <1>1. PICK x \in T : \A y \in T : ~(<<y, x>> \in OpToRel(<, Nat))
    <2>1. T \in SUBSET Nat
      OBVIOUS
    <2> HIDE DEF T
    <2> QED BY <2>1, WFMin, NatLessThanWellFounded
  <1>2. x \in 1..L
    OBVIOUS
  <1>3. x - 1 \in T
    BY <1>2
  <1>4. x - 1 \in Nat /\ x \in Nat /\ x - 1 < x
    BY <1>2
  <1> QED BY <1>1, <1>3, <1>4 DEF OpToRel

\* One turn of a loop.
Turn(loop, value, o) ==
    CASE loop = "uri" -> ApplyOption(value, o)
      [] loop = "rc" -> ApplyRc(value, o)
      [] loop = "rp" -> ApplyRp(value, o)
      [] loop = "wc" -> ApplyWc(value, o)

\* f lists the intermediate results of a loop over the first n options.
Trace(f, n, loop, value, options) ==
    f = [i \in 0..n |-> IF i = 0 THEN Ok(value)
                        ELSE LET acc == f[i - 1]
                             IN IF acc.ok THEN Turn(loop, acc.value, options[i]) ELSE acc]

LEMMA TraceExists ==
    ASSUME NEW loop, NEW value, NEW options, NEW L \in Nat
    PROVE  \E f : Trace(f, L, loop, value, options)
  <1> DEFINE G == {n \in 0..L : \E f : Trace(f, n, loop, value, options)}
  <1>1. 0 \in G
    <2> DEFINE f == [i \in 0..0 |-> Ok(value)]
    <2>1. f = [i \in 0..0 |-> IF i = 0 THEN Ok(value)
                        ELSE LET acc == f[i - 1]
                             IN IF acc.ok THEN Turn(loop, acc.value, options[i]) ELSE acc]
      OBVIOUS
    <2>2. Trace(f, 0, loop, value, options)
      BY <2>1 DEF Trace
    <2> HIDE DEF f
    <2> QED BY <2>2
  <1>2. ASSUME NEW n \in 1..L, n - 1 \in G
        PROVE  n \in G
    <2>1. PICK f : Trace(f, n - 1, loop, value, options)
      BY <1>2
    <2> DEFINE x == IF f[n - 1].ok THEN Turn(loop, f[n - 1].value, options[n]) ELSE f[n - 1]
               g == [i \in 0..n |-> IF i = n THEN x ELSE f[i]]
               E(h, i) == IF i = 0 THEN Ok(value)
                          ELSE IF h[i - 1].ok THEN Turn(loop, h[i - 1].value, options[i])
                               ELSE h[i - 1]
    <2>2. \A i \in 0..(n - 1) : f[i] = E(f, i)
      <3>1. f = [i \in 0..(n - 1) |-> E(f, i)]
        BY <2>1 DEF Trace
      <3> HIDE DEF E
      <3> QED BY <3>1
    <2>3. \A i \in 0..n : g[i] = E(g, i)
      <3>1. \A i \in 0..n : i # n => i \in 0..(n - 1) /\ (i # 0 => i - 1 \in 0..n /\ i - 1 # n)
        OBVIOUS
      <3>2. n - 1 \in 0..n /\ n - 1 # n /\ n \in 0..n /\ n # 0
        OBVIOUS
      <3>3. \A i \in 0..n : g[i] = IF i = n THEN x ELSE f[i]
        OBVIOUS
      <3> HIDE DEF g
      <3>4. ASSUME NEW i \in 0..n, i # n
            PROVE  g[i] = E(g, i)
        <4>1. g[i] = f[i] /\ f[i] = E(f, i)
          BY <2>2, <3>1, <3>3, <3>4
        <4>2. i # 0 => g[i - 1] = f[i - 1]
          BY <3>1, <3>3, <3>4
        <4> QED BY ONLY <4>1, <4>2
      <3>5. g[n] = E(g, n)
        <4>1. g[n] = x /\ g[n - 1] = f[n - 1]
          BY ONLY <3>2, <3>3
        <4> QED BY ONLY <3>2, <4>1
      <3> QED BY ONLY <3>4, <3>5
    <2>4. g = [i \in 0..n |-> E(g, i)]
      <3> HIDE DEF E, x
      <3> QED BY <2>3
    <2>5. Trace(g, n, loop, value, options)
      BY ONLY <2>4 DEF Trace
    <2> HIDE DEF g
    <2> QED BY <2>5
  <1> HIDE DEF G
  <1>3. G \in SUBSET (0..L)
    BY DEF G
  <1>4. G = 0..L
    BY <1>1, <1>2, <1>3, PrefixInduction
  <1>5. L \in G
    BY <1>4
  <1> QED BY <1>5 DEF G

\* Each of the loops, by its intermediate results.
Follows(f, loop, value, options) ==
    /\ f[0] = Ok(value)
    /\ \A i \in 1..Len(options) :
         f[i] = IF f[i - 1].ok THEN Turn(loop, f[i - 1].value, options[i]) ELSE f[i - 1]

LEMMA TraceFollows ==
    ASSUME NEW loop, NEW value, NEW options, Len(options) \in Nat,
           NEW f, Trace(f, Len(options), loop, value, options)
    PROVE  Follows(f, loop, value, options)
  <1> DEFINE E(i) == IF i = 0 THEN Ok(value)
                     ELSE IF f[i - 1].ok THEN Turn(loop, f[i - 1].value, options[i])
                          ELSE f[i - 1]
  <1>1. f = [i \in 0..Len(options) |-> E(i)]
    BY DEF Trace
  <1>2. \A i \in 0..Len(options) : f[i] = E(i)
    <2> HIDE DEF E
    <2> QED BY <1>1
  <1>3. 0 \in 0..Len(options) /\ \A i \in 1..Len(options) : i \in 0..Len(options) /\ i # 0
    OBVIOUS
  <1> QED BY ONLY <1>2, <1>3 DEF Follows

LEMMA OptionLoop ==
    ASSUME NEW value, NEW options, Len(options) \in Nat
    PROVE  \E f : /\ Follows(f, "uri", value, options)
                  /\ ForEach(ApplyOption, value, options) = f[Len(options)]
  <1> DEFINE Def(f) == f = [i \in 0..Len(options) |->
                              IF i = 0 THEN Ok(value)
                              ELSE LET acc == f[i - 1]
                                   IN IF acc.ok THEN ApplyOption(acc.value, options[i]) ELSE acc]
             g == CHOOSE f : Def(f)
  <1>1. \A f : Def(f) <=> Trace(f, Len(options), "uri", value, options)
    BY DEF Trace, Turn
  <1>2. ForEach(ApplyOption, value, options) = g[Len(options)]
    BY DEF ForEach
  <1> HIDE DEF Def
  <1>3. Def(g)
    BY <1>1, TraceExists
  <1> HIDE DEF g
  <1> QED BY <1>1, <1>2, <1>3, TraceFollows

LEMMA RcLoop ==
    ASSUME NEW value, NEW options, Len(options) \in Nat
    PROVE  \E f : /\ Follows(f, "rc", value, options)
                  /\ ForEach(ApplyRc, value, options) = f[Len(options)]
  <1> DEFINE Def(f) == f = [i \in 0..Len(options) |->
                              IF i = 0 THEN Ok(value)
                              ELSE LET acc == f[i - 1]
                                   IN IF acc.ok THEN ApplyRc(acc.value, options[i]) ELSE acc]
             g == CHOOSE f : Def(f)
  <1>1. \A f : Def(f) <=> Trace(f, Len(options), "rc", value, options)
    BY DEF Trace, Turn
  <1>2. ForEach(ApplyRc, value, options) = g[Len(options)]
    BY DEF ForEach
  <1> HIDE DEF Def
  <1>3. Def(g)
    BY <1>1, TraceExists
  <1> HIDE DEF g
  <1> QED BY <1>1, <1>2, <1>3, TraceFollows

LEMMA RpLoop ==
    ASSUME NEW value, NEW options, Len(options) \in Nat
    PROVE  \E f : /\ Follows(f, "rp", value, options)
                  /\ ForEach(ApplyRp, value, options) = f[Len(options)]
  <1> DEFINE Def(f) == f = [i \in 0..Len(options) |->
                              IF i = 0 THEN Ok(value)
                              ELSE LET acc == f[i - 1]
                                   IN IF acc.ok THEN ApplyRp(acc.value, options[i]) ELSE acc]
             g == CHOOSE f : Def(f)
  <1>1. \A f : Def(f) <=> Trace(f, Len(options), "rp", value, options)
    BY DEF Trace, Turn
  <1>2. ForEach(ApplyRp, value, options) = g[Len(options)]
    BY DEF ForEach
  <1> HIDE DEF Def
  <1>3. Def(g)
    BY <1>1, TraceExists
  <1> HIDE DEF g
  <1> QED BY <1>1, <1>2, <1>3, TraceFollows

LEMMA WcLoop ==
    ASSUME NEW value, NEW options, Len(options) \in Nat
    PROVE  \E f : /\ Follows(f, "wc", value, options)
                  /\ ForEach(ApplyWc, value, options) = f[Len(options)]
  <1> DEFINE Def(f) == f = [i \in 0..Len(options) |->
                              IF i = 0 THEN Ok(value)
                              ELSE LET acc == f[i - 1]
                                   IN IF acc.ok THEN ApplyWc(acc.value, options[i]) ELSE acc]
             g == CHOOSE f : Def(f)
  <1>1. \A f : Def(f) <=> Trace(f, Len(options), "wc", value, options)
    BY DEF Trace, Turn
  <1>2. ForEach(ApplyWc, value, options) = g[Len(options)]
    BY DEF ForEach
  <1> HIDE DEF Def
  <1>3. Def(g)
    BY <1>1, TraceExists
  <1> HIDE DEF g
  <1> QED BY <1>1, <1>2, <1>3, TraceFollows

-------------------------------------------------------------------------------
(* What each loop comes to *)

IsList(options) == options \in Seq(Option) /\ Distinct(options)

LEMMA ListFacts ==
    ASSUME NEW options, IsList(options)
    PROVE  /\ Len(options) \in Nat /\ DOMAIN options = 1..Len(options)
           /\ \A i \in 1..Len(options) : options[i] \in Option
           /\ \A i, j \in 1..Len(options) : options[i].key = options[j].key => i = j
  BY LenProperties, ElementOfSeq DEF IsList, Distinct

LEMMA OptionFacts ==
    ASSUME NEW o \in Option
    PROVE  /\ ~(Is("int", o) /\ Is("text", o))
           /\ Is("bool", o) => o.bool \in BOOLEAN
           /\ Is("int", o) => o.int \in Int
           /\ Is("text", o) => o.text \in Text \cup {NULL}
  BY DEF Option, Is

\* A loop has gone well up to an option only if it has up to the one before.
LEMMA Earlier ==
    ASSUME NEW loop, NEW value, NEW options, NEW f, Follows(f, loop, value, options),
           NEW n \in 1..Len(options)
    PROVE  /\ f[n].ok => f[n - 1].ok /\ f[n] = Turn(loop, f[n - 1].value, options[n])
           /\ ~f[n - 1].ok => f[n] = f[n - 1]
  BY DEF Follows

\* The prefixes of a list, one longer than the other.
LEMMA Prefix ==
    ASSUME NEW L \in Nat, NEW n \in 1..L
    PROVE  /\ n - 1 \in 0..L
           /\ \A i \in 1..(n - 1) : i \in 1..n /\ i \in 1..L /\ i # n
           /\ \A i \in 1..n : i \in 1..L /\ (i # n => i \in 1..(n - 1))
           /\ n \in 1..n
  OBVIOUS

\* The last of the spellings of a key among the first n options.
LastOf(options, n, i) == \A j \in 1..n : Key(options[j]) = Key(options[i]) => j <= i

LEMMA LastIsLast ==
    ASSUME NEW options, IsList(options), NEW i
    PROVE  IsLast(options, i) <=> LastOf(options, Len(options), i)
  BY ListFacts DEF IsLast, LastOf

\* One option more is the last of its key; the others are if they were and have
\* another key.
LEMMA LastStep ==
    ASSUME NEW options, NEW L \in Nat, NEW n \in 1..L
    PROVE  /\ LastOf(options, n, n)
           /\ \A i \in 1..(n - 1) : LastOf(options, n, i) =>
                /\ LastOf(options, n - 1, i)
                /\ Key(options[i]) # Key(options[n])
  BY Prefix DEF LastOf

\* A key that is there has a last spelling.
LEMMA LastExists ==
    ASSUME NEW options, NEW L \in Nat, NEW i \in 1..L
    PROVE  \E j \in 1..L : Key(options[j]) = Key(options[i]) /\ LastOf(options, L, j)
  <1> DEFINE key == Key(options[i])
             P(n) == (\E j \in 1..n : Key(options[j]) = key) =>
                       \E j \in 1..n : Key(options[j]) = key /\ LastOf(options, n, j)
             G == {n \in 0..L : P(n)}
  <1>1. P(0)
    OBVIOUS
  <1>2. ASSUME NEW n \in 1..L, P(n - 1)
        PROVE  P(n)
    <2>1. CASE Key(options[n]) = key
      BY <2>1, LastStep, Prefix
    <2>2. CASE Key(options[n]) # key
      <3> SUFFICES ASSUME NEW k \in 1..n, Key(options[k]) = key
                   PROVE  \E j \in 1..n : Key(options[j]) = key /\ LastOf(options, n, j)
        OBVIOUS
      <3>1. k \in 1..(n - 1)
        BY <2>2, Prefix
      <3>2. PICK j \in 1..(n - 1) : Key(options[j]) = key /\ LastOf(options, n - 1, j)
        BY <1>2, <3>1
      <3>3. LastOf(options, n, j)
        BY <2>2, <3>2, Prefix DEF LastOf
      <3> QED BY <3>2, <3>3, Prefix
    <2> QED BY <2>1, <2>2
  <1> HIDE DEF P
  <1>3. G = 0..L
    <2> 0 \in G /\ G \in SUBSET (0..L) /\ \A n \in 1..L : n - 1 \in G => n \in G
      BY <1>1, <1>2
    <2> QED BY PrefixInduction
  <1>4. P(L)
    BY <1>3
  <1> QED BY <1>4 DEF P

RcAlone(o) == Key(o) = "readConcernLevel" => Is("text", o)

RcValue(rc, options, n, v) ==
    /\ \A i \in 1..n : Key(options[i]) = "readConcernLevel" /\ LastOf(options, n, i) =>
         v = options[i].text
    /\ (\A i \in 1..n : Key(options[i]) # "readConcernLevel") => v = rc

LEMMA RcTurn ==
    ASSUME NEW rc, NEW o
    PROVE  LET t == ApplyRc(rc, o)
           IN /\ t.ok <=> RcAlone(o)
              /\ t.ok => t.value = IF Key(o) = "readConcernLevel" THEN o.text ELSE rc
  BY DEF ApplyRc, RcAlone, Ok, Refused, Is

LEMMA RcResult ==
    ASSUME NEW rc, NEW options, IsList(options)
    PROVE  LET r == ForEach(ApplyRc, rc, options)
           IN /\ r.ok <=> \A i \in 1..Len(options) : RcAlone(options[i])
              /\ r.ok => RcValue(rc, options, Len(options), r.value)
  <1> DEFINE L == Len(options)
  <1>1. L \in Nat
    BY ListFacts
  <1>2. PICK f : Follows(f, "rc", rc, options) /\ ForEach(ApplyRc, rc, options) = f[L]
    BY <1>1, RcLoop
  <1> DEFINE P(n) == /\ f[n].ok <=> \A i \in 1..n : RcAlone(options[i])
                     /\ f[n].ok => RcValue(rc, options, n, f[n].value)
             G == {n \in 0..L : P(n)}
  <1>3. P(0)
    BY <1>2 DEF Follows, Ok, RcValue
  <1>4. ASSUME NEW n \in 1..L, P(n - 1)
        PROVE  P(n)
    <2> DEFINE o == options[n]
    <2>1. CASE ~f[n - 1].ok
      BY <1>1, <1>2, <1>4, <2>1, Earlier, Prefix
    <2>2. CASE f[n - 1].ok
      <3>1. f[n] = ApplyRc(f[n - 1].value, o)
        BY <1>2, <2>2 DEF Follows, Turn
      <3>2. /\ f[n].ok <=> RcAlone(o)
            /\ f[n].ok => f[n].value = IF Key(o) = "readConcernLevel" THEN o.text
                                      ELSE f[n - 1].value
        BY <3>1, RcTurn
      <3>3. f[n].ok <=> \A i \in 1..n : RcAlone(options[i])
        BY <1>1, <1>4, <2>2, <3>2, Prefix
      <3>4. f[n].ok => RcValue(rc, options, n, f[n].value)
        BY <1>1, <1>4, <2>2, <3>2, Prefix, LastStep DEF RcValue
      <3> QED BY <3>3, <3>4
    <2> QED BY <2>1, <2>2
  <1> HIDE DEF P
  <1>5. G = 0..L
    <2> 0 \in G /\ G \in SUBSET (0..L) /\ \A n \in 1..L : n - 1 \in G => n \in G
      BY <1>1, <1>3, <1>4
    <2> QED BY <1>1, PrefixInduction
  <1>6. P(L)
    BY <1>1, <1>5
  <1> QED BY <1>2, <1>6 DEF P

\* The write concern.
AskedW(o) == IF Is("int", o) THEN o.int ELSE W(o.text)
SafeW(o) == IF o.bool THEN 1 ELSE 0

WcAlone(o) ==
    /\ Key(o) = "safe" => Is("bool", o)
    /\ Key(o) = "wtimeoutMS" => Is("int", o) /\ o.int >= 0
    /\ Key(o) = "journal" => Is("bool", o)
    /\ Key(o) = "w" => Is("text", o) \/ (IsInt32(o) /\ o.int >= -1)

IsWc(wc) == wc = [w |-> wc.w, journal |-> wc.journal, wtimeout |-> wc.wtimeout]
IsWcAcc(acc) == acc = [wc |-> acc.wc, ignore |-> acc.ignore] /\ IsWc(acc.wc)

LEMMA WcTurn ==
    ASSUME NEW acc, IsWcAcc(acc), acc.ignore \in BOOLEAN, NEW o \in Option
    PROVE  LET t == ApplyWc(acc, o)
           IN /\ WcAlone(o) => t.ok
              /\ t.ok /\ (Key(o) = "safe" => ~acc.ignore) => WcAlone(o)
              /\ t.ok => /\ IsWcAcc(t.value)
                         /\ t.value.ignore = (acc.ignore \/ Key(o) = "w")
                         /\ t.value.wc.w = IF Key(o) = "w" THEN AskedW(o) ELSE
                                           IF Key(o) = "safe" /\ ~acc.ignore THEN SafeW(o)
                                           ELSE acc.wc.w
                         /\ t.value.wc.journal = IF Key(o) = "journal" THEN o.bool
                                                 ELSE acc.wc.journal
                         /\ t.value.wc.wtimeout = IF Key(o) = "wtimeoutMS" THEN o.int
                                                  ELSE acc.wc.wtimeout
  <1>1. ~(Is("int", o) /\ Is("text", o))
    BY OptionFacts
  <1>2. CASE Key(o) = "safe" /\ ~acc.ignore
    BY <1>2 DEF ApplyWc, SafeCounts, WcAlone, IsWcAcc, IsWc, Ok, Refused, Is, SafeW
  <1>3. CASE Key(o) = "wtimeoutMS"
    BY <1>3 DEF ApplyWc, WcAlone, IsWcAcc, IsWc, Ok, Refused, Is
  <1>4. CASE Key(o) = "journal"
    BY <1>4 DEF ApplyWc, WcAlone, IsWcAcc, IsWc, Ok, Refused, Is
  <1>5. CASE Key(o) = "w"
    BY <1>1, <1>5 DEF ApplyWc, WcAlone, IsWcAcc, IsWc, Ok, Refused, Is, IsInt32, AskedW
  <1>6. CASE /\ Key(o) \notin {"wtimeoutMS", "journal", "w"}
             /\ Key(o) = "safe" => acc.ignore
    BY <1>6 DEF ApplyWc, SafeCounts, WcAlone, IsWcAcc, IsWc, Ok, Refused, Is
  <1> QED BY <1>2, <1>3, <1>4, <1>5, <1>6

WcValue(wc, options, n, v) ==
    /\ IsWcAcc(v)
    /\ v.ignore \in BOOLEAN /\ (v.ignore <=> \E i \in 1..n : Key(options[i]) = "w")
    /\ \A i \in 1..n : Key(options[i]) = "w" /\ LastOf(options, n, i) =>
         v.wc.w = AskedW(options[i])
    /\ ~v.ignore => \A i \in 1..n : Key(options[i]) = "safe" /\ LastOf(options, n, i) =>
         v.wc.w = SafeW(options[i])
    /\ (\A i \in 1..n : Key(options[i]) \notin {"w", "safe"}) => v.wc.w = wc.w
    /\ \A i \in 1..n : Key(options[i]) = "journal" /\ LastOf(options, n, i) =>
         v.wc.journal = options[i].bool
    /\ (\A i \in 1..n : Key(options[i]) # "journal") => v.wc.journal = wc.journal
    /\ \A i \in 1..n : Key(options[i]) = "wtimeoutMS" /\ LastOf(options, n, i) =>
         v.wc.wtimeout = options[i].int
    /\ (\A i \in 1..n : Key(options[i]) # "wtimeoutMS") => v.wc.wtimeout = wc.wtimeout

\* Every safe is of the type that is checked before w.
SafesOk(options) == \A i \in 1..Len(options) : Key(options[i]) = "safe" => Is("bool", options[i])

LEMMA WcResult ==
    ASSUME NEW wc, IsWc(wc), NEW options, IsList(options)
    PROVE  LET r == ForEach(ApplyWc, [wc |-> wc, ignore |-> FALSE], options)
           IN /\ r.ok => WcValue(wc, options, Len(options), r.value)
              /\ SafesOk(options) => (r.ok <=> \A i \in 1..Len(options) : WcAlone(options[i]))
  <1> DEFINE L == Len(options)
             acc == [wc |-> wc, ignore |-> FALSE]
  <1>1. L \in Nat /\ \A i \in 1..L : options[i] \in Option
    BY ListFacts
  <1>2. PICK f : Follows(f, "wc", acc, options) /\ ForEach(ApplyWc, acc, options) = f[L]
    BY <1>1, WcLoop
  <1> DEFINE P(n) == /\ f[n].ok => WcValue(wc, options, n, f[n].value)
                     /\ SafesOk(options) => (f[n].ok <=> \A i \in 1..n : WcAlone(options[i]))
             G == {n \in 0..L : P(n)}
  <1>3. P(0)
    <2>1. f[0].ok = TRUE /\ f[0].value = acc
      BY <1>2 DEF Follows, Ok
    <2>2. IsWcAcc(acc) /\ acc.ignore = FALSE /\ acc.wc = wc
      BY DEF IsWcAcc
    <2> HIDE DEF acc
    <2>3. \A i : i \notin 1..0
      OBVIOUS
    <2>4. WcValue(wc, options, 0, acc)
      BY <2>2, <2>3 DEF WcValue
    <2> QED BY <2>1, <2>3, <2>4
  <1>4. ASSUME NEW n \in 1..L, P(n - 1)
        PROVE  P(n)
    <2> DEFINE o == options[n]
               v == f[n - 1].value
    <2>1. CASE ~f[n - 1].ok
      BY <1>1, <1>2, <1>4, <2>1, Earlier, Prefix
    <2>2. CASE f[n - 1].ok
      <3>1. f[n] = ApplyWc(v, o)
        BY <1>2, <2>2 DEF Follows, Turn
      <3>2. WcValue(wc, options, n - 1, v)
        BY <1>4, <2>2
      <3>3. /\ n - 1 \in 0..L /\ n \in 1..n
            /\ \A i \in 1..(n - 1) : i \in 1..n /\ i \in 1..L /\ i # n
            /\ \A i \in 1..n : i \in 1..L /\ (i # n => i \in 1..(n - 1))
        BY <1>1, Prefix
      <3>4. /\ LastOf(options, n, n)
            /\ \A i \in 1..(n - 1) : LastOf(options, n, i) =>
                 LastOf(options, n - 1, i) /\ Key(options[i]) # Key(o)
        BY <1>1, LastStep
      <3>5. o \in Option
        BY <1>1
      <3> HIDE DEF o, v
      <3>6. /\ WcAlone(o) => f[n].ok
            /\ f[n].ok /\ (Key(o) = "safe" => ~v.ignore) => WcAlone(o)
        BY <3>1, <3>2, <3>5, WcTurn DEF WcValue
      <3>7. ASSUME f[n].ok
            PROVE  WcValue(wc, options, n, f[n].value)
        <4> DEFINE t == f[n].value
        <4>1. /\ IsWcAcc(t)
              /\ t.ignore = (v.ignore \/ Key(o) = "w")
              /\ t.wc.w = IF Key(o) = "w" THEN AskedW(o) ELSE
                          IF Key(o) = "safe" /\ ~v.ignore THEN SafeW(o) ELSE v.wc.w
              /\ t.wc.journal = IF Key(o) = "journal" THEN o.bool ELSE v.wc.journal
              /\ t.wc.wtimeout = IF Key(o) = "wtimeoutMS" THEN o.int ELSE v.wc.wtimeout
          BY <3>1, <3>2, <3>5, <3>7, WcTurn DEF WcValue
        <4> HIDE DEF t
        <4>2. t.ignore \in BOOLEAN /\ (t.ignore <=> \E i \in 1..n : Key(options[i]) = "w")
          BY <3>2, <3>3, <4>1 DEF WcValue, o
        <4>3. \A i \in 1..n : Key(options[i]) = "w" /\ LastOf(options, n, i) =>
                 t.wc.w = AskedW(options[i])
          BY <3>2, <3>3, <3>4, <4>1 DEF WcValue, o
        <4>4. ~t.ignore => \A i \in 1..n : Key(options[i]) = "safe" /\ LastOf(options, n, i) =>
                 t.wc.w = SafeW(options[i])
          BY <3>2, <3>3, <3>4, <4>1 DEF WcValue, o
        <4>5. (\A i \in 1..n : Key(options[i]) \notin {"w", "safe"}) => t.wc.w = wc.w
          BY <3>2, <3>3, <4>1 DEF WcValue, o
        <4>6. \A i \in 1..n : Key(options[i]) = "journal" /\ LastOf(options, n, i) =>
                 t.wc.journal = options[i].bool
          BY <3>2, <3>3, <3>4, <4>1 DEF WcValue, o
        <4>7. (\A i \in 1..n : Key(options[i]) # "journal") => t.wc.journal = wc.journal
          BY <3>2, <3>3, <4>1 DEF WcValue, o
        <4>8. \A i \in 1..n : Key(options[i]) = "wtimeoutMS" /\ LastOf(options, n, i) =>
                 t.wc.wtimeout = options[i].int
          BY <3>2, <3>3, <3>4, <4>1 DEF WcValue, o
        <4>9. (\A i \in 1..n : Key(options[i]) # "wtimeoutMS") => t.wc.wtimeout = wc.wtimeout
          BY <3>2, <3>3, <4>1 DEF WcValue, o
        <4> QED BY <4>1, <4>2, <4>3, <4>4, <4>5, <4>6, <4>7, <4>8, <4>9 DEF WcValue, t
      <3>8. ASSUME SafesOk(options)
            PROVE  f[n].ok <=> \A i \in 1..n : WcAlone(options[i])
        <4>1. f[n].ok => WcAlone(o)
          BY <3>6, <3>8 DEF SafesOk, WcAlone, o
        <4> QED BY <1>4, <2>2, <3>3, <3>6, <3>8, <4>1 DEF o
      <3> QED BY <3>7, <3>8
    <2> QED BY <2>1, <2>2
  <1> HIDE DEF P, acc
  <1>5. G = 0..L
    <2> 0 \in G /\ G \in SUBSET (0..L) /\ \A n \in 1..L : n - 1 \in G => n \in G
      BY <1>1, <1>3, <1>4
    <2> QED BY <1>1, PrefixInduction
  <1>6. P(L)
    BY <1>1, <1>5
  <1> QED BY <1>2, <1>6 DEF P, acc

\* The read preference.
RpAlone(rp, o) ==
    /\ Key(o) = "readPreference" => Is("text", o) /\ o.text \in Modes
    /\ Key(o) = "readPreferenceTags" => Is("array", o) /\ TagsValid(o.array)
    /\ Key(o) = "maxStalenessSeconds" =>
         /\ Is("int", o) /\ StalenessOk(o.int)
         /\ o.int # NoStaleness => rp.mode # "primary"

IsRp(rp) == rp = [mode |-> rp.mode, tags |-> rp.tags, staleness |-> rp.staleness]

LEMMA RpTurn ==
    ASSUME NEW rp, IsRp(rp), NEW o \in Option
    PROVE  LET t == ApplyRp(rp, o)
           IN /\ t.ok <=> RpAlone(rp, o)
              /\ t.ok => /\ IsRp(t.value)
                         /\ t.value.mode = IF Key(o) = "readPreference" THEN o.text ELSE rp.mode
                         /\ t.value.tags = IF Key(o) = "readPreferenceTags" THEN o.array
                                           ELSE rp.tags
                         /\ t.value.staleness = IF Key(o) = "maxStalenessSeconds" THEN o.int
                                                ELSE rp.staleness
  <1>1. CASE Key(o) = "readPreference"
    BY <1>1 DEF ApplyRp, RpAlone, IsRp, Ok, Refused, Is
  <1>2. CASE Key(o) = "readPreferenceTags"
    BY <1>2 DEF ApplyRp, RpAlone, IsRp, Ok, Refused, Is, TagsValid
  <1>3. CASE Key(o) = "maxStalenessSeconds"
    BY <1>3 DEF ApplyRp, RpAlone, IsRp, Ok, Refused, Is, StalenessOk
  <1>4. CASE Key(o) \notin {"readPreference", "readPreferenceTags", "maxStalenessSeconds"}
    BY <1>4 DEF ApplyRp, RpAlone, IsRp, Ok
  <1> QED BY <1>1, <1>2, <1>3, <1>4

RpValue(rp, options, n, v) ==
    /\ IsRp(v)
    /\ \A i \in 1..n : Key(options[i]) = "readPreference" /\ LastOf(options, n, i) =>
         v.mode = options[i].text
    /\ (\A i \in 1..n : Key(options[i]) # "readPreference") => v.mode = rp.mode
    /\ \A i \in 1..n : Key(options[i]) = "readPreferenceTags" /\ LastOf(options, n, i) =>
         v.tags = options[i].array
    /\ (\A i \in 1..n : Key(options[i]) # "readPreferenceTags") => v.tags = rp.tags
    /\ \A i \in 1..n : Key(options[i]) = "maxStalenessSeconds" /\ LastOf(options, n, i) =>
         v.staleness = options[i].int
    /\ (\A i \in 1..n : Key(options[i]) # "maxStalenessSeconds") => v.staleness = rp.staleness

\* Not both of two options.
NotBoth(options, key1, key2) ==
    \A i, j \in 1..Len(options) : ~(Key(options[i]) = key1 /\ Key(options[j]) = key2)

LEMMA RpResult ==
    ASSUME NEW rp, IsRp(rp), NEW options, IsList(options)
    PROVE  LET r == ForEach(ApplyRp, rp, options)
           IN /\ r.ok => RpValue(rp, options, Len(options), r.value)
              /\ NotBoth(options, "readPreference", "maxStalenessSeconds") =>
                   (r.ok <=> \A i \in 1..Len(options) : RpAlone(rp, options[i]))
  <1> DEFINE L == Len(options)
             Free == NotBoth(options, "readPreference", "maxStalenessSeconds")
  <1>1. L \in Nat /\ \A i \in 1..L : options[i] \in Option
    BY ListFacts
  <1>2. PICK f : Follows(f, "rp", rp, options) /\ ForEach(ApplyRp, rp, options) = f[L]
    BY <1>1, RpLoop
  <1> DEFINE P(n) == /\ f[n].ok => RpValue(rp, options, n, f[n].value)
                     /\ Free => (f[n].ok <=> \A i \in 1..n : RpAlone(rp, options[i]))
             G == {n \in 0..L : P(n)}
  <1>3. P(0)
    <2>1. f[0].ok = TRUE /\ f[0].value = rp
      BY <1>2 DEF Follows, Ok
    <2>2. \A i : i \notin 1..0
      OBVIOUS
    <2>3. RpValue(rp, options, 0, rp)
      BY <2>2 DEF RpValue
    <2> QED BY <2>1, <2>2, <2>3
  <1>4. ASSUME NEW n \in 1..L, P(n - 1)
        PROVE  P(n)
    <2> DEFINE o == options[n]
               v == f[n - 1].value
    <2>1. CASE ~f[n - 1].ok
      BY <1>1, <1>2, <1>4, <2>1, Earlier, Prefix
    <2>2. CASE f[n - 1].ok
      <3>1. f[n] = ApplyRp(v, o)
        BY <1>2, <2>2 DEF Follows, Turn
      <3>2. RpValue(rp, options, n - 1, v)
        BY <1>4, <2>2
      <3>3. /\ n - 1 \in 0..L /\ n \in 1..n
            /\ \A i \in 1..(n - 1) : i \in 1..n /\ i \in 1..L /\ i # n
            /\ \A i \in 1..n : i \in 1..L /\ (i # n => i \in 1..(n - 1))
        BY <1>1, Prefix
      <3>4. /\ LastOf(options, n, n)
            /\ \A i \in 1..(n - 1) : LastOf(options, n, i) =>
                 LastOf(options, n - 1, i) /\ Key(options[i]) # Key(o)
        BY <1>1, LastStep
      <3>5. o \in Option
        BY <1>1
      <3> HIDE DEF o, v
      <3>6. f[n].ok <=> RpAlone(v, o)
        BY <3>1, <3>2, <3>5, RpTurn DEF RpValue
      <3>7. ASSUME f[n].ok
            PROVE  RpValue(rp, options, n, f[n].value)
        <4> DEFINE t == f[n].value
        <4>1. /\ IsRp(t)
              /\ t.mode = IF Key(o) = "readPreference" THEN o.text ELSE v.mode
              /\ t.tags = IF Key(o) = "readPreferenceTags" THEN o.array ELSE v.tags
              /\ t.staleness = IF Key(o) = "maxStalenessSeconds" THEN o.int ELSE v.staleness
          BY <3>1, <3>2, <3>5, <3>7, RpTurn DEF RpValue
        <4> HIDE DEF t
        <4>2. /\ \A i \in 1..n : Key(options[i]) = "readPreference" /\ LastOf(options, n, i) =>
                 t.mode = options[i].text
              /\ (\A i \in 1..n : Key(options[i]) # "readPreference") => t.mode = rp.mode
          BY <3>2, <3>3, <3>4, <4>1 DEF RpValue, o
        <4>3. /\ \A i \in 1..n : Key(options[i]) = "readPreferenceTags" /\ LastOf(options, n, i) =>
                 t.tags = options[i].array
              /\ (\A i \in 1..n : Key(options[i]) # "readPreferenceTags") => t.tags = rp.tags
          BY <3>2, <3>3, <3>4, <4>1 DEF RpValue, o
        <4>4. /\ \A i \in 1..n : Key(options[i]) = "maxStalenessSeconds" /\ LastOf(options, n, i) =>
                 t.staleness = options[i].int
              /\ (\A i \in 1..n : Key(options[i]) # "maxStalenessSeconds") =>
                   t.staleness = rp.staleness
          BY <3>2, <3>3, <3>4, <4>1 DEF RpValue, o
        <4> QED BY <4>1, <4>2, <4>3, <4>4 DEF RpValue, t
      <3>8. ASSUME Free
            PROVE  f[n].ok <=> \A i \in 1..n : RpAlone(rp, options[i])
        <4>1. Key(o) = "maxStalenessSeconds" => v.mode = rp.mode
          BY <3>2, <3>3, <3>8 DEF RpValue, NotBoth, o
        <4>2. RpAlone(v, o) <=> RpAlone(rp, o)
          BY <4>1 DEF RpAlone
        <4> QED BY <1>4, <2>2, <3>3, <3>6, <3>8, <4>2 DEF o
      <3> QED BY <3>7, <3>8
    <2> QED BY <2>1, <2>2
  <1> HIDE DEF P
  <1>5. G = 0..L
    <2> 0 \in G /\ G \in SUBSET (0..L) /\ \A n \in 1..L : n - 1 \in G => n \in G
      BY <1>1, <1>3, <1>4
    <2> QED BY <1>1, PrefixInduction
  <1>6. P(L)
    BY <1>1, <1>5
  <1> QED BY <1>2, <1>6 DEF P

\* The plain options: the key and the value that one stores.
Properties == "authMechanismProperties"
Stores(o) ==
    Key(o) \in BoolKeys \cup Int32Keys \cup Utf8Keys \cup AuthKeys
              \cup {"compressors", Properties, "gssapiServiceName"}
StoredKey(o) == IF Key(o) = "gssapiServiceName" THEN Properties ELSE Key(o)
StoredValue(o) ==
    IF Key(o) \in BoolKeys THEN AsBool(o) ELSE
    IF Key(o) \in Int32Keys THEN o.int ELSE
    IF Key(o) = Properties THEN o.document ELSE o.text

OptionAlone(u, o) ==
    /\ Key(o) \in Int32Keys => IsInt32(o)
    /\ Key(o) \in Utf8Keys \cup AuthKeys \cup {"compressors"} =>
         /\ Is("text", o) /\ o.text # NULL
         /\ Key(o) = "replicaSet" => o.text # ""
    /\ Key(o) = Properties => Is("document", o)
    /\ Key(o) = "gssapiServiceName" => Properties \notin DOMAIN u.set /\ Is("text", o)

\* The two forms of the properties are not both there.
OneForm(options) == NotBoth(options, Properties, "gssapiServiceName")

StoreValue(u, o) == [u EXCEPT !.set = Put(@, StoredKey(o), StoredValue(o))]

LEMMA OptionTurn ==
    ASSUME NEW u, NEW o
    PROVE  LET t == ApplyOption(u, o)
           IN /\ t.ok <=> OptionAlone(u, o)
              /\ t.ok => t.value = IF Stores(o) THEN StoreValue(u, o) ELSE u
  <1> USE DEF BoolKeys, Int32Keys, Utf8Keys, AuthKeys, ConcernKeys, Properties
  <1>1. /\ \A x : Ok(x).ok = TRUE /\ Ok(x).value = x
        /\ Refused(u).ok = FALSE
    BY DEF Ok, Refused
  <1>2. \A v : Store(u, StoredKey(o), v) = Ok([u EXCEPT !.set = Put(@, StoredKey(o), v)])
    BY DEF Store
  <1>3. CASE ~Stores(o)
    <2>1. ApplyOption(u, o) = Ok(u)
      BY <1>3 DEF ApplyOption, Stores
    <2>2. OptionAlone(u, o)
      BY <1>3 DEF OptionAlone, Stores
    <2> QED BY ONLY <1>1, <1>3, <2>1, <2>2
  <1>4. ASSUME NEW v, Stores(o), v = StoredValue(o),
               ApplyOption(u, o) = IF OptionAlone(u, o) THEN Store(u, StoredKey(o), v)
                                   ELSE Refused(u)
        PROVE  LET t == ApplyOption(u, o)
               IN /\ t.ok <=> OptionAlone(u, o)
                  /\ t.ok => t.value = IF Stores(o) THEN StoreValue(u, o) ELSE u
    BY ONLY <1>1, <1>2, <1>4 DEF StoreValue
  <1>5. CASE Key(o) \in BoolKeys
    <2>1. ApplyOption(u, o) = Store(u, Key(o), AsBool(o))
      BY <1>5 DEF ApplyOption
    <2>2. OptionAlone(u, o)
      BY <1>5 DEF OptionAlone
    <2>3. Stores(o) /\ StoredKey(o) = Key(o) /\ StoredValue(o) = AsBool(o)
      BY <1>5 DEF Stores, StoredKey, StoredValue
    <2> QED BY ONLY <1>4, <2>1, <2>2, <2>3
  <1>6. CASE Key(o) \in Int32Keys
    <2>1. ApplyOption(u, o) = IF IsInt32(o) THEN Store(u, Key(o), o.int) ELSE Refused(u)
      BY <1>6 DEF ApplyOption
    <2>2. OptionAlone(u, o) <=> IsInt32(o)
      BY <1>6 DEF OptionAlone, IsInt32
    <2>3. Stores(o) /\ StoredKey(o) = Key(o) /\ StoredValue(o) = o.int
      BY <1>6 DEF Stores, StoredKey, StoredValue
    <2> QED BY ONLY <1>4, <2>1, <2>2, <2>3
  <1>7. CASE Key(o) \in Utf8Keys \cup AuthKeys \cup {"compressors"}
    <2> DEFINE taken == /\ Is("text", o) /\ o.text # NULL
                        /\ Key(o) = "replicaSet" => o.text # ""
    <2>1. ApplyOption(u, o) = IF taken THEN Store(u, Key(o), o.text) ELSE Refused(u)
      BY <1>7 DEF ApplyOption
    <2>2. OptionAlone(u, o) <=> taken
      BY <1>7 DEF OptionAlone, Is
    <2>3. Stores(o) /\ StoredKey(o) = Key(o) /\ StoredValue(o) = o.text
      BY <1>7 DEF Stores, StoredKey, StoredValue
    <2> HIDE DEF taken
    <2> QED BY ONLY <1>4, <2>1, <2>2, <2>3
  <1>8. CASE Key(o) = Properties
    <2>1. ApplyOption(u, o) = IF Is("document", o) THEN Store(u, Key(o), o.document) ELSE Refused(u)
      BY <1>8 DEF ApplyOption
    <2>2. OptionAlone(u, o) <=> Is("document", o)
      BY <1>8 DEF OptionAlone, Is
    <2>3. Stores(o) /\ StoredKey(o) = Key(o) /\ StoredValue(o) = o.document
      BY <1>8 DEF Stores, StoredKey, StoredValue
    <2> QED BY ONLY <1>4, <2>1, <2>2, <2>3
  <1>9. CASE Key(o) = "gssapiServiceName"
    <2> DEFINE taken == Properties \notin DOMAIN u.set /\ Is("text", o)
    <2>1. ApplyOption(u, o) = IF taken THEN Store(u, Properties, o.text) ELSE Refused(u)
      BY <1>9 DEF ApplyOption
    <2>2. OptionAlone(u, o) <=> taken
      BY <1>9 DEF OptionAlone, Is
    <2>3. Stores(o) /\ StoredKey(o) = Properties /\ StoredValue(o) = o.text
      BY <1>9 DEF Stores, StoredKey, StoredValue
    <2> HIDE DEF taken
    <2> QED BY ONLY <1>4, <2>1, <2>2, <2>3
  <1> QED BY <1>3, <1>5, <1>6, <1>7, <1>8, <1>9 DEF Stores

HasSet(u) ==
    /\ "set" \in DOMAIN u /\ u = [x \in DOMAIN u |-> u[x]]
    /\ u.set = [k \in DOMAIN u.set |-> u.set[k]]

LEMMA StoreFacts ==
    ASSUME NEW u, HasSet(u), NEW o
    PROVE  LET v == StoreValue(u, o)
           IN /\ HasSet(v) /\ v = [u EXCEPT !.set = v.set]
              /\ \A k : k \in DOMAIN v.set <=> k \in DOMAIN u.set \/ k = StoredKey(o)
              /\ v.set[StoredKey(o)] = StoredValue(o)
              /\ \A k \in DOMAIN u.set : k # StoredKey(o) => v.set[k] = u.set[k]
  <1> DEFINE key == StoredKey(o)
             new == Put(u.set, key, StoredValue(o))
             v == StoreValue(u, o)
  <1>1. /\ new = [k \in DOMAIN new |-> new[k]]
        /\ \A k : k \in DOMAIN new <=> k \in DOMAIN u.set \/ k = key
        /\ new[key] = StoredValue(o)
        /\ \A k \in DOMAIN u.set : k # key => new[k] = u.set[k]
    BY DEF HasSet, Put
  <1>2. v = [u EXCEPT !.set = new]
    BY DEF StoreValue
  <1> HIDE DEF new, v, key
  <1>3. v.set = new /\ DOMAIN v = DOMAIN u /\ v = [x \in DOMAIN v |-> v[x]]
    BY <1>2 DEF HasSet
  <1>4. HasSet(v)
    BY <1>1, <1>3 DEF HasSet
  <1>5. v = [u EXCEPT !.set = v.set]
    BY <1>2, <1>3
  <1> QED BY <1>1, <1>3, <1>4, <1>5 DEF v, key

\* The last of the first n options that stores the same.
LastStored(options, n, i) ==
    \A j \in 1..n : StoredKey(options[j]) = StoredKey(options[i]) => j <= i

\* A second service name is refused, although it is another spelling.
OneService(options, n) ==
    \A i, j \in 1..n : Key(options[i]) = "gssapiServiceName" /\ Key(options[j]) = Key(options[i])
                         => i = j

OptionValue(u, options, n, v) ==
    /\ HasSet(v) /\ v = [u EXCEPT !.set = v.set]
    /\ \A i \in 1..n : Key(options[i]) \in Utf8Keys =>
         Is("text", options[i]) /\ options[i].text # NULL
    /\ \A k : k \in DOMAIN v.set <=>
                \/ k \in DOMAIN u.set
                \/ \E i \in 1..n : Stores(options[i]) /\ StoredKey(options[i]) = k
    /\ \A i \in 1..n : Stores(options[i]) /\ LastStored(options, n, i) =>
         v.set[StoredKey(options[i])] = StoredValue(options[i])
    /\ \A k \in DOMAIN u.set :
         (\A i \in 1..n : ~(Stores(options[i]) /\ StoredKey(options[i]) = k)) =>
           v.set[k] = u.set[k]

LEMMA OptionResult ==
    ASSUME NEW u, HasSet(u), NEW options, IsList(options)
    PROVE  LET r == ForEach(ApplyOption, u, options)
           IN /\ r.ok => OptionValue(u, options, Len(options), r.value)
              /\ OneForm(options) =>
                   (r.ok <=> /\ OneService(options, Len(options))
                             /\ \A i \in 1..Len(options) : OptionAlone(u, options[i]))
  <1> DEFINE L == Len(options)
  <1>1. L \in Nat
    BY ListFacts
  <1>2. PICK f : Follows(f, "uri", u, options) /\ ForEach(ApplyOption, u, options) = f[L]
    BY <1>1, OptionLoop
  <1> DEFINE P(n) == /\ f[n].ok => OptionValue(u, options, n, f[n].value)
                     /\ OneForm(options) =>
                          (f[n].ok <=> /\ OneService(options, n)
                                       /\ \A i \in 1..n : OptionAlone(u, options[i]))
             G == {n \in 0..L : P(n)}
  <1>3. P(0)
    <2>1. f[0].ok = TRUE /\ f[0].value = u
      BY <1>2 DEF Follows, Ok
    <2>2. \A i : i \notin 1..0
      OBVIOUS
    <2>3. u = [u EXCEPT !.set = u.set]
      BY DEF HasSet
    <2>4. OptionValue(u, options, 0, u)
      BY <2>2, <2>3 DEF OptionValue
    <2> QED BY <2>1, <2>2, <2>4 DEF OneService
  <1>4. ASSUME NEW n \in 1..L, P(n - 1)
        PROVE  P(n)
    <2> DEFINE o == options[n]
               v == f[n - 1].value
    <2>1. CASE ~f[n - 1].ok
      <3>1. OneService(options, n) => OneService(options, n - 1)
        BY <1>1, Prefix DEF OneService
      <3> QED BY <1>1, <1>2, <1>4, <2>1, <3>1, Earlier, Prefix
    <2>2. CASE f[n - 1].ok
      <3>1. f[n] = ApplyOption(v, o)
        BY <1>2, <2>2 DEF Follows, Turn
      <3>2. OptionValue(u, options, n - 1, v)
        BY <1>4, <2>2
      <3>3. /\ n - 1 \in 0..L /\ n \in 1..n
            /\ \A i \in 1..(n - 1) : i \in 1..n /\ i \in 1..L /\ i # n
            /\ \A i \in 1..n : i \in 1..L /\ (i # n => i \in 1..(n - 1))
        BY <1>1, Prefix
      <3> HIDE DEF o, v
      <3>4. f[n].ok <=> OptionAlone(v, o)
        BY <3>1, OptionTurn
      <3>5. ASSUME f[n].ok
            PROVE  OptionValue(u, options, n, f[n].value)
        <4> DEFINE t == f[n].value
        <4>1. t = IF Stores(o) THEN StoreValue(v, o) ELSE v
          BY <3>1, <3>5, OptionTurn
        <4>2. \A i \in 1..n : Key(options[i]) \in Utf8Keys =>
                Is("text", options[i]) /\ options[i].text # NULL
          BY <3>2, <3>3, <3>4, <3>5 DEF OptionValue, OptionAlone, o
        <4>3. CASE ~Stores(o)
          <5>1. t = v
            BY <4>1, <4>3
          <5>2. ASSUME NEW i \in 1..n, Stores(options[i]), LastStored(options, n, i)
                PROVE  v.set[StoredKey(options[i])] = StoredValue(options[i])
            <6>1. i \in 1..(n - 1) /\ LastStored(options, n - 1, i)
              BY <3>3, <4>3, <5>2 DEF LastStored, o
            <6> QED BY <3>2, <5>2, <6>1 DEF OptionValue
          <5>3. /\ HasSet(v) /\ v = [u EXCEPT !.set = v.set]
                /\ \A k : k \in DOMAIN v.set <=>
                            \/ k \in DOMAIN u.set
                            \/ \E i \in 1..n : Stores(options[i]) /\ StoredKey(options[i]) = k
                /\ \A k \in DOMAIN u.set :
                     (\A i \in 1..n : ~(Stores(options[i]) /\ StoredKey(options[i]) = k)) =>
                       v.set[k] = u.set[k]
            BY <3>2, <3>3, <4>3 DEF OptionValue, o
          <5> HIDE DEF t
          <5> QED BY <4>2, <5>1, <5>2, <5>3 DEF OptionValue, t
        <4>4. CASE Stores(o)
          <5>1. /\ HasSet(t) /\ t = [v EXCEPT !.set = t.set]
                /\ \A k : k \in DOMAIN t.set <=> k \in DOMAIN v.set \/ k = StoredKey(o)
                /\ t.set[StoredKey(o)] = StoredValue(o)
                /\ \A k \in DOMAIN v.set : k # StoredKey(o) => t.set[k] = v.set[k]
            BY <3>2, <4>1, <4>4, StoreFacts DEF OptionValue
          <5> HIDE DEF t
          <5>2. t = [u EXCEPT !.set = t.set]
            BY <3>2, <5>1 DEF OptionValue, HasSet
          <5>3. \A k : k \in DOMAIN t.set <=>
                         \/ k \in DOMAIN u.set
                         \/ \E i \in 1..n : Stores(options[i]) /\ StoredKey(options[i]) = k
            BY <3>2, <3>3, <4>4, <5>1 DEF OptionValue, o
          <5>4. ASSUME NEW i \in 1..n, Stores(options[i]), LastStored(options, n, i)
                PROVE  t.set[StoredKey(options[i])] = StoredValue(options[i])
            <6>1. CASE i = n
              BY <5>1, <6>1 DEF o
            <6>2. CASE i # n
              <7>1. /\ i \in 1..(n - 1) /\ StoredKey(o) # StoredKey(options[i])
                    /\ LastStored(options, n - 1, i)
                BY <3>3, <5>4, <6>2 DEF LastStored, o
              <7>2. /\ v.set[StoredKey(options[i])] = StoredValue(options[i])
                    /\ StoredKey(options[i]) \in DOMAIN v.set
                BY <3>2, <5>4, <7>1 DEF OptionValue
              <7> QED BY <5>1, <7>1, <7>2
            <6> QED BY <6>1, <6>2
          <5>5. \A k \in DOMAIN u.set :
                  (\A i \in 1..n : ~(Stores(options[i]) /\ StoredKey(options[i]) = k)) =>
                    t.set[k] = u.set[k]
            BY <3>2, <3>3, <4>4, <5>1 DEF OptionValue, o
          <5> QED BY <4>2, <5>1, <5>2, <5>3, <5>4, <5>5 DEF OptionValue, t
        <4> QED BY <4>3, <4>4
      <3>6. ASSUME OneForm(options)
            PROVE  f[n].ok <=> /\ OneService(options, n)
                               /\ \A i \in 1..n : OptionAlone(u, options[i])
        <4> DEFINE Service(i) == Key(options[i]) = "gssapiServiceName"
        <4>1. OneService(options, n - 1) /\ \A i \in 1..(n - 1) : OptionAlone(u, options[i])
          BY <1>4, <2>2, <3>6
        <4>2. Key(o) = "gssapiServiceName" =>
                (Properties \in DOMAIN v.set <=>
                   Properties \in DOMAIN u.set \/ \E i \in 1..(n - 1) : Service(i))
          <5> SUFFICES ASSUME Key(o) = "gssapiServiceName"
                       PROVE  (\E i \in 1..(n - 1) : Stores(options[i])
                                                     /\ StoredKey(options[i]) = Properties)
                              <=> \E i \in 1..(n - 1) : Service(i)
            BY <3>2 DEF OptionValue
          <5>1. \A i \in 1..(n - 1) : Key(options[i]) # Properties
            BY <3>3, <3>6 DEF OneForm, NotBoth, o
          <5>2. \A i \in 1..(n - 1) :
                  Service(i) <=> Stores(options[i]) /\ StoredKey(options[i]) = Properties
            BY <5>1 DEF StoredKey, Stores
          <5> HIDE DEF Service
          <5> QED BY <5>2
        <4>3. OneService(options, n) <=>
                (Key(o) = "gssapiServiceName" => ~\E i \in 1..(n - 1) : Service(i))
          BY <3>3, <4>1 DEF OneService, o
        <4> HIDE DEF Service
        <4>4. OptionAlone(v, o) <=> OptionAlone(u, o) /\ OneService(options, n)
          <5>1. CASE Key(o) = "gssapiServiceName"
            BY <4>2, <4>3, <5>1 DEF OptionAlone
          <5>2. CASE Key(o) # "gssapiServiceName"
            BY <4>3, <5>2 DEF OptionAlone
          <5> QED BY <5>1, <5>2
        <4> QED BY <3>3, <3>4, <4>1, <4>4 DEF o
      <3> QED BY <3>5, <3>6
    <2> QED BY <2>1, <2>2
  <1> HIDE DEF P
  <1>5. G = 0..L
    <2> 0 \in G /\ G \in SUBSET (0..L) /\ \A n \in 1..L : n - 1 \in G => n \in G
      BY <1>1, <1>3, <1>4
    <2> QED BY <1>1, PrefixInduction
  <1>6. P(L)
    BY <1>1, <1>5
  <1> QED BY <1>2, <1>6 DEF P

-------------------------------------------------------------------------------
(* What a call comes to, as a function of its arguments *)

Merged(c) == MergeContext(c.driver).value

OptionsOf(c) == AppliedOptions(c.uri, c.options)
AfterOptions(c) == OptionsOf(c).value
RcOf(c) == ForEach(ApplyRc, AfterOptions(c).rc, c.options)
AfterRc(c) == [AfterOptions(c) EXCEPT !.rc = RcOf(c).value]
RpOf(c) == AppliedRp(AfterRc(c).rp, c.options)
AfterRp(c) == [AfterRc(c) EXCEPT !.rp = RpOf(c).value]
WcOf(c) == AppliedWc(AfterRp(c).wc, c.options)
AfterWc(c) == [AfterRp(c) EXCEPT !.wc = WcOf(c).value]
DriverOf(c) == AppliedDriver(AfterWc(c), Merged(c))
UriOf(c) == DriverOf(c).value

\* The calls that make a client, and how it is configured.
Accepted(c) ==
    /\ MergeContext(c.driver).ok /\ Convertible(c.options) /\ c.uri # NULL
    /\ OptionsOf(c).ok /\ RcOf(c).ok /\ RpOf(c).ok /\ WcOf(c).ok /\ DriverOf(c).ok
    /\ TlsOk(UriOf(c)) /\ Configurable(Merged(c))
Made(c) == Effective(UriOf(c), SslOpt(UriOf(c), Merged(c)))

LEMMA CallFacts ==
    ASSUME NEW c, IsCall(c), c.uri # NULL
    PROVE  /\ IsList(c.options) /\ IsUri(c.uri)
           /\ HasSet(c.uri) /\ IsRp(c.uri.rp) /\ IsWc(c.uri.wc)
           /\ DOMAIN c.uri = {"srv", "hosts", "set", "rc", "rp", "wc"}
  <1>1. IsList(c.options) /\ IsUri(c.uri)
    BY DEF IsCall, IsList
  <1> DEFINE u == c.uri
  <1>2. /\ u = [srv |-> u.srv, hosts |-> u.hosts, set |-> [k \in DOMAIN u.set |-> u.set[k]],
                rc |-> u.rc,
                rp |-> [mode |-> u.rp.mode, tags |-> u.rp.tags, staleness |-> u.rp.staleness],
                wc |-> [w |-> u.wc.w, journal |-> u.wc.journal, wtimeout |-> u.wc.wtimeout]]
    BY <1>1 DEF IsUri
  <1> HIDE DEF u
  <1>3. /\ DOMAIN u = {"srv", "hosts", "set", "rc", "rp", "wc"}
        /\ u.set = [k \in DOMAIN u.set |-> u.set[k]]
        /\ u.rp = [mode |-> u.rp.mode, tags |-> u.rp.tags, staleness |-> u.rp.staleness]
        /\ u.wc = [w |-> u.wc.w, journal |-> u.wc.journal, wtimeout |-> u.wc.wtimeout]
    BY ONLY <1>2
  <1>4. u = [x \in DOMAIN u |-> u[x]]
    BY ONLY <1>2
  <1> QED BY <1>1, <1>3, <1>4 DEF HasSet, IsRp, IsWc, u

\* A key of the options, by its place.
LEMMA PositionFacts ==
    ASSUME NEW options, IsList(options), NEW key
    PROVE  /\ Position(options, key) # 0 =>
                /\ Position(options, key) \in 1..Len(options)
                /\ Key(options[Position(options, key)]) = key
           /\ LastOf(options, Len(options), Position(options, key)) \/ Position(options, key) = 0
           /\ \A i \in 1..Len(options) : Key(options[i]) = key =>
                /\ Position(options, key) # 0
                /\ LastOf(options, Len(options), i) => Position(options, key) = i
           /\ Position(options, key) = 0 => \A i \in 1..Len(options) : Key(options[i]) # key
  <1>1. Len(options) \in Nat /\ DOMAIN options = 1..Len(options)
    BY ListFacts
  <1>2. CASE \E i \in 1..Len(options) : Key(options[i]) = key
    <2>1. Position(options, key) =
            CHOOSE i \in 1..Len(options) : Key(options[i]) = key /\ IsLast(options, i)
      BY <1>1, <1>2 DEF Position
    <2>2. \E i \in 1..Len(options) : Key(options[i]) = key /\ IsLast(options, i)
      BY <1>1, <1>2, LastExists, LastIsLast
    <2> DEFINE p == Position(options, key)
    <2>3. p \in 1..Len(options) /\ Key(options[p]) = key /\ IsLast(options, p)
      BY <2>1, <2>2
    <2> HIDE DEF p
    <2>4. p # 0 /\ LastOf(options, Len(options), p)
      BY <1>1, <2>3, LastIsLast
    <2>5. \A i \in 1..Len(options) :
            Key(options[i]) = key /\ LastOf(options, Len(options), i) => p = i
      BY <1>1, <2>3, <2>4 DEF LastOf
    <2> QED BY <2>3, <2>4, <2>5 DEF p
  <1>3. CASE ~\E i \in 1..Len(options) : Key(options[i]) = key
    <2>1. Position(options, key) = 0
      BY <1>1, <1>3 DEF Position
    <2> QED BY <1>3, <2>1
  <1> QED BY <1>2, <1>3

\* php_phongo_uri_finalize_auth keeps a URI valid and sets nothing else.
LEMMA AuthFinalFacts ==
    ASSUME NEW a, HasSet(a), AuthOk(a)
    PROVE  LET v == AuthFinal(a)
           IN /\ HasSet(v) /\ v = [a EXCEPT !.set = v.set] /\ AuthOk(v)
              /\ Value(v, "authMechanism") = "GSSAPI" => Value(v, "authSource") = External
              /\ \A t : t # "authSource" => (t \in DOMAIN v.set <=> t \in DOMAIN a.set)
              /\ \A t \in DOMAIN a.set : t # "authSource" => v.set[t] = a.set[t]
  <1> DEFINE s == Put(a.set, "authSource", External)
             v == AuthFinal(a)
             fills == Value(a, "authMechanism") \in {"GSSAPI", "MONGODB-X509"}
  <1>1. CASE ~fills
    <2>1. v = a
      BY <1>1 DEF AuthFinal
    <2>2. a = [a EXCEPT !.set = a.set]
      BY DEF HasSet
    <2> QED BY <1>1, <2>1, <2>2
  <1>2. CASE fills
    <2>1. v = [a EXCEPT !.set = s]
      BY <1>2 DEF AuthFinal
    <2>2. /\ s = [k \in DOMAIN s |-> s[k]]
          /\ \A t : t \in DOMAIN s <=> t \in DOMAIN a.set \/ t = "authSource"
          /\ s["authSource"] = External
          /\ \A t \in DOMAIN a.set : t # "authSource" => s[t] = a.set[t]
      BY DEF Put
    <2> HIDE DEF s, v
    <2>3. v.set = s /\ DOMAIN v = DOMAIN a /\ v = [x \in DOMAIN v |-> v[x]] /\ HasSet(v)
      BY <2>1, <2>2 DEF HasSet
    <2>4. v = [a EXCEPT !.set = v.set]
      BY <2>1, <2>3
    <2>5. /\ Value(v, "authSource") = External
          /\ Value(v, "authMechanism") = Value(a, "authMechanism")
          /\ Value(v, "username") = Value(a, "username")
          /\ Value(v, "password") = Value(a, "password")
      BY <2>2, <2>3 DEF Value
    <2>6. AuthOk(v)
      <3>1. Value(a, "authMechanism") # NULL
        BY <1>2, NullAssumption, TextAssumption
      <3> HIDE DEF fills
      <3> QED BY <2>5, <3>1 DEF AuthOk
    <2> QED BY <2>2, <2>3, <2>4, <2>5, <2>6 DEF v
  <1> QED BY <1>1, <1>2

TlsNames == TlsKeys \cup {"tls"}

ByOption(c, t) ==
    LET o == c.options[Position(c.options, t)]
    IN IF Position(c.options, t) # 0 THEN (IF t \in BoolKeys THEN AsBool(o) ELSE o.text)
       ELSE Value(c.uri, t)

TlsTyped(t, x) == (t \in BoolKeys => x \in BOOLEAN) /\ (t \notin BoolKeys => x \in Text)

LEMMA OptionsFacts ==
    ASSUME NEW c, IsCall(c), c.uri # NULL, OptionsOf(c).ok
    PROVE  LET v == AfterOptions(c)
           IN /\ HasSet(v) /\ v = [c.uri EXCEPT !.set = v.set]
              /\ AuthOk(v) /\ DirectOk(v)
              /\ Value(v, "authMechanism") = "GSSAPI" /\ c.options # <<>> =>
                   Value(v, "authSource") = External
              /\ \A t \in TlsNames : /\ t \in DOMAIN v.set => TlsTyped(t, v.set[t])
                                     /\ Value(v, t) = ByOption(c, t)
  <1> DEFINE v == AfterOptions(c)
             L == Len(c.options)
  <1>1. /\ IsList(c.options) /\ IsUri(c.uri) /\ HasSet(c.uri)
        /\ L \in Nat /\ \A i \in 1..L : c.options[i] \in Option
    BY CallFacts, ListFacts
  <1>2. \A t \in TlsNames : /\ t \in BoolKeys \/ t \in Utf8Keys
                            /\ t \notin {Properties, "gssapiServiceName", "authSource"}
                            /\ t \in Int32Keys => FALSE
    BY DEF TlsNames, TlsKeys, Relaxations, BoolKeys, Utf8Keys, Properties, Int32Keys
  <1>3. \A t \in TlsNames : t \in DOMAIN c.uri.set => TlsTyped(t, c.uri.set[t])
    <2>1. \A k \in DOMAIN c.uri.set :
            /\ k \in BoolKeys => c.uri.set[k] \in BOOLEAN
            /\ k \in Utf8Keys => c.uri.set[k] \in Text
      BY <1>1, Zenon DEF IsUri
    <2> QED BY <1>2, <2>1 DEF TlsTyped
  <1>4. CASE c.options = <<>>
    <2>1. v = c.uri
      BY <1>4 DEF AfterOptions, OptionsOf, AppliedOptions, Ok
    <2>2. \A t : ByOption(c, t) = Value(c.uri, t)
      BY <1>4 DEF ByOption, Position
    <2>3. c.uri = [c.uri EXCEPT !.set = c.uri.set]
      BY <1>1 DEF HasSet
    <2> HIDE DEF v
    <2> QED BY <1>1, <1>3, <1>4, <2>1, <2>2, <2>3 DEF IsUri, v
  <1>5. CASE c.options # <<>>
    <2> DEFINE a == ForEach(ApplyOption, c.uri, c.options).value
    <2>1. /\ ForEach(ApplyOption, c.uri, c.options).ok /\ AuthOk(a) /\ DirectOk(AuthFinal(a))
          /\ v = AuthFinal(a)
      BY <1>5 DEF AfterOptions, OptionsOf, AppliedOptions, Ok, Refused
    <2>2. OptionValue(c.uri, c.options, L, a)
      BY <1>1, <2>1, OptionResult
    <2> HIDE DEF a, v
    <2>3. HasSet(a) /\ a = [c.uri EXCEPT !.set = a.set]
      BY <2>2 DEF OptionValue
    <2>4. /\ HasSet(v) /\ v = [a EXCEPT !.set = v.set] /\ AuthOk(v) /\ DirectOk(v)
          /\ Value(v, "authMechanism") = "GSSAPI" => Value(v, "authSource") = External
          /\ \A t : t # "authSource" => (t \in DOMAIN v.set <=> t \in DOMAIN a.set)
          /\ \A t \in DOMAIN a.set : t # "authSource" => v.set[t] = a.set[t]
      BY <2>1, <2>3, AuthFinalFacts
    <2>5. v = [c.uri EXCEPT !.set = v.set]
      BY <1>1, <2>3, <2>4 DEF HasSet
    <2>6. ASSUME NEW t \in TlsNames
          PROVE  /\ t \in DOMAIN a.set => TlsTyped(t, a.set[t])
                 /\ Value(a, t) = ByOption(c, t)
      <3>1. CASE Position(c.options, t) # 0
        <4> DEFINE p == Position(c.options, t)
                   o == c.options[p]
        <4>1. p \in 1..L /\ Key(o) = t /\ o \in Option
          BY <1>1, <3>1, PositionFacts
        <4>2. Stores(o) /\ StoredKey(o) = t /\ StoredValue(o) = IF t \in BoolKeys THEN AsBool(o)
                                                               ELSE o.text
          BY <1>2, <4>1 DEF Stores, StoredKey, StoredValue
        <4>3. LastStored(c.options, L, p)
          <5>1. LastOf(c.options, L, p)
            BY <1>1, <3>1, PositionFacts
          <5> QED BY <1>1, <1>2, <4>1, <4>2, <5>1 DEF LastStored, LastOf, StoredKey
        <4>4. t \in DOMAIN a.set /\ a.set[t] = StoredValue(o)
          BY <2>2, <4>1, <4>2, <4>3 DEF OptionValue
        <4>5. t \notin BoolKeys => o.text \in Text
          BY <1>2, <2>2, <4>1, OptionFacts DEF OptionValue
        <4>6. AsBool(o) \in BOOLEAN
          BY DEF AsBool
        <4> HIDE DEF p, o
        <4>7. ByOption(c, t) = IF t \in BoolKeys THEN AsBool(o) ELSE o.text
          BY <3>1 DEF ByOption, p, o
        <4> QED BY <4>2, <4>4, <4>5, <4>6, <4>7 DEF TlsTyped, Value
      <3>2. CASE Position(c.options, t) = 0
        <4>1. \A i \in 1..L : ~(Stores(c.options[i]) /\ StoredKey(c.options[i]) = t)
          BY <1>1, <1>2, <3>2, PositionFacts DEF StoredKey
        <4>2. /\ t \in DOMAIN a.set <=> t \in DOMAIN c.uri.set
              /\ t \in DOMAIN c.uri.set => a.set[t] = c.uri.set[t]
          BY <2>2, <4>1 DEF OptionValue
        <4>3. ByOption(c, t) = Value(c.uri, t)
          BY <3>2 DEF ByOption
        <4> QED BY <1>3, <4>2, <4>3 DEF Value
      <3> QED BY <3>1, <3>2
    <2>7. \A t \in TlsNames : /\ t \in DOMAIN v.set => TlsTyped(t, v.set[t])
                              /\ Value(v, t) = ByOption(c, t)
      BY <1>2, <2>4, <2>6 DEF Value
    <2> QED BY <2>4, <2>5, <2>7 DEF v
  <1> QED BY <1>4, <1>5

\* What the other steps change, and no more.
LEMMA StageFacts ==
    ASSUME NEW c, IsCall(c), Accepted(c)
    PROVE  LET u == UriOf(c)
               v == AfterOptions(c)
               set == [t \in MappedTls(Merged(c)) |-> Preferred(DriverTls[t], Merged(c))]
           IN /\ u = [srv |-> c.uri.srv, hosts |-> c.uri.hosts, set |-> Over(set, v.set),
                      rc |-> RcOf(c).value, rp |-> RpOf(c).value, wc |-> WcOf(c).value]
              /\ RcOf(c) = ForEach(ApplyRc, c.uri.rc, c.options)
              /\ RpOf(c) = AppliedRp(c.uri.rp, c.options)
              /\ WcOf(c) = AppliedWc(c.uri.wc, c.options)
              /\ ~\E t \in DOMAIN set : set[t] = NULL
  <1> DEFINE u == UriOf(c)
             v == AfterOptions(c)
             set == [t \in MappedTls(Merged(c)) |-> Preferred(DriverTls[t], Merged(c))]
             fields == {"srv", "hosts", "set", "rc", "rp", "wc"}
  <1>1. c.uri # NULL /\ OptionsOf(c).ok
    BY DEF Accepted
  <1>2. DOMAIN c.uri = fields /\ HasSet(v) /\ v = [c.uri EXCEPT !.set = v.set]
    BY <1>1, CallFacts, OptionsFacts
  <1> HIDE DEF v
  <1>3. /\ DOMAIN v = fields /\ v.srv = c.uri.srv /\ v.hosts = c.uri.hosts
        /\ v.rc = c.uri.rc /\ v.rp = c.uri.rp /\ v.wc = c.uri.wc
    BY <1>2
  <1> DEFINE v2 == AfterRc(c)
             v3 == AfterRp(c)
             v4 == AfterWc(c)
  <1>4. v2 = [v EXCEPT !.rc = RcOf(c).value]
    BY DEF AfterRc, v
  <1>5. v3 = [v2 EXCEPT !.rp = RpOf(c).value]
    BY DEF AfterRp
  <1>6. v4 = [v3 EXCEPT !.wc = WcOf(c).value]
    BY DEF AfterWc
  <1> HIDE DEF v2, v3, v4
  <1>7. /\ v2.rp = c.uri.rp /\ v3.wc = c.uri.wc
        /\ DOMAIN v4 = fields /\ v4.srv = c.uri.srv /\ v4.hosts = c.uri.hosts
        /\ v4.set = v.set /\ v4.rc = RcOf(c).value /\ v4.rp = RpOf(c).value
        /\ v4.wc = WcOf(c).value
    BY <1>3, <1>4, <1>5, <1>6
  <1>8. DriverOf(c) = IF \E t \in DOMAIN set : set[t] = NULL THEN Refused(v4)
                      ELSE Ok([v4 EXCEPT !.set = Over(set, @)])
    BY DEF DriverOf, AppliedDriver, v4
  <1> HIDE DEF set
  <1>9. /\ ~\E t \in DOMAIN set : set[t] = NULL
        /\ u = [v4 EXCEPT !.set = Over(set, v4.set)]
    BY <1>8 DEF Accepted, UriOf, Ok, Refused
  <1>10. u = [srv |-> c.uri.srv, hosts |-> c.uri.hosts, set |-> Over(set, v.set),
              rc |-> RcOf(c).value, rp |-> RpOf(c).value, wc |-> WcOf(c).value]
    <2>1. u = [v4 EXCEPT !.set = Over(set, v.set)]
      BY <1>7, <1>9
    <2> HIDE DEF u
    <2> QED BY <1>7, <2>1
  <1>11. /\ RcOf(c) = ForEach(ApplyRc, c.uri.rc, c.options)
         /\ RpOf(c) = AppliedRp(c.uri.rp, c.options)
         /\ WcOf(c) = AppliedWc(c.uri.wc, c.options)
    BY <1>3, <1>7 DEF RcOf, RpOf, WcOf, v, v2, v3
  <1> QED BY <1>9, <1>10, <1>11 DEF set, v

\* A client is configured consistently.
Consistent(c, made) ==
    LET u == made.uri
        given == c.uri
        options == c.options
        w == Position(options, "w")
        safe == Position(options, "safe")
        asked(o) == IF Is("int", o) THEN o.int ELSE W(o.text)
    IN /\ AuthOk(u) /\ DirectOk(u) /\ TlsOk(u) /\ RpOk(u.rp) /\ WcOk(u.wc)
       /\ Value(u, "authMechanism") = "GSSAPI" /\ options # <<>> =>
            Value(u, "authSource") = External
       /\ u.rc = LastAsks(options, "readConcernLevel", "text", given.rc)
       /\ u.rp.mode = LastAsks(options, "readPreference", "text", given.rp.mode)
       /\ u.rp.tags = LastAsks(options, "readPreferenceTags", "array", given.rp.tags)
       /\ u.rp.staleness =
            LastAsks(options, "maxStalenessSeconds", "int", given.rp.staleness)
       /\ u.wc.journal = LastAsks(options, "journal", "bool", given.wc.journal)
       /\ u.wc.wtimeout = LastAsks(options, "wtimeoutMS", "int", given.wc.wtimeout)
       /\ u.wc.w = IF w # 0 THEN asked(options[w]) ELSE
                   IF safe # 0 THEN (IF options[safe].bool THEN 1 ELSE 0)
                   ELSE given.wc.w

\* What each of the loops over the concerns comes to.
LEMMA ConcernsAsAsked ==
    ASSUME NEW c, IsCall(c), Accepted(c)
    PROVE  LET u == UriOf(c)
               given == c.uri
               options == c.options
           IN /\ u.rc = LastAsks(options, "readConcernLevel", "text", given.rc)
              /\ u.rp.mode = LastAsks(options, "readPreference", "text", given.rp.mode)
              /\ u.rp.tags = LastAsks(options, "readPreferenceTags", "array", given.rp.tags)
              /\ u.rp.staleness =
                   LastAsks(options, "maxStalenessSeconds", "int", given.rp.staleness)
              /\ u.wc.journal = LastAsks(options, "journal", "bool", given.wc.journal)
              /\ u.wc.wtimeout = LastAsks(options, "wtimeoutMS", "int", given.wc.wtimeout)
  <1> DEFINE options == c.options
             given == c.uri
             L == Len(options)
             rc == ForEach(ApplyRc, given.rc, options)
             rp == ForEach(ApplyRp, given.rp, options)
             wc == ForEach(ApplyWc, [wc |-> given.wc, ignore |-> FALSE], options)
  <1>1. /\ UriOf(c).rc = RcOf(c).value /\ UriOf(c).rp = RpOf(c).value
        /\ UriOf(c).wc = WcOf(c).value
        /\ RcOf(c) = rc /\ RpOf(c) = AppliedRp(given.rp, options)
        /\ WcOf(c) = AppliedWc(given.wc, options)
    <2> HIDE DEF rc
    <2>1. \E set : UriOf(c) =
            [srv |-> given.srv, hosts |-> given.hosts, set |-> set,
             rc |-> RcOf(c).value, rp |-> RpOf(c).value, wc |-> WcOf(c).value]
      BY StageFacts
    <2>2. /\ UriOf(c).rc = RcOf(c).value /\ UriOf(c).rp = RpOf(c).value
          /\ UriOf(c).wc = WcOf(c).value
      BY ONLY <2>1
    <2>3. /\ RcOf(c) = rc /\ RpOf(c) = AppliedRp(given.rp, options)
          /\ WcOf(c) = AppliedWc(given.wc, options)
      BY StageFacts DEF rc
    <2> QED BY ONLY <2>2, <2>3
  <1>2. /\ RcOf(c).ok /\ RpOf(c).ok /\ WcOf(c).ok /\ IsList(options)
        /\ IsRp(given.rp) /\ IsWc(given.wc)
    BY CallFacts DEF Accepted
  <1>3. /\ rc.ok /\ UriOf(c).rc = rc.value /\ rp.ok /\ UriOf(c).rp = rp.value
        /\ wc.ok /\ UriOf(c).wc = wc.value.wc
    BY <1>1, <1>2 DEF AppliedRp, AppliedWc, Ok, Refused
  <1>4. /\ RcValue(given.rc, options, L, rc.value)
        /\ RpValue(given.rp, options, L, rp.value)
        /\ WcValue(given.wc, options, L, wc.value)
    BY <1>2, <1>3, RcResult, RpResult, WcResult
  <1> HIDE DEF rc, rp, wc
  <1>5. ASSUME NEW key
        PROVE  LET p == Position(options, key)
               IN \/ p \in 1..L /\ Key(options[p]) = key /\ LastOf(options, L, p) /\ p # 0
                  \/ p = 0 /\ \A i \in 1..L : Key(options[i]) # key
    BY <1>2, PositionFacts
  <1> HIDE DEF options, L
  <1>6. rc.value = LastAsks(options, "readConcernLevel", "text", given.rc)
    BY <1>4, <1>5 DEF RcValue, LastAsks
  <1>7. rp.value.mode = LastAsks(options, "readPreference", "text", given.rp.mode)
    BY <1>4, <1>5 DEF RpValue, LastAsks
  <1>8. rp.value.tags = LastAsks(options, "readPreferenceTags", "array", given.rp.tags)
    BY <1>4, <1>5 DEF RpValue, LastAsks
  <1>9. rp.value.staleness = LastAsks(options, "maxStalenessSeconds", "int", given.rp.staleness)
    BY <1>4, <1>5 DEF RpValue, LastAsks
  <1>10. wc.value.wc.journal = LastAsks(options, "journal", "bool", given.wc.journal)
    BY <1>4, <1>5 DEF WcValue, LastAsks
  <1>11. wc.value.wc.wtimeout = LastAsks(options, "wtimeoutMS", "int", given.wc.wtimeout)
    BY <1>4, <1>5 DEF WcValue, LastAsks
  <1> QED BY <1>3, <1>6, <1>7, <1>8, <1>9, <1>10, <1>11 DEF options

LEMMA MadeConsistent ==
    ASSUME NEW c, IsCall(c), Accepted(c)
    PROVE  Consistent(c, Made(c))
  <1> DEFINE u == UriOf(c)
             v == AfterOptions(c)
             set == [t \in MappedTls(Merged(c)) |-> Preferred(DriverTls[t], Merged(c))]
  <1>1. /\ u = [srv |-> c.uri.srv, hosts |-> c.uri.hosts, set |-> Over(set, v.set),
                rc |-> RcOf(c).value, rp |-> RpOf(c).value, wc |-> WcOf(c).value]
        /\ RpOf(c) = AppliedRp(c.uri.rp, c.options)
        /\ WcOf(c) = AppliedWc(c.uri.wc, c.options)
    BY StageFacts
  <1>2. /\ c.uri # NULL /\ OptionsOf(c).ok /\ RpOf(c).ok /\ WcOf(c).ok /\ TlsOk(u)
        /\ Made(c).uri = u
    BY DEF Accepted, Made, Effective
  <1>3. /\ HasSet(v) /\ v = [c.uri EXCEPT !.set = v.set] /\ AuthOk(v) /\ DirectOk(v)
        /\ Value(v, "authMechanism") = "GSSAPI" /\ c.options # <<>> =>
             Value(v, "authSource") = External
        /\ DOMAIN c.uri = {"srv", "hosts", "set", "rc", "rp", "wc"}
        /\ IsList(c.options) /\ IsWc(c.uri.wc)
    BY <1>2, OptionsFacts, CallFacts
  <1>4. \A k \in {"authMechanism", "authSource", "username", "password", "directConnection"} :
          k \notin DOMAIN set
    BY DEF MappedTls, DriverTls
  <1> HIDE DEF u, v, set
  <1>5. u.set = Over(set, v.set) /\ u.srv = v.srv /\ u.hosts = v.hosts
    <2>1. v.srv = c.uri.srv /\ v.hosts = c.uri.hosts
      BY <1>3
    <2> QED BY <1>1, <2>1
  <1>6. \A k \in {"authMechanism", "authSource", "username", "password", "directConnection"} :
          Value(u, k) = Value(v, k)
    BY <1>4, <1>5 DEF Value, Over
  <1>7. AuthOk(u)
    BY <1>3, <1>6 DEF AuthOk
  <1>8. DirectOk(u)
    BY <1>3, <1>5, <1>6 DEF DirectOk
  <1>9. Value(u, "authMechanism") = "GSSAPI" /\ c.options # <<>> =>
          Value(u, "authSource") = External
    BY <1>3, <1>6
  <1>10. RpOk(u.rp)
    <2>1. u.rp = RpOf(c).value
      BY <1>1
    <2> QED BY <1>1, <1>2, <2>1 DEF AppliedRp, Refused
  <1>11. WcOk(u.wc) /\ u.wc.w = IF Position(c.options, "w") # 0
                                  THEN AskedW(c.options[Position(c.options, "w")]) ELSE
                                IF Position(c.options, "safe") # 0
                                  THEN SafeW(c.options[Position(c.options, "safe")])
                                  ELSE c.uri.wc.w
    <2> DEFINE r == ForEach(ApplyWc, [wc |-> c.uri.wc, ignore |-> FALSE], c.options)
               L == Len(c.options)
    <2>1. r.ok /\ WcOk(r.value.wc) /\ u.wc = r.value.wc
      <3>1. u.wc = WcOf(c).value
        BY <1>1
      <3> QED BY <1>1, <1>2, <3>1 DEF AppliedWc, Ok, Refused
    <2>2. WcValue(c.uri.wc, c.options, L, r.value)
      BY <1>3, <2>1, WcResult
    <2> HIDE DEF r
    <2>3. CASE Position(c.options, "w") # 0
      BY <1>3, <2>1, <2>2, <2>3, PositionFacts DEF WcValue
    <2>4. CASE Position(c.options, "w") = 0
      <3>1. ~\E i \in 1..L : Key(c.options[i]) = "w"
        BY <1>3, <2>4, PositionFacts
      <3>2. CASE Position(c.options, "safe") # 0
        BY <1>3, <2>1, <2>2, <2>4, <3>1, <3>2, PositionFacts DEF WcValue
      <3>3. CASE Position(c.options, "safe") = 0
        <4>1. \A i \in 1..L : Key(c.options[i]) \notin {"w", "safe"}
          BY <1>3, <3>1, <3>3, PositionFacts
        <4> QED BY <2>1, <2>2, <2>4, <3>3, <4>1 DEF WcValue
      <3> QED BY <3>2, <3>3
    <2> QED BY <2>3, <2>4
  <1>12. /\ u.rc = LastAsks(c.options, "readConcernLevel", "text", c.uri.rc)
         /\ u.rp.mode = LastAsks(c.options, "readPreference", "text", c.uri.rp.mode)
         /\ u.rp.tags = LastAsks(c.options, "readPreferenceTags", "array", c.uri.rp.tags)
         /\ u.rp.staleness =
              LastAsks(c.options, "maxStalenessSeconds", "int", c.uri.rp.staleness)
         /\ u.wc.journal = LastAsks(c.options, "journal", "bool", c.uri.wc.journal)
         /\ u.wc.wtimeout = LastAsks(c.options, "wtimeoutMS", "int", c.uri.wc.wtimeout)
    BY ConcernsAsAsked DEF u
  <1> QED BY <1>2, <1>7, <1>8, <1>9, <1>10, <1>11, <1>12 DEF Consistent, AskedW, SafeW, u

\* Driver options have the types of their keys, those of the context too.
DriverTyped(k, x) == (k \in DriverBools => x \in BOOLEAN) /\ (k \notin DriverBools => x \in Text \cup {NULL})

LEMMA DriverTypes ==
    ASSUME NEW options, AreDriverOptions(options), NEW k \in DOMAIN options, k # "context"
    PROVE  DriverTyped(k, options[k])
  <1>1. CASE k \in DriverBools
    BY <1>1, Zenon DEF AreDriverOptions, DriverTyped
  <1>2. CASE k \notin DriverBools
    BY <1>2, Zenon DEF AreDriverOptions, DriverTyped
  <1> QED BY <1>1, <1>2

LEMMA MergedTyped ==
    ASSUME NEW c, IsCall(c), MergeContext(c.driver).ok,
           NEW k \in DOMAIN Merged(c), k # "context"
    PROVE  DriverTyped(k, Merged(c)[k])
  <1> DEFINE d == c.driver
             x == d["context"]
             D == (DOMAIN d \cup DOMAIN x) \ {"context"}
  <1>1. /\ AreDriverOptions(d)
        /\ "context" \in DOMAIN d => x = NULL \/ AreDriverOptions(x)
    BY DEF IsCall
  <1>2. CASE "context" \notin DOMAIN d
    <2>1. Merged(c) = d
      BY <1>2 DEF Merged, MergeContext, Ok
    <2> QED BY <1>1, <2>1, DriverTypes
  <1>3. CASE "context" \in DOMAIN d
    <2>1. /\ x # NULL /\ AreDriverOptions(x)
          /\ Merged(c) = [j \in D |-> Over(d, x)[j]]
      BY <1>1, <1>3 DEF Merged, MergeContext, Ok, Refused
    <2>2. k \in D /\ Merged(c)[k] = IF k \in DOMAIN d THEN d[k] ELSE x[k]
      BY <2>1 DEF Over
    <2>3. k \in DOMAIN d \/ k \in DOMAIN x
      BY <2>2
    <2> HIDE DEF x, D, d
    <2>4. CASE k \in DOMAIN d
      BY <1>1, <2>2, <2>4, DriverTypes
    <2>5. CASE k \notin DOMAIN d
      BY <2>1, <2>2, <2>3, <2>5, DriverTypes
    <2> QED BY <2>4, <2>5
  <1> QED BY <1>2, <1>3

\* The option that is preferred is one of those that are given.
LEMMA PreferredIsGiven ==
    ASSUME NEW keys, DOMAIN keys \in SUBSET {1, 2}, NEW options, GivenBy(keys, options) # {}
    PROVE  \E i \in DOMAIN keys : /\ keys[i] \in DOMAIN options
                                  /\ Preferred(keys, options) = options[keys[i]]
  <1> DEFINE S == GivenBy(keys, options)
  <1>1. S \in SUBSET {1, 2} /\ S # {}
    BY DEF GivenBy
  <1>2. \E x \in S : \A y \in S : x =< y
    BY <1>1
  <1>3. Min(S) \in S
    BY <1>2 DEF Min
  <1> QED BY <1>3 DEF Preferred, GivenBy

LEMMA PreferredTyped ==
    ASSUME NEW c, IsCall(c), MergeContext(c.driver).ok, NEW t \in MappedTls(Merged(c)),
           Preferred(DriverTls[t], Merged(c)) # NULL
    PROVE  TlsTyped(t, Preferred(DriverTls[t], Merged(c)))
  <1>1. t \in DOMAIN DriverTls /\ GivenBy(DriverTls[t], Merged(c)) # {}
    BY DEF MappedTls
  <1>2. DOMAIN DriverTls[t] \in SUBSET {1, 2}
    BY <1>1 DEF DriverTls
  <1>3. PICK i \in DOMAIN DriverTls[t] :
          /\ DriverTls[t][i] \in DOMAIN Merged(c)
          /\ Preferred(DriverTls[t], Merged(c)) = Merged(c)[DriverTls[t][i]]
    BY <1>1, <1>2, PreferredIsGiven
  <1>4. /\ DriverTls[t][i] # "context"
        /\ DriverTls[t][i] \in DriverBools <=> t \in BoolKeys
    BY <1>1, <1>3 DEF DriverTls, DriverBools, BoolKeys
  <1>5. DriverTyped(DriverTls[t][i], Merged(c)[DriverTls[t][i]])
    BY <1>3, <1>4, MergedTyped
  <1> QED BY <1>3, <1>4, <1>5 DEF DriverTyped, TlsTyped

\* What the URI comes to hold of TLS is what was asked for.
LEMMA AskedIsHeld ==
    ASSUME NEW c, IsCall(c), Accepted(c)
    PROVE  LET u == UriOf(c)
           IN \A t \in TlsNames : /\ Value(u, t) = Asked(c, t)
                                  /\ t \in DOMAIN u.set => TlsTyped(t, u.set[t])
                                  /\ t \in DOMAIN u.set <=> Asked(c, t) # NULL
  <1> DEFINE u == UriOf(c)
             v == AfterOptions(c)
             set == [t \in MappedTls(Merged(c)) |-> Preferred(DriverTls[t], Merged(c))]
  <1>1. /\ u.set = Over(set, v.set)
        /\ ~\E t \in DOMAIN set : set[t] = NULL
    BY StageFacts
  <1>2. c.uri # NULL /\ OptionsOf(c).ok /\ MergeContext(c.driver).ok
    BY DEF Accepted
  <1>3. \A t \in TlsNames : /\ t \in DOMAIN v.set => TlsTyped(t, v.set[t])
                            /\ Value(v, t) = ByOption(c, t)
    BY <1>2, OptionsFacts
  <1>4. \A t \in MappedTls(Merged(c)) : TlsTyped(t, set[t])
    BY <1>1, <1>2, PreferredTyped
  <1>5. \A t \in TlsNames : Asked(c, t) = IF t \in DOMAIN set THEN set[t] ELSE ByOption(c, t)
    BY DEF Asked, ByOption, Merged
  <1>6. DOMAIN set = MappedTls(Merged(c))
    OBVIOUS
  <1> HIDE DEF u, v, set
  <1> SUFFICES ASSUME NEW t \in TlsNames
               PROVE  /\ Value(u, t) = Asked(c, t)
                      /\ t \in DOMAIN u.set => TlsTyped(t, u.set[t])
                      /\ t \in DOMAIN u.set <=> Asked(c, t) # NULL
    BY DEF u
  <1>7. /\ t \in DOMAIN u.set <=> t \in DOMAIN set \/ t \in DOMAIN v.set
        /\ t \in DOMAIN u.set => u.set[t] = IF t \in DOMAIN set THEN set[t] ELSE v.set[t]
    BY <1>1 DEF Over
  <1>8. t \in DOMAIN u.set => TlsTyped(t, u.set[t])
    BY <1>3, <1>4, <1>6, <1>7
  <1>9. Value(u, t) = Asked(c, t)
    BY <1>3, <1>5, <1>7 DEF Value
  <1>10. t \in DOMAIN u.set => u.set[t] # NULL
    BY <1>8, NullAssumption DEF TlsTyped
  <1> QED BY <1>8, <1>9, <1>10 DEF Value

\* The options that php_phongo_make_ssl_opt adds are strings.
LEMMA SslTyped ==
    ASSUME NEW c, IsCall(c), Accepted(c)
    PROVE  /\ SslFromUri(UriOf(c)) \in Ssl
           /\ SslOpt(UriOf(c), Merged(c)) # NULL =>
                LET opt == SslOpt(UriOf(c), Merged(c))
                    from == IF Tls(UriOf(c)) THEN SslFromUri(UriOf(c)) ELSE NoSsl
                IN /\ opt \in Ssl
                   /\ opt.pem = from.pem /\ opt.ca = from.ca
                   /\ opt.weak = from.weak /\ opt.anyhost = from.anyhost
  <1> DEFINE u == UriOf(c)
             m == Merged(c)
             dirs == <<"ca_dir", "capath">>
             from == IF Tls(u) THEN SslFromUri(u) ELSE NoSsl
             dir == IF GivenBy(dirs, m) = {} THEN NULL ELSE Preferred(dirs, m)
             crl == IF "crl_file" \in DOMAIN m THEN m["crl_file"] ELSE NULL
             opt == [from EXCEPT !.dir = dir, !.crl = crl]
  <1>1. \A t \in TlsNames : t \in DOMAIN u.set => TlsTyped(t, u.set[t])
    BY AskedIsHeld
  <1>2. SslFromUri(u) \in Ssl
    <2> DEFINE insecure == Value(u, "tlsInsecure") = TRUE
               flag(key) == IF key \in DOMAIN u.set THEN u.set[key] ELSE insecure
    <2>1. insecure \in BOOLEAN
      OBVIOUS
    <2>2. \A t \in Relaxations : flag(t) \in BOOLEAN
      BY <1>1, <2>1 DEF TlsTyped, Relaxations, TlsNames, TlsKeys, BoolKeys
    <2>3. \A t \in {"tlsCertificateKeyFile", "tlsCertificateKeyFilePassword", "tlsCAFile"} :
            Value(u, t) \in Text \cup {NULL}
      BY <1>1 DEF TlsTyped, TlsNames, TlsKeys, BoolKeys, Value
    <2>4. SslFromUri(u) = [pem |-> Value(u, "tlsCertificateKeyFile"),
             pwd |-> Value(u, "tlsCertificateKeyFilePassword"),
             ca |-> Value(u, "tlsCAFile"),
             weak |-> flag("tlsAllowInvalidCertificates"),
             anyhost |-> flag("tlsAllowInvalidHostnames"),
             dir |-> NULL, crl |-> NULL]
      BY DEF SslFromUri
    <2> HIDE DEF flag, insecure
    <2> QED BY <2>2, <2>3, <2>4 DEF Ssl, Relaxations
  <1>3. MergeContext(c.driver).ok
    BY DEF Accepted
  <1>4. dir \in Text \cup {NULL}
    <2>1. CASE GivenBy(dirs, m) # {}
      <3>1. DOMAIN dirs \in SUBSET {1, 2}
        OBVIOUS
      <3>2. PICK i \in DOMAIN dirs : dirs[i] \in DOMAIN m /\ Preferred(dirs, m) = m[dirs[i]]
        BY <2>1, <3>1, PreferredIsGiven
      <3>3. dirs[i] # "context" /\ dirs[i] \notin DriverBools
        BY <3>2 DEF DriverBools
      <3>4. DriverTyped(dirs[i], m[dirs[i]])
        BY <1>3, <3>2, <3>3, MergedTyped
      <3> QED BY <2>1, <3>2, <3>3, <3>4 DEF DriverTyped
    <2> QED BY <2>1
  <1>5. crl \in Text \cup {NULL}
    <2>1. CASE "crl_file" \in DOMAIN m
      <3>1. DriverTyped("crl_file", m["crl_file"])
        BY <1>3, <2>1, MergedTyped
      <3> QED BY <2>1, <3>1 DEF DriverTyped, DriverBools
    <2> QED BY <2>1
  <1>6. SslOpt(u, m) = IF DOMAIN m = {} \/ opt = NoSsl THEN NULL ELSE opt
    BY DEF SslOpt
  <1> HIDE DEF u, m, dir, crl
  <1>7. NoSsl \in Ssl
    BY DEF NoSsl, Ssl
  <1>8. from \in Ssl
    BY <1>2, <1>7
  <1> HIDE DEF from
  <1>9. /\ opt \in Ssl /\ opt.pem = from.pem /\ opt.ca = from.ca
        /\ opt.weak = from.weak /\ opt.anyhost = from.anyhost
    BY <1>4, <1>5, <1>8 DEF Ssl
  <1> HIDE DEF opt
  <1> QED BY <1>2, <1>6, <1>9 DEF u, m, from

\* TLS is used as it was asked for.
AsAsked(c, made) ==
    LET asked(t) == Asked(c, t)
        used == made.ssl
        off == asked("tls") = FALSE
        any == \E t \in TlsKeys : asked(t) # NULL
    IN /\ ~off /\ (any \/ asked("tls") = TRUE) =>
            /\ used # NULL
            /\ used.weak = ({asked("tlsAllowInvalidCertificates"),
                             asked("tlsInsecure")} \cap {TRUE} # {})
            /\ used.anyhost = ({asked("tlsAllowInvalidHostnames"),
                                asked("tlsInsecure")} \cap {TRUE} # {})
            /\ used.pem = asked("tlsCertificateKeyFile")
            /\ used.ca = asked("tlsCAFile")
       /\ used # NULL /\ (used.weak \/ used.anyhost) => ~off

\* A relaxation of TLS next to tlsInsecure, which excludes it.
LEMMA FlagAsAsked ==
    ASSUME NEW c, IsCall(c), Accepted(c),
           NEW t \in {"tlsAllowInvalidCertificates", "tlsAllowInvalidHostnames"}
    PROVE  (IF t \in DOMAIN UriOf(c).set THEN UriOf(c).set[t]
            ELSE Value(UriOf(c), "tlsInsecure") = TRUE)
             = ({Asked(c, t), Asked(c, "tlsInsecure")} \cap {TRUE} # {})
  <1> DEFINE u == UriOf(c)
  <1>1. t \in TlsNames /\ "tlsInsecure" \in TlsNames /\ t \in BoolKeys /\ t \in Relaxations
    BY DEF TlsNames, TlsKeys, Relaxations, BoolKeys
  <1>2. /\ Value(u, t) = Asked(c, t)
        /\ t \in DOMAIN u.set => u.set[t] \in BOOLEAN
        /\ t \in DOMAIN u.set <=> Asked(c, t) # NULL
        /\ Value(u, "tlsInsecure") = Asked(c, "tlsInsecure")
        /\ "tlsInsecure" \in DOMAIN u.set <=> Asked(c, "tlsInsecure") # NULL
    BY <1>1, AskedIsHeld DEF TlsTyped
  <1>3. "tlsInsecure" \in DOMAIN u.set => t \notin DOMAIN u.set
    BY <1>1 DEF Accepted, TlsOk
  <1>4. NULL # TRUE
    BY NullAssumption
  <1> HIDE DEF u
  <1>5. CASE t \in DOMAIN u.set
    <2>1. Asked(c, t) = u.set[t] /\ Asked(c, "tlsInsecure") = NULL
      BY <1>2, <1>3, <1>5 DEF Value
    <2>2. CASE u.set[t] = TRUE
      BY <1>4, <1>5, <2>1, <2>2 DEF u
    <2>3. CASE u.set[t] = FALSE
      BY <1>4, <1>5, <2>1, <2>3 DEF u
    <2> QED BY <1>2, <1>5, <2>2, <2>3
  <1>6. CASE t \notin DOMAIN u.set
    <2>1. Asked(c, t) = NULL
      BY <1>2, <1>6
    <2> QED BY <1>2, <1>4, <1>6, <2>1 DEF u
  <1> QED BY <1>5, <1>6

LEMMA MadeAsAsked ==
    ASSUME NEW c, IsCall(c), Accepted(c)
    PROVE  AsAsked(c, Made(c))
  <1> DEFINE u == UriOf(c)
             opt == SslOpt(u, Merged(c))
             used == Made(c).ssl
             off == Asked(c, "tls") = FALSE
             any == \E t \in TlsKeys : Asked(c, t) # NULL
             weak == {Asked(c, "tlsAllowInvalidCertificates"),
                      Asked(c, "tlsInsecure")} \cap {TRUE} # {}
             anyhost == {Asked(c, "tlsAllowInvalidHostnames"),
                         Asked(c, "tlsInsecure")} \cap {TRUE} # {}
  <1>1. \A t \in TlsNames : /\ Value(u, t) = Asked(c, t)
                            /\ t \in DOMAIN u.set => TlsTyped(t, u.set[t])
                            /\ t \in DOMAIN u.set <=> Asked(c, t) # NULL
    BY AskedIsHeld
  <1>2. used = IF opt # NULL THEN opt ELSE IF Tls(u) THEN SslFromUri(u) ELSE NULL
    BY DEF Made, Effective
  <1>3. SslFromUri(u) \in Ssl /\ NoSsl.weak = FALSE /\ NoSsl.anyhost = FALSE
    BY SslTyped DEF NoSsl
  <1>4. opt # NULL =>
          LET from == IF Tls(u) THEN SslFromUri(u) ELSE NoSsl
          IN /\ opt.pem = from.pem /\ opt.ca = from.ca
             /\ opt.weak = from.weak /\ opt.anyhost = from.anyhost
    BY SslTyped
  <1>5. /\ SslFromUri(u).pem = Asked(c, "tlsCertificateKeyFile")
        /\ SslFromUri(u).ca = Asked(c, "tlsCAFile")
    BY <1>1 DEF SslFromUri, TlsNames, TlsKeys
  <1>6. SslFromUri(u).weak = weak
    <2>1. SslFromUri(u).weak = IF "tlsAllowInvalidCertificates" \in DOMAIN u.set
                                 THEN u.set["tlsAllowInvalidCertificates"]
                                 ELSE Value(u, "tlsInsecure") = TRUE
      BY DEF SslFromUri
    <2> QED BY <2>1, FlagAsAsked
  <1>7. SslFromUri(u).anyhost = anyhost
    <2>1. SslFromUri(u).anyhost = IF "tlsAllowInvalidHostnames" \in DOMAIN u.set
                                    THEN u.set["tlsAllowInvalidHostnames"]
                                    ELSE Value(u, "tlsInsecure") = TRUE
      BY DEF SslFromUri
    <2> QED BY <2>1, FlagAsAsked
  <1>8. NULL # SslFromUri(u)
    BY <1>3, NullAssumption
  <1>9. Tls(u) = IF "tls" \in DOMAIN u.set THEN Asked(c, "tls") ELSE any
    <2>1. "tls" \in DOMAIN u.set => u.set["tls"] = Asked(c, "tls")
      BY <1>1 DEF TlsNames, Value
    <2>2. (DOMAIN u.set \cap TlsKeys # {}) = any
      BY <1>1 DEF TlsNames
    <2> QED BY <2>1, <2>2 DEF Tls
  <1>10. "tls" \in DOMAIN u.set => Asked(c, "tls") \in BOOLEAN
    BY <1>1 DEF TlsNames, TlsTyped, BoolKeys, Value
  <1>11. "tls" \notin DOMAIN u.set => Asked(c, "tls") = NULL
    BY <1>1 DEF TlsNames
  <1>12. NULL # TRUE /\ NULL # FALSE
    BY NullAssumption
  <1> HIDE DEF u, opt, used, off, any, weak, anyhost
  <1>13. ~off /\ (any \/ Asked(c, "tls") = TRUE) => Tls(u) = TRUE
    <2>1. any \in BOOLEAN
      BY DEF any
    <2>2. CASE "tls" \in DOMAIN u.set
      BY <1>9, <1>10, <2>2 DEF off
    <2>3. CASE "tls" \notin DOMAIN u.set
      BY <1>9, <1>11, <1>12, <2>1, <2>3 DEF off
    <2> QED BY <2>2, <2>3
  <1>14. off => Tls(u) = FALSE
    <2>1. CASE "tls" \in DOMAIN u.set
      BY <1>9, <2>1 DEF off
    <2>2. CASE "tls" \notin DOMAIN u.set
      BY <1>11, <1>12, <2>2 DEF off
    <2> QED BY <2>1, <2>2
  <1>15. Tls(u) = TRUE => /\ used # NULL /\ used.weak = weak /\ used.anyhost = anyhost
                          /\ used.pem = Asked(c, "tlsCertificateKeyFile")
                          /\ used.ca = Asked(c, "tlsCAFile")
    BY <1>2, <1>4, <1>5, <1>6, <1>7, <1>8
  <1>16. Tls(u) = FALSE /\ used # NULL => used.weak = FALSE /\ used.anyhost = FALSE
    BY <1>2, <1>3, <1>4
  <1>17. ~off /\ (any \/ Asked(c, "tls") = TRUE) =>
            /\ used # NULL /\ used.weak = weak /\ used.anyhost = anyhost
            /\ used.pem = Asked(c, "tlsCertificateKeyFile")
            /\ used.ca = Asked(c, "tlsCAFile")
    BY <1>13, <1>15
  <1>18. used # NULL /\ (used.weak \/ used.anyhost) => ~off
    BY <1>14, <1>16
  <1> QED BY <1>17, <1>18 DEF AsAsked, off, any, weak, anyhost, used

-------------------------------------------------------------------------------
(* The same options in another order *)

SameOptions(p, q) == IsList(p) /\ IsList(q) /\ ToSet(p) = ToSet(q) /\ SameLast(p, q)

LEMMA SameFacts ==
    ASSUME NEW p, NEW q, SameOptions(p, q)
    PROVE  /\ SameOptions(q, p)
           /\ \A i \in 1..Len(p) : \E j \in 1..Len(q) : q[j] = p[i]
           /\ \A j \in 1..Len(q) : \E i \in 1..Len(p) : q[j] = p[i]
           /\ p = <<>> <=> q = <<>>
  <1>1. /\ Len(p) \in Nat /\ DOMAIN p = 1..Len(p)
        /\ Len(q) \in Nat /\ DOMAIN q = 1..Len(q)
        /\ p \in Seq(Option) /\ q \in Seq(Option)
    BY ListFacts DEF SameOptions, IsList
  <1>2. /\ ToSet(p) = {p[i] : i \in 1..Len(p)}
        /\ ToSet(q) = {q[i] : i \in 1..Len(q)}
    BY <1>1 DEF ToSet
  <1>3. /\ \A i \in 1..Len(p) : \E j \in 1..Len(q) : q[j] = p[i]
        /\ \A j \in 1..Len(q) : \E i \in 1..Len(p) : q[j] = p[i]
    <2>1. ToSet(p) = ToSet(q)
      BY DEF SameOptions
    <2> QED BY <1>2, <2>1
  <1>4. p = <<>> <=> Len(p) = 0
    BY <1>1, EmptySeq
  <1>5. q = <<>> <=> Len(q) = 0
    BY <1>1, EmptySeq
  <1>6. Len(p) = 0 <=> Len(q) = 0
    BY <1>1, <1>3
  <1>7. SameLast(q, p)
    BY DEF SameOptions, SameLast
  <1> QED BY <1>3, <1>4, <1>5, <1>6, <1>7 DEF SameOptions

\* None of the orders that matter.
Unordered(options) ==
    /\ NotBoth(options, "readPreference", "maxStalenessSeconds")
    /\ OneForm(options) /\ SafesOk(options)

LEMMA OrderFacts ==
    ASSUME NEW options, IsList(options), ~OrderMatters(options)
    PROVE  Unordered(options)
  <1>1. Len(options) \in Nat /\ DOMAIN options = 1..Len(options)
    BY ListFacts
  <1>2. ASSUME NEW key1, NEW key2, key1 # key2,
               ~Before(options, key1, key2), ~Before(options, key2, key1)
        PROVE  NotBoth(options, key1, key2)
    <2> SUFFICES ASSUME NEW i \in 1..Len(options), NEW j \in 1..Len(options),
                        Key(options[i]) = key1, Key(options[j]) = key2
                 PROVE  FALSE
      BY DEF NotBoth
    <2> DEFINE a == Position(options, key1)
               b == Position(options, key2)
    <2>1. /\ a \in 1..Len(options) /\ Key(options[a]) = key1
          /\ b \in 1..Len(options) /\ Key(options[b]) = key2
      BY PositionFacts
    <2>2. ~(a # 0 /\ a < b) /\ ~(b # 0 /\ b < a)
      BY <1>2 DEF Before
    <2> HIDE DEF a, b
    <2> QED BY <1>1, <1>2, <2>1, <2>2
  <1>3. /\ ~Before(options, "maxStalenessSeconds", "readPreference")
        /\ ~Before(options, "readPreference", "maxStalenessSeconds")
        /\ ~Before(options, "authMechanismProperties", "gssapiServiceName")
        /\ ~Before(options, "gssapiServiceName", "authMechanismProperties")
        /\ SafesOk(options)
    BY <1>1 DEF OrderMatters, SafesOk
  <1>4. NotBoth(options, "readPreference", "maxStalenessSeconds")
    BY <1>2, <1>3
  <1>5. OneForm(options)
    BY <1>2, <1>3 DEF OneForm, Properties
  <1> QED BY <1>3, <1>4, <1>5 DEF Unordered

LEMMA UnorderedSame ==
    ASSUME NEW p, NEW q, SameOptions(p, q), Unordered(p)
    PROVE  Unordered(q)
  <1>1. \A j \in 1..Len(q) : \E i \in 1..Len(p) : q[j] = p[i]
    BY SameFacts
  <1>2. \A a, b : NotBoth(p, a, b) => NotBoth(q, a, b)
    BY <1>1 DEF NotBoth
  <1>3. SafesOk(q)
    BY <1>1 DEF SafesOk, Unordered
  <1> QED BY <1>2, <1>3 DEF Unordered, OneForm

\* A key is in both lists, the same option being the last of it, or in neither.
Both(p, q, key) ==
    \E i \in 1..Len(p), j \in 1..Len(q) :
      /\ Key(p[i]) = key /\ q[j] = p[i]
      /\ LastOf(p, Len(p), i) /\ LastOf(q, Len(q), j)
Neither(p, q, key) ==
    /\ \A i \in 1..Len(p) : Key(p[i]) # key
    /\ \A j \in 1..Len(q) : Key(q[j]) # key

LEMMA KeySame ==
    ASSUME NEW p, NEW q, SameOptions(p, q), NEW key
    PROVE  Both(p, q, key) \/ Neither(p, q, key)
  <1>1. /\ \A i \in 1..Len(p) : \E j \in 1..Len(q) : q[j] = p[i]
        /\ \A j \in 1..Len(q) : \E i \in 1..Len(p) : q[j] = p[i]
    BY SameFacts
  <1>2. /\ Len(p) \in Nat /\ DOMAIN p = 1..Len(p)
        /\ Len(q) \in Nat /\ DOMAIN q = 1..Len(q)
    BY ListFacts DEF SameOptions
  <1>3. ASSUME NEW a \in 1..Len(p), Key(p[a]) = key
        PROVE  Both(p, q, key)
    <2>1. PICK b \in 1..Len(q) : q[b] = p[a]
      BY <1>1
    <2>2. PICK i \in 1..Len(p) : Key(p[i]) = key /\ LastOf(p, Len(p), i)
      BY <1>2, <1>3, LastExists
    <2>3. PICK j \in 1..Len(q) : Key(q[j]) = key /\ LastOf(q, Len(q), j)
      BY <1>2, <1>3, <2>1, LastExists
    <2>4. IsLast(p, i) /\ IsLast(q, j)
      BY <2>2, <2>3, LastIsLast DEF SameOptions
    <2>5. q[j] = p[i]
      BY <1>2, <2>2, <2>3, <2>4 DEF SameOptions, SameLast
    <2> QED BY <2>2, <2>3, <2>5 DEF Both
  <1>4. (~\E i \in 1..Len(p) : Key(p[i]) = key) => Neither(p, q, key)
    BY <1>1 DEF Neither
  <1> QED BY <1>3, <1>4

LEMMA RcSame ==
    ASSUME NEW rc, NEW p, NEW q, SameOptions(p, q), ForEach(ApplyRc, rc, p).ok
    PROVE  /\ ForEach(ApplyRc, rc, q).ok
           /\ ForEach(ApplyRc, rc, q).value = ForEach(ApplyRc, rc, p).value
  <1> DEFINE r == ForEach(ApplyRc, rc, p)
             s == ForEach(ApplyRc, rc, q)
  <1>1. /\ \A i \in 1..Len(p) : \E j \in 1..Len(q) : q[j] = p[i]
        /\ \A j \in 1..Len(q) : \E i \in 1..Len(p) : q[j] = p[i]
    BY SameFacts
  <1>2. /\ \A i \in 1..Len(p) : RcAlone(p[i])
        /\ RcValue(rc, p, Len(p), r.value)
    BY RcResult DEF SameOptions
  <1>3. \A j \in 1..Len(q) : RcAlone(q[j])
    BY <1>1, <1>2
  <1>4. s.ok /\ RcValue(rc, q, Len(q), s.value)
    BY <1>3, RcResult DEF SameOptions
  <1> HIDE DEF r, s
  <1>5. s.value = r.value
    <2>1. CASE Both(p, q, "readConcernLevel")
      <3>1. PICK i \in 1..Len(p), j \in 1..Len(q) :
            /\ Key(p[i]) = "readConcernLevel" /\ q[j] = p[i]
            /\ LastOf(p, Len(p), i) /\ LastOf(q, Len(q), j)
        BY <2>1 DEF Both
      <3>2. Key(q[j]) = "readConcernLevel"
        BY <3>1
      <3> QED BY <1>2, <1>4, <3>1, <3>2 DEF RcValue
    <2>2. CASE Neither(p, q, "readConcernLevel")
      BY <1>2, <1>4, <2>2 DEF Neither, RcValue
    <2> QED BY <2>1, <2>2, KeySame
  <1> QED BY <1>4, <1>5 DEF r, s

LEMMA RpSame ==
    ASSUME NEW rp, IsRp(rp), NEW p, NEW q, SameOptions(p, q), Unordered(p),
           AppliedRp(rp, p).ok
    PROVE  AppliedRp(rp, q).ok /\ AppliedRp(rp, q).value = AppliedRp(rp, p).value
  <1> DEFINE r == ForEach(ApplyRp, rp, p)
             s == ForEach(ApplyRp, rp, q)
  <1>1. /\ \A i \in 1..Len(p) : \E j \in 1..Len(q) : q[j] = p[i]
        /\ \A j \in 1..Len(q) : \E i \in 1..Len(p) : q[j] = p[i]
        /\ Unordered(q)
    BY SameFacts, UnorderedSame
  <1>2. r.ok /\ RpOk(r.value) /\ AppliedRp(rp, p) = r
    BY DEF AppliedRp, Refused
  <1>3. /\ \A i \in 1..Len(p) : RpAlone(rp, p[i])
        /\ RpValue(rp, p, Len(p), r.value)
    BY <1>2, RpResult DEF SameOptions, Unordered
  <1>4. \A j \in 1..Len(q) : RpAlone(rp, q[j])
    BY <1>1, <1>3
  <1>5. s.ok /\ RpValue(rp, q, Len(q), s.value)
    BY <1>1, <1>4, RpResult DEF SameOptions, Unordered
  <1>6. AppliedRp(rp, q) = IF s.ok /\ RpOk(s.value) THEN s ELSE Refused(rp)
    BY DEF AppliedRp
  <1> HIDE DEF r, s
  <1>7. s.value = r.value
    <2>1. s.value.mode = r.value.mode
      <3>1. CASE Both(p, q, "readPreference")
        <4>1. PICK i \in 1..Len(p), j \in 1..Len(q) :
              /\ Key(p[i]) = "readPreference" /\ q[j] = p[i]
              /\ LastOf(p, Len(p), i) /\ LastOf(q, Len(q), j)
          BY <3>1 DEF Both
        <4>2. Key(q[j]) = "readPreference"
          BY <4>1
        <4> QED BY <1>3, <1>5, <4>1, <4>2 DEF RpValue
      <3>2. CASE Neither(p, q, "readPreference")
        BY <1>3, <1>5, <3>2 DEF Neither, RpValue
      <3> QED BY <3>1, <3>2, KeySame
    <2>2. s.value.tags = r.value.tags
      <3>1. CASE Both(p, q, "readPreferenceTags")
        <4>1. PICK i \in 1..Len(p), j \in 1..Len(q) :
              /\ Key(p[i]) = "readPreferenceTags" /\ q[j] = p[i]
              /\ LastOf(p, Len(p), i) /\ LastOf(q, Len(q), j)
          BY <3>1 DEF Both
        <4>2. Key(q[j]) = "readPreferenceTags"
          BY <4>1
        <4> QED BY <1>3, <1>5, <4>1, <4>2 DEF RpValue
      <3>2. CASE Neither(p, q, "readPreferenceTags")
        BY <1>3, <1>5, <3>2 DEF Neither, RpValue
      <3> QED BY <3>1, <3>2, KeySame
    <2>3. s.value.staleness = r.value.staleness
      <3>1. CASE Both(p, q, "maxStalenessSeconds")
        <4>1. PICK i \in 1..Len(p), j \in 1..Len(q) :
              /\ Key(p[i]) = "maxStalenessSeconds" /\ q[j] = p[i]
              /\ LastOf(p, Len(p), i) /\ LastOf(q, Len(q), j)
          BY <3>1 DEF Both
        <4>2. Key(q[j]) = "maxStalenessSeconds"
          BY <4>1
        <4> QED BY <1>3, <1>5, <4>1, <4>2 DEF RpValue
      <3>2. CASE Neither(p, q, "maxStalenessSeconds")
        BY <1>3, <1>5, <3>2 DEF Neither, RpValue
      <3> QED BY <3>1, <3>2, KeySame
    <2>4. IsRp(s.value) /\ IsRp(r.value)
      BY <1>3, <1>5 DEF RpValue
    <2> QED BY <2>1, <2>2, <2>3, <2>4 DEF IsRp
  <1> QED BY <1>2, <1>5, <1>6, <1>7

LEMMA WcSame ==
    ASSUME NEW wc, IsWc(wc), NEW p, NEW q, SameOptions(p, q), Unordered(p),
           AppliedWc(wc, p).ok
    PROVE  AppliedWc(wc, q).ok /\ AppliedWc(wc, q).value = AppliedWc(wc, p).value
  <1> DEFINE r == ForEach(ApplyWc, [wc |-> wc, ignore |-> FALSE], p)
             s == ForEach(ApplyWc, [wc |-> wc, ignore |-> FALSE], q)
  <1>1. /\ \A i \in 1..Len(p) : \E j \in 1..Len(q) : q[j] = p[i]
        /\ \A j \in 1..Len(q) : \E i \in 1..Len(p) : q[j] = p[i]
        /\ Unordered(q)
    BY SameFacts, UnorderedSame
  <1>2. r.ok /\ WcOk(r.value.wc) /\ AppliedWc(wc, p).value = r.value.wc
    BY DEF AppliedWc, Refused, Ok
  <1>3. /\ \A i \in 1..Len(p) : WcAlone(p[i])
        /\ WcValue(wc, p, Len(p), r.value)
    BY <1>2, WcResult DEF SameOptions, Unordered
  <1>4. \A j \in 1..Len(q) : WcAlone(q[j])
    BY <1>1, <1>3
  <1>5. s.ok /\ WcValue(wc, q, Len(q), s.value)
    BY <1>1, <1>4, WcResult DEF SameOptions, Unordered
  <1>6. AppliedWc(wc, q) = IF s.ok /\ WcOk(s.value.wc) THEN Ok(s.value.wc) ELSE Refused(wc)
    BY DEF AppliedWc
  <1> HIDE DEF r, s
  <1>7. s.value.wc = r.value.wc
    <2>1. s.value.wc.w = r.value.wc.w
      <3>1. CASE Both(p, q, "w")
        <4>1. PICK i \in 1..Len(p), j \in 1..Len(q) :
              /\ Key(p[i]) = "w" /\ q[j] = p[i]
              /\ LastOf(p, Len(p), i) /\ LastOf(q, Len(q), j)
          BY <3>1 DEF Both
        <4>2. Key(q[j]) = "w"
          BY <4>1
        <4> QED BY <1>3, <1>5, <4>1, <4>2 DEF WcValue
      <3>2. CASE Neither(p, q, "w")
        <4>1. /\ \A i \in 1..Len(p) : Key(p[i]) # "w"
              /\ \A j \in 1..Len(q) : Key(q[j]) # "w"
          BY <3>2 DEF Neither
        <4>2. ~r.value.ignore /\ ~s.value.ignore
          BY <1>3, <1>5, <4>1 DEF WcValue
        <4>3. CASE Both(p, q, "safe")
          <5>1. PICK i \in 1..Len(p), j \in 1..Len(q) :
                /\ Key(p[i]) = "safe" /\ q[j] = p[i]
                /\ LastOf(p, Len(p), i) /\ LastOf(q, Len(q), j)
            BY <4>3 DEF Both
          <5>2. Key(q[j]) = "safe"
            BY <5>1
          <5> QED BY <1>3, <1>5, <4>2, <5>1, <5>2 DEF WcValue
        <4>4. CASE Neither(p, q, "safe")
          <5>1. /\ \A i \in 1..Len(p) : Key(p[i]) \notin {"w", "safe"}
                /\ \A j \in 1..Len(q) : Key(q[j]) \notin {"w", "safe"}
            BY <4>1, <4>4 DEF Neither
          <5> QED BY <1>3, <1>5, <5>1 DEF WcValue
        <4> QED BY <4>3, <4>4, KeySame
      <3> QED BY <3>1, <3>2, KeySame
    <2>2. s.value.wc.journal = r.value.wc.journal
      <3>1. CASE Both(p, q, "journal")
        <4>1. PICK i \in 1..Len(p), j \in 1..Len(q) :
              /\ Key(p[i]) = "journal" /\ q[j] = p[i]
              /\ LastOf(p, Len(p), i) /\ LastOf(q, Len(q), j)
          BY <3>1 DEF Both
        <4>2. Key(q[j]) = "journal"
          BY <4>1
        <4> QED BY <1>3, <1>5, <4>1, <4>2 DEF WcValue
      <3>2. CASE Neither(p, q, "journal")
        BY <1>3, <1>5, <3>2 DEF Neither, WcValue
      <3> QED BY <3>1, <3>2, KeySame
    <2>3. s.value.wc.wtimeout = r.value.wc.wtimeout
      <3>1. CASE Both(p, q, "wtimeoutMS")
        <4>1. PICK i \in 1..Len(p), j \in 1..Len(q) :
              /\ Key(p[i]) = "wtimeoutMS" /\ q[j] = p[i]
              /\ LastOf(p, Len(p), i) /\ LastOf(q, Len(q), j)
          BY <3>1 DEF Both
        <4>2. Key(q[j]) = "wtimeoutMS"
          BY <4>1
        <4> QED BY <1>3, <1>5, <4>1, <4>2 DEF WcValue
      <3>2. CASE Neither(p, q, "wtimeoutMS")
        BY <1>3, <1>5, <3>2 DEF Neither, WcValue
      <3> QED BY <3>1, <3>2, KeySame
    <2>4. IsWc(s.value.wc) /\ IsWc(r.value.wc)
      BY <1>3, <1>5 DEF WcValue, IsWcAcc
    <2> QED BY <2>1, <2>2, <2>3, <2>4 DEF IsWc
  <1>8. AppliedWc(wc, q) = Ok(s.value.wc)
    BY <1>2, <1>5, <1>6, <1>7
  <1> QED BY <1>2, <1>7, <1>8 DEF Ok

\* Of options of one form, the last of its key is the last that stores it.
LEMMA StoredLast ==
    ASSUME NEW p, OneForm(p), NEW i \in 1..Len(p), LastOf(p, Len(p), i)
    PROVE  LastStored(p, Len(p), i)
  BY DEF LastOf, LastStored, StoredKey, OneForm, NotBoth, Properties

LEMMA OneServiceSame ==
    ASSUME NEW p, NEW q, SameOptions(p, q), OneService(p, Len(p))
    PROVE  OneService(q, Len(q))
  <1> SUFFICES ASSUME NEW i \in 1..Len(q), NEW j \in 1..Len(q),
                      Key(q[i]) = "gssapiServiceName", Key(q[j]) = Key(q[i])
               PROVE  i = j
    BY DEF OneService
  <1>1. PICK a \in 1..Len(p) : q[i] = p[a]
    BY SameFacts
  <1>2. PICK b \in 1..Len(p) : q[j] = p[b]
    BY SameFacts
  <1>3. a = b
    BY <1>1, <1>2 DEF OneService
  <1>4. q[i].key = q[j].key
    BY <1>1, <1>2, <1>3
  <1> QED BY <1>4, ListFacts DEF SameOptions

LEMMA SetSame ==
    ASSUME NEW u, HasSet(u), NEW p, NEW q, SameOptions(p, q), OneForm(p), OneForm(q),
           NEW v, OptionValue(u, p, Len(p), v), NEW w, OptionValue(u, q, Len(q), w)
    PROVE  w = v
  <1>1. /\ \A i \in 1..Len(p) : \E j \in 1..Len(q) : q[j] = p[i]
        /\ \A j \in 1..Len(q) : \E i \in 1..Len(p) : q[j] = p[i]
    BY SameFacts
  <1>2. /\ \A k : k \in DOMAIN v.set <=>
                    \/ k \in DOMAIN u.set
                    \/ \E i \in 1..Len(p) : Stores(p[i]) /\ StoredKey(p[i]) = k
        /\ \A k : k \in DOMAIN w.set <=>
                    \/ k \in DOMAIN u.set
                    \/ \E i \in 1..Len(q) : Stores(q[i]) /\ StoredKey(q[i]) = k
        /\ HasSet(v) /\ v = [u EXCEPT !.set = v.set]
        /\ HasSet(w) /\ w = [u EXCEPT !.set = w.set]
    BY DEF OptionValue
  <1>3. /\ \A i \in 1..Len(p) : Stores(p[i]) /\ LastOf(p, Len(p), i) =>
                                v.set[StoredKey(p[i])] = StoredValue(p[i])
        /\ \A i \in 1..Len(q) : Stores(q[i]) /\ LastOf(q, Len(q), i) =>
                                w.set[StoredKey(q[i])] = StoredValue(q[i])
    BY StoredLast DEF OptionValue
  <1>4. \A k : (\E i \in 1..Len(p) : Stores(p[i]) /\ StoredKey(p[i]) = k) <=>
               (\E j \in 1..Len(q) : Stores(q[j]) /\ StoredKey(q[j]) = k)
    BY ONLY <1>1
  <1>5. \A k : k \in DOMAIN v.set <=> k \in DOMAIN w.set
    BY ONLY <1>2, <1>4
  <1>6. ASSUME NEW k \in DOMAIN v.set
        PROVE  w.set[k] = v.set[k]
    <2>1. CASE \E i \in 1..Len(p) : Stores(p[i]) /\ StoredKey(p[i]) = k
      <3>1. PICK a \in 1..Len(p) : Stores(p[a]) /\ StoredKey(p[a]) = k
        BY <2>1
      <3>2. Both(p, q, Key(p[a]))
        BY KeySame DEF Neither
      <3>3. PICK i \in 1..Len(p), j \in 1..Len(q) :
              /\ Key(p[i]) = Key(p[a]) /\ q[j] = p[i]
              /\ LastOf(p, Len(p), i) /\ LastOf(q, Len(q), j)
        BY <3>2 DEF Both
      <3>4. Stores(p[i]) /\ StoredKey(p[i]) = k
        BY <3>1, <3>3 DEF Stores, StoredKey
      <3> QED BY <1>3, <3>3, <3>4
    <2>2. CASE ~\E i \in 1..Len(p) : Stores(p[i]) /\ StoredKey(p[i]) = k
      <3>1. /\ k \in DOMAIN u.set
            /\ \A i \in 1..Len(p) : ~(Stores(p[i]) /\ StoredKey(p[i]) = k)
            /\ \A j \in 1..Len(q) : ~(Stores(q[j]) /\ StoredKey(q[j]) = k)
        BY <1>2, <1>4, <1>6, <2>2
      <3>2. v.set[k] = u.set[k]
        BY <3>1 DEF OptionValue
      <3>3. w.set[k] = u.set[k]
        BY <3>1 DEF OptionValue
      <3> QED BY <3>2, <3>3
    <2> QED BY <2>1, <2>2
  <1>7. DOMAIN v.set = DOMAIN w.set
    BY <1>5
  <1>8. w.set = v.set
    BY <1>2, <1>6, <1>7 DEF HasSet
  <1> QED BY <1>2, <1>8

LEMMA OptionsSame ==
    ASSUME NEW u, HasSet(u), NEW p, NEW q, SameOptions(p, q), Unordered(p),
           AppliedOptions(u, p).ok
    PROVE  /\ AppliedOptions(u, q).ok
           /\ AppliedOptions(u, q).value = AppliedOptions(u, p).value
  <1> DEFINE r == ForEach(ApplyOption, u, p)
             s == ForEach(ApplyOption, u, q)
  <1>1. /\ \A j \in 1..Len(q) : \E i \in 1..Len(p) : q[j] = p[i]
        /\ Unordered(q) /\ (p = <<>> <=> q = <<>>)
    BY SameFacts, UnorderedSame
  <1>2. CASE p = <<>>
    BY <1>1, <1>2
  <1>3. CASE p # <<>>
    <2>1. /\ r.ok /\ AuthOk(r.value) /\ DirectOk(AuthFinal(r.value))
          /\ AppliedOptions(u, p).value = AuthFinal(r.value)
      BY <1>3 DEF AppliedOptions, Ok, Refused
    <2>2. /\ OneService(p, Len(p)) /\ \A i \in 1..Len(p) : OptionAlone(u, p[i])
          /\ OptionValue(u, p, Len(p), r.value)
      BY <2>1, OptionResult DEF SameOptions, Unordered
    <2>3. OneService(q, Len(q)) /\ \A j \in 1..Len(q) : OptionAlone(u, q[j])
      BY <1>1, <2>2, OneServiceSame
    <2>4. s.ok /\ OptionValue(u, q, Len(q), s.value)
      BY <1>1, <2>3, OptionResult DEF SameOptions, Unordered
    <2>5. q # <<>> /\ AppliedOptions(u, q) =
            IF s.ok /\ AuthOk(s.value) /\ DirectOk(AuthFinal(s.value))
              THEN Ok(AuthFinal(s.value)) ELSE Refused(u)
      BY <1>1, <1>3 DEF AppliedOptions
    <2> HIDE DEF r, s
    <2>6. s.value = r.value
      BY <1>1, <2>2, <2>4, SetSame DEF Unordered
    <2>7. AppliedOptions(u, q) = Ok(AuthFinal(r.value))
      BY <2>1, <2>4, <2>5, <2>6
    <2> QED BY <2>1, <2>7 DEF Ok
  <1> QED BY <1>2, <1>3

\* The same arguments, up to the order of the options.
Alike(c, d) == c.uri = d.uri /\ c.driver = d.driver /\ ToSet(c.options) = ToSet(d.options)

\* Such a call has the same outcome.
LEMMA MadeAlike ==
    ASSUME NEW c, IsCall(c), NEW d, IsCall(d), Alike(c, d),
           SameLast(c.options, d.options), Unordered(c.options), Accepted(c)
    PROVE  Accepted(d) /\ Made(d) = Made(c)
  <1>1. /\ c.uri # NULL /\ MergeContext(c.driver).ok /\ Convertible(c.options)
        /\ OptionsOf(c).ok /\ RcOf(c).ok /\ RpOf(c).ok /\ WcOf(c).ok /\ DriverOf(c).ok
        /\ TlsOk(UriOf(c)) /\ Configurable(Merged(c))
    BY DEF Accepted
  <1>2. /\ SameOptions(c.options, d.options) /\ d.uri = c.uri /\ d.driver = c.driver
        /\ HasSet(c.uri) /\ IsRp(c.uri.rp) /\ IsWc(c.uri.wc)
        /\ DOMAIN c.uri = {"srv", "hosts", "set", "rc", "rp", "wc"}
    BY <1>1, CallFacts DEF Alike, SameOptions
  <1>3. Merged(d) = Merged(c)
    BY <1>2 DEF Merged
  <1>4. Convertible(d.options)
    <2>1. /\ DOMAIN c.options = 1..Len(c.options) /\ DOMAIN d.options = 1..Len(d.options)
          /\ \A j \in 1..Len(d.options) : \E i \in 1..Len(c.options) : d.options[j] = c.options[i]
      BY <1>2, SameFacts, ListFacts DEF SameOptions
    <2> QED BY <1>1, <2>1 DEF Convertible
  <1>5. OptionsOf(d).ok /\ AfterOptions(d) = AfterOptions(c)
    BY <1>1, <1>2, OptionsSame DEF OptionsOf, AfterOptions
  <1>6. RcOf(d).ok /\ AfterRc(d) = AfterRc(c)
    <2>1. RcOf(d).ok /\ RcOf(d).value = RcOf(c).value
      BY <1>1, <1>2, <1>5, RcSame DEF RcOf
    <2> QED BY <1>5, <2>1 DEF AfterRc
  <1>7. /\ RpOf(c) = AppliedRp(c.uri.rp, c.options) /\ RpOf(d) = AppliedRp(AfterRc(c).rp, d.options)
        /\ WcOf(c) = AppliedWc(c.uri.wc, c.options)
    BY <1>6, StageFacts DEF RpOf
  <1>8. /\ AfterOptions(c) = [c.uri EXCEPT !.set = AfterOptions(c).set]
    BY <1>1, OptionsFacts
  <1>9. AfterRc(c).rp = c.uri.rp /\ AfterRp(c).wc = c.uri.wc
    <2> DEFINE v == AfterOptions(c)
               v2 == AfterRc(c)
    <2>1. v2 = [v EXCEPT !.rc = RcOf(c).value]
      BY DEF AfterRc
    <2>2. AfterRp(c) = [v2 EXCEPT !.rp = RpOf(c).value]
      BY DEF AfterRp
    <2> HIDE DEF v, v2
    <2>3. v = [c.uri EXCEPT !.set = v.set]
      BY <1>8 DEF v
    <2>4. v2.rp = c.uri.rp /\ AfterRp(c).wc = c.uri.wc
      BY <1>2, <2>1, <2>2, <2>3
    <2> QED BY <2>4 DEF v2
  <1>10. RpOf(d).ok /\ AfterRp(d) = AfterRp(c)
    <2>1. RpOf(d).ok /\ RpOf(d).value = RpOf(c).value
      BY <1>1, <1>2, <1>7, <1>9, RpSame
    <2> QED BY <1>6, <2>1 DEF AfterRp
  <1>11. WcOf(d).ok /\ AfterWc(d) = AfterWc(c)
    <2>1. WcOf(d) = AppliedWc(c.uri.wc, d.options)
      BY <1>9, <1>10 DEF WcOf
    <2>2. WcOf(d).ok /\ WcOf(d).value = WcOf(c).value
      BY <1>1, <1>2, <1>7, <2>1, WcSame
    <2> QED BY <1>10, <2>2 DEF AfterWc
  <1>12. DriverOf(d) = DriverOf(c) /\ UriOf(d) = UriOf(c)
    BY <1>3, <1>11 DEF DriverOf, UriOf
  <1>13. Accepted(d)
    BY <1>1, <1>2, <1>3, <1>4, <1>5, <1>6, <1>10, <1>11, <1>12 DEF Accepted
  <1>14. Made(d) = Made(c)
    BY <1>3, <1>12 DEF Made
  <1> QED BY <1>13, <1>14

\* The calls that may follow another have the same arguments.
LEMMA FollowingAlike ==
    ASSUME NEW c, IsCall(c), NEW l \in SetToSeqs(ToSet(c.options))
    PROVE  LET d == [c EXCEPT !.options = l]
           IN IsCall(d) /\ Alike(c, d)
  <1> DEFINE p == c.options
             S == ToSet(p)
             L == Len(p)
             n == Cardinality(S)
             d == [c EXCEPT !.options = l]
  <1>1. /\ p \in Seq(Option) /\ L \in Nat /\ DOMAIN p = 1..L /\ IsList(p)
        /\ \A i, j \in 1..L : p[i].key = p[j].key => i = j
        /\ \A i \in 1..L : p[i] \in Option
    BY ListFacts DEF IsCall, IsList
  <1>2. S = {p[i] : i \in 1..L} /\ S \in SUBSET Option
    BY <1>1 DEF ToSet
  <1>3. IsFiniteSet(1..L)
    BY <1>1, FS_Interval
  <1>4. p \in Surjection(1..L, S)
    <2>1. p \in [1..L -> S]
      <3>1. p = [i \in 1..L |-> p[i]]
        BY <1>1
      <3> HIDE DEF p
      <3> QED BY <1>2, <3>1
    <2> HIDE DEF p
    <2> QED BY <1>2, <2>1 DEF Surjection
  <1> HIDE DEF S
  <1>5. IsFiniteSet(S)
    BY <1>3, <1>4, FS_Surjection
  <1>6. n \in Nat
    BY <1>5, FS_CardinalityType
  <1>7. IsFiniteSet(1..n) /\ Cardinality(1..n) = n
    BY <1>6, FS_Interval
  <1>8. l \in [1..n -> S] /\ \A i, j \in 1..n : i # j => l[i] # l[j]
    BY DEF SetToSeqs, S
  <1> HIDE DEF n
  <1>9. l \in Injection(1..n, S)
    BY <1>8 DEF Injection, IsInjective
  <1>10. l \in Surjection(1..n, S)
    BY <1>5, <1>7, <1>9, FS_Injection DEF n
  <1>11. ToSet(l) = S
    BY <1>8, <1>10 DEF Surjection, ToSet
  <1>12. l \in Seq(Option) /\ DOMAIN l = 1..n
    BY <1>2, <1>6, <1>8 DEF S
  <1>13. Distinct(l)
    <2> SUFFICES ASSUME NEW i \in 1..n, NEW j \in 1..n, l[i].key = l[j].key
                 PROVE  i = j
      BY <1>12 DEF Distinct
    <2>1. PICK a \in 1..L : l[i] = p[a]
      BY <1>2, <1>8
    <2>2. PICK b \in 1..L : l[j] = p[b]
      BY <1>2, <1>8
    <2>3. a = b
      BY <1>1, <2>1, <2>2
    <2> QED BY <1>8, <2>1, <2>2, <2>3
  <1>14. /\ c = [uri |-> c.uri, options |-> c.options, driver |-> c.driver]
         /\ c.uri = NULL \/ IsUri(c.uri)
         /\ AreDriverOptions(c.driver)
         /\ "context" \in DOMAIN c.driver =>
              c.driver["context"] = NULL \/ AreDriverOptions(c.driver["context"])
    BY DEF IsCall
  <1>15. d.uri = c.uri /\ d.driver = c.driver /\ d.options = l
         /\ d = [uri |-> d.uri, options |-> d.options, driver |-> d.driver]
    BY ONLY <1>14
  <1>16. Alike(c, d)
    BY <1>11, <1>15 DEF Alike, S
  <1> HIDE DEF d
  <1>17. IsCall(d)
    BY <1>12, <1>13, <1>14, <1>15 DEF IsCall
  <1> QED BY <1>16, <1>17 DEF d

-------------------------------------------------------------------------------
(* The invariant *)

\* A call that runs is one of those that may follow the first.
Running ==
    phase # "none" =>
      /\ IsCall(call)
      /\ results # <<>> => Alike(results[1].call, call)

\* What a call has come to at each step is what its arguments come to.
FromDriver == {"ssl", "tls", "client", "configure"}
FromWc == {"driver"} \cup FromDriver
FromRp == {"wc"} \cup FromWc
FromRc == {"rp"} \cup FromRp
FromOptions == {"rc"} \cup FromRc
FromFind == {"options"} \cup FromOptions

Progress ==
    /\ phase = "throw" => ~MergeContext(call.driver).ok
    /\ phase \in {"find"} \cup FromFind =>
         MergeContext(call.driver).ok /\ driver = Merged(call)
    /\ phase \in FromFind => Convertible(call.options) /\ call.uri # NULL
    /\ phase \in FromOptions => OptionsOf(call).ok
    /\ phase \in FromRc => RcOf(call).ok
    /\ phase \in FromRp => RpOf(call).ok
    /\ phase \in FromWc => WcOf(call).ok
    /\ phase \in FromDriver => DriverOf(call).ok /\ uri = UriOf(call)
    /\ phase \in {"client", "configure"} => TlsOk(uri)
    /\ phase \in {"tls", "client", "configure"} => ssl = SslOpt(uri, driver)
    /\ phase = "configure" => config = Made(call) /\ exception = ~HandshakeOk(driver)
    /\ phase = "options" => uri = call.uri
    /\ phase = "rc" => uri = AfterOptions(call)
    /\ phase = "rp" => uri = AfterRc(call)
    /\ phase = "wc" => uri = AfterRp(call)
    /\ phase = "driver" => uri = AfterWc(call)

\* So is what it has come to in the end.  A client may be found although its
\* handshake was refused.
Result(r) ==
    /\ IsCall(r.call)
    /\ \/ r.outcome = "manager" /\ Accepted(r.call) /\ r.config = Made(r.call)
       \/ /\ r.outcome = "exception" /\ r.config = NULL
          /\ Accepted(r.call) => ~HandshakeOk(Merged(r.call))

Ended ==
    /\ \E S : results \in Seq(S)
    /\ \A i \in 1..Len(results) :
         Result(results[i]) /\ Alike(results[1].call, results[i].call)

\* A persistent client is what a new one would be.
Registered == \A c \in DOMAIN pclients : Accepted(c) /\ pclients[c] = Made(c)

IInv == Running /\ Progress /\ Ended /\ Registered

LEMMA Ends ==
    ASSUME IInv, phase # "none", NEW outcome, NEW made, Return(outcome, made), Registered',
           Result([call |-> call, outcome |-> outcome, config |-> made])
    PROVE  IInv'
  <1> DEFINE r == [call |-> call, outcome |-> outcome, config |-> made]
  <1>1. results' = Append(results, r) /\ phase' = "none"
    BY DEF Return
  <1>2. Running' /\ Progress'
    BY <1>1 DEF Running, Progress, FromFind, FromOptions, FromRc, FromRp, FromWc, FromDriver
  <1>3. PICK S : results \in Seq(S)
    BY DEF IInv, Ended
  <1> DEFINE T == S \cup {r}
  <1>4. results \in Seq(T) /\ r \in T
    BY <1>3
  <1> HIDE DEF r, T
  <1>5. /\ results' \in Seq(T) /\ Len(results) \in Nat /\ Len(results') = Len(results) + 1
        /\ \A i \in 1..Len(results) : results'[i] = results[i]
        /\ results'[Len(results) + 1] = r
    BY <1>1, <1>4
  <1>6. /\ IsCall(call) /\ r.call = call
        /\ results # <<>> => Alike(results[1].call, call)
        /\ Result(r)
    BY DEF IInv, Running, r
  <1>7. /\ \A i \in 1..Len(results) : Result(results[i]) /\ Alike(results[1].call, results[i].call)
    BY DEF IInv, Ended
  <1>8. results = <<>> <=> Len(results) = 0
    BY <1>4, EmptySeq
  <1>9. ASSUME NEW i \in 1..Len(results')
        PROVE  Result(results'[i]) /\ Alike(results'[1].call, results'[i].call)
    <2>1. CASE results = <<>>
      <3>1. i = 1 /\ results'[1] = r
        BY <1>5, <1>8, <2>1
      <3> QED BY <1>6, <3>1 DEF Alike
    <2>2. CASE results # <<>>
      <3>1. 1 \in 1..Len(results) /\ results'[1] = results[1]
        BY <1>5, <1>8, <2>2
      <3>2. CASE i \in 1..Len(results)
        BY <1>5, <1>7, <3>1, <3>2
      <3>3. CASE i = Len(results) + 1
        BY <1>5, <1>6, <2>2, <3>1, <3>3
      <3> QED BY <1>5, <3>2, <3>3
    <2> QED BY <2>1, <2>2
  <1>10. Ended'
    BY <1>5, <1>9 DEF Ended, Result
  <1> QED BY <1>2, <1>10 DEF IInv

\* A call is refused that would make no client.
LEMMA Refuses ==
    ASSUME IInv, phase # "none", ~Accepted(call), Throw
    PROVE  IInv'
  <1>1. Return("exception", NULL) /\ pclients' = pclients
    BY DEF Throw
  <1>2. Registered'
    BY <1>1 DEF IInv, Registered
  <1>3. Result([call |-> call, outcome |-> "exception", config |-> NULL])
    BY DEF Result, IInv, Running
  <1> QED BY <1>1, <1>2, <1>3, Ends

\* The steps of a call that goes on change neither results nor registry.
LEMMA GoesOn ==
    ASSUME IInv, phase # "none", call' = call, results' = results, pclients' = pclients, Progress'
    PROVE  IInv'
  <1>1. Running'
    BY DEF IInv, Running
  <1>2. Ended' /\ Registered'
    BY DEF IInv, Ended, Registered
  <1> QED BY <1>1, <1>2 DEF IInv

LEMMA ConstructStep ==
    ASSUME IInv, NEW c \in Following, Construct(c)
    PROVE  IInv'
  <1>1. /\ call' = c /\ results' = results /\ pclients' = pclients
        /\ \/ MergeContext(c.driver).ok /\ driver' = Merged(c) /\ phase' = "find"
           \/ ~MergeContext(c.driver).ok /\ phase' = "throw"
    BY DEF Construct, Merged
  <1>2. IsCall(c) /\ (results # <<>> => Alike(results[1].call, c))
    <2>1. CASE results = <<>>
      BY <2>1, CallsAssumption DEF Following
    <2>2. CASE results # <<>>
      <3> DEFINE b == results[1].call
      <3>1. PICK S : results \in Seq(S)
        BY DEF IInv, Ended
      <3>2. 1 \in 1..Len(results)
        BY <2>2, <3>1, EmptySeq, LenProperties
      <3>3. IsCall(b)
        BY <3>2 DEF IInv, Ended, Result
      <3>4. PICK l \in SetToSeqs(ToSet(b.options)) : c = [b EXCEPT !.options = l]
        BY <2>2 DEF Following
      <3> QED BY <3>3, <3>4, FollowingAlike
    <2> QED BY <2>1, <2>2
  <1>3. Running'
    BY <1>1, <1>2 DEF Running
  <1>4. Progress'
    BY <1>1 DEF Progress, FromFind, FromOptions, FromRc, FromRp, FromWc, FromDriver
  <1>5. Ended' /\ Registered'
    BY <1>1 DEF IInv, Ended, Registered
  <1> QED BY <1>3, <1>4, <1>5 DEF IInv

LEMMA ThrownStep ==
    ASSUME IInv, Thrown
    PROVE  IInv'
  <1>1. phase = "throw" /\ Throw
    BY DEF Thrown
  <1>2. ~Accepted(call)
    BY <1>1 DEF IInv, Progress, Accepted
  <1> QED BY <1>1, <1>2, Refuses

LEMMA FindClientStep ==
    ASSUME IInv, FindClient
    PROVE  IInv'
  <1>1. phase = "find"
    BY DEF FindClient
  <1>2. MergeContext(call.driver).ok /\ driver = Merged(call) /\ IsCall(call)
    BY <1>1 DEF IInv, Progress, Running
  <1>3. CASE Persistent(driver) /\ call \in DOMAIN pclients
    <2>1. Return("manager", pclients[call]) /\ pclients' = pclients
      BY <1>3 DEF FindClient
    <2>2. Registered'
      BY <2>1 DEF IInv, Registered
    <2>3. Result([call |-> call, outcome |-> "manager", config |-> pclients[call]])
      BY <1>2, <1>3 DEF Result, IInv, Registered
    <2> QED BY <1>1, <2>1, <2>2, <2>3, Ends
  <1>4. CASE /\ ~(Persistent(driver) /\ call \in DOMAIN pclients)
             /\ ~Convertible(call.options) \/ call.uri = NULL
    <2>1. Throw
      BY <1>4 DEF FindClient
    <2>2. ~Accepted(call)
      BY <1>4 DEF Accepted
    <2> QED BY <1>1, <2>1, <2>2, Refuses
  <1>5. CASE /\ ~(Persistent(driver) /\ call \in DOMAIN pclients)
             /\ Convertible(call.options) /\ call.uri # NULL
    <2>1. /\ phase' = "options" /\ uri' = call.uri
          /\ UNCHANGED <<call, driver, ssl, config, pclients, exception, results>>
      BY <1>5 DEF FindClient
    <2>2. Progress'
      BY <1>2, <1>5, <2>1
         DEF Progress, FromFind, FromOptions, FromRc, FromRp, FromWc, FromDriver
    <2> QED BY <1>1, <2>1, <2>2, GoesOn
  <1> QED BY <1>3, <1>4, <1>5

LEMMA ApplyOptionsStep ==
    ASSUME IInv, ApplyOptions
    PROVE  IInv'
  <1> DEFINE applied == AppliedOptions(uri, call.options)
  <1>1. phase = "options" /\ Goes(applied, "uri", "rc")
    BY DEF ApplyOptions
  <1>2. uri = call.uri /\ applied = OptionsOf(call)
    BY <1>1 DEF IInv, Progress, FromFind, OptionsOf
  <1> HIDE DEF applied
  <1>3. CASE ~applied.ok
    <2>1. Throw
      BY <1>1, <1>3 DEF Goes
    <2>2. ~Accepted(call)
      BY <1>2, <1>3 DEF Accepted
    <2> QED BY <1>1, <2>1, <2>2, Refuses
  <1>4. CASE applied.ok
    <2>1. /\ uri' = applied.value /\ phase' = "rc"
          /\ UNCHANGED <<call, driver, ssl, config, pclients, exception, results>>
      BY <1>1, <1>4 DEF Goes
    <2>2. uri' = AfterOptions(call)
      BY <1>2, <2>1 DEF AfterOptions
    <2>3. Progress'
      BY <1>1, <1>2, <1>4, <2>1, <2>2
         DEF IInv, Progress, FromFind, FromOptions, FromRc, FromRp, FromWc, FromDriver
    <2> QED BY <1>1, <2>1, <2>3, GoesOn
  <1> QED BY <1>3, <1>4

LEMMA ApplyReadConcernStep ==
    ASSUME IInv, ApplyReadConcern
    PROVE  IInv'
  <1> DEFINE applied == ForEach(ApplyRc, uri.rc, call.options)
  <1>1. phase = "rc" /\ Goes(applied, "rc", "rp")
    BY DEF ApplyReadConcern
  <1>2. uri = AfterOptions(call) /\ applied = RcOf(call)
    BY <1>1 DEF IInv, Progress, FromOptions, RcOf
  <1> HIDE DEF applied
  <1>3. CASE ~applied.ok
    <2>1. Throw
      BY <1>1, <1>3 DEF Goes
    <2>2. ~Accepted(call)
      BY <1>2, <1>3 DEF Accepted
    <2> QED BY <1>1, <2>1, <2>2, Refuses
  <1>4. CASE applied.ok
    <2>1. /\ uri' = [uri EXCEPT !.rc = applied.value] /\ phase' = "rp"
          /\ UNCHANGED <<call, driver, ssl, config, pclients, exception, results>>
      BY <1>1, <1>4 DEF Goes
    <2>2. uri' = AfterRc(call)
      BY <1>2, <2>1 DEF AfterRc
    <2>3. Progress'
      BY <1>1, <1>2, <1>4, <2>1, <2>2
         DEF IInv, Progress, FromFind, FromOptions, FromRc, FromRp, FromWc, FromDriver
    <2> QED BY <1>1, <2>1, <2>3, GoesOn
  <1> QED BY <1>3, <1>4

LEMMA ApplyReadPreferenceStep ==
    ASSUME IInv, ApplyReadPreference
    PROVE  IInv'
  <1> DEFINE applied == AppliedRp(uri.rp, call.options)
  <1>1. phase = "rp" /\ Goes(applied, "rp", "wc")
    BY DEF ApplyReadPreference
  <1>2. uri = AfterRc(call) /\ applied = RpOf(call)
    BY <1>1 DEF IInv, Progress, FromRc, RpOf
  <1> HIDE DEF applied
  <1>3. CASE ~applied.ok
    <2>1. Throw
      BY <1>1, <1>3 DEF Goes
    <2>2. ~Accepted(call)
      BY <1>2, <1>3 DEF Accepted
    <2> QED BY <1>1, <2>1, <2>2, Refuses
  <1>4. CASE applied.ok
    <2>1. /\ uri' = [uri EXCEPT !.rp = applied.value] /\ phase' = "wc"
          /\ UNCHANGED <<call, driver, ssl, config, pclients, exception, results>>
      BY <1>1, <1>4 DEF Goes
    <2>2. uri' = AfterRp(call)
      BY <1>2, <2>1 DEF AfterRp
    <2>3. Progress'
      BY <1>1, <1>2, <1>4, <2>1, <2>2
         DEF IInv, Progress, FromFind, FromOptions, FromRc, FromRp, FromWc, FromDriver
    <2> QED BY <1>1, <2>1, <2>3, GoesOn
  <1> QED BY <1>3, <1>4

LEMMA ApplyWriteConcernStep ==
    ASSUME IInv, ApplyWriteConcern
    PROVE  IInv'
  <1> DEFINE applied == AppliedWc(uri.wc, call.options)
  <1>1. phase = "wc" /\ Goes(applied, "wc", "driver")
    BY DEF ApplyWriteConcern
  <1>2. uri = AfterRp(call) /\ applied = WcOf(call)
    BY <1>1 DEF IInv, Progress, FromRp, WcOf
  <1> HIDE DEF applied
  <1>3. CASE ~applied.ok
    <2>1. Throw
      BY <1>1, <1>3 DEF Goes
    <2>2. ~Accepted(call)
      BY <1>2, <1>3 DEF Accepted
    <2> QED BY <1>1, <2>1, <2>2, Refuses
  <1>4. CASE applied.ok
    <2>1. /\ uri' = [uri EXCEPT !.wc = applied.value] /\ phase' = "driver"
          /\ UNCHANGED <<call, driver, ssl, config, pclients, exception, results>>
      BY <1>1, <1>4 DEF Goes
    <2>2. uri' = AfterWc(call)
      BY <1>2, <2>1 DEF AfterWc
    <2>3. Progress'
      BY <1>1, <1>2, <1>4, <2>1, <2>2
         DEF IInv, Progress, FromFind, FromOptions, FromRc, FromRp, FromWc, FromDriver
    <2> QED BY <1>1, <2>1, <2>3, GoesOn
  <1> QED BY <1>3, <1>4

LEMMA ApplyDriverOptionsStep ==
    ASSUME IInv, ApplyDriverOptions
    PROVE  IInv'
  <1> DEFINE applied == AppliedDriver(uri, driver)
  <1>1. phase = "driver" /\ Goes(applied, "uri", "ssl")
    BY DEF ApplyDriverOptions
  <1>2. uri = AfterWc(call) /\ applied = DriverOf(call)
    BY <1>1 DEF IInv, Progress, FromWc, DriverOf, FromRp, FromRc, FromOptions, FromFind
  <1> HIDE DEF applied
  <1>3. CASE ~applied.ok
    <2>1. Throw
      BY <1>1, <1>3 DEF Goes
    <2>2. ~Accepted(call)
      BY <1>2, <1>3 DEF Accepted
    <2> QED BY <1>1, <2>1, <2>2, Refuses
  <1>4. CASE applied.ok
    <2>1. /\ uri' = applied.value /\ phase' = "ssl"
          /\ UNCHANGED <<call, driver, ssl, config, pclients, exception, results>>
      BY <1>1, <1>4 DEF Goes
    <2>2. uri' = UriOf(call)
      BY <1>2, <2>1 DEF UriOf
    <2>3. Progress'
      BY <1>1, <1>2, <1>4, <2>1, <2>2
         DEF IInv, Progress, FromFind, FromOptions, FromRc, FromRp, FromWc, FromDriver
    <2> QED BY <1>1, <2>1, <2>3, GoesOn
  <1> QED BY <1>3, <1>4

LEMMA MakeSslOptStep ==
    ASSUME IInv, MakeSslOpt
    PROVE  IInv'
  <1>1. /\ phase = "ssl" /\ phase' = "tls" /\ ssl' = SslOpt(uri, driver)
        /\ UNCHANGED <<call, uri, driver, config, pclients, exception, results>>
    BY DEF MakeSslOpt
  <1>2. Progress'
    BY <1>1 DEF IInv, Progress, FromFind, FromOptions, FromRc, FromRp, FromWc, FromDriver
  <1> QED BY <1>1, <1>2, GoesOn

LEMMA FinalizeTlsStep ==
    ASSUME IInv, FinalizeTls
    PROVE  IInv'
  <1>1. phase = "tls" /\ uri = UriOf(call)
    BY DEF FinalizeTls, IInv, Progress, FromDriver
  <1>2. CASE ~TlsOk(uri)
    <2>1. Throw
      BY <1>2 DEF FinalizeTls
    <2>2. ~Accepted(call)
      BY <1>1, <1>2 DEF Accepted
    <2> QED BY <1>1, <2>1, <2>2, Refuses
  <1>3. CASE TlsOk(uri)
    <2>1. /\ phase' = "client"
          /\ UNCHANGED <<call, uri, driver, ssl, config, pclients, exception, results>>
      BY <1>3 DEF FinalizeTls
    <2>2. Progress'
      BY <1>1, <1>3, <2>1
         DEF IInv, Progress, FromFind, FromOptions, FromRc, FromRp, FromWc, FromDriver
    <2> QED BY <1>1, <2>1, <2>2, GoesOn
  <1> QED BY <1>2, <1>3

LEMMA MakeClientStep ==
    ASSUME IInv, MakeClient
    PROVE  IInv'
  <1>1. /\ phase = "client" /\ phase' = "configure"
        /\ config' = Effective(uri, ssl) /\ exception' = ~HandshakeOk(driver)
        /\ UNCHANGED <<call, uri, driver, ssl, pclients, results>>
    BY DEF MakeClient
  <1>2. uri = UriOf(call) /\ driver = Merged(call) /\ ssl = SslOpt(uri, driver)
    BY <1>1 DEF IInv, Progress, FromFind, FromOptions, FromRc, FromRp, FromWc, FromDriver
  <1>3. config' = Made(call)
    BY <1>1, <1>2 DEF Made
  <1>4. Progress'
    BY <1>1, <1>3 DEF IInv, Progress, FromFind, FromOptions, FromRc, FromRp, FromWc, FromDriver
  <1> QED BY <1>1, <1>4, GoesOn

LEMMA ConfigureStep ==
    ASSUME IInv, Configure
    PROVE  IInv'
  <1>1. phase = "configure"
    BY DEF Configure
  <1>2. /\ driver = Merged(call) /\ config = Made(call) /\ exception = ~HandshakeOk(driver)
        /\ IsCall(call)
    BY <1>1 DEF IInv, Running, Progress, FromFind, FromOptions, FromRc, FromRp, FromWc, FromDriver
  <1>3. CASE ~Configurable(driver)
    <2>1. Throw
      BY <1>3 DEF Configure
    <2>2. ~Accepted(call)
      BY <1>2, <1>3 DEF Accepted
    <2> QED BY <1>1, <2>1, <2>2, Refuses
  <1>4. CASE Configurable(driver)
    <2>1. Accepted(call)
      BY <1>1, <1>2, <1>4 DEF IInv, Progress, Accepted,
         FromFind, FromOptions, FromRc, FromRp, FromWc, FromDriver
    <2>2. pclients' = IF Persistent(driver) THEN Put(pclients, call, config) ELSE pclients
      BY <1>4 DEF Configure
    <2>3. Registered'
      <3>1. ASSUME NEW c \in DOMAIN pclients'
            PROVE  Accepted(c) /\ pclients'[c] = Made(c)
        BY <1>2, <2>1, <2>2 DEF IInv, Registered, Put
      <3> QED BY <3>1 DEF Registered
    <2>4. CASE exception
      <3>1. Return("exception", NULL)
        BY <1>4, <2>4 DEF Configure
      <3>2. Result([call |-> call, outcome |-> "exception", config |-> NULL])
        BY <1>2, <2>4 DEF Result
      <3> QED BY <1>1, <2>3, <3>1, <3>2, Ends
    <2>5. CASE ~exception
      <3>1. Return("manager", config)
        BY <1>4, <2>5 DEF Configure
      <3>2. Result([call |-> call, outcome |-> "manager", config |-> config])
        BY <1>2, <2>1 DEF Result
      <3> QED BY <1>1, <2>3, <3>1, <3>2, Ends
    <2> QED BY <2>4, <2>5
  <1> QED BY <1>3, <1>4

LEMMA Initially ==
    Init => IInv
  <1> SUFFICES ASSUME Init
               PROVE  IInv
    OBVIOUS
  <1>1. /\ phase = "none" /\ results = <<>> /\ pclients = <<>>
    BY DEF Init
  <1>2. Ended
    <2>1. results \in Seq({}) /\ Len(results) = 0
      BY <1>1
    <2> QED BY <2>1 DEF Ended
  <1>3. Running /\ Progress
    BY <1>1 DEF Running, Progress, FromFind, FromOptions, FromRc, FromRp, FromWc, FromDriver
  <1>4. Registered
    BY <1>1 DEF Registered
  <1> QED BY <1>2, <1>3, <1>4 DEF IInv

LEMMA Steps ==
    IInv /\ [Next]_vars => IInv'
  <1> SUFFICES ASSUME IInv, [Next]_vars
               PROVE  IInv'
    OBVIOUS
  <1>1. CASE UNCHANGED vars
    BY <1>1 DEF vars, IInv, Running, Progress, Ended, Registered
  <1>2. CASE call = NULL /\ Len(results) < MaxCalls /\ \E c \in Following : Construct(c)
    BY <1>2, ConstructStep
  <1>3. CASE Thrown \/ FindClient \/ ApplyOptions \/ ApplyReadConcern
    BY <1>3, ThrownStep, FindClientStep, ApplyOptionsStep, ApplyReadConcernStep
  <1>4. CASE ApplyReadPreference \/ ApplyWriteConcern \/ ApplyDriverOptions
    BY <1>4, ApplyReadPreferenceStep, ApplyWriteConcernStep, ApplyDriverOptionsStep
  <1>5. CASE MakeSslOpt \/ FinalizeTls \/ MakeClient \/ Configure
    BY <1>5, MakeSslOptStep, FinalizeTlsStep, MakeClientStep, ConfigureStep
  <1> QED BY <1>1, <1>2, <1>3, <1>4, <1>5 DEF Next

\* At every step of every call, what it has come to is what its arguments come
\* to, whatever calls came before it (phongo_manager_init).
THEOREM OutcomeOfArguments == Spec => []IInv
  BY Initially, Steps, PTL DEF Spec

\* The configuration of every client is consistent, whichever of the connection
\* string, the options and the driver options its parts come from, and the
\* acknowledgement of writes is what was asked for (php_phongo_apply_*_to_uri
\* and php_phongo_uri_finalize_*).
THEOREM ClientsAreConsistent == Spec => []ClientConsistent
  <1>1. IInv => ClientConsistent
    <2> SUFFICES ASSUME IInv, NEW i \in DOMAIN results, results[i].outcome = "manager"
                 PROVE  Consistent(results[i].call, results[i].config)
      BY DEF ClientConsistent, Consistent
    <2>1. i \in 1..Len(results)
      BY LenProperties DEF IInv, Ended
    <2>2. /\ IsCall(results[i].call) /\ Accepted(results[i].call)
          /\ results[i].config = Made(results[i].call)
      BY <2>1 DEF IInv, Ended, Result
    <2> QED BY <2>2, MadeConsistent
  <1> QED BY <1>1, OutcomeOfArguments, PTL

\* A check of the server's certificate is left out only if it was asked for, and
\* TLS that was asked for is used, with the certificates it names
\* (php_phongo_apply_driver_options_to_uri, php_phongo_make_ssl_opt).
THEOREM TlsIsAsAsked == Spec => []TlsAsAsked
  <1>1. IInv => TlsAsAsked
    <2> SUFFICES ASSUME IInv, NEW i \in DOMAIN results, results[i].outcome = "manager"
                 PROVE  AsAsked(results[i].call, results[i].config)
      BY DEF TlsAsAsked, AsAsked
    <2>1. i \in 1..Len(results)
      BY LenProperties DEF IInv, Ended
    <2>2. /\ IsCall(results[i].call) /\ Accepted(results[i].call)
          /\ results[i].config = Made(results[i].call)
      BY <2>1 DEF IInv, Ended, Result
    <2> QED BY <2>2, MadeAsAsked
  <1> QED BY <1>1, OutcomeOfArguments, PTL

\* Constructing a Manager again, with the same arguments or with its options in
\* another order, has the same outcome, whether a client is found in the registry
\* or made, for any options, in any spellings, but the three pairs whose order
\* counts, as long as the same spelling of each option comes last
\* (phongo_manager_init, php_phongo_apply_*_to_uri).
THEOREM OutcomeIsTheSame == Spec => []SameOutcome
  <1>1. IInv => SameOutcome
    <2> SUFFICES ASSUME IInv, NEW i \in DOMAIN results, NEW j \in DOMAIN results,
                        \/ results[i].call = results[j].call
                        \/ /\ ~OrderMatters(results[i].call.options)
                           /\ SameLast(results[i].call.options, results[j].call.options),
                        HandshakeOk(MergeContext(results[i].call.driver).value)
                 PROVE  /\ results[i].outcome = results[j].outcome
                        /\ results[i].config = results[j].config
      BY DEF SameOutcome
    <2> DEFINE c == results[i].call
               d == results[j].call
    <2>1. i \in 1..Len(results) /\ j \in 1..Len(results)
      BY LenProperties DEF IInv, Ended
    <2>2. /\ Result(results[i]) /\ Result(results[j])
          /\ Alike(results[1].call, c) /\ Alike(results[1].call, d)
      BY <2>1 DEF IInv, Ended
    <2>3. IsCall(c) /\ IsCall(d) /\ Alike(c, d) /\ Alike(d, c)
      BY <2>2 DEF Result, Alike
    <2>4. HandshakeOk(Merged(c)) /\ HandshakeOk(Merged(d))
      BY <2>3 DEF Merged, Alike
    <2>5. (Accepted(c) <=> Accepted(d)) /\ (Accepted(c) => Made(c) = Made(d))
      <3>1. CASE c = d
        BY <3>1
      <3>2. CASE ~OrderMatters(c.options) /\ SameLast(c.options, d.options)
        <4>1. IsList(c.options) /\ IsList(d.options) /\ SameOptions(c.options, d.options)
          BY <2>3, <3>2 DEF IsCall, IsList, SameOptions, Alike
        <4>2. Unordered(c.options) /\ Unordered(d.options)
          BY <3>2, <4>1, OrderFacts, UnorderedSame
        <4>3. SameLast(d.options, c.options)
          BY <3>2 DEF SameLast
        <4> QED BY <2>3, <3>2, <4>2, <4>3, MadeAlike
      <3> QED BY <3>1, <3>2
    <2> QED BY <2>2, <2>4, <2>5 DEF Result
  <1> QED BY <1>1, OutcomeOfArguments, PTL

================================================================================
