-------------------------- MODULE Transactions_proofs --------------------------
(***************************************************************************)
(* Proofs about Transactions: the operations of a transaction go to one    *)
(* mongos, it is committed with the options it was asked to have, and a    *)
(* unit of work that is run again as the error labels say has its effects  *)
(* once, for any number of servers, units, transactions and retries.       *)
(***************************************************************************)
EXTENDS Transactions, FiniteSetTheorems, SequenceTheorems, TLAPS

-------------------------------------------------------------------------------
(* The inductive invariant *)

Phase == {"session", "begin", "work", "commit", "recover", "again", "done", "failed",
          "unknown"}

\* Options that may have been asked for; those in force have the client's too.
Defaults == {o.defaults : o \in SessionOptions}
Asked == {Over(o, d) : o \in StartOptions, d \in Defaults}
InForce == {Over(a, ClientOpts) : a \in Asked}

Sess == [state : {"none", "starting", "in_progress", "committed", "aborted"}, txn : Nat,
         server : Server \cup {NULL}, opts : {<<>>} \cup InForce, defaults : Defaults,
         snapshot : BOOLEAN]

Txn == [state : {"none", "open", "committed", "aborted"}, ops : Nat, sent : SUBSET Server,
        unit : Nat, size : Nat, asked : Asked, committed : {NULL, <<>>} \cup InForce]

App == [phase : Phase, unit : Nat, size : Nat, done : Nat, commits : Nat,
        ambiguous : BOOLEAN, again : BOOLEAN]

TypeOK ==
    /\ Live => client_session \in Sess
    /\ txns \in Seq(Txn)
    /\ app \in App
    /\ advancing \in BOOLEAN /\ crashed \in BOOLEAN

last == Len(txns)

\* The session's transaction is the last one.  What the application is doing
\* and the session's state agree.
Agrees ==
    /\ app.phase = "session" => ~Live /\ last = 0
    /\ app.phase \in {"work", "commit"} => last > 0
    /\ Live => /\ client_session.txn = last
               /\ client_session.state = "none" <=> last = 0
               /\ app.phase = "work" => client_session.state \in {"starting", "in_progress"}
               /\ app.phase = "commit" => client_session.state # "aborted"

\* A session that is in the middle of its work is pinned, and has been since the
\* first operation was sent.
Pinned ==
    /\ \A i \in 1..last : \A s, t \in txns[i].sent : s = t
    /\ Live => /\ client_session.server # NULL =>
                    last > 0 /\ client_session.server \in txns[last].sent
               /\ client_session.state = "starting" =>
                    txns[last].sent = {} /\ client_session.server = NULL
               /\ app.phase = "work" /\ client_session.state = "in_progress" =>
                    client_session.server # NULL

AllValid(options) == \A k \in DOMAIN options : ValidOption(k, options[k])

\* Whatever has been asked for is valid, and is what the session keeps.
OptionsKept ==
    /\ \A i \in 1..last :
         LET asked == Over(txns[i].asked, ClientOpts)
         IN /\ AllValid(asked) /\ asked.writeConcern # "unacknowledged"
            /\ txns[i].committed # NULL => txns[i].committed = asked
    /\ Live => /\ AllValid(client_session.defaults)
               /\ last > 0 => client_session.opts = Over(txns[last].asked, ClientOpts)

\* A unit of work that is not in its commit, or past it, has no effects, and
\* one that is has them by its last transaction, which is whole.
Units ==
    /\ \A i \in 1..last :
         /\ txns[i].unit <= app.unit
         /\ txns[i].state = "committed" => txns[i].ops = txns[i].size
         /\ txns[i].unit = app.unit =>
              /\ txns[i].size = app.size
              /\ txns[i].state = "committed" =>
                   i = last /\ app.phase \in {"commit", "done", "unknown"}
    /\ \A i, j \in 1..last :
         txns[i].unit = txns[j].unit /\ txns[i].state = "committed"
           /\ txns[j].state = "committed" => i = j
    /\ \A u \in 1..(app.unit - 1) : \E i \in 1..last :
         txns[i].unit = u /\ (txns[i].size > 0 => txns[i].state = "committed")

\* What is known of the last transaction while it is worked on or committed.
LastOne ==
    /\ app.phase \in {"session", "begin"} => app.done = 0
    /\ app.phase \in {"work", "commit", "done"} => last > 0 /\ txns[last].unit = app.unit
    /\ app.phase = "work" => txns[last].ops = app.done /\ app.done < app.size
    /\ app.phase = "commit" => txns[last].ops = app.size
    /\ app.phase = "commit" /\ ~app.ambiguous => txns[last].state # "committed"
    /\ app.phase = "commit" /\ Live /\ client_session.state = "starting" => app.size = 0
    /\ app.phase = "done" /\ app.size > 0 => txns[last].state = "committed"
    /\ Live /\ client_session.state = "starting" => txns[last].ops = 0

TxnInv == TypeOK /\ Agrees /\ Pinned /\ OptionsKept /\ Units /\ LastOne

-------------------------------------------------------------------------------
(* Operators *)

\* A set whose elements are all equal has at most one.
LEMMA AtMostOne ==
    ASSUME NEW S, \A x, y \in S : x = y
    PROVE  Cardinality(S) <= 1
  <1>1. CASE S = {}
    BY <1>1, FS_EmptySet
  <1>2. CASE S # {}
    <2>1. PICK x \in S : TRUE
      BY <1>2
    <2>2. S = {x}
      BY <2>1
    <2> QED BY <2>2, FS_Singleton
  <1> QED BY <1>1, <1>2

\* What is merged of valid options is valid.
LEMMA OverValid ==
    ASSUME NEW f, NEW g, AllValid(f), AllValid(g)
    PROVE  AllValid(Over(f, g))
  BY DEF AllValid, Over

\* A change of some transactions leaves as many as there were.
LEMMA SameLength ==
    ASSUME NEW t \in Seq(Txn), NEW u, u = [i \in DOMAIN t |-> u[i]],
           \A i \in 1..Len(t) : u[i] \in Txn
    PROVE  u \in Seq(Txn) /\ Len(u) = Len(t) /\ DOMAIN u = 1..Len(t)
  <1>1. DOMAIN t = 1..Len(t) /\ Len(t) \in Nat
    BY LenProperties
  <1>2. u \in [1..Len(t) -> Txn]
    BY <1>1
  <1> QED BY <1>1, <1>2

\* The changes of one transaction.
LEMMA TxnChanges ==
    ASSUME NEW x \in Txn
    PROVE  /\ \A s \in Server : [x EXCEPT !.sent = x.sent \cup {s}] \in Txn
           /\ [x EXCEPT !.state = "open", !.ops = x.ops + 1] \in Txn
           /\ [x EXCEPT !.state = "aborted"] \in Txn
           /\ [x EXCEPT !.state = "committed"] \in Txn
           /\ \A o \in {<<>>} \cup InForce : [x EXCEPT !.committed = o] \in Txn
  <1> DEFINE T == {NULL, <<>>} \cup InForce
             States == {"none", "open", "committed", "aborted"}
             SS == SUBSET Server
  <1>1. /\ Txn = [state : States, ops : Nat, sent : SS, unit : Nat, size : Nat,
                  asked : Asked, committed : T]
        /\ {"open", "aborted", "committed"} \subseteq States
        /\ \A a \in SS, s \in Server : a \cup {s} \in SS
        /\ {<<>>} \cup InForce \subseteq T
    BY DEF Txn
  <1> HIDE DEF T, States, SS
  <1>2. \A s \in Server : [x EXCEPT !.sent = x.sent \cup {s}] \in Txn
    BY <1>1
  <1>3. \A o \in {<<>>} \cup InForce : [x EXCEPT !.committed = o] \in Txn
    BY <1>1
  <1>4. x.ops \in Nat /\ x.ops + 1 \in Nat
    BY <1>1
  <1>5. [x EXCEPT !.state = "open", !.ops = x.ops + 1] \in Txn
    BY <1>1, <1>4
  <1>6. /\ [x EXCEPT !.state = "aborted"] \in Txn
        /\ [x EXCEPT !.state = "committed"] \in Txn
    BY <1>1
  <1> QED BY <1>2, <1>3, <1>5, <1>6

LEMMA SentFacts ==
    ASSUME NEW s \in Server, txns \in Seq(Txn), Len(txns) > 0, Current = Len(txns)
    PROVE  /\ Sent(s) \in Seq(Txn) /\ Len(Sent(s)) = Len(txns)
           /\ \A i \in 1..Len(txns) :
                Sent(s)[i] = IF i = Len(txns)
                               THEN [txns[i] EXCEPT !.sent = txns[i].sent \cup {s}] ELSE txns[i]
  <1> DEFINE u == Sent(s)
  <1>1. DOMAIN txns = 1..Len(txns) /\ Len(txns) \in Nat
    BY LenProperties
  <1>2. u = [i \in DOMAIN txns |-> u[i]]
    BY <1>1 DEF Sent
  <1>3. \A i \in 1..Len(txns) :
           u[i] = IF i = Len(txns)
                    THEN [txns[i] EXCEPT !.sent = txns[i].sent \cup {s}] ELSE txns[i]
    BY <1>1 DEF Sent
  <1>4. \A i \in 1..Len(txns) : txns[i] \in Txn
    BY <1>1, ElementOfSeq
  <1> HIDE DEF u
  <1>5. \A i \in 1..Len(txns) : u[i] \in Txn
    <2> SUFFICES ASSUME NEW i \in 1..Len(txns)
                 PROVE  u[i] \in Txn
      OBVIOUS
    <2>1. CASE i = Len(txns)
      <3>1. [txns[i] EXCEPT !.sent = txns[i].sent \cup {s}] \in Txn
        BY <1>4, TxnChanges, Zenon
      <3> QED BY <1>3, <2>1, <3>1
    <2>2. CASE i # Len(txns)
      BY <1>3, <1>4, <2>2
    <2> QED BY <2>1, <2>2
  <1>6. u \in Seq(Txn) /\ Len(u) = Len(txns)
    BY <1>2, <1>5, SameLength
  <1> QED BY <1>3, <1>6 DEF u

LEMMA OpenedFacts ==
    ASSUME NEW t \in Seq(Txn), Len(t) > 0, Current = Len(t)
    PROVE  /\ Opened(t) \in Seq(Txn) /\ Len(Opened(t)) = Len(t)
           /\ \A i \in 1..Len(t) :
                Opened(t)[i] =
                  IF i = Len(t) THEN [t[i] EXCEPT !.state = "open", !.ops = t[i].ops + 1]
                  ELSE IF t[i].state = "open" THEN [t[i] EXCEPT !.state = "aborted"] ELSE t[i]
  <1> DEFINE u == Opened(t)
  <1>1. DOMAIN t = 1..Len(t) /\ Len(t) \in Nat
    BY LenProperties
  <1>2. u = [i \in DOMAIN t |-> u[i]]
    BY <1>1 DEF Opened
  <1>3. \A i \in 1..Len(t) :
           u[i] = IF i = Len(t) THEN [t[i] EXCEPT !.state = "open", !.ops = t[i].ops + 1]
                  ELSE IF t[i].state = "open" THEN [t[i] EXCEPT !.state = "aborted"] ELSE t[i]
    BY <1>1 DEF Opened
  <1>4. \A i \in 1..Len(t) : t[i] \in Txn
    BY <1>1, ElementOfSeq
  <1>5. \A i \in 1..Len(t) : u[i] \in Txn
    BY <1>3, <1>4, TxnChanges
  <1> HIDE DEF u
  <1>6. u \in Seq(Txn) /\ Len(u) = Len(t)
    BY <1>2, <1>5, SameLength
  <1> QED BY <1>3, <1>6 DEF u

LEMMA AbortedFacts ==
    ASSUME NEW t \in Seq(Txn), NEW k \in 1..Len(t)
    PROVE  /\ Aborted(t, k) \in Seq(Txn) /\ Len(Aborted(t, k)) = Len(t)
           /\ \A i \in 1..Len(t) :
                Aborted(t, k)[i] = IF i = k /\ t[i].state = "open"
                                     THEN [t[i] EXCEPT !.state = "aborted"] ELSE t[i]
  <1> DEFINE u == Aborted(t, k)
  <1>1. DOMAIN t = 1..Len(t) /\ Len(t) \in Nat
    BY LenProperties
  <1>2. u = [i \in DOMAIN t |-> u[i]]
    <2>1. CASE t[k].state = "open"
      BY <1>1, <2>1 DEF Aborted
    <2>2. CASE t[k].state # "open"
      BY <1>1, <2>2 DEF Aborted
    <2> QED BY <2>1, <2>2
  <1>3. \A i \in 1..Len(t) :
           u[i] = IF i = k /\ t[i].state = "open"
                    THEN [t[i] EXCEPT !.state = "aborted"] ELSE t[i]
    BY <1>1 DEF Aborted
  <1>4. \A i \in 1..Len(t) : t[i] \in Txn
    BY <1>1, ElementOfSeq
  <1>5. \A i \in 1..Len(t) : u[i] \in Txn
    BY <1>3, <1>4, TxnChanges
  <1> HIDE DEF u
  <1>6. u \in Seq(Txn) /\ Len(u) = Len(t)
    BY <1>2, <1>5, SameLength
  <1> QED BY <1>3, <1>6 DEF u

LEMMA CommittingFacts ==
    ASSUME txns \in Seq(Txn), Len(txns) > 0, Current = Len(txns), client_session \in Sess
    PROVE  /\ Committing(txns) \in Seq(Txn) /\ Len(Committing(txns)) = Len(txns)
           /\ \A i \in 1..Len(txns) :
                Committing(txns)[i] =
                  IF i = Len(txns) /\ client_session.state # "committed"
                    THEN [txns[i] EXCEPT !.committed = client_session.opts] ELSE txns[i]
  <1> DEFINE u == Committing(txns)
  <1>1. DOMAIN txns = 1..Len(txns) /\ Len(txns) \in Nat
    BY LenProperties
  <1>2. u = [i \in DOMAIN txns |-> u[i]]
    BY <1>1 DEF Committing
  <1>3. \A i \in 1..Len(txns) : txns[i] \in Txn
    BY <1>1, ElementOfSeq
  <1>4. \A i \in 1..Len(txns) :
           u[i] = IF i = Len(txns) /\ client_session.state # "committed"
                    THEN [txns[i] EXCEPT !.committed = client_session.opts] ELSE txns[i]
    <2> SUFFICES ASSUME NEW i \in 1..Len(txns)
                 PROVE  u[i] = IF i = Len(txns) /\ client_session.state # "committed"
                    THEN [txns[i] EXCEPT !.committed = client_session.opts] ELSE txns[i]
      OBVIOUS
    <2>1. CASE i # Len(txns)
      BY <1>1, <2>1 DEF Committing
    <2>2. CASE i = Len(txns) /\ client_session.state # "committed"
      BY <1>1, <2>2 DEF Committing
    <2>3. CASE i = Len(txns) /\ client_session.state = "committed"
      <3>1. u[i] = [txns[i] EXCEPT !.committed = txns[i].committed]
        BY <1>1, <2>3 DEF Committing
      <3>2. [txns[i] EXCEPT !.committed = txns[i].committed] = txns[i]
        BY <1>3 DEF Txn
      <3> QED BY <2>3, <3>1, <3>2
    <2> QED BY <2>1, <2>2, <2>3
  <1> HIDE DEF u
  <1>5. \A i \in 1..Len(txns) : u[i] \in Txn
    <2> SUFFICES ASSUME NEW i \in 1..Len(txns)
                 PROVE  u[i] \in Txn
      OBVIOUS
    <2>1. [txns[i] EXCEPT !.committed = client_session.opts] \in Txn
      <3>1. client_session.opts \in {<<>>} \cup InForce
        BY DEF Sess
      <3> QED BY <1>3, <3>1, TxnChanges, Zenon
    <2> QED BY <1>3, <1>4, <2>1
  <1>6. u \in Seq(Txn) /\ Len(u) = Len(txns)
    BY <1>2, <1>5, SameLength
  <1> QED BY <1>4, <1>6 DEF u

LEMMA CommittedFacts ==
    ASSUME NEW t \in Seq(Txn), Len(t) > 0, Current = Len(t)
    PROVE  /\ Committed(t) \in Seq(Txn) /\ Len(Committed(t)) = Len(t)
           /\ \A i \in 1..Len(t) :
                Committed(t)[i] =
                  IF i = Len(t) THEN [t[i] EXCEPT !.state = "committed"] ELSE t[i]
  <1> DEFINE u == Committed(t)
  <1>1. DOMAIN t = 1..Len(t) /\ Len(t) \in Nat
    BY LenProperties
  <1>2. u = [i \in DOMAIN t |-> u[i]]
    BY <1>1 DEF Committed
  <1>3. \A i \in 1..Len(t) :
           u[i] = IF i = Len(t) THEN [t[i] EXCEPT !.state = "committed"] ELSE t[i]
    BY <1>1 DEF Committed
  <1>4. \A i \in 1..Len(t) : t[i] \in Txn
    BY <1>1, ElementOfSeq
  <1>5. \A i \in 1..Len(t) : u[i] \in Txn
    BY <1>3, <1>4, TxnChanges
  <1> HIDE DEF u
  <1>6. u \in Seq(Txn) /\ Len(u) = Len(t)
    BY <1>2, <1>5, SameLength
  <1> QED BY <1>3, <1>6 DEF u

-------------------------------------------------------------------------------
(* What becomes of the transactions in a step *)

\* Servers may have aborted transactions that were open, and nothing else.
OnlyAborts(t, u) ==
    /\ u \in Seq(Txn) /\ Len(u) = Len(t)
    /\ \A i \in 1..Len(t) :
         /\ u[i].unit = t[i].unit /\ u[i].size = t[i].size /\ u[i].asked = t[i].asked
         /\ u[i].sent = t[i].sent /\ u[i].ops = t[i].ops /\ u[i].committed = t[i].committed
         /\ u[i].state = "committed" <=> t[i].state = "committed"

LEMMA Unaborted ==
    ASSUME txns \in Seq(Txn), txns' = txns
    PROVE  OnlyAborts(txns, txns')
  BY DEF OnlyAborts

LEMMA AbortedOne ==
    ASSUME NEW t \in Seq(Txn), NEW k \in 1..Len(t)
    PROVE  OnlyAborts(t, Aborted(t, k))
  <1>1. \A i \in 1..Len(t) : t[i] \in Txn
    BY LenProperties, ElementOfSeq
  <1> DEFINE u == Aborted(t, k)
  <1>2. /\ u \in Seq(Txn) /\ Len(u) = Len(t)
        /\ \A i \in 1..Len(t) : u[i] = IF i = k /\ t[i].state = "open"
                                     THEN [t[i] EXCEPT !.state = "aborted"] ELSE t[i]
    BY AbortedFacts
  <1> HIDE DEF u
  <1>3. ASSUME NEW i \in 1..Len(t)
        PROVE  /\ u[i].unit = t[i].unit /\ u[i].size = t[i].size /\ u[i].asked = t[i].asked
               /\ u[i].sent = t[i].sent /\ u[i].ops = t[i].ops
               /\ u[i].committed = t[i].committed
               /\ u[i].state = "committed" <=> t[i].state = "committed"
    BY <1>1, <1>2 DEF Txn
  <1>4. OnlyAborts(t, u)
    BY <1>2, <1>3 DEF OnlyAborts
  <1> QED BY <1>4 DEF u

LEMMA AbortSentOne ==
    ASSUME TypeOK, Agrees, NEW arrives, AbortSent(arrives)
    PROVE  OnlyAborts(txns, txns')
  <1>1. CASE Live /\ client_session.state = "in_progress" /\ arrives
    <2>1. Current \in 1..Len(txns) /\ txns' = Aborted(txns, Current)
      BY <1>1, LenProperties DEF AbortSent, TypeOK, Agrees, Sess, Current, last
    <2> QED BY <2>1, AbortedOne DEF TypeOK
  <1>2. CASE ~(Live /\ client_session.state = "in_progress" /\ arrives)
    BY <1>2, Unaborted DEF AbortSent, TypeOK
  <1> QED BY <1>1, <1>2

-------------------------------------------------------------------------------
(* What becomes of the application and of the session *)

\* Only the phase of the application and what it will do next change.
SameUnit ==
    /\ app' \in App
    /\ app'.unit = app.unit /\ app'.size = app.size /\ app'.done = app.done
    /\ app'.ambiguous = app.ambiguous

LEMMA GoesFacts ==
    ASSUME app \in App, NEW p \in Phase, Goes(p)
    PROVE  SameUnit /\ app'.phase = p
  BY DEF Goes, App, SameUnit

LEMMA RecoversFacts ==
    ASSUME app \in App, NEW e, Recovers(e)
    PROVE  SameUnit /\ app'.phase = "recover"
  BY DEF Recovers, App, SameUnit, Phase, HasErrorLabel

LEMMA NewUnitFacts ==
    ASSUME NEW u \in Nat, NEW size \in Nat
    PROVE  /\ NewUnit(u, size) \in App /\ NewUnit(u, size).phase = "begin"
           /\ NewUnit(u, size).unit = u /\ NewUnit(u, size).size = size
           /\ NewUnit(u, size).done = 0
  BY DEF NewUnit, App, Phase

LEMMA CommitFailedFacts ==
    ASSUME app \in App, NEW e, CommitFailed(e)
    PROVE  /\ app' \in App
           /\ app'.unit = app.unit /\ app'.size = app.size /\ app'.done = app.done
           /\ app'.ambiguous = (app.ambiguous \/ HasErrorLabel(e, Unknown))
           /\ HasErrorLabel(e, Unknown) => app'.phase \in {"commit", "unknown"}
           /\ ~HasErrorLabel(e, Unknown) => app'.phase \in {"again", "failed", "unknown"}
           /\ ~HasErrorLabel(e, Unknown) /\ ~HasErrorLabel(e, Transient) =>
                app'.phase = IF app.ambiguous THEN "unknown" ELSE "failed"
  <1>1. /\ HasErrorLabel(e, Unknown) \in BOOLEAN /\ app.ambiguous \in BOOLEAN
        /\ (app.ambiguous \/ HasErrorLabel(e, Unknown)) \in BOOLEAN
    BY DEF HasErrorLabel, App
  <1> DEFINE unknown == app.ambiguous \/ HasErrorLabel(e, Unknown)
             next == IF HasErrorLabel(e, Unknown)
                       THEN IF app.commits + 1 < MaxCommits THEN "commit" ELSE "unknown"
                     ELSE IF HasErrorLabel(e, Transient) THEN "again"
                     ELSE IF app.ambiguous THEN "unknown" ELSE "failed"
  <1>2. /\ next \in Phase
        /\ HasErrorLabel(e, Unknown) => next \in {"commit", "unknown"}
        /\ ~HasErrorLabel(e, Unknown) => next \in {"again", "failed", "unknown"}
        /\ ~HasErrorLabel(e, Unknown) /\ ~HasErrorLabel(e, Transient) =>
             next = IF app.ambiguous THEN "unknown" ELSE "failed"
    BY DEF Phase
  <1>3. app' = [app EXCEPT !.commits = app.commits + 1, !.ambiguous = unknown, !.phase = next]
    BY Zenon DEF CommitFailed
  <1>4. unknown \in BOOLEAN
    BY <1>1
  <1> HIDE DEF unknown, next
  <1>5. /\ app' \in App /\ app'.phase = next /\ app'.ambiguous = unknown
        /\ app'.unit = app.unit /\ app'.size = app.size /\ app'.done = app.done
    <2> DEFINE Bool == BOOLEAN
    <2>1. App = [phase : Phase, unit : Nat, size : Nat, done : Nat, commits : Nat,
                 ambiguous : Bool, again : Bool]
      BY DEF App
    <2>2. unknown \in Bool
      BY <1>4
    <2> HIDE DEF Bool
    <2>3. app.commits + 1 \in Nat
      BY <2>1
    <2> QED BY <1>2, <1>3, <2>1, <2>2, <2>3
  <1> QED BY <1>2, <1>5 DEF unknown

\* Which exceptions of commitTransaction have which labels: they survive the
\* way from the reply, and from the write concern error in it.
LEMMA Labels ==
    /\ HasErrorLabel(Exception("stream", Reply({Unknown}, {})), Unknown)
    /\ HasErrorLabel(Exception("write_concern", Reply({Unknown}, {})), Unknown)
    /\ HasErrorLabel(Exception("write_concern", Reply({}, {Unknown})), Unknown)
    /\ ~HasErrorLabel(Exception("server", Reply({Transient}, {})), Unknown)
    /\ \A l : ~HasErrorLabel(Exception("logic", NULL), l)
  <1>1. \A top, nested \in SUBSET {Transient, Unknown} :
           Reply(top, nested) # NULL /\ ErrorLabels(Reply(top, nested)) = top \cup nested
    BY ReplyAssumption DEF ErrorLabels, Reply
  <1>2. /\ Reply({Unknown}, {}) # NULL /\ ErrorLabels(Reply({Unknown}, {})) = {Unknown}
        /\ Reply({}, {Unknown}) # NULL /\ ErrorLabels(Reply({}, {Unknown})) = {Unknown}
        /\ Reply({Transient}, {}) # NULL /\ ErrorLabels(Reply({Transient}, {})) = {Transient}
    BY <1>1
  <1>3. ErrorLabels(NULL) = {}
    BY DEF ErrorLabels
  <1>4. Transient # Unknown
    BY DEF Transient, Unknown
  <1>5. /\ HasErrorLabel(Exception("stream", Reply({Unknown}, {})), Unknown)
        /\ HasErrorLabel(Exception("write_concern", Reply({Unknown}, {})), Unknown)
        /\ HasErrorLabel(Exception("write_concern", Reply({}, {Unknown})), Unknown)
        /\ ~HasErrorLabel(Exception("server", Reply({Transient}, {})), Unknown)
    BY <1>2, <1>4 DEF HasErrorLabel, Exception, ExceptionClass
  <1>6. \A l : ~HasErrorLabel(Exception("logic", NULL), l)
    BY <1>3 DEF HasErrorLabel, Exception
  <1> QED BY <1>5, <1>6

\* The changes of a session.
LEMMA SessChanges ==
    ASSUME NEW x \in Sess, NEW q \in {"in_progress", "committed", "aborted"},
           NEW s \in Server \cup {NULL}
    PROVE  /\ [x EXCEPT !.state = q] \in Sess
           /\ [x EXCEPT !.state = q, !.server = s] \in Sess
           /\ Unpinned(x) \in Sess
           /\ Unpinned(x).server = NULL /\ Unpinned(x).state = x.state
           /\ Unpinned(x).txn = x.txn /\ Unpinned(x).opts = x.opts
           /\ Unpinned(x).defaults = x.defaults
  BY DEF Sess, Unpinned

-------------------------------------------------------------------------------
(* The steps *)

LEMMA InitInv == Init => TxnInv
  <1> SUFFICES ASSUME Init
               PROVE  TxnInv
    OBVIOUS
  <1>1. PICK size \in Sizes : app = [NewUnit(1, size) EXCEPT !.phase = "session"]
    BY DEF Init
  <1>2. size \in Nat
    BY SizesAssumption
  <1>3. app \in App /\ app.phase = "session" /\ app.unit = 1 /\ app.done = 0
    BY <1>1, <1>2 DEF NewUnit, App, Phase
  <1>4. txns = <<>> /\ Len(txns) = 0 /\ ~Live
    BY DEF Init, Live
  <1>5. TypeOK
    <2>1. txns \in Seq(Txn)
      BY <1>4, EmptySeq
    <2> QED BY <1>3, <1>4, <2>1 DEF TypeOK, Init
  <1> QED BY <1>3, <1>4, <1>5 DEF TxnInv, Agrees, Pinned, OptionsKept, Units, LastOne, last

LEMMA StartSessionInv ==
    ASSUME TxnInv, NEW o \in SessionOptions, StartSession(o)
    PROVE  TxnInv'
  <1> DEFINE defaults == ParseTransactionOptions(o.defaults)
  <1>1. /\ app.phase = "session" /\ ~Live /\ last = 0
        /\ txns' = txns /\ last' = 0 /\ app \in App
        /\ advancing' = advancing /\ crashed' = crashed
    BY DEF StartSession, TxnInv, Agrees, TypeOK, last
  <1>2. CASE defaults = NULL \/ (o.causal /\ o.snapshot)
    <2>1. Goes("failed") /\ client_session' = client_session
      BY <1>2, Zenon DEF StartSession
    <2>2. SameUnit /\ app'.phase = "failed" /\ ~Live'
      BY <1>1, <2>1, GoesFacts DEF Phase, Live
    <2> QED BY <1>1, <2>2 DEF TxnInv, TypeOK, SameUnit, Agrees, Pinned, OptionsKept, Units, LastOne
  <1>3. CASE ~(defaults = NULL \/ (o.causal /\ o.snapshot))
    <2>1. client_session' = NewSession(defaults, o.snapshot) /\ Goes("begin")
      BY <1>3, Zenon DEF StartSession
    <2>2. SameUnit /\ app'.phase = "begin"
      BY <1>1, <2>1, GoesFacts DEF Phase
    <2>3. defaults = o.defaults /\ AllValid(defaults) /\ defaults \in Defaults
      BY <1>3 DEF ParseTransactionOptions, AllValid, Defaults
    <2> HIDE DEF defaults
    <2>4. /\ client_session' \in Sess /\ client_session'.txn = 0
          /\ client_session'.state = "none" /\ client_session'.server = NULL
          /\ client_session'.defaults = defaults
      BY <2>1, <2>3, SnapshotAssumption DEF NewSession, Sess
    <2> QED BY <1>1, <2>2, <2>3, <2>4
            DEF TxnInv, TypeOK, SameUnit, Agrees, Pinned, OptionsKept, Units, LastOne
  <1> QED BY <1>2, <1>3

\* Steps by which the unit of work and its effects stay what they are.
LEMMA QuietStep ==
    ASSUME TxnInv, OnlyAborts(txns, txns'), SameUnit,
           advancing' \in BOOLEAN, crashed' \in BOOLEAN,
           app.phase # "session", app'.phase # "session",
           app'.phase \in {"begin", "work", "commit", "done"} => app'.phase = app.phase,
           app.phase \in {"commit", "done", "unknown"} => app'.phase = app.phase,
           Live' => /\ Live /\ client_session' \in Sess
                    /\ client_session'.txn = client_session.txn
                    /\ client_session'.opts = client_session.opts
                    /\ client_session'.defaults = client_session.defaults
                    /\ \/ client_session'.state = client_session.state
                          /\ client_session'.server = client_session.server
                       \/ /\ client_session'.state = "aborted" /\ client_session'.server = NULL
                          /\ last > 0 /\ app'.phase \notin {"work", "commit"}
    PROVE  TxnInv'
  <1> USE DEF TxnInv
  <1>1. /\ last' = last /\ last \in Nat /\ txns' \in Seq(Txn)
        /\ \A i \in 1..last :
             /\ txns'[i].unit = txns[i].unit /\ txns'[i].size = txns[i].size
             /\ txns'[i].asked = txns[i].asked /\ txns'[i].sent = txns[i].sent
             /\ txns'[i].ops = txns[i].ops /\ txns'[i].committed = txns[i].committed
             /\ txns'[i].state = "committed" <=> txns[i].state = "committed"
    BY LenProperties DEF OnlyAborts, last, TypeOK
  <1>2. TypeOK'
    BY <1>1 DEF TypeOK, SameUnit
  <1>3. Agrees'
    BY <1>1 DEF Agrees, SameUnit
  <1>4. Pinned'
    BY <1>1 DEF Pinned, Agrees
  <1>5. OptionsKept'
    BY <1>1 DEF OptionsKept
  <1>6. Units'
    <2>1. /\ \A i \in 1..last' :
             /\ txns'[i].unit <= app'.unit
             /\ txns'[i].state = "committed" => txns'[i].ops = txns'[i].size
             /\ txns'[i].unit = app'.unit =>
                  /\ txns'[i].size = app'.size
                  /\ txns'[i].state = "committed" =>
                       i = last' /\ app'.phase \in {"commit", "done", "unknown"}
      BY <1>1 DEF Units, SameUnit
    <2>2. \A i, j \in 1..last' :
             txns'[i].unit = txns'[j].unit /\ txns'[i].state = "committed"
               /\ txns'[j].state = "committed" => i = j
      BY <1>1 DEF Units
    <2>3. \A u \in 1..(app'.unit - 1) : \E i \in 1..last' :
             txns'[i].unit = u /\ (txns'[i].size > 0 => txns'[i].state = "committed")
      BY <1>1 DEF Units, SameUnit
    <2> QED BY <2>1, <2>2, <2>3 DEF Units
  <1>7. LastOne'
    <2>1. last > 0 => last \in 1..last
      BY <1>1
    <2>2. last = 0 => app'.phase \notin {"work", "commit", "done"}
      BY <1>1 DEF LastOne
    <2>3. Live' /\ client_session'.state = "starting" =>
             Live /\ client_session.state = "starting" /\ last > 0
      BY <1>1 DEF Agrees
    <2> QED BY <1>1, <2>1, <2>2, <2>3 DEF LastOne, SameUnit
  <1> QED BY <1>2, <1>3, <1>4, <1>5, <1>6, <1>7

LEMMA AbortTransactionInv ==
    ASSUME TxnInv, NEW arrives \in BOOLEAN, AbortTransaction(arrives)
    PROVE  TxnInv'
  <1> DEFINE next == IF Live /\ app.again THEN "again" ELSE "failed"
  <1>1. /\ app.phase = "recover" /\ app \in App /\ Goes(next) /\ next \in {"again", "failed"}
        /\ advancing' \in BOOLEAN /\ crashed' \in BOOLEAN
    BY DEF AbortTransaction, TxnInv, TypeOK
  <1> HIDE DEF next
  <1>2. SameUnit /\ app'.phase \in {"again", "failed"}
    BY <1>1, GoesFacts DEF Phase
  <1>3. CASE Live /\ InTransaction(client_session)
    <2>1. /\ client_session' = Unpinned([client_session EXCEPT !.state = "aborted"])
          /\ AbortSent(arrives)
      BY <1>3 DEF AbortTransaction
    <2>2. OnlyAborts(txns, txns')
      BY <2>1, AbortSentOne DEF TxnInv
    <2>3. client_session \in Sess /\ last > 0
      BY <1>3, LenProperties DEF TxnInv, TypeOK, Agrees, InTransaction, last
    <2>4. /\ client_session' \in Sess /\ client_session'.txn = client_session.txn
          /\ client_session'.opts = client_session.opts
          /\ client_session'.defaults = client_session.defaults
          /\ client_session'.state = "aborted" /\ client_session'.server = NULL
      BY <2>1, <2>3, SessChanges DEF Sess, Unpinned
    <2> QED BY <1>1, <1>2, <1>3, <2>2, <2>3, <2>4, QuietStep
  <1>4. CASE ~(Live /\ InTransaction(client_session))
    <2>1. client_session' = client_session /\ txns' = txns
      BY <1>4 DEF AbortTransaction
    <2>2. OnlyAborts(txns, txns')
      BY <2>1, Unaborted DEF TxnInv, TypeOK
    <2>3. Live' => Live /\ client_session' \in Sess
      BY <2>1 DEF Live, TxnInv, TypeOK
    <2> QED BY <1>1, <1>2, <2>1, <2>2, <2>3, QuietStep
  <1> QED BY <1>3, <1>4

LEMMA EndSessionInv ==
    ASSUME TxnInv, NEW arrives \in BOOLEAN, EndSession(arrives)
    PROVE  TxnInv'
  <1>1. /\ app' = app /\ app.phase # "session" /\ ~Live' /\ AbortSent(arrives)
        /\ advancing' \in BOOLEAN /\ crashed' \in BOOLEAN
    BY DEF EndSession, TxnInv, TypeOK, Live
  <1>2. OnlyAborts(txns, txns')
    BY <1>1, AbortSentOne DEF TxnInv
  <1>3. SameUnit
    BY <1>1 DEF SameUnit, TxnInv, TypeOK
  <1> QED BY <1>1, <1>2, <1>3, QuietStep

\* The state of the session, the unit and the phase stay.
LEMMA NothingStep ==
    ASSUME TxnInv, UNCHANGED <<client_session, app>>, OnlyAborts(txns, txns'),
           advancing' \in BOOLEAN, crashed' \in BOOLEAN, app.phase # "session"
    PROVE  TxnInv'
  <1>1. SameUnit
    BY DEF SameUnit, TxnInv, TypeOK
  <1>2. Live' => Live /\ client_session' \in Sess
    BY DEF Live, TxnInv, TypeOK
  <1> QED BY <1>1, <1>2, QuietStep

LEMMA AdvanceInv ==
    ASSUME TxnInv, Advance \/ \E thrown \in BOOLEAN : Advanced(thrown)
    PROVE  TxnInv'
  <1>1. /\ client_session' = client_session /\ txns' = txns /\ app' = app
        /\ advancing' \in BOOLEAN /\ crashed' \in BOOLEAN
    BY DEF Advance, Advanced, TxnInv, TypeOK
  <1>2. OnlyAborts(txns, txns')
    BY <1>1, Unaborted DEF TxnInv, TypeOK
  <1>3. CASE app.phase # "session"
    BY <1>1, <1>2, <1>3, NothingStep
  <1>4. CASE app.phase = "session"
    BY <1>1, <1>4
       DEF TxnInv, TypeOK, Agrees, Pinned, OptionsKept, Units, LastOne, last, Live, Current
  <1> QED BY <1>3, <1>4

LEMMA ServerAbortsInv ==
    ASSUME TxnInv, NEW i \in DOMAIN txns, ServerAborts(i)
    PROVE  TxnInv'
  <1>1. /\ client_session' = client_session /\ app' = app /\ txns' = Aborted(txns, i)
        /\ advancing' \in BOOLEAN /\ crashed' \in BOOLEAN
    BY DEF ServerAborts, TxnInv, TypeOK
  <1>2. txns \in Seq(Txn) /\ i \in 1..Len(txns)
    BY LenProperties DEF TxnInv, TypeOK
  <1>3. OnlyAborts(txns, txns')
    BY <1>1, <1>2, AbortedOne
  <1>4. app.phase # "session"
    BY <1>2 DEF TxnInv, Agrees, last
  <1> QED BY <1>1, <1>3, <1>4, NothingStep

\* The unit is run again after a transaction without effects, and the next one
\* begins when the last one is done.
LEMMA NewUnitInv ==
    ASSUME TxnInv, RunAgain \/ \E size \in Sizes : NextUnit(size)
    PROVE  TxnInv'
  <1>1. /\ client_session' = client_session /\ txns' = txns /\ last' = last
        /\ advancing' = advancing /\ crashed' = crashed /\ Live' = Live
    BY DEF RunAgain, NextUnit, last, Live
  <1>2. app.unit \in Nat /\ app.size \in Nat
    BY DEF TxnInv, TypeOK, App
  <1>3. CASE RunAgain
    <2>1. /\ app' \in App /\ app'.phase = "begin" /\ app.phase = "again"
          /\ app'.unit = app.unit /\ app'.size = app.size /\ app'.done = 0
      BY <1>2, <1>3, NewUnitFacts DEF RunAgain
    <2> QED BY <1>1, <2>1
            DEF TxnInv, TypeOK, Agrees, Pinned, OptionsKept, Units, LastOne, Live
  <1>4. ASSUME NEW size \in Sizes, NextUnit(size)
        PROVE  TxnInv'
    <2>1. size \in Nat /\ app.unit + 1 \in Nat
      BY <1>2, SizesAssumption
    <2>2. /\ app' \in App /\ app'.phase = "begin" /\ app.phase = "done"
          /\ app'.unit = app.unit + 1 /\ app'.size = size /\ app'.done = 0
      BY <1>4, <2>1, NewUnitFacts DEF NextUnit
    <2>3. Units'
      <3>1. \A i \in 1..last : txns[i].unit <= app.unit /\ txns[i].unit \in Nat
        <4>1. \A i \in 1..last : txns[i] \in Txn
          BY ElementOfSeq DEF TxnInv, TypeOK, last
        <4> QED BY <4>1 DEF TxnInv, Units, Txn
      <3>2. \A u \in 1..(app'.unit - 1) : \E i \in 1..last :
               txns[i].unit = u /\ (txns[i].size > 0 => txns[i].state = "committed")
        <4> SUFFICES ASSUME NEW u \in 1..(app'.unit - 1)
                     PROVE  \E i \in 1..last :
                              txns[i].unit = u /\ (txns[i].size > 0 => txns[i].state = "committed")
          OBVIOUS
        <4>1. CASE u \in 1..(app.unit - 1)
          BY <4>1 DEF TxnInv, Units
        <4>2. CASE u = app.unit
          <5>1. last \in 1..last /\ txns[last].unit = app.unit
            BY <2>2, LenProperties DEF TxnInv, TypeOK, LastOne, last
          <5>2. txns[last].size = app.size
            BY <5>1 DEF TxnInv, Units
          <5> QED BY <2>2, <4>2, <5>1, <5>2 DEF TxnInv, LastOne
        <4> QED BY <1>2, <2>2, <4>1, <4>2
      <3> QED BY <1>1, <1>2, <2>2, <3>1, <3>2 DEF TxnInv, Units
    <2> QED BY <1>1, <2>2, <2>3
            DEF TxnInv, TypeOK, Agrees, Pinned, OptionsKept, LastOne, Live
  <1> QED BY <1>3, <1>4

\* The exceptions of startTransaction and of an operation that does not reach
\* libmongoc.
LEMMA RecoversInv ==
    ASSUME TxnInv, NEW e, Recovers(e), UNCHANGED <<client_session, txns>>,
           advancing' \in BOOLEAN, crashed' \in BOOLEAN, app.phase \in {"begin", "work"}
    PROVE  TxnInv'
  <1>1. SameUnit /\ app'.phase = "recover"
    BY RecoversFacts DEF TxnInv, TypeOK
  <1>2. Live' => Live /\ client_session' \in Sess
    BY DEF Live, TxnInv, TypeOK
  <1>3. OnlyAborts(txns, txns')
    BY Unaborted DEF TxnInv, TypeOK
  <1> QED BY <1>1, <1>2, <1>3, QuietStep

LEMMA StartTransactionInv ==
    ASSUME TxnInv, NEW options \in StartOptions, StartTransaction(options)
    PROVE  TxnInv'
  <1> DEFINE given == ParseTransactionOptions(options)
             new == [state |-> "none", ops |-> 0, sent |-> {}, unit |-> app.unit,
                     size |-> app.size, asked |-> Over(options, client_session.defaults),
                     committed |-> NULL]
             next == IF app.size = 0 THEN "commit" ELSE "work"
  <1>1. /\ app.phase = "begin" /\ app \in App /\ txns \in Seq(Txn)
        /\ last \in Nat
        /\ advancing' = advancing /\ crashed' = crashed
        /\ advancing \in BOOLEAN /\ crashed \in BOOLEAN
    BY LenProperties DEF StartTransaction, TxnInv, TypeOK, last
  <1>2. CASE ~(Live /\ given # NULL /\ CanStart(client_session, given))
    <2>1. /\ \E e : Recovers(e)
          /\ client_session' = client_session /\ txns' = txns
      BY <1>2, Zenon DEF StartTransaction
    <2> QED BY <1>1, <2>1, RecoversInv
  <1>3. CASE Live /\ given # NULL /\ CanStart(client_session, given)
    <2>1. /\ client_session' = MongocStart(client_session, given)
          /\ txns' = Append(txns, new) /\ Goes(next)
      BY <1>3, Zenon DEF StartTransaction
    <2>2. given = options /\ AllValid(options)
      BY <1>3 DEF ParseTransactionOptions, AllValid
    <2>3. client_session \in Sess /\ AllValid(client_session.defaults)
      BY <1>3 DEF TxnInv, TypeOK, OptionsKept
    <2> DEFINE asked == Over(options, client_session.defaults)
               merged == Over(asked, ClientOpts)
    <2>4. asked \in Asked /\ merged \in InForce
      BY <2>3 DEF Sess, Asked, InForce
    <2>5. AllValid(merged)
      <3>1. AllValid(ClientOpts)
        BY ClientOptsAssumption DEF AllValid
      <3> QED BY <2>2, <2>3, <3>1, OverValid
    <2>6. merged.writeConcern # "unacknowledged" /\ Merged(client_session, given) = merged
      BY <1>3, <2>2 DEF CanStart, Merged
    <2> HIDE DEF given
    <2>7. new.asked = asked
      OBVIOUS
    <2> HIDE DEF asked, merged
    <2>8. /\ client_session' \in Sess /\ client_session'.txn = client_session.txn + 1
          /\ client_session'.state = "starting" /\ client_session'.server = NULL
          /\ client_session'.opts = merged
          /\ client_session'.defaults = client_session.defaults
      <3> DEFINE States == {"none", "starting", "in_progress", "committed", "aborted"}
                 Servers == Server \cup {NULL}
                 Opts == {<<>>} \cup InForce
                 Bool == BOOLEAN
      <3>1. /\ Sess = [state : States, txn : Nat, server : Servers, opts : Opts,
                       defaults : Defaults, snapshot : Bool]
            /\ "starting" \in States /\ NULL \in Servers /\ merged \in Opts
        BY <2>4 DEF Sess
      <3> HIDE DEF States, Servers, Opts, Bool
      <3>2. client_session' = [client_session EXCEPT !.state = "starting",
                                 !.txn = client_session.txn + 1, !.server = NULL,
                                 !.opts = merged]
        BY <2>1, <2>6 DEF MongocStart
      <3>3. client_session.txn + 1 \in Nat
        BY <2>3, <3>1
      <3> QED BY <2>3, <3>1, <3>2, <3>3
    <2>9. new \in Txn
      BY <1>1, <2>4, <2>7 DEF Txn, App
    <2>10. /\ txns' \in Seq(Txn) /\ last' = last + 1 /\ txns'[last'] = new
           /\ \A i \in 1..last : txns'[i] = txns[i]
           /\ \A i \in 1..last' : i = last' \/ i \in 1..last
           /\ last' \in 1..last'
      BY <1>1, <2>1, <2>9, AppendProperties DEF last
    <2>11. /\ new.state = "none" /\ new.ops = 0 /\ new.sent = {} /\ new.unit = app.unit
           /\ new.size = app.size /\ new.committed = NULL
      OBVIOUS
    <2>12. /\ SameUnit /\ app'.phase = next /\ next \in {"commit", "work"}
           /\ app.size = 0 <=> next = "commit"
      BY <1>1, <2>1, GoesFacts DEF Phase
    <2> HIDE DEF new, next
    <2>13. TypeOK'
      BY <1>1, <2>8, <2>10, <2>12 DEF TypeOK, SameUnit
    <2>14. Agrees'
      BY <1>1, <1>3, <2>8, <2>10, <2>12 DEF TxnInv, Agrees
    <2>15. Pinned'
      BY <1>1, <1>3, <2>8, <2>10, <2>11, <2>12 DEF TxnInv, Pinned
    <2>16. OptionsKept'
      BY <1>1, <1>3, <2>3, <2>5, <2>6, <2>7, <2>8, <2>10, <2>11 DEF TxnInv, OptionsKept, merged
    <2>17. Units'
      <3>1. \A i \in 1..last : txns[i].unit = app.unit => txns[i].state # "committed"
        BY <1>1 DEF TxnInv, Units
      <3>2. \A u \in 1..(app'.unit - 1) : \E i \in 1..last' :
               txns'[i].unit = u /\ (txns'[i].size > 0 => txns'[i].state = "committed")
        BY <1>1, <2>10, <2>12 DEF TxnInv, Units, SameUnit
      <3>3. \A i, j \in 1..last' :
               txns'[i].unit = txns'[j].unit /\ txns'[i].state = "committed"
                 /\ txns'[j].state = "committed" => i = j
        BY <2>10, <2>11 DEF TxnInv, Units
      <3>4. \A i \in 1..last' :
               /\ txns'[i].unit <= app'.unit
               /\ txns'[i].state = "committed" => txns'[i].ops = txns'[i].size
               /\ txns'[i].unit = app'.unit =>
                    /\ txns'[i].size = app'.size
                    /\ txns'[i].state = "committed" =>
                         i = last' /\ app'.phase \in {"commit", "done", "unknown"}
        <4> SUFFICES ASSUME NEW i \in 1..last'
                     PROVE  /\ txns'[i].unit <= app'.unit
                            /\ txns'[i].state = "committed" => txns'[i].ops = txns'[i].size
                            /\ txns'[i].unit = app'.unit =>
                                 txns'[i].size = app'.size /\ txns'[i].state # "committed"
          OBVIOUS
        <4>1. CASE i = last'
          BY <1>1, <2>10, <2>11, <2>12, <4>1 DEF SameUnit, App
        <4>2. CASE i \in 1..last
          BY <2>10, <2>12, <3>1, <4>2 DEF TxnInv, Units, SameUnit
        <4> QED BY <2>10, <4>1, <4>2
      <3> QED BY <3>2, <3>3, <3>4 DEF Units
    <2>18. LastOne'
      BY <1>1, <2>8, <2>10, <2>11, <2>12 DEF TxnInv, LastOne, SameUnit, App
    <2> QED BY <2>13, <2>14, <2>15, <2>16, <2>17, <2>18 DEF TxnInv
  <1> QED BY <1>2, <1>3

\* What an operation that is sent to s does to the transactions.
Worked(s, u) ==
    /\ u \in Seq(Txn) /\ Len(u) = last
    /\ \A i \in 1..last :
         /\ u[i].unit = txns[i].unit /\ u[i].size = txns[i].size
         /\ u[i].asked = txns[i].asked /\ u[i].committed = txns[i].committed
         /\ u[i].sent = IF i = last THEN txns[i].sent \cup {s} ELSE txns[i].sent
         /\ i # last => u[i].ops = txns[i].ops
         /\ u[i].state = "committed" => txns[i].state = "committed"
         /\ i # last /\ txns[i].state = "committed" => u[i].state = "committed"

LEMMA WorkedFacts ==
    ASSUME txns \in Seq(Txn), last > 0, Current = last, NEW s \in Server
    PROVE  /\ Worked(s, Sent(s)) /\ Worked(s, Opened(Sent(s)))
           /\ Opened(Sent(s))[last].ops = txns[last].ops + 1
           /\ Worked(s, Aborted(Sent(s), Current))
           /\ Worked(s, Aborted(Opened(Sent(s)), Current))
  <1> DEFINE a == Sent(s)
             b == Opened(a)
             c == Aborted(a, Current)
             d == Aborted(b, Current)
  <1>1. \A i \in 1..last : txns[i] \in Txn
    BY ElementOfSeq DEF last
  <1>2. /\ a \in Seq(Txn) /\ Len(a) = last
        /\ \A i \in 1..last : a[i] = IF i = last
                                     THEN [txns[i] EXCEPT !.sent = txns[i].sent \cup {s}]
                                     ELSE txns[i]
    BY SentFacts DEF last
  <1>3. Len(a) > 0 /\ Current = Len(a) /\ Current \in 1..Len(a) /\ last \in 1..last
    BY <1>2, LenProperties DEF last
  <1> HIDE DEF a
  <1>4. /\ b \in Seq(Txn) /\ Len(b) = last
        /\ \A i \in 1..last :
             b[i] = IF i = last THEN [a[i] EXCEPT !.state = "open", !.ops = a[i].ops + 1]
                    ELSE IF a[i].state = "open" THEN [a[i] EXCEPT !.state = "aborted"] ELSE a[i]
    BY <1>2, <1>3, OpenedFacts
  <1>5. OnlyAborts(a, c)
    BY <1>2, <1>3, AbortedOne
  <1> HIDE DEF b
  <1>6. OnlyAborts(b, d)
    BY <1>2, <1>3, <1>4, AbortedOne
  <1> HIDE DEF c, d
  <1>7. Worked(s, a)
    <2> SUFFICES ASSUME NEW i \in 1..last
                 PROVE  /\ a[i].unit = txns[i].unit /\ a[i].size = txns[i].size
                        /\ a[i].asked = txns[i].asked /\ a[i].committed = txns[i].committed
                        /\ a[i].sent = IF i = last THEN txns[i].sent \cup {s} ELSE txns[i].sent
                        /\ a[i].ops = txns[i].ops /\ a[i].state = txns[i].state
      BY <1>2 DEF Worked
    <2>1. CASE i = last
      BY <1>1, <1>2, <2>1 DEF Txn
    <2>2. CASE i # last
      BY <1>2, <2>2
    <2> QED BY <2>1, <2>2
  <1>8. \A i \in 1..last : a[i] \in Txn
    BY <1>2, ElementOfSeq
  <1>9. Worked(s, b) /\ b[last].ops = txns[last].ops + 1
    <2>1. ASSUME NEW i \in 1..last
          PROVE  /\ b[i].unit = a[i].unit /\ b[i].size = a[i].size
                 /\ b[i].asked = a[i].asked /\ b[i].committed = a[i].committed
                 /\ b[i].sent = a[i].sent
                 /\ b[i].ops = IF i = last THEN a[i].ops + 1 ELSE a[i].ops
                 /\ b[i].state = "committed" => a[i].state = "committed"
                 /\ i # last /\ a[i].state = "committed" => b[i].state = "committed"
      <3>1. CASE i = last
        BY <1>4, <1>8, <3>1 DEF Txn
      <3>2. CASE i # last
        BY <1>4, <1>8, <3>2 DEF Txn
      <3> QED BY <3>1, <3>2
    <2>2. a[last].ops = txns[last].ops
      BY <1>1, <1>2, <1>3 DEF Txn
    <2>3. b[last].ops = txns[last].ops + 1
      BY <1>3, <2>1, <2>2
    <2>4. ASSUME NEW i \in 1..last
          PROVE  /\ b[i].unit = txns[i].unit /\ b[i].size = txns[i].size
                 /\ b[i].asked = txns[i].asked /\ b[i].committed = txns[i].committed
                 /\ b[i].sent = IF i = last THEN txns[i].sent \cup {s} ELSE txns[i].sent
                 /\ i # last => b[i].ops = txns[i].ops
                 /\ b[i].state = "committed" => txns[i].state = "committed"
                 /\ i # last /\ txns[i].state = "committed" => b[i].state = "committed"
      <3>1. /\ a[i].unit = txns[i].unit /\ a[i].size = txns[i].size
            /\ a[i].asked = txns[i].asked /\ a[i].committed = txns[i].committed
            /\ a[i].sent = IF i = last THEN txns[i].sent \cup {s} ELSE txns[i].sent
            /\ i # last => a[i].ops = txns[i].ops
            /\ a[i].state = "committed" => txns[i].state = "committed"
            /\ i # last /\ txns[i].state = "committed" => a[i].state = "committed"
        BY <1>7 DEF Worked
      <3>2. i # last => b[i].ops = a[i].ops
        BY <2>1
      <3> QED BY <2>1, <3>1, <3>2
    <2> QED BY <1>4, <2>3, <2>4 DEF Worked
  <1>10. Worked(s, c)
    BY <1>2, <1>5, <1>7 DEF Worked, OnlyAborts
  <1>11. Worked(s, d)
    <2>1. Worked(s, b) /\ Len(b) = last
      BY <1>4, <1>9
    <2> QED BY <1>6, <2>1 DEF Worked, OnlyAborts
  <1> QED BY <1>7, <1>9, <1>10, <1>11 DEF a, b, c, d

\* An operation is sent to the server that the session is pinned to, or is the
\* first one, and does not touch what other transactions did.
LEMMA RunInv ==
    ASSUME TxnInv, Live, app.phase = "work",
           NEW s \in SelectServer(client_session),
           NEW r \in {"ok", "unanswered", "lost", "conflict", "wrong"}, Run(s, r),
           advancing' = advancing, crashed' = crashed
    PROVE  TxnInv'
  <1> DEFINE cs == [client_session EXCEPT !.state = "in_progress", !.server = s]
  <1>1. /\ client_session \in Sess /\ txns \in Seq(Txn) /\ app \in App
        /\ last > 0 /\ last \in Nat /\ Current = last /\ last \in 1..last
        /\ client_session.state \in {"starting", "in_progress"}
    BY LenProperties DEF TxnInv, TypeOK, Agrees, Current, last
  <1>2. s \in Server
    BY <1>1 DEF SelectServer, Sess
  <1>3. s # NULL
    BY <1>2, ServerAssumption
  <1>4. \A t \in txns[last].sent : t = s
    <2>1. CASE client_session.state = "starting"
      BY <2>1 DEF TxnInv, Pinned
    <2>2. CASE client_session.state = "in_progress"
      <3>1. client_session.server # NULL /\ client_session.server \in txns[last].sent
        BY <2>2 DEF TxnInv, Pinned
      <3>2. s = client_session.server
        BY <3>1 DEF SelectServer
      <3> QED BY <1>1, <3>1, <3>2 DEF TxnInv, Pinned
    <2> QED BY <1>1, <2>1, <2>2
  <1>5. /\ cs \in Sess /\ cs.state = "in_progress" /\ cs.server = s
        /\ cs.txn = client_session.txn /\ cs.opts = client_session.opts
        /\ cs.defaults = client_session.defaults
    BY <1>1, <1>2, SessChanges DEF Sess
  <1> HIDE DEF cs
  <1>6. /\ Worked(s, txns')
        /\ app' \in App /\ app'.unit = app.unit /\ app'.size = app.size
        /\ \/ /\ client_session' = cs /\ app'.done = app.done + 1
              /\ txns'[last].ops = txns[last].ops + 1
              /\ app'.phase = IF app.done + 1 = app.size THEN "commit" ELSE "work"
           \/ /\ client_session' \in {cs, Unpinned(cs)} /\ app'.phase = "recover"
    <2>1. CASE r = "ok"
      <3>1. /\ txns' = Opened(Sent(s)) /\ client_session' = cs
            /\ app' = [app EXCEPT !.done = app.done + 1,
                                  !.phase = IF app.done + 1 = app.size THEN "commit" ELSE "work"]
        BY <2>1 DEF Run, cs
      <3> DEFINE next == IF app.done + 1 = app.size THEN "commit" ELSE "work"
      <3>2. next \in Phase /\ app.done + 1 \in Nat
        BY <1>1 DEF App, Phase
      <3> HIDE DEF next
      <3>3. /\ app' \in App /\ app'.unit = app.unit /\ app'.size = app.size
            /\ app'.done = app.done + 1
            /\ app'.phase = next
        BY <1>1, <3>1, <3>2 DEF App, next
      <3> QED BY <1>1, <1>2, <3>1, <3>3, WorkedFacts DEF next
    <2>2. CASE r = "unanswered"
      <3>1. /\ txns' = Opened(Sent(s)) /\ client_session' = Unpinned(cs)
            /\ \E e : Recovers(e)
        BY <2>2 DEF Run, cs
      <3> QED BY <1>1, <1>2, <3>1, WorkedFacts, RecoversFacts DEF SameUnit
    <2>3. CASE r = "lost"
      <3>1. txns' = Sent(s) /\ client_session' = Unpinned(cs) /\ \E e : Recovers(e)
        BY <2>3 DEF Run, cs
      <3> QED BY <1>1, <1>2, <3>1, WorkedFacts, RecoversFacts DEF SameUnit
    <2>4. CASE r = "conflict"
      <3>1. /\ txns' = Aborted(Sent(s), Current) /\ client_session' = Unpinned(cs)
            /\ \E e : Recovers(e)
        BY <2>4 DEF Run, cs
      <3> QED BY <1>1, <1>2, <3>1, WorkedFacts, RecoversFacts DEF SameUnit
    <2>5. CASE r = "wrong"
      <3>1. /\ txns' = Aborted(Opened(Sent(s)), Current) /\ client_session' = cs
            /\ \E e : Recovers(e)
        BY <2>5 DEF Run, cs
      <3> QED BY <1>1, <1>2, <3>1, WorkedFacts, RecoversFacts DEF SameUnit
    <2> QED BY <2>1, <2>2, <2>3, <2>4, <2>5
  <1>7. /\ client_session' \in Sess /\ client_session'.state = "in_progress"
        /\ client_session'.server \in {s, NULL} /\ client_session'.txn = client_session.txn
        /\ client_session'.opts = client_session.opts
        /\ client_session'.defaults = client_session.defaults
        /\ app'.phase # "recover" => client_session'.server = s
        /\ app'.phase \in {"recover", "commit", "work"}
    BY <1>2, <1>5, <1>6, SessChanges
  <1>8. /\ txns' \in Seq(Txn) /\ last' = last
        /\ \A i \in 1..last :
             /\ txns'[i].unit = txns[i].unit /\ txns'[i].size = txns[i].size
             /\ txns'[i].asked = txns[i].asked /\ txns'[i].committed = txns[i].committed
             /\ txns'[i].sent = IF i = last THEN txns[i].sent \cup {s} ELSE txns[i].sent
             /\ i # last => txns'[i].ops = txns[i].ops
             /\ txns'[i].state = "committed" => txns[i].state = "committed"
             /\ i # last /\ txns[i].state = "committed" => txns'[i].state = "committed"
    BY <1>6 DEF Worked, last
  <1>9. TypeOK'
    BY <1>6, <1>7, <1>8 DEF TxnInv, TypeOK
  <1>10. Agrees'
    BY <1>1, <1>7, <1>8 DEF TxnInv, Agrees
  <1>11. Pinned'
    <2>1. \A i \in 1..last : \A x, y \in txns'[i].sent : x = y
      <3> SUFFICES ASSUME NEW i \in 1..last, NEW x \in txns'[i].sent, NEW y \in txns'[i].sent
                   PROVE  x = y
        OBVIOUS
      <3>1. CASE i = last
        <4>1. x \in txns[last].sent \cup {s} /\ y \in txns[last].sent \cup {s}
          BY <1>8, <3>1
        <4> QED BY <1>4, <4>1
      <3>2. CASE i # last
        <4>1. x \in txns[i].sent /\ y \in txns[i].sent
          BY <1>8, <3>2
        <4> QED BY <4>1 DEF TxnInv, Pinned
      <3> QED BY <3>1, <3>2
    <2>2. s \in txns'[last].sent
      BY <1>1, <1>8
    <2> QED BY <1>1, <1>3, <1>7, <1>8, <2>1, <2>2 DEF Pinned
  <1>12. OptionsKept'
    BY <1>1, <1>7, <1>8 DEF TxnInv, OptionsKept
  <1>13. txns[last].state # "committed" /\ txns[last].unit = app.unit /\ txns[last].size = app.size
    BY <1>1 DEF TxnInv, LastOne, Units
  <1>14. txns'[last].state # "committed"
    BY <1>1, <1>8, <1>13
  <1>15. Units'
    <2>1. \A i \in 1..last' :
             /\ txns'[i].unit <= app'.unit
             /\ txns'[i].state = "committed" => txns'[i].ops = txns'[i].size
             /\ txns'[i].unit = app'.unit =>
                  txns'[i].size = app'.size /\ txns'[i].state # "committed"
      BY <1>6, <1>8, <1>14 DEF TxnInv, Units
    <2>2. \A i, j \in 1..last' :
             txns'[i].unit = txns'[j].unit /\ txns'[i].state = "committed"
               /\ txns'[j].state = "committed" => i = j
      <3> SUFFICES ASSUME NEW i \in 1..last, NEW j \in 1..last,
                          txns'[i].unit = txns'[j].unit, txns'[i].state = "committed",
                          txns'[j].state = "committed"
                   PROVE  i = j
        BY <1>8
      <3>1. /\ txns[i].unit = txns[j].unit /\ txns[i].state = "committed"
            /\ txns[j].state = "committed"
        BY <1>8
      <3> QED BY <3>1 DEF TxnInv, Units
    <2>3. ASSUME NEW u \in 1..(app'.unit - 1)
          PROVE  \E i \in 1..last' :
                   txns'[i].unit = u /\ (txns'[i].size > 0 => txns'[i].state = "committed")
      <3>1. PICK i \in 1..last :
                   txns[i].unit = u /\ (txns[i].size > 0 => txns[i].state = "committed")
        BY <1>6, <2>3 DEF TxnInv, Units
      <3>2. i # last
        BY <1>1, <1>6, <1>13, <3>1 DEF App
      <3> QED BY <1>8, <3>1, <3>2
    <2> QED BY <2>1, <2>2, <2>3 DEF Units
  <1>16. LastOne'
    <2>1. txns[last].ops = app.done /\ app.done < app.size /\ app.done \in Nat /\ app.size \in Nat
      BY <1>1 DEF TxnInv, LastOne, App
    <2>2. txns'[last].unit = app.unit
      BY <1>1, <1>8, <1>13
    <2> QED BY <1>1, <1>6, <1>7, <1>8, <1>14, <2>1, <2>2 DEF LastOne
  <1> QED BY <1>9, <1>10, <1>11, <1>12, <1>15, <1>16 DEF TxnInv

LEMMA ExecuteInv ==
    ASSUME TxnInv, ~crashed, NEW options, Execute(options)
    PROVE  TxnInv'
  <1>1. /\ app.phase = "work" /\ advancing' = advancing
        /\ advancing \in BOOLEAN /\ crashed \in BOOLEAN
    BY DEF Execute, TxnInv, TypeOK
  <1>2. CASE ~Live
    <2>1. crashed' = TRUE /\ UNCHANGED <<client_session, txns, app>>
      BY <1>2 DEF Execute
    <2>2. OnlyAborts(txns, txns')
      BY <2>1, Unaborted DEF TxnInv, TypeOK
    <2> QED BY <1>1, <2>1, <2>2, NothingStep
  <1>3. CASE Live
    <2>1. crashed' = crashed
      BY <1>3 DEF Execute
    <2>2. \/ \E s \in SelectServer(client_session),
                r \in {"ok", "unanswered", "lost", "conflict", "wrong"} : Run(s, r)
          \/ (\E e : Recovers(e)) /\ UNCHANGED <<client_session, txns>>
      BY <1>3, Zenon DEF Execute
    <2>3. CASE (\E e : Recovers(e)) /\ UNCHANGED <<client_session, txns>>
      BY <1>1, <2>1, <2>3, RecoversInv
    <2>4. ASSUME NEW s \in SelectServer(client_session),
                 NEW r \in {"ok", "unanswered", "lost", "conflict", "wrong"}, Run(s, r)
          PROVE  TxnInv'
      BY <1>1, <1>3, <2>1, <2>4, RunInv
    <2> QED BY <2>2, <2>3, <2>4
  <1> QED BY <1>2, <1>3

\* What a commit that reaches libmongoc does to the transactions.
CommitTried(u) ==
    /\ u \in Seq(Txn) /\ Len(u) = last
    /\ \A i \in 1..last :
         /\ i # last => u[i] = txns[i]
         /\ u[i].unit = txns[i].unit /\ u[i].size = txns[i].size /\ u[i].ops = txns[i].ops
         /\ u[i].asked = txns[i].asked /\ u[i].sent = txns[i].sent
         /\ u[i].committed \in {txns[i].committed, client_session.opts}
         /\ txns[i].state = "committed" => u[i].state = "committed"

LEMMA CommitTriedFacts ==
    ASSUME txns \in Seq(Txn), last > 0, Current = last, client_session \in Sess
    PROVE  /\ CommitTried(Committing(txns))
           /\ Committing(txns)[last].state = txns[last].state
           /\ CommitTried(Committed(Committing(txns)))
           /\ Committed(Committing(txns))[last].state = "committed"
  <1> DEFINE a == Committing(txns)
             b == Committed(a)
  <1>1. /\ \A i \in 1..last : txns[i] \in Txn
        /\ last \in 1..last
    BY ElementOfSeq, LenProperties DEF last
  <1>2. /\ a \in Seq(Txn) /\ Len(a) = last
        /\ \A i \in 1..last :
             a[i] = IF i = last /\ client_session.state # "committed"
                      THEN [txns[i] EXCEPT !.committed = client_session.opts] ELSE txns[i]
    BY CommittingFacts DEF last
  <1> HIDE DEF a
  <1>3. /\ b \in Seq(Txn) /\ Len(b) = last
        /\ \A i \in 1..last :
             b[i] = IF i = last THEN [a[i] EXCEPT !.state = "committed"] ELSE a[i]
    BY <1>2, CommittedFacts DEF last
  <1> HIDE DEF b
  <1>4. \A i \in 1..last : a[i] \in Txn
    BY <1>2, ElementOfSeq
  <1>5. ASSUME NEW i \in 1..last
        PROVE  /\ i # last => a[i] = txns[i]
               /\ a[i].unit = txns[i].unit /\ a[i].size = txns[i].size /\ a[i].ops = txns[i].ops
               /\ a[i].asked = txns[i].asked /\ a[i].sent = txns[i].sent
               /\ a[i].committed \in {txns[i].committed, client_session.opts}
               /\ a[i].state = txns[i].state
    <2>1. CASE i = last /\ client_session.state # "committed"
      BY <1>1, <1>2, <2>1 DEF Txn
    <2>2. CASE ~(i = last /\ client_session.state # "committed")
      BY <1>2, <2>2
    <2> QED BY <2>1, <2>2
  <1>6. ASSUME NEW i \in 1..last
        PROVE  /\ i # last => b[i] = a[i]
               /\ b[i].unit = a[i].unit /\ b[i].size = a[i].size /\ b[i].ops = a[i].ops
               /\ b[i].asked = a[i].asked /\ b[i].sent = a[i].sent
               /\ b[i].committed = a[i].committed
               /\ i = last => b[i].state = "committed"
    <2>1. CASE i = last
      BY <1>3, <1>4, <2>1 DEF Txn
    <2>2. CASE i # last
      BY <1>3, <2>2
    <2> QED BY <2>1, <2>2
  <1>7. CommitTried(a) /\ a[last].state = txns[last].state
    BY <1>1, <1>2, <1>5 DEF CommitTried
  <1>8. CommitTried(b) /\ b[last].state = "committed"
    <2>1. ASSUME NEW i \in 1..last
          PROVE  /\ i # last => b[i] = txns[i]
                 /\ b[i].unit = txns[i].unit /\ b[i].size = txns[i].size
                 /\ b[i].ops = txns[i].ops
                 /\ b[i].asked = txns[i].asked /\ b[i].sent = txns[i].sent
                 /\ b[i].committed \in {txns[i].committed, client_session.opts}
                 /\ txns[i].state = "committed" => b[i].state = "committed"
      BY <1>5, <1>6
    <2> QED BY <1>1, <1>3, <1>6, <2>1 DEF CommitTried
  <1> QED BY <1>7, <1>8 DEF a, b

\* A commit makes the last transaction the unit's only effect, or the
\* application knows that it may have: without the label for an unknown result
\* there is no effect.
LEMMA MongocCommitInv ==
    ASSUME TxnInv, Live, app.phase = "commit",
           client_session.state \in {"in_progress", "committed"},
           NEW r \in {"ok", "unanswered", "lost", "concern", "gone"}, MongocCommit(r),
           advancing' = advancing, crashed' = crashed
    PROVE  TxnInv'
  <1> DEFINE cs == [client_session EXCEPT !.state = "committed"]
  <1>1. /\ client_session \in Sess /\ txns \in Seq(Txn) /\ app \in App
        /\ last > 0 /\ last \in Nat /\ Current = last /\ last \in 1..last
    BY LenProperties DEF TxnInv, TypeOK, Agrees, Current, last
  <1>2. /\ cs \in Sess /\ cs.state = "committed" /\ cs.server = client_session.server
        /\ cs.txn = client_session.txn /\ cs.opts = client_session.opts
        /\ cs.defaults = client_session.defaults
    BY <1>1, SessChanges DEF Sess
  <1> HIDE DEF cs
  <1>3. /\ CommitTried(txns') /\ client_session' \in {cs, Unpinned(cs)}
        /\ app' \in App /\ app'.unit = app.unit /\ app'.size = app.size /\ app'.done = app.done
        /\ \/ app'.phase = "done" /\ txns'[last].state = "committed"
           \/ app'.phase \in {"commit", "unknown"} /\ app'.ambiguous
           \/ app'.phase \in {"again", "failed", "unknown"} /\ txns'[last].state # "committed"
    <2>1. CASE r = "ok"
      <3>1. txns' = Committed(Committing(txns)) /\ client_session' = cs /\ Goes("done")
        BY <2>1 DEF MongocCommit, cs
      <3>2. SameUnit /\ app'.phase = "done"
        BY <1>1, <3>1, GoesFacts DEF Phase
      <3> QED BY <1>1, <3>1, <3>2, CommitTriedFacts DEF SameUnit
    <2>2. CASE r \in {"unanswered", "lost"}
      <3>1. /\ txns' \in {Committed(Committing(txns)), Committing(txns)}
            /\ client_session' = Unpinned(cs)
            /\ CommitFailed(Exception("stream", Reply({Unknown}, {})))
        BY <2>2 DEF MongocCommit, cs
      <3> QED BY <1>1, <3>1, CommitTriedFacts, CommitFailedFacts, Labels
    <2>3. CASE r = "concern"
      <3>1. /\ txns' = Committed(Committing(txns)) /\ client_session' = Unpinned(cs)
            /\ \/ CommitFailed(Exception("write_concern", Reply({Unknown}, {})))
               \/ CommitFailed(Exception("write_concern", Reply({}, {Unknown})))
        BY <2>3 DEF MongocCommit, cs
      <3> QED BY <1>1, <3>1, CommitTriedFacts, CommitFailedFacts, Labels
    <2>4. CASE r = "gone"
      <3>1. /\ txns' = Committing(txns) /\ client_session' = Unpinned(cs)
            /\ txns[Current].state # "committed"
            /\ CommitFailed(Exception("server", Reply({Transient}, {})))
        BY <2>4 DEF MongocCommit, cs
      <3> QED BY <1>1, <3>1, CommitTriedFacts, CommitFailedFacts, Labels
    <2> QED BY <2>1, <2>2, <2>3, <2>4
  <1>4. /\ client_session' \in Sess /\ client_session'.state = "committed"
        /\ client_session'.server \in {client_session.server, NULL}
        /\ client_session'.txn = client_session.txn
        /\ client_session'.opts = client_session.opts
        /\ client_session'.defaults = client_session.defaults
    BY <1>2, <1>3, SessChanges
  <1>5. /\ txns' \in Seq(Txn) /\ last' = last
        /\ \A i \in 1..last :
             /\ i # last => txns'[i] = txns[i]
             /\ txns'[i].unit = txns[i].unit /\ txns'[i].size = txns[i].size
             /\ txns'[i].ops = txns[i].ops
             /\ txns'[i].asked = txns[i].asked /\ txns'[i].sent = txns[i].sent
             /\ txns'[i].committed \in {txns[i].committed, client_session.opts}
             /\ txns[i].state = "committed" => txns'[i].state = "committed"
    BY <1>3 DEF CommitTried, last
  <1>6. TypeOK'
    BY <1>3, <1>4, <1>5 DEF TxnInv, TypeOK
  <1>7. Agrees'
    BY <1>1, <1>3, <1>4, <1>5 DEF TxnInv, Agrees
  <1>8. Pinned'
    BY <1>1, <1>3, <1>4, <1>5 DEF TxnInv, Pinned
  <1>9. OptionsKept'
    <2>1. client_session.opts = Over(txns[last].asked, ClientOpts)
      BY <1>1 DEF TxnInv, OptionsKept
    <2>2. ASSUME NEW i \in 1..last, txns'[i].committed # NULL
          PROVE  txns'[i].committed = Over(txns[i].asked, ClientOpts)
      BY <1>5, <2>1, <2>2 DEF TxnInv, OptionsKept
    <2> QED BY <1>1, <1>4, <1>5, <2>1, <2>2 DEF TxnInv, OptionsKept
  <1>10. /\ txns[last].unit = app.unit /\ txns[last].size = app.size
         /\ txns[last].ops = app.size
    BY <1>1 DEF TxnInv, LastOne, Units
  <1>11. ASSUME NEW i \in 1..last, i # last
         PROVE  /\ txns'[i] = txns[i]
                /\ txns[i].unit = app.unit => txns[i].state # "committed"
    BY <1>5, <1>11 DEF TxnInv, Units
  <1>12. Units'
    <2>1. ASSUME NEW i \in 1..last
          PROVE  /\ txns'[i].unit <= app'.unit
                 /\ txns'[i].state = "committed" => txns'[i].ops = txns'[i].size
                 /\ txns'[i].unit = app'.unit =>
                      /\ txns'[i].size = app'.size
                      /\ txns'[i].state = "committed" =>
                           i = last' /\ app'.phase \in {"commit", "done", "unknown"}
      <3>1. CASE i = last
        BY <1>1, <1>3, <1>5, <1>10, <3>1 DEF App
      <3>2. CASE i # last
        BY <1>3, <1>11, <3>2 DEF TxnInv, Units
      <3> QED BY <3>1, <3>2
    <2>2. ASSUME NEW i \in 1..last, NEW j \in 1..last,
                 txns'[i].unit = txns'[j].unit, txns'[i].state = "committed",
                 txns'[j].state = "committed"
          PROVE  i = j
      BY <1>5, <1>10, <1>11, <2>2 DEF TxnInv, Units
    <2>3. ASSUME NEW u \in 1..(app'.unit - 1)
          PROVE  \E i \in 1..last' :
                   txns'[i].unit = u /\ (txns'[i].size > 0 => txns'[i].state = "committed")
      BY <1>3, <1>5, <2>3 DEF TxnInv, Units
    <2> QED BY <1>5, <2>1, <2>2, <2>3 DEF Units
  <1>13. LastOne'
    BY <1>1, <1>3, <1>4, <1>5, <1>10 DEF LastOne
  <1> QED BY <1>6, <1>7, <1>8, <1>9, <1>12, <1>13 DEF TxnInv

LEMMA CommitTransactionInv ==
    ASSUME TxnInv, CommitTransaction
    PROVE  TxnInv'
  <1>1. /\ app.phase = "commit" /\ advancing' = advancing /\ crashed' = crashed
        /\ app \in App /\ txns \in Seq(Txn) /\ last > 0 /\ last \in 1..last
        /\ txns[last].unit = app.unit
    BY LenProperties DEF CommitTransaction, TxnInv, TypeOK, Agrees, LastOne, last
  <1>2. CASE ~Live
    <2>1. /\ CommitFailed(Exception("logic", NULL))
          /\ client_session' = client_session /\ txns' = txns
      BY <1>2 DEF CommitTransaction
    <2>2. /\ app' \in App /\ app'.unit = app.unit /\ app'.size = app.size
          /\ app'.phase = IF app.ambiguous THEN "unknown" ELSE "failed"
      BY <1>1, <2>1, CommitFailedFacts, Labels
    <2>3. ~Live' /\ last' = last
      BY <1>2, <2>1 DEF Live, last
    <2>4. ~app.ambiguous =>
            \A i \in 1..last : txns[i].unit = app.unit => txns[i].state # "committed"
      BY <1>1 DEF TxnInv, LastOne, Units
    <2> QED BY <1>1, <2>1, <2>2, <2>3, <2>4
            DEF TxnInv, TypeOK, Agrees, Pinned, OptionsKept, Units, LastOne
  <1>3. CASE Live
    <2>1. client_session \in Sess /\ client_session.state \notin {"none", "aborted"}
      BY <1>1, <1>3 DEF TxnInv, TypeOK, Agrees
    <2>2. CASE client_session.state = "starting"
      <3>1. /\ client_session' = [client_session EXCEPT !.state = "committed"]
            /\ Goes("done") /\ txns' = txns
        BY <1>3, <2>2 DEF CommitTransaction
      <3>2. SameUnit /\ app'.phase = "done"
        BY <1>1, <3>1, GoesFacts DEF Phase
      <3>3. /\ client_session' \in Sess /\ client_session'.state = "committed"
            /\ client_session'.server = client_session.server
            /\ client_session'.txn = client_session.txn
            /\ client_session'.opts = client_session.opts
            /\ client_session'.defaults = client_session.defaults
        BY <2>1, <3>1, SessChanges DEF Sess
      <3>4. app.size = 0 /\ last' = last
        BY <1>1, <1>3, <2>2, <3>1 DEF TxnInv, LastOne, last
      <3>5. TypeOK' /\ Agrees'
        BY <1>1, <1>3, <3>1, <3>2, <3>3, <3>4 DEF TxnInv, TypeOK, Agrees, SameUnit
      <3>6. Pinned' /\ OptionsKept'
        BY <1>1, <1>3, <3>1, <3>2, <3>3, <3>4 DEF TxnInv, Pinned, OptionsKept
      <3>7. Units' /\ LastOne'
        BY <1>1, <3>1, <3>2, <3>3, <3>4 DEF TxnInv, Units, LastOne, SameUnit
      <3> QED BY <3>5, <3>6, <3>7 DEF TxnInv
    <2>3. CASE client_session.state \in {"in_progress", "committed"}
      <3>1. \E r \in {"ok", "unanswered", "lost", "concern", "gone"} : MongocCommit(r)
        BY <1>3, <2>3 DEF CommitTransaction
      <3> QED BY <1>1, <1>3, <2>3, <3>1, MongocCommitInv
    <2> QED BY <2>1, <2>2, <2>3 DEF Sess
  <1> QED BY <1>2, <1>3

-------------------------------------------------------------------------------
(* Theorems *)

\* TxnInv holds of every behaviour of the sessions, servers and applications.
THEOREM Invariant == Spec => []TxnInv
  <1>1. TxnInv /\ [Next]_vars => TxnInv'
    <2> SUFFICES ASSUME TxnInv, [Next]_vars
                 PROVE  TxnInv'
      OBVIOUS
    <2>1. CASE UNCHANGED vars
      BY <2>1 DEF vars, TxnInv, TypeOK, Agrees, Pinned, OptionsKept, Units, LastOne, last, Live
    <2>2. ASSUME NEW o \in SessionOptions, StartSession(o)
          PROVE  TxnInv'
      BY <2>2, StartSessionInv
    <2>3. ASSUME NEW o \in StartOptions, StartTransaction(o)
          PROVE  TxnInv'
      BY <2>3, StartTransactionInv
    <2>4. ASSUME ~crashed, NEW o, Execute(o)
          PROVE  TxnInv'
      BY <2>4, ExecuteInv
    <2>5. CASE CommitTransaction
      BY <2>5, CommitTransactionInv
    <2>6. ASSUME NEW arrives \in BOOLEAN, AbortTransaction(arrives) \/ EndSession(arrives)
          PROVE  TxnInv'
      BY <2>6, AbortTransactionInv, EndSessionInv
    <2>7. CASE RunAgain \/ \E size \in Sizes : NextUnit(size)
      BY <2>7, NewUnitInv
    <2>8. CASE Advance \/ \E thrown \in BOOLEAN : Advanced(thrown)
      BY <2>8, AdvanceInv
    <2>9. ASSUME NEW i \in DOMAIN txns, ServerAborts(i)
          PROVE  TxnInv'
      BY <2>9, ServerAbortsInv
    <2> QED BY <2>1, <2>2, <2>3, <2>4, <2>5, <2>6, <2>7, <2>8, <2>9 DEF Next
  <1> QED BY InitInv, <1>1, PTL DEF Spec

\* All operations of a transaction are sent to one mongos, whatever becomes of
\* requests and replies: php_phongo_manager_select_server asks the session first,
\* and what unpins the session ends the work in it.
THEOREM OperationsGoToOneServer == Spec => []OneServer
  <1>1. TxnInv => OneServer
    <2> SUFFICES ASSUME TxnInv
                 PROVE  OneServer
      OBVIOUS
    <2>1. DOMAIN txns = 1..last
      BY LenProperties DEF TxnInv, TypeOK, last
    <2>2. \A i \in DOMAIN txns : Cardinality(txns[i].sent) <= 1
      BY <2>1, AtMostOne DEF TxnInv, Pinned
    <2>3. Live /\ client_session.server # NULL => client_session.server \in txns[Current].sent
      BY DEF TxnInv, Pinned, Agrees, Current
    <2> QED BY <2>2, <2>3 DEF OneServer
  <1> QED BY <1>1, Invariant, PTL

\* A transaction has valid options only, and is committed with those its
\* startTransaction() was given, else the session's, else the client's; they are
\* what getTransactionOptions() reports
\* (php_mongodb_session_parse_transaction_options).
THEOREM OptionsAreCommittedAsAsked == Spec => []CommittedAsAsked
  <1>1. TxnInv => CommittedAsAsked
    <2> SUFFICES ASSUME TxnInv, NEW i \in DOMAIN txns
                 PROVE  LET asked == Over(txns[i].asked, ClientOpts)
                        IN /\ \A k \in DOMAIN asked : ValidOption(k, asked[k])
                           /\ asked.writeConcern # "unacknowledged"
                           /\ txns[i].committed # NULL => txns[i].committed = asked
                           /\ Live /\ i = Current /\ TransactionOptions(client_session) # NULL =>
                                TransactionOptions(client_session) =
                                  [k \in {k \in DOMAIN asked : ~IsDefault(k, asked[k])} |-> asked[k]]
      BY DEF CommittedAsAsked
    <2> DEFINE asked == Over(txns[i].asked, ClientOpts)
    <2>1. i \in 1..last
      BY LenProperties DEF TxnInv, TypeOK, last
    <2>2. /\ AllValid(asked) /\ asked.writeConcern # "unacknowledged"
          /\ txns[i].committed # NULL => txns[i].committed = asked
      BY <2>1 DEF TxnInv, OptionsKept
    <2>3. Live /\ i = Current => client_session.opts = asked
      BY <2>1 DEF TxnInv, OptionsKept, Agrees, Current
    <2> HIDE DEF asked
    <2>4. Live /\ i = Current /\ TransactionOptions(client_session) # NULL =>
            TransactionOptions(client_session) =
              [k \in {k \in DOMAIN asked : ~IsDefault(k, asked[k])} |-> asked[k]]
      BY <2>3, Zenon DEF TransactionOptions
    <2> QED BY <2>2, <2>4 DEF AllValid, asked
  <1> QED BY <1>1, Invariant, PTL

\* A unit of work that the application runs again and commits again as
\* hasErrorLabel() tells it to has its effects whole and at most once, and has
\* them exactly if it is said to be done, for any number of lost requests and
\* replies, aborts by servers and retries.
THEOREM EffectsHappenOnce == Spec => []EffectsOnce
  <1>1. TxnInv => EffectsOnce
    <2> SUFFICES ASSUME TxnInv, NEW u \in 1..MaxUnits
                 PROVE  LET effects == {i \in DOMAIN txns : txns[i].unit = u
                                                             /\ txns[i].state = "committed"}
                        IN /\ Cardinality(effects) <= 1
                           /\ \A i \in effects : txns[i].ops = txns[i].size
                           /\ u = app.unit /\ app.phase = "failed" => effects = {}
                           /\ u = app.unit /\ app.phase = "done" /\ app.size > 0 => effects # {}
                           /\ u < app.unit => \E i \in DOMAIN txns : txns[i].unit = u /\
                                                (txns[i].size > 0 => i \in effects)
      BY DEF EffectsOnce
    <2> DEFINE effects == {i \in DOMAIN txns : txns[i].unit = u /\ txns[i].state = "committed"}
    <2>1. DOMAIN txns = 1..last /\ last \in Nat /\ app \in App
      BY LenProperties DEF TxnInv, TypeOK, last
    <2>2. \A i, j \in effects : i = j
      BY <2>1 DEF TxnInv, Units
    <2>3. Cardinality(effects) <= 1
      BY <2>2, AtMostOne
    <2>4. \A i \in effects : txns[i].ops = txns[i].size
      BY <2>1 DEF TxnInv, Units
    <2>5. u = app.unit /\ app.phase = "failed" => effects = {}
      BY <2>1 DEF TxnInv, Units
    <2>6. u = app.unit /\ app.phase = "done" /\ app.size > 0 => last \in effects
      BY <2>1 DEF TxnInv, LastOne
    <2>7. u < app.unit => \E i \in DOMAIN txns : txns[i].unit = u /\
                                                (txns[i].size > 0 => i \in effects)
      <3>1. u < app.unit => u \in 1..(app.unit - 1)
        BY <2>1 DEF App
      <3> QED BY <2>1, <3>1 DEF TxnInv, Units
    <2> QED BY <2>3, <2>4, <2>5, <2>6, <2>7
  <1> QED BY <1>1, Invariant, PTL

================================================================================
