--------------------------- MODULE BulkWrite_proofs ---------------------------
(***************************************************************************)
(* Proofs about BulkWrite: for any number of BulkWrites, Managers and      *)
(* Sessions, any depth of nesting and any use that callbacks make of the   *)
(* BulkWrites being executed, no BulkWrite is sent twice but by executions *)
(* within one another, and all others are sent as their calls asked for.   *)
(***************************************************************************)
EXTENDS BulkWrite, TLAPS

\* Of the executions of a BulkWrite in progress one is not nested, and until it
\* is finished no command but of nested ones was sent.  All have operations.
Stacked ==
    /\ \A i, j \in 1..Len(stack) :
          /\ stack[i].bulk = stack[j].bulk
          /\ ~stack[i].nested /\ ~stack[j].nested
          => i = j
    /\ \A i \in 1..Len(stack), k \in 1..Len(log) :
          /\ ~stack[i].nested /\ ~stack[i].finished
          /\ log[k].bulk = stack[i].bulk
          => log[k].nested
    /\ \A i \in 1..Len(stack) : bulk[stack[i].bulk].numOps > 0

\* The call of an execution in progress passed the checks, and libmongoc's bulk
\* operation has been told what the call asked for.
Asked(op, r) ==
    /\ op = [mgr |-> r.mgr, ns |-> r.ns, session |-> r.session, wc |-> r.wc]
    /\ ~Foreign(r) /\ ~Conflict(r)

Told ==
    \A i \in 1..Len(stack) :
       ~stack[i].shared => Asked(bulk[stack[i].bulk].op, stack[i].request)

\* Rejected calls leave no Session and no write concern behind.
Untold ==
    \A b \in Bulk : ~bulk[b].executed /\ ~Executing(b)
                    => bulk[b].op.session = NULL /\ bulk[b].op.wc = NULL

\* What has been sent is executed, or its execution has only to finish.
LoggedOne(k) ==
    \/ log[k].nested
    \/ bulk[log[k].bulk].executed
    \/ \E i \in 1..Len(stack) : /\ stack[i].bulk = log[k].bulk
                                /\ ~stack[i].nested /\ stack[i].finished

Logged == \A k \in 1..Len(log) : LoggedOne(k)

LogAsked ==
    \A k \in 1..Len(log) : ~log[k].shared => Asked(log[k].op, log[k].request)

OnceInv ==
    /\ TypeOK /\ Stacked /\ Told /\ Untold
    /\ Logged /\ LogAsked /\ ExecutedOnce

USE BoundsAssumption, NullAssumption, SessionAssumption, ConcernAssumption,
    RequestsAssumption

-------------------------------------------------------------------------------
(* Lemmas about records and the stack *)

\* What the steps of an execution make of a BulkWrite is a BulkWrite.
LEMMA RecordTypes ==
    ASSUME NEW x \in BulkRec, NEW r \in Request
    PROVE  /\ Parsed(x, r) \in BulkRec
           /\ Parsed(x, r).executed = x.executed
           /\ Parsed(x, r).op = x.op
           /\ Parsed(x, r).numOps = x.numOps
           /\ Prepared(Parsed(x, r), r).numOps = x.numOps
           /\ [x EXCEPT !.executed = TRUE].numOps = x.numOps
           /\ x.numOps \in Nat
           /\ Prepared(Parsed(x, r), r) \in BulkRec
           /\ Prepared(Parsed(x, r), r).executed = x.executed
           /\ [x EXCEPT !.executed = TRUE] \in BulkRec
           /\ [x EXCEPT !.executed = TRUE].executed
           /\ [x EXCEPT !.executed = TRUE].op = x.op
  <1>1. /\ r.ns \in NS \cup {NULL} /\ r.mgr \in Mgr
        /\ r.session \in Session \cup {NULL} /\ r.wc \in Concern \cup {NULL}
    BY DEF Request
  <1>2. /\ Parsed(x, r) \in BulkRec
        /\ Parsed(x, r).executed = x.executed
        /\ Parsed(x, r).op = x.op
        /\ Parsed(x, r).numOps = x.numOps
    BY <1>1 DEF Parsed, BulkRec
  <1>3. ASSUME NEW y \in BulkRec
        PROVE  /\ Prepared(y, r) \in BulkRec
               /\ Prepared(y, r).executed = y.executed
               /\ Prepared(y, r).numOps = y.numOps
    <2>1. y.op \in Op /\ y.session \in Session \cup {NULL} /\ y.ns \in NS \cup {NULL}
      BY DEF BulkRec
    <2>2. y.op.session \in Session \cup {NULL} /\ y.op.wc \in Concern \cup {NULL}
      BY <2>1 DEF Op
    <2> DEFINE o == [mgr |-> r.mgr, ns |-> y.ns,
                     session |-> IF r.session # NULL THEN r.session ELSE y.op.session,
                     wc |-> IF r.wc # NULL THEN r.wc ELSE y.op.wc]
               h == IF r.session # NULL THEN r.session ELSE y.session
    <2>3. o \in Op
      BY <1>1, <2>1, <2>2 DEF Op
    <2>4. h \in Session \cup {NULL}
      BY <1>1, <2>1
    <2>5. Prepared(y, r) = [y EXCEPT !.session = h, !.op = o]
      BY DEF Prepared, BulkRec
    <2> HIDE DEF o, h
    <2> QED BY <2>3, <2>4, <2>5 DEF BulkRec
  <1>4. /\ [x EXCEPT !.executed = TRUE] \in BulkRec
        /\ [x EXCEPT !.executed = TRUE].numOps = x.numOps
        /\ [x EXCEPT !.executed = TRUE].executed
        /\ [x EXCEPT !.executed = TRUE].op = x.op
    BY DEF BulkRec
  <1>5. x.numOps \in Nat
    <2>1. x.numOps \in 0..MaxOps
      BY DEF BulkRec
    <2> QED BY <2>1
  <1>6. /\ Prepared(Parsed(x, r), r) \in BulkRec
        /\ Prepared(Parsed(x, r), r).executed = Parsed(x, r).executed
        /\ Prepared(Parsed(x, r), r).numOps = Parsed(x, r).numOps
    BY <1>2, <1>3
  <1> QED BY <1>2, <1>4, <1>5, <1>6

\* A bulk operation that has no Session and no write concern yet is told what
\* the call asks for.
LEMMA PreparedAsks ==
    ASSUME NEW x \in BulkRec, NEW r \in Request,
           x.op.session = NULL, x.op.wc = NULL, ~Foreign(r), ~Conflict(r)
    PROVE  Asked(Prepared(Parsed(x, r), r).op, r)
  <1>1. Parsed(x, r) \in BulkRec /\ Parsed(x, r).op = x.op /\ Parsed(x, r).ns = r.ns
    BY RecordTypes DEF Parsed, BulkRec
  <1>2. ASSUME NEW y \in BulkRec, y.op.session = NULL, y.op.wc = NULL
        PROVE  Prepared(y, r).op = [mgr |-> r.mgr, ns |-> y.ns,
                                    session |-> r.session, wc |-> r.wc]
    BY <1>2 DEF Prepared, BulkRec
  <1> QED BY <1>1, <1>2 DEF Asked

\* The stack and its top.
LEMMA TopFacts ==
    ASSUME TypeOK, stack # <<>>
    PROVE  /\ Len(stack) \in Nat \ {0}
           /\ Top = stack[Len(stack)]
           /\ Top \in Frame /\ Top.bulk \in Bulk /\ Top.request \in Request
  <1>1. Len(stack) \in Nat \ {0}
    BY DEF TypeOK
  <1>2. stack[Len(stack)] \in Frame
    BY <1>1 DEF TypeOK
  <1> QED BY <1>1, <1>2 DEF Top, Frame

\* The executions in progress, and what was sent, are of this model's objects.
LEMMA Members ==
    ASSUME TypeOK
    PROVE  /\ Len(stack) \in Nat /\ Len(log) \in Nat
           /\ \A i \in 1..Len(stack) : /\ stack[i] \in Frame /\ stack[i].bulk \in Bulk
                                      /\ stack[i].request \in Request
           /\ \A k \in 1..Len(log) : /\ log[k] \in Entry /\ log[k].bulk \in Bulk
                                    /\ log[k].request \in Request
  <1>1. \A i \in 1..Len(stack) : stack[i] \in Frame
    BY DEF TypeOK
  <1>2. \A k \in 1..Len(log) : log[k] \in Entry
    BY DEF TypeOK
  <1>3. \A f \in Frame : f.bulk \in Bulk /\ f.request \in Request
    BY DEF Frame
  <1>4. \A f \in Entry : f.bulk \in Bulk /\ f.request \in Request
    BY DEF Entry
  <1>5. Len(stack) \in Nat /\ Len(log) \in Nat
    BY DEF TypeOK
  <1> QED BY <1>1, <1>2, <1>3, <1>4, <1>5

\* A new exception is a chain of one.
LEMMA ThrownType ==
    ASSUME NEW c \in {"User", "InvalidArgument", "Connection", "BulkWrite"}
    PROVE  Thrown(c) \in Exception /\ <<Thrown(c)>> \in Seq(Exception)
  <1>1. Thrown(c) \in Exception
    BY DEF Thrown, Exception
  <1> QED BY <1>1

LEMMA WithTopFacts ==
    ASSUME TypeOK, stack # <<>>, NEW f \in Frame
    PROVE  /\ WithTop(f) \in Seq(Frame) /\ Len(WithTop(f)) = Len(stack)
           /\ \A i \in 1..Len(stack) :
                 WithTop(f)[i] = IF i = Len(stack) THEN f ELSE stack[i]
  BY DEF TypeOK, WithTop

\* The executions in progress when another one of a BulkWrite begins.
LEMMA SharedFacts ==
    ASSUME TypeOK, NEW b \in Bulk
    PROVE  /\ Shared(b) \in Seq(Frame) /\ Len(Shared(b)) = Len(stack)
           /\ \A i \in 1..Len(stack) :
                 /\ Shared(b)[i].bulk = stack[i].bulk
                 /\ Shared(b)[i].request = stack[i].request
                 /\ Shared(b)[i].finished = stack[i].finished
                 /\ Shared(b)[i].nested = stack[i].nested
                 /\ ~Shared(b)[i].shared => ~stack[i].shared /\ stack[i].bulk # b
  <1> DEFINE f(i) == [stack[i] EXCEPT !.shared = @ \/ stack[i].bulk = b]
  <1>1. Len(stack) \in Nat /\ \A i \in 1..Len(stack) : stack[i] \in Frame
    BY DEF TypeOK
  <1>2. \A x \in Frame : \A v \in BOOLEAN :
           LET y == [x EXCEPT !.shared = v]
           IN  /\ y \in Frame /\ y.bulk = x.bulk /\ y.request = x.request
               /\ y.finished = x.finished /\ y.nested = x.nested /\ y.shared = v
    BY DEF Frame
  <1>3. ASSUME NEW i \in 1..Len(stack)
        PROVE  /\ f(i) \in Frame /\ f(i).bulk = stack[i].bulk
               /\ f(i).request = stack[i].request
               /\ f(i).finished = stack[i].finished /\ f(i).nested = stack[i].nested
               /\ ~f(i).shared => ~stack[i].shared /\ stack[i].bulk # b
    <2> DEFINE v == stack[i].shared \/ stack[i].bulk = b
    <2>1. f(i) = [stack[i] EXCEPT !.shared = v] /\ v \in BOOLEAN
      BY <1>1 DEF Frame
    <2> QED BY <1>1, <1>2, <2>1
  <1>4. Shared(b) = [i \in 1..Len(stack) |-> f(i)]
    BY DEF Shared
  <1> HIDE DEF f
  <1> QED BY <1>1, <1>3, <1>4

LEMMA BelowFacts ==
    ASSUME TypeOK, stack # <<>>
    PROVE  /\ Below \in Seq(Frame) /\ Len(Below) = Len(stack) - 1
           /\ \A i \in 1..(Len(stack) - 1) : Below[i] = stack[i]
  <1>1. Len(stack) \in Nat \ {0} /\ stack \in Seq(Frame)
    BY DEF TypeOK
  <1>2. \A i \in 1..Len(stack) : stack[i] \in Frame
    BY <1>1
  <1>3. Below = [i \in 1..(Len(stack) - 1) |-> stack[i]]
    BY <1>1, <1>2 DEF Below
  <1> QED BY <1>1, <1>2, <1>3
-------------------------------------------------------------------------------
(* Every step preserves the invariant *)

\* Every step keeps the types, whatever callbacks do.
LEMMA TypeStep ==
    ASSUME TypeOK, [Next]_vars
    PROVE  TypeOK'
  <1>1. bulk \in [Bulk -> BulkRec] /\ stack \in Seq(Frame) /\ log \in Seq(Entry)
    BY DEF TypeOK
  <1>2. CASE UNCHANGED vars
    BY <1>2 DEF vars, TypeOK
  <1>3. ASSUME NEW b \in Bulk, Enqueue(b) PROVE TypeOK'
    <2> DEFINE x == [bulk[b] EXCEPT !.numOps = @ + 1]
    <2>1. x \in BulkRec
      <3>1. bulk[b] \in BulkRec /\ bulk[b].numOps \in 0..MaxOps /\ bulk[b].numOps < MaxOps
        BY <1>1, <1>3 DEF Enqueue, BulkRec
      <3>2. bulk[b].numOps + 1 \in 0..MaxOps
        BY <3>1
      <3> QED BY <3>1, <3>2 DEF BulkRec
    <2>2. bulk' = [bulk EXCEPT ![b] = x] /\ UNCHANGED <<stack, exception, log>>
      BY <1>3 DEF Enqueue
    <2> HIDE DEF x
    <2> QED BY <2>1, <2>2 DEF TypeOK
  <1>4. ASSUME NEW b \in Bulk, EnqueueFails(b) PROVE TypeOK'
    BY <1>4, ThrownType DEF EnqueueFails, TypeOK
  <1>4a. ASSUME NEW b \in Bulk, NEW bad \in BOOLEAN, ExecuteRejectedEarly(b, bad)
         PROVE  TypeOK'
    BY <1>4a, ThrownType DEF ExecuteRejectedEarly, TypeOK
  <1>5. ASSUME NEW b \in Bulk, NEW r \in Request, NEW bad \in BOOLEAN,
               ExecuteRejectedLate(b, r, bad)
        PROVE  TypeOK'
    <2>1. /\ bulk' = [bulk EXCEPT ![b] = Parsed(@, r)]
          /\ UNCHANGED <<stack, log>>
      BY <1>5 DEF ExecuteRejectedLate
    <2>2. exception' \in Seq(Exception)
      BY <1>5, ThrownType DEF ExecuteRejectedLate
    <2>3. Parsed(bulk[b], r) \in BulkRec
      BY <1>1, RecordTypes
    <2> QED BY <2>1, <2>2, <2>3 DEF TypeOK
  <1>6. ASSUME NEW b \in Bulk, NEW r \in Request, ExecuteEmpty(b, r) PROVE TypeOK'
    <2> DEFINE x == [Prepared(Parsed(bulk[b], r), r) EXCEPT !.executed = TRUE]
    <2>1. Prepared(Parsed(bulk[b], r), r) \in BulkRec
      BY <1>1, RecordTypes
    <2>2. x \in BulkRec
      BY <2>1, RecordTypes
    <2>3. bulk' = [bulk EXCEPT ![b] = x] /\ UNCHANGED <<stack, log>>
      BY <1>1, <1>6 DEF ExecuteEmpty
    <2> HIDE DEF x
    <2> QED BY <1>6, <2>2, <2>3, ThrownType DEF TypeOK, ExecuteEmpty
  <1>7. ASSUME NEW b \in Bulk, NEW r \in Request, NEW q \in BOOLEAN, ExecuteBegins(b, r, q)
        PROVE  TypeOK'
    <2> DEFINE f == [bulk |-> b, request |-> r, finished |-> FALSE, running |-> q,
                     error |-> "none", nested |-> Executing(b), shared |-> Executing(b)]
    <2>1. Prepared(Parsed(bulk[b], r), r) \in BulkRec /\ f \in Frame
      BY <1>1, RecordTypes DEF Frame, Errors, Executing
    <2>2. /\ bulk' = [bulk EXCEPT ![b] = Prepared(Parsed(@, r), r)]
          /\ stack' = Append(Shared(b), f) /\ Len(stack) < MaxDepth
          /\ UNCHANGED <<exception, log>>
      BY <1>7 DEF ExecuteBegins
    <2>3. Shared(b) \in Seq(Frame) /\ Len(Shared(b)) = Len(stack)
      BY SharedFacts
    <2> HIDE DEF f
    <2>4. stack' \in Seq(Frame) /\ Len(stack') = Len(stack) + 1
      BY <2>1, <2>2, <2>3
    <2>5. bulk' \in [Bulk -> BulkRec]
      BY <1>1, <2>1, <2>2
    <2> QED BY <2>2, <2>4, <2>5, <1>1 DEF TypeOK
  <1>8. ASSUME NEW err \in Errors, NEW got \in BOOLEAN, NEW q \in BOOLEAN, Send(err, got, q)
        PROVE  TypeOK'
    <2> DEFINE f == [Top EXCEPT !.finished = TRUE, !.error = err, !.running = q]
               e == [bulk |-> Top.bulk, request |-> Top.request, op |-> bulk[Top.bulk].op,
                     nested |-> Top.nested, shared |-> Top.shared]
    <2>1. stack # <<>> /\ Top \in Frame /\ Top.bulk \in Bulk /\ Top.request \in Request
      BY <1>8, TopFacts DEF Send
    <2>2. f \in Frame
      BY <2>1 DEF Frame
    <2>3. bulk[Top.bulk].op \in Op
      BY <1>1, <2>1 DEF BulkRec
    <2>4. e \in Entry
      BY <2>1, <2>3 DEF Entry, Frame
    <2>5. /\ stack' = WithTop(f) /\ UNCHANGED <<bulk, exception>>
          /\ log' = IF got THEN Append(log, e) ELSE log
      BY <1>8 DEF Send
    <2> HIDE DEF f, e
    <2>6. stack' \in Seq(Frame) /\ Len(stack') = Len(stack)
      BY <2>1, <2>2, <2>5, WithTopFacts
    <2>7. log' \in Seq(Entry)
      BY <1>1, <2>4, <2>5
    <2> QED BY <2>5, <2>6, <2>7 DEF TypeOK
  <1>9. CASE Finish
    <2>1. /\ stack # <<>> /\ Len(stack) \in Nat
          /\ Top \in Frame /\ Top.bulk \in Bulk /\ Top.request \in Request
      BY <1>1, <1>9, TopFacts DEF Finish
    <2> DEFINE x == [bulk[Top.bulk] EXCEPT !.executed = TRUE]
    <2>2. x \in BulkRec
      BY <1>1, <2>1, RecordTypes
    <2>3. bulk' = [bulk EXCEPT ![Top.bulk] = x] /\ stack' = Below /\ log' = log
      BY <1>9 DEF Finish, Finished
    <2> HIDE DEF x
    <2>4. stack' \in Seq(Frame) /\ Len(stack') = Len(stack) - 1
      BY <2>1, <2>3, BelowFacts
    <2>5. exception' \in Seq(Exception)
      <3>1. [class |-> "BulkWrite", writeResult |-> TRUE] \in Exception
        BY DEF Exception
      <3>2. Thrown("Connection") \in Exception /\ exception \in Seq(Exception)
        BY ThrownType DEF TypeOK
      <3>3. Layered(Top.error, exception) \in Seq(Exception)
        BY <3>1, <3>2 DEF Layered
      <3> QED BY <1>9, <3>3 DEF Finish
    <2>6. bulk' \in [Bulk -> BulkRec]
      BY <1>1, <2>1, <2>2, <2>3
    <2> QED BY <2>1, <2>3, <2>4, <2>5, <2>6 DEF TypeOK
  <1>10. ASSUME NEW throws \in BOOLEAN, CallbackReturns(throws) PROVE TypeOK'
    <2>1. stack # <<>> /\ Top \in Frame
      BY <1>10, TopFacts DEF CallbackReturns
    <2>2. [Top EXCEPT !.running = FALSE] \in Frame
      BY <2>1 DEF Frame
    <2>3. stack' \in Seq(Frame) /\ Len(stack') = Len(stack)
      BY <1>10, <2>1, <2>2, WithTopFacts DEF CallbackReturns
    <2>4. exception' \in Seq(Exception) /\ UNCHANGED <<bulk, log>>
      BY <1>10, ThrownType DEF CallbackReturns, TypeOK
    <2> QED BY <2>3, <2>4 DEF TypeOK
  <1>11. CASE Catch
    BY <1>11 DEF Catch, TypeOK
  <1>12. ASSUME NEW b \in Bulk, Calls(b) PROVE TypeOK'
    <2>1. CASE Enqueue(b) \/ EnqueueFails(b)
      BY <2>1, <1>3, <1>4
    <2>2. CASE \E bad \in BOOLEAN : ExecuteRejectedEarly(b, bad)
      BY <2>2, <1>4a
    <2>3. ASSUME NEW r \in Requests,
                 \/ \E bad \in BOOLEAN : ExecuteRejectedLate(b, r, bad)
                 \/ ExecuteEmpty(b, r)
                 \/ \E s \in BOOLEAN : ExecuteBegins(b, r, s)
          PROVE  TypeOK'
      <3>1. r \in Request
        BY <2>3
      <3> QED BY <2>3, <3>1, <1>5, <1>6, <1>7
    <2> QED BY <1>12, <2>1, <2>2, <2>3 DEF Calls
  <1> QED BY <1>2, <1>8, <1>9, <1>10, <1>11, <1>12 DEF Next

\* Steps that leave the stack, the log and, of a BulkWrite, executed and op.
LEMMA QuietStep ==
    ASSUME OnceInv, TypeOK', stack' = stack, log' = log,
           \A b \in Bulk : /\ bulk'[b].executed = bulk[b].executed
                           /\ bulk'[b].op = bulk[b].op
                           /\ bulk[b].numOps > 0 => bulk'[b].numOps > 0
    PROVE  OnceInv'
  <1>1. \A i \in 1..Len(stack) : stack[i].bulk \in Bulk
    BY Members DEF OnceInv
  <1>2. \A k \in 1..Len(log) : log[k].bulk \in Bulk
    BY Members DEF OnceInv
  <1>3. Stacked' /\ Told'
    BY <1>1 DEF OnceInv, Stacked, Told
  <1>4. Untold'
    BY DEF OnceInv, Untold, Executing
  <1>5. Logged' /\ LogAsked' /\ ExecutedOnce'
    BY <1>1, <1>2 DEF OnceInv, Logged, LoggedOne, LogAsked, ExecutedOnce
  <1> QED BY <1>3, <1>4, <1>5 DEF OnceInv

LEMMA EnqueueStep ==
    ASSUME OnceInv, NEW b \in Bulk, Enqueue(b) \/ EnqueueFails(b)
    PROVE  OnceInv'
  <1>1. TypeOK'
    BY TypeStep DEF OnceInv, Next, Calls
  <1>2. \A c \in Bulk : /\ bulk'[c].executed = bulk[c].executed
                        /\ bulk'[c].op = bulk[c].op
                        /\ bulk[c].numOps > 0 => bulk'[c].numOps > 0
    <2>1. CASE Enqueue(b)
      <3>1. bulk[b] \in BulkRec /\ bulk' = [bulk EXCEPT ![b] = [bulk[b] EXCEPT !.numOps = @ + 1]]
        BY <2>1 DEF Enqueue, OnceInv, TypeOK
      <3>2. \A y \in BulkRec : /\ y.numOps > 0 => [y EXCEPT !.numOps = @ + 1].numOps > 0
                               /\ [y EXCEPT !.numOps = @ + 1].executed = y.executed
                               /\ [y EXCEPT !.numOps = @ + 1].op = y.op
        BY DEF BulkRec
      <3> QED BY <3>1, <3>2 DEF OnceInv, TypeOK
    <2>2. CASE EnqueueFails(b)
      BY <2>2 DEF EnqueueFails
    <2> QED BY <2>1, <2>2
  <1> QED BY <1>1, <1>2, QuietStep DEF Enqueue, EnqueueFails

LEMMA RejectedStep ==
    ASSUME OnceInv, NEW b \in Bulk, NEW r \in Request, NEW bad \in BOOLEAN,
           ExecuteRejectedLate(b, r, bad)
    PROVE  OnceInv'
  <1>1. exception' \in Seq(Exception)
    BY ThrownType DEF ExecuteRejectedLate
  <1>2. bulk' = [bulk EXCEPT ![b] = Parsed(@, r)]
    BY DEF ExecuteRejectedLate
  <1>3. bulk \in [Bulk -> BulkRec]
    BY DEF OnceInv, TypeOK
  <1>4. /\ Parsed(bulk[b], r) \in BulkRec
        /\ Parsed(bulk[b], r).executed = bulk[b].executed
        /\ Parsed(bulk[b], r).op = bulk[b].op
        /\ Parsed(bulk[b], r).numOps = bulk[b].numOps
    BY <1>3, RecordTypes
  <1>5. /\ bulk' \in [Bulk -> BulkRec]
        /\ \A c \in Bulk : /\ bulk'[c].executed = bulk[c].executed
                           /\ bulk'[c].op = bulk[c].op
                           /\ bulk'[c].numOps = bulk[c].numOps
    BY <1>2, <1>3, <1>4
  <1>6. TypeOK'
    BY <1>1, <1>5 DEF OnceInv, TypeOK, ExecuteRejectedLate
  <1> QED BY <1>5, <1>6, QuietStep DEF ExecuteRejectedLate

LEMMA RejectedEarlyStep ==
    ASSUME OnceInv, NEW b \in Bulk, NEW bad \in BOOLEAN, ExecuteRejectedEarly(b, bad)
    PROVE  OnceInv'
  <1>1. TypeOK'
    BY ThrownType DEF OnceInv, TypeOK, ExecuteRejectedEarly
  <1> QED BY <1>1, QuietStep DEF ExecuteRejectedEarly

\* An empty BulkWrite is marked as executed; it is not on the stack.
LEMMA EmptyStep ==
    ASSUME OnceInv, NEW b \in Bulk, NEW r \in Request, ExecuteEmpty(b, r)
    PROVE  OnceInv'
  <1> DEFINE x == [Prepared(Parsed(bulk[b], r), r) EXCEPT !.executed = TRUE]
  <1>1. bulk \in [Bulk -> BulkRec] /\ bulk[b] \in BulkRec
    BY DEF OnceInv, TypeOK
  <1>2. x \in BulkRec /\ x.executed
    <2>1. Prepared(Parsed(bulk[b], r), r) \in BulkRec
      BY <1>1, RecordTypes
    <2> QED BY <2>1, RecordTypes
  <1>3. bulk' = [bulk EXCEPT ![b] = x] /\ stack' = stack /\ log' = log
    BY <1>1 DEF ExecuteEmpty
  <1>4. ~Executing(b)
    BY DEF ExecuteEmpty, Executing, OnceInv, Stacked
  <1> HIDE DEF x
  <1>5. TypeOK'
    BY <1>1, <1>2, <1>3, ThrownType DEF OnceInv, TypeOK, ExecuteEmpty
  <1>6. \A i \in 1..Len(stack) : stack[i].bulk \in Bulk \ {b}
    BY <1>4, Members DEF OnceInv, Executing
  <1>7. \A k \in 1..Len(log) : log[k].bulk \in Bulk
    BY Members DEF OnceInv
  <1>8. Stacked' /\ Told'
    BY <1>1, <1>3, <1>6 DEF OnceInv, Stacked, Told
  <1>9. Untold'
    BY <1>1, <1>2, <1>3 DEF OnceInv, Untold, Executing
  <1>10. Logged' /\ LogAsked' /\ ExecutedOnce'
    BY <1>1, <1>2, <1>3, <1>7 DEF OnceInv, Logged, LoggedOne, LogAsked, ExecutedOnce
  <1> QED BY <1>5, <1>8, <1>9, <1>10 DEF OnceInv

\* An execution begins: if it is not nested, the BulkWrite had been told nothing
\* and nothing of it was sent.
LEMMA BeginsStep ==
    ASSUME OnceInv, NEW b \in Bulk, NEW r \in Request, NEW q \in BOOLEAN,
           ExecuteBegins(b, r, q)
    PROVE  OnceInv'
  <1> DEFINE x == Prepared(Parsed(bulk[b], r), r)
             f == [bulk |-> b, request |-> r, finished |-> FALSE, running |-> q,
                   error |-> "none", nested |-> Executing(b), shared |-> Executing(b)]
  <1>1. bulk \in [Bulk -> BulkRec] /\ bulk[b] \in BulkRec /\ TypeOK
    BY DEF OnceInv, TypeOK
  <1>2. ~bulk[b].executed /\ bulk[b].numOps > 0 /\ ~Foreign(r) /\ ~Conflict(r)
    BY DEF ExecuteBegins, Accepts
  <1>3. x \in BulkRec /\ ~x.executed /\ x.numOps > 0
    BY <1>1, <1>2, RecordTypes
  <1>4. ~Executing(b) => Asked(x.op, r)
    <2>1. ~Executing(b) => bulk[b].op.session = NULL /\ bulk[b].op.wc = NULL
      BY <1>2 DEF OnceInv, Untold
    <2> QED BY <1>1, <1>2, <2>1, PreparedAsks
  <1>5. /\ f \in Frame /\ f.bulk = b /\ f.request = r /\ ~f.finished
        /\ f.nested <=> Executing(b)
        /\ f.shared <=> Executing(b)
    BY DEF Frame, Errors, Executing
  <1>6. /\ bulk' = [bulk EXCEPT ![b] = x] /\ stack' = Append(Shared(b), f)
        /\ log' = log /\ exception' = exception
    BY <1>1 DEF ExecuteBegins
  <1> HIDE DEF x, f
  <1>7. stack \in Seq(Frame) /\ Len(stack) \in Nat
    BY DEF OnceInv, TypeOK
  <1>8. /\ Len(stack') = Len(stack) + 1
        /\ \A i \in 1..Len(stack) : stack'[i] = Shared(b)[i]
        /\ stack'[Len(stack) + 1] = f
    BY <1>1, <1>5, <1>6, <1>7, SharedFacts
  <1>9. TypeOK'
    <2>1. stack' \in Seq(Frame)
      BY <1>1, <1>5, <1>6, SharedFacts
    <2> QED BY <1>1, <1>3, <1>6, <1>7, <1>8, <2>1 DEF TypeOK, ExecuteBegins
  <1>10. \A k \in 1..Len(log) : log[k].bulk \in Bulk
    BY Members DEF OnceInv
  <1>11. \A i \in 1..Len(stack) :
            /\ stack'[i].bulk = stack[i].bulk /\ stack[i].bulk \in Bulk
            /\ stack'[i].request = stack[i].request
            /\ stack'[i].finished = stack[i].finished
            /\ stack'[i].nested = stack[i].nested
            /\ ~stack'[i].shared => ~stack[i].shared /\ stack[i].bulk # b
    BY <1>1, <1>8, SharedFacts, Members
  <1>12. \A i \in 1..Len(stack') : i \in 1..Len(stack) \/ i = Len(stack) + 1
    BY <1>7, <1>8
  <1>13. \A i \in 1..Len(stack) : ~Executing(b) => stack[i].bulk # b
    BY DEF Executing
  <1>14. Stacked'
    <2>1. ASSUME NEW i \in 1..Len(stack'), NEW j \in 1..Len(stack'),
                 stack'[i].bulk = stack'[j].bulk, ~stack'[i].nested, ~stack'[j].nested
          PROVE  i = j
      BY <2>1, <1>5, <1>8, <1>11, <1>12, <1>13 DEF OnceInv, Stacked
    <2>2. ASSUME NEW i \in 1..Len(stack'), NEW k \in 1..Len(log),
                 ~stack'[i].nested, ~stack'[i].finished, log[k].bulk = stack'[i].bulk
          PROVE  log[k].nested
      <3>1. CASE i \in 1..Len(stack)
        BY <2>2, <3>1, <1>11 DEF OnceInv, Stacked
      <3>2. CASE i = Len(stack) + 1
        <4>1. ~Executing(b) /\ log[k].bulk = b
          BY <2>2, <3>2, <1>5, <1>8
        <4>2. LoggedOne(k)
          BY DEF OnceInv, Logged
        <4> QED BY <4>1, <4>2, <1>2, <1>13 DEF LoggedOne
      <3> QED BY <3>1, <3>2, <1>12
    <2>3. ASSUME NEW i \in 1..Len(stack')
          PROVE  bulk'[stack'[i].bulk].numOps > 0
      <3>1. CASE i \in 1..Len(stack)
        BY <3>1, <1>1, <1>3, <1>6, <1>11 DEF OnceInv, Stacked
      <3>2. CASE i = Len(stack) + 1
        BY <3>2, <1>1, <1>3, <1>5, <1>6, <1>8
      <3> QED BY <3>1, <3>2, <1>12
    <2> QED BY <2>1, <2>2, <2>3, <1>6 DEF Stacked
  <1>15. Told'
    <2> SUFFICES ASSUME NEW i \in 1..Len(stack'), ~stack'[i].shared
                 PROVE  Asked(bulk'[stack'[i].bulk].op, stack'[i].request)
      BY DEF Told
    <2>1. CASE i \in 1..Len(stack)
      BY <2>1, <1>1, <1>6, <1>11 DEF OnceInv, Told
    <2>2. CASE i = Len(stack) + 1
      BY <2>2, <1>1, <1>4, <1>5, <1>6, <1>8
    <2> QED BY <2>1, <2>2, <1>12
  <1>16. Untold'
    <2>1. Executing(b)'
      BY <1>5, <1>7, <1>8 DEF Executing
    <2>2. ASSUME NEW c \in Bulk, Executing(c) PROVE Executing(c)'
      BY <2>2, <1>7, <1>8, <1>11 DEF Executing
    <2> QED BY <1>1, <1>6, <2>1, <2>2 DEF OnceInv, Untold
  <1>17. Logged'
    <2> SUFFICES ASSUME NEW k \in 1..Len(log) PROVE LoggedOne(k)'
      BY <1>6 DEF Logged
    <2>1. LoggedOne(k)
      BY DEF OnceInv, Logged
    <2>2. CASE log[k].nested \/ bulk[log[k].bulk].executed
      BY <1>1, <1>2, <1>6, <1>10, <2>2 DEF LoggedOne
    <2>3. ASSUME NEW i \in 1..Len(stack), stack[i].bulk = log[k].bulk,
                 ~stack[i].nested, stack[i].finished
          PROVE  LoggedOne(k)'
      <3>1. /\ i \in 1..Len(stack') /\ stack'[i].bulk = log'[k].bulk
            /\ ~stack'[i].nested /\ stack'[i].finished
        BY <1>6, <1>7, <1>8, <1>11, <2>3
      <3> QED BY <3>1 DEF LoggedOne
    <2> QED BY <2>1, <2>2, <2>3 DEF LoggedOne
  <1>18. LogAsked' /\ ExecutedOnce'
    BY <1>6 DEF OnceInv, LogAsked, ExecutedOnce
  <1> QED BY <1>9, <1>14, <1>15, <1>16, <1>17, <1>18 DEF OnceInv

\* Steps that change the top frame but not its BulkWrite and request, and do
\* not make a finished one unfinished.
LEMMA TopStep ==
    ASSUME OnceInv, stack # <<>>, NEW f \in Frame, stack' = WithTop(f), bulk' = bulk,
           f.bulk = Top.bulk, f.request = Top.request, Top.finished => f.finished,
           f.nested = Top.nested, f.shared = Top.shared
    PROVE  /\ stack' \in Seq(Frame) /\ Len(stack') = Len(stack)
           /\ \A i \in 1..Len(stack) : /\ stack'[i].bulk = stack[i].bulk
                                        /\ stack'[i].nested = stack[i].nested
                                        /\ stack[i].finished => stack'[i].finished
           /\ Told' /\ Untold'
           /\ log' = log => Stacked' /\ Logged'
  <1>1. TypeOK
    BY DEF OnceInv
  <1>2. Len(stack) \in Nat \ {0} /\ Top = stack[Len(stack)]
    BY <1>1, TopFacts
  <1>3. /\ stack' \in Seq(Frame) /\ Len(stack') = Len(stack)
        /\ \A i \in 1..Len(stack) : stack'[i] = IF i = Len(stack) THEN f ELSE stack[i]
    BY <1>1, WithTopFacts
  <1>4. \A i \in 1..Len(stack) : /\ stack'[i].bulk = stack[i].bulk
                                 /\ stack'[i].request = stack[i].request
                                 /\ stack'[i].nested = stack[i].nested
                                 /\ stack'[i].shared = stack[i].shared
                                 /\ stack[i].finished => stack'[i].finished
    BY <1>2, <1>3
  <1>5. Told'
    BY <1>3, <1>4 DEF OnceInv, Told
  <1>6. Untold'
    BY <1>3, <1>4 DEF OnceInv, Untold, Executing
  <1>7. ASSUME log' = log PROVE Stacked' /\ Logged'
    <2>1. Stacked'
      BY <1>3, <1>4, <1>7 DEF OnceInv, Stacked
    <2>2. Logged'
      BY <1>3, <1>4, <1>7 DEF OnceInv, Logged, LoggedOne
    <2> QED BY <2>1, <2>2
  <1> QED BY <1>3, <1>4, <1>5, <1>6, <1>7

\* The command of the top frame is sent: unless the frame is nested, no command
\* but of nested ones of its BulkWrite is in the log yet.
LEMMA SendStep ==
    ASSUME OnceInv, NEW err \in Errors, NEW got \in BOOLEAN, NEW q \in BOOLEAN,
           Send(err, got, q)
    PROVE  OnceInv'
  <1> DEFINE f == [Top EXCEPT !.finished = TRUE, !.error = err, !.running = q]
             e == [bulk |-> Top.bulk, request |-> Top.request, op |-> bulk[Top.bulk].op,
                   nested |-> Top.nested, shared |-> Top.shared]
  <1>1. TypeOK /\ stack # <<>> /\ ~Top.finished
    BY DEF OnceInv, Send
  <1>2. /\ Len(stack) \in Nat \ {0} /\ Top = stack[Len(stack)]
        /\ Top \in Frame /\ Top.bulk \in Bulk /\ Top.request \in Request
    BY <1>1, TopFacts
  <1>3. /\ f \in Frame /\ f.bulk = Top.bulk /\ f.request = Top.request /\ f.finished
        /\ f.nested = Top.nested /\ f.shared = Top.shared
    BY <1>2 DEF Frame
  <1>4. /\ stack' = WithTop(f) /\ bulk' = bulk /\ exception' = exception
        /\ log' = IF got THEN Append(log, e) ELSE log
    BY DEF Send
  <1>5. /\ e \in Entry /\ e.bulk = Top.bulk /\ e.request = Top.request
        /\ e.op = bulk[Top.bulk].op /\ e.nested = Top.nested /\ e.shared = Top.shared
    <2>1. bulk[Top.bulk] \in BulkRec
      BY <1>1, <1>2 DEF TypeOK
    <2>2. bulk[Top.bulk].op \in Op
      BY <2>1 DEF BulkRec
    <2> QED BY <1>2, <2>2 DEF Entry, Frame
  <1> HIDE DEF f, e
  <1>6. /\ stack' \in Seq(Frame) /\ Len(stack') = Len(stack)
        /\ \A i \in 1..Len(stack) : /\ stack'[i].bulk = stack[i].bulk
                                     /\ stack'[i].nested = stack[i].nested
                                     /\ stack[i].finished => stack'[i].finished
        /\ Told' /\ Untold'
        /\ log' = log => Stacked' /\ Logged'
    BY <1>1, <1>3, <1>4, TopStep
  <1>6a. Len(stack') = Len(stack)
    BY <1>1, <1>3, <1>4, WithTopFacts
  <1>6b. ASSUME NEW i \in 1..Len(stack)
         PROVE  /\ stack'[i].bulk = stack[i].bulk /\ stack'[i].nested = stack[i].nested
                /\ stack[i].finished => stack'[i].finished
    <2>1. stack'[i] = IF i = Len(stack) THEN f ELSE stack[i]
      BY <1>1, <1>3, <1>4, WithTopFacts
    <2> QED BY <2>1, <1>2, <1>3
  <1>7. log \in Seq(Entry) /\ Len(log) \in Nat
    BY <1>1 DEF TypeOK
  <1>8. TypeOK'
    BY <1>1, <1>4, <1>5, <1>6, <1>7 DEF TypeOK
  <1>9. stack'[Len(stack)] = f
    BY <1>1, <1>2, <1>3, <1>4, WithTopFacts
  <1>10. CASE ~got
    <2>1. log' = log
      BY <1>4, <1>10
    <2> QED BY <1>6, <1>8, <2>1 DEF OnceInv, LogAsked, ExecutedOnce
  <1>11. CASE got
    <2>1. /\ Len(log') = Len(log) + 1
          /\ \A k \in 1..Len(log') : \/ k \in 1..Len(log) /\ log'[k] = log[k]
                                     \/ k = Len(log) + 1 /\ log'[k] = e
      BY <1>4, <1>5, <1>7, <1>11
    <2>2. ASSUME ~Top.nested, NEW k \in 1..Len(log), log[k].bulk = Top.bulk
          PROVE  log[k].nested
      BY <2>2, <1>1, <1>2 DEF OnceInv, Stacked
    <2>3. Stacked'
      <3>1. ASSUME NEW i \in 1..Len(stack), ~stack'[i].nested, ~stack'[i].finished
            PROVE  ~stack[i].finished /\ ~stack[i].nested
                   /\ (stack[i].bulk = Top.bulk => Top.nested)
        <4>1. i # Len(stack)
          BY <3>1, <1>3, <1>9
        <4>2. stack'[i] = stack[i]
          BY <4>1, <1>1, <1>3, <1>4, WithTopFacts
        <4>3. ~stack[i].finished /\ ~stack[i].nested
          BY <3>1, <4>2
        <4>4. ASSUME stack[i].bulk = Top.bulk, ~Top.nested PROVE FALSE
          <5>1. Len(stack) \in 1..Len(stack)
            BY <1>2
          <5> QED BY <4>1, <4>3, <4>4, <5>1, <1>2 DEF OnceInv, Stacked
        <4>5. Top.nested \in BOOLEAN
          BY <1>2 DEF Frame
        <4> QED BY <4>3, <4>4, <4>5
      <3>2. ASSUME NEW i \in 1..Len(stack), NEW k \in 1..Len(log'),
                   ~stack'[i].nested, ~stack'[i].finished, log'[k].bulk = stack'[i].bulk
            PROVE  log'[k].nested
        <4>1. /\ ~stack[i].finished /\ ~stack[i].nested
              /\ stack[i].bulk = Top.bulk => Top.nested
              /\ log'[k].bulk = stack[i].bulk
          <5>1. stack'[i].bulk = stack[i].bulk
            BY <1>6a, <1>6b
          <5>2. /\ ~stack[i].finished /\ ~stack[i].nested
                /\ stack[i].bulk = Top.bulk => Top.nested
            BY <3>1, <3>2
          <5> QED BY <3>2, <5>1, <5>2
        <4>2. CASE k \in 1..Len(log) /\ log'[k] = log[k]
          BY <4>1, <4>2 DEF OnceInv, Stacked
        <4>3. CASE log'[k] = e
          BY <4>1, <4>3, <1>5
        <4> QED BY <2>1, <4>2, <4>3
      <3>3. ASSUME NEW i \in 1..Len(stack'), NEW j \in 1..Len(stack'),
                   stack'[i].bulk = stack'[j].bulk, ~stack'[i].nested, ~stack'[j].nested
            PROVE  i = j
        <4>1. i \in 1..Len(stack) /\ j \in 1..Len(stack)
          BY <1>6a, <1>6b
        <4>2. /\ stack[i].bulk = stack'[i].bulk /\ stack[j].bulk = stack'[j].bulk
              /\ stack[i].nested = stack'[i].nested /\ stack[j].nested = stack'[j].nested
          BY <4>1, <1>6b
        <4> QED BY <3>3, <4>1, <4>2 DEF OnceInv, Stacked
      <3>4. ASSUME NEW i \in 1..Len(stack') PROVE bulk'[stack'[i].bulk].numOps > 0
        <4>1. i \in 1..Len(stack)
          BY <1>6a, <1>6b
        <4>2. stack[i].bulk = stack'[i].bulk
          BY <4>1, <1>6b
        <4> QED BY <4>1, <4>2, <1>4 DEF OnceInv, Stacked
      <3> QED BY <3>2, <3>3, <3>4, <1>6a DEF Stacked
    <2>4. Logged'
      <3> SUFFICES ASSUME NEW k \in 1..Len(log') PROVE LoggedOne(k)'
        BY DEF Logged
      <3>1. CASE k \in 1..Len(log) /\ log'[k] = log[k]
        <4>1. LoggedOne(k)
          BY <3>1 DEF OnceInv, Logged
        <4>2. CASE log[k].nested \/ bulk[log[k].bulk].executed
          BY <3>1, <4>2, <1>4 DEF LoggedOne
        <4>3. ASSUME NEW i \in 1..Len(stack), stack[i].bulk = log[k].bulk,
                     ~stack[i].nested, stack[i].finished
              PROVE  LoggedOne(k)'
          <5>1. /\ stack'[i].bulk = stack[i].bulk /\ stack'[i].nested = stack[i].nested
                /\ stack[i].finished => stack'[i].finished
            BY <1>6a, <1>6b
          <5>2. i \in 1..Len(stack')
            BY <1>6a, <1>6b
          <5>3. stack'[i].bulk = log'[k].bulk /\ ~stack'[i].nested /\ stack'[i].finished
            BY <3>1, <4>3, <5>1
          <5> QED BY <5>2, <5>3 DEF LoggedOne
        <4> QED BY <4>1, <4>2, <4>3 DEF LoggedOne
      <3>2. CASE log'[k] = e
        BY <3>2, <1>2, <1>3, <1>5, <1>6, <1>9 DEF LoggedOne
      <3> QED BY <2>1, <3>1, <3>2
    <2>5. ~e.shared => Asked(e.op, e.request)
      BY <1>2, <1>5 DEF OnceInv, Told
    <2>6. LogAsked'
      BY <2>1, <2>5 DEF OnceInv, LogAsked
    <2>7. ExecutedOnce'
      BY <1>5, <2>1, <2>2 DEF OnceInv, ExecutedOnce
    <2> QED BY <1>6, <1>8, <2>3, <2>4, <2>6, <2>7 DEF OnceInv
  <1> QED BY <1>10, <1>11

\* The execution of the top frame ends: its BulkWrite is executed.
LEMMA FinishStep ==
    ASSUME OnceInv, Finish
    PROVE  OnceInv'
  <1> DEFINE b == Top.bulk
             x == [bulk[b] EXCEPT !.executed = TRUE]
  <1>1. TypeOK /\ stack # <<>> /\ bulk \in [Bulk -> BulkRec]
    BY DEF OnceInv, Finish, TypeOK
  <1>2. /\ Len(stack) \in Nat \ {0} /\ Top = stack[Len(stack)]
        /\ Top \in Frame /\ b \in Bulk /\ Top.request \in Request
    BY <1>1, TopFacts
  <1>3. x \in BulkRec /\ x.executed /\ x.op = bulk[b].op /\ x.numOps = bulk[b].numOps
    BY <1>1, <1>2, RecordTypes
  <1>4. bulk' = [bulk EXCEPT ![b] = x] /\ stack' = Below /\ log' = log
    BY DEF Finish, Finished
  <1>5. exception' \in Seq(Exception)
    <2>1. Top.error \in Errors
      BY <1>2 DEF Frame
    <2>2. [class |-> "BulkWrite", writeResult |-> TRUE] \in Exception
      BY DEF Exception
    <2>3. Thrown("Connection") \in Exception
      BY ThrownType
    <2>4. exception \in Seq(Exception)
      BY <1>1 DEF TypeOK
    <2>5. Layered(Top.error, exception) \in Seq(Exception)
      BY <2>2, <2>3, <2>4 DEF Layered
    <2> QED BY <2>5 DEF Finish
  <1>6. /\ stack' \in Seq(Frame) /\ Len(stack') = Len(stack) - 1
        /\ \A i \in 1..(Len(stack) - 1) : stack'[i] = stack[i]
    BY <1>1, <1>4, BelowFacts
  <1> HIDE DEF x
  <1>7. TypeOK'
    BY <1>1, <1>2, <1>3, <1>4, <1>5, <1>6 DEF TypeOK
  <1>8. \A i \in 1..Len(stack') : /\ i \in 1..Len(stack) /\ stack'[i] = stack[i]
                                  /\ stack[i].bulk \in Bulk
    BY <1>1, <1>2, <1>6, Members DEF OnceInv
  <1>9. Stacked' /\ Told'
    <2>1. \A c \in Bulk : bulk'[c].op = bulk[c].op /\ bulk'[c].numOps = bulk[c].numOps
      BY <1>1, <1>3, <1>4
    <2>2. Stacked'
      <3>1. ASSUME NEW i \in 1..Len(stack'), NEW j \in 1..Len(stack'),
                   stack'[i].bulk = stack'[j].bulk, ~stack'[i].nested, ~stack'[j].nested
            PROVE  i = j
        BY <3>1, <1>8 DEF OnceInv, Stacked
      <3>2. ASSUME NEW i \in 1..Len(stack'), NEW k \in 1..Len(log'),
                   ~stack'[i].nested, ~stack'[i].finished, log'[k].bulk = stack'[i].bulk
            PROVE  log'[k].nested
        BY <3>2, <1>4, <1>8 DEF OnceInv, Stacked
      <3>3. ASSUME NEW i \in 1..Len(stack') PROVE bulk'[stack'[i].bulk].numOps > 0
        BY <1>8, <2>1 DEF OnceInv, Stacked
      <3> QED BY <3>1, <3>2, <3>3 DEF Stacked
    <2>3. Told'
      BY <1>8, <2>1 DEF OnceInv, Told
    <2> QED BY <2>2, <2>3
  <1>10. Untold'
    <2> SUFFICES ASSUME NEW c \in Bulk, ~bulk'[c].executed, ~Executing(c)'
                 PROVE  bulk'[c].op.session = NULL /\ bulk'[c].op.wc = NULL
      BY DEF Untold
    <2>1. c # b
      BY <1>1, <1>2, <1>3, <1>4
    <2>2. ~Executing(c)
      <3> SUFFICES ASSUME NEW i \in 1..Len(stack), stack[i].bulk = c PROVE FALSE
        BY DEF Executing
      <3>1. i # Len(stack)
        BY <1>2, <2>1
      <3>2. i \in 1..Len(stack') /\ stack'[i].bulk = c
        BY <1>2, <1>6, <3>1
      <3> QED BY <3>2 DEF Executing
    <2> QED BY <1>1, <1>4, <2>1, <2>2 DEF OnceInv, Untold
  <1>11. Logged'
    <2> SUFFICES ASSUME NEW k \in 1..Len(log) PROVE LoggedOne(k)'
      BY <1>4 DEF Logged
    <2>1. log[k].bulk \in Bulk /\ LoggedOne(k)
      BY <1>1, Members DEF OnceInv, Logged
    <2>2. CASE log[k].bulk = b \/ bulk[log[k].bulk].executed \/ log[k].nested
      BY <1>1, <1>2, <1>3, <1>4, <2>1, <2>2 DEF LoggedOne
    <2>3. CASE log[k].bulk # b /\ ~bulk[log[k].bulk].executed /\ ~log[k].nested
      <3>1. PICK i \in 1..Len(stack) : /\ stack[i].bulk = log[k].bulk
                                      /\ ~stack[i].nested /\ stack[i].finished
        BY <2>1, <2>3 DEF LoggedOne
      <3>2. i # Len(stack)
        BY <1>2, <2>3, <3>1
      <3>3. i \in 1..Len(stack') /\ stack'[i] = stack[i]
        BY <1>2, <1>6, <3>2
      <3> QED BY <1>4, <3>1, <3>3 DEF LoggedOne
    <2> QED BY <2>2, <2>3
  <1>12. LogAsked' /\ ExecutedOnce'
    BY <1>4 DEF OnceInv, LogAsked, ExecutedOnce
  <1> QED BY <1>7, <1>9, <1>10, <1>11, <1>12 DEF OnceInv

LEMMA CallbackStep ==
    ASSUME OnceInv, NEW throws \in BOOLEAN, CallbackReturns(throws)
    PROVE  OnceInv'
  <1> DEFINE f == [Top EXCEPT !.running = FALSE]
  <1>1. TypeOK /\ stack # <<>>
    BY DEF OnceInv, CallbackReturns
  <1>2. Top \in Frame
    BY <1>1, TopFacts
  <1>3. /\ f \in Frame /\ f.bulk = Top.bulk /\ f.request = Top.request
        /\ f.finished = Top.finished /\ f.nested = Top.nested /\ f.shared = Top.shared
    BY <1>2 DEF Frame
  <1>4. stack' = WithTop(f) /\ bulk' = bulk /\ log' = log
    BY DEF CallbackReturns
  <1>5. exception' \in Seq(Exception)
    BY <1>1, ThrownType DEF CallbackReturns, TypeOK
  <1> HIDE DEF f
  <1>6. /\ stack' \in Seq(Frame) /\ Len(stack') = Len(stack)
        /\ Stacked' /\ Logged' /\ Told' /\ Untold'
    BY <1>1, <1>3, <1>4, TopStep
  <1>7. TypeOK'
    BY <1>1, <1>4, <1>5, <1>6 DEF TypeOK
  <1>8. LogAsked' /\ ExecutedOnce'
    BY <1>4 DEF OnceInv, LogAsked, ExecutedOnce
  <1> QED BY <1>6, <1>7, <1>8 DEF OnceInv

LEMMA CatchStep ==
    ASSUME OnceInv, Catch
    PROVE  OnceInv'
  <1>1. TypeOK'
    BY DEF Catch, OnceInv, TypeOK
  <1> QED BY <1>1, QuietStep DEF Catch

-------------------------------------------------------------------------------
(* Theorems *)

\* OnceInv holds of every state, whatever callbacks do to the BulkWrites that are
\* being executed.
THEOREM Invariant == Spec => []OnceInv
  <1>1. Init => OnceInv
    <2> SUFFICES ASSUME Init PROVE OnceInv
      OBVIOUS
    <2>1. Fresh \in BulkRec /\ Fresh.op.session = NULL /\ Fresh.op.wc = NULL
      BY DEF Fresh, BulkRec, Op
    <2>2. TypeOK
      BY <2>1 DEF Init, TypeOK
    <2>3. Untold
      BY <2>1 DEF Init, Untold
    <2> QED BY <2>2, <2>3 DEF Init, OnceInv, Stacked, Told, Logged, LogAsked, ExecutedOnce
  <1>2. ASSUME OnceInv, [Next]_vars
        PROVE  OnceInv'
    <2>1. CASE UNCHANGED vars
      <3>1. TypeOK'
        BY <1>2, <2>1 DEF OnceInv, TypeOK, vars
      <3> QED BY <1>2, <2>1, <3>1, QuietStep DEF vars
    <2>2. ASSUME NEW b \in Bulk, Calls(b) PROVE OnceInv'
      <3>1. CASE Enqueue(b) \/ EnqueueFails(b)
        BY <1>2, <3>1, EnqueueStep
      <3>2. CASE \E bad \in BOOLEAN : ExecuteRejectedEarly(b, bad)
        BY <1>2, <3>2, RejectedEarlyStep
      <3>3. ASSUME NEW r \in Requests,
                   \/ \E bad \in BOOLEAN : ExecuteRejectedLate(b, r, bad)
                   \/ ExecuteEmpty(b, r)
                   \/ \E s \in BOOLEAN : ExecuteBegins(b, r, s)
            PROVE  OnceInv'
        <4>1. r \in Request
          BY <3>3
        <4> QED BY <1>2, <3>3, <4>1, RejectedStep, EmptyStep, BeginsStep
      <3> QED BY <2>2, <3>1, <3>2, <3>3 DEF Calls
    <2>3. ASSUME NEW err \in Errors, NEW got \in BOOLEAN, NEW q \in BOOLEAN,
                 Send(err, got, q)
          PROVE  OnceInv'
      BY <1>2, <2>3, SendStep
    <2>4. CASE Finish
      BY <1>2, <2>4, FinishStep
    <2>5. ASSUME NEW throws \in BOOLEAN, CallbackReturns(throws) PROVE OnceInv'
      BY <1>2, <2>5, CallbackStep
    <2>6. CASE Catch
      BY <1>2, <2>6, CatchStep
    <2> QED BY <1>2, <2>1, <2>2, <2>3, <2>4, <2>5, <2>6 DEF Next
  <1> QED BY <1>1, <1>2, PTL DEF Spec

\* Of the executions by which servers get the operations of a BulkWrite, at most
\* one began outside an execution of that BulkWrite: executed is set after
\* mongoc_bulk_operation_execute has returned, on every path, so that only the
\* callbacks of that execution can begin the others.
THEOREM BulksAreExecutedOnce == Spec => []ExecutedOnce
  <1>1. OnceInv => ExecutedOnce
    BY DEF OnceInv
  <1> QED BY <1>1, Invariant, PTL

\* What is sent is what the call asked for, but for executions of one BulkWrite
\* within each other.
THEOREM BulksAreWrittenAsAsked == Spec => []WrittenAsAsked
  <1>1. OnceInv => WrittenAsAsked
    BY DEF OnceInv, LogAsked, Asked, WrittenAsAsked
  <1> QED BY <1>1, Invariant, PTL

\* A Session is used only with its own client and an acknowledged write concern,
\* with the same exception.
THEOREM SessionsAreAcknowledged == Spec => []SessionAcknowledged
  <1>1. OnceInv => SessionAcknowledged
    <2> SUFFICES ASSUME OnceInv, NEW k \in 1..Len(log), ~log[k].shared,
                        log[k].op.session # NULL
                 PROVE  /\ WriteConcern(log[k].op) = "acknowledged"
                        /\ SessionOf[log[k].op.session] = log[k].op.mgr
      BY DEF SessionAcknowledged
    <2> DEFINE r == log[k].request
    <2>1. Asked(log[k].op, r) /\ r \in Request
      BY Members DEF OnceInv, LogAsked
    <2>2. /\ log[k].op.session = r.session /\ log[k].op.mgr = r.mgr
          /\ log[k].op.wc = r.wc /\ ~Foreign(r) /\ ~Conflict(r)
      BY <2>1 DEF Asked
    <2>3. WriteConcern(log[k].op) = WriteConcern(r) /\ WriteConcern(r) \in Concern
      BY <2>1, <2>2 DEF WriteConcern, Request
    <2> QED BY <2>2, <2>3 DEF Foreign, Conflict, Concern
  <1> QED BY <1>1, Invariant, PTL

-------------------------------------------------------------------------------
(* Types, and the exceptions of a failed execution *)

\* TypeOK holds of every state, whatever callbacks do to a BulkWrite that is
\* being executed.
THEOREM TypeCorrect == Spec => []TypeOK
  <1>1. Init => TypeOK
    <2>1. Fresh \in BulkRec
      BY DEF Fresh, BulkRec, Op
    <2> QED BY <2>1 DEF Init, TypeOK
  <1>2. TypeOK /\ [Next]_vars => TypeOK'
    BY TypeStep
  <1> QED BY <1>1, <1>2, PTL DEF Spec

\* The exceptions that phongo_execute_bulk_write raises on top of a pending one.
LEMMA LayeredFacts ==
    ASSUME NEW e \in Errors \ {"none"}, NEW pending \in Seq(Exception)
    PROVE  LET all == Layered(e, pending)
           IN  /\ all # <<>>
               /\ all[1] = [class |-> "BulkWrite", writeResult |-> TRUE]
               /\ pending = SubSeq(all, Len(all) - Len(pending) + 1, Len(all))
  <1> DEFINE top == [class |-> "BulkWrite", writeResult |-> TRUE]
             mid == IF e = "network" THEN <<Thrown("Connection")>> ELSE <<>>
             all == <<top>> \o mid \o pending
  <1>1. top \in Exception /\ Thrown("Connection") \in Exception
    BY ThrownType DEF Exception
  <1>2. Layered(e, pending) = all
    BY DEF Layered
  <1>3. mid \in Seq(Exception) /\ Len(mid) \in 0..1
    BY <1>1
  <1> HIDE DEF top, mid
  <1>4. <<top>> \o mid \in Seq(Exception) /\ Len(<<top>> \o mid) = Len(mid) + 1
        /\ (<<top>> \o mid)[1] = top
    BY <1>1, <1>3
  <1>5. ASSUME NEW a \in Seq(Exception), Len(a) \in Nat \ {0}
        PROVE  /\ Len(a \o pending) = Len(a) + Len(pending)
               /\ (a \o pending)[1] = a[1]
               /\ \A i \in 1..Len(pending) : (a \o pending)[Len(a) + i] = pending[i]
               /\ a \o pending \in Seq(Exception)
    BY <1>5
  <1> DEFINE a == <<top>> \o mid
             n == Len(a)
  <1>6. /\ Len(all) = n + Len(pending) /\ all[1] = top /\ all \in Seq(Exception)
        /\ \A i \in 1..Len(pending) : all[n + i] = pending[i]
        /\ n \in Nat \ {0} /\ Len(pending) \in Nat
    BY <1>3, <1>4, <1>5
  <1> HIDE DEF all, a, n
  <1>7. pending = SubSeq(all, Len(all) - Len(pending) + 1, Len(all))
    <2>1. Len(all) - Len(pending) + 1 = n + 1
      BY <1>6
    <2> DEFINE sub == SubSeq(all, n + 1, Len(all))
    <2>2. /\ sub \in Seq(Exception) /\ Len(sub) = Len(pending)
          /\ \A i \in 1..Len(pending) : sub[i] = all[n + i]
      BY <1>6
    <2> HIDE DEF sub
    <2>3. \A i \in 1..Len(pending) : sub[i] = pending[i]
      BY <1>6, <2>2
    <2>4. sub = pending
      BY <2>2, <2>3
    <2> QED BY <2>1, <2>4 DEF sub
  <1>8. all # <<>>
    BY <1>6
  <1> QED BY <1>2, <1>6, <1>7, <1>8 DEF top

\* A failed execution ends with a BulkWriteException that has the write result,
\* on top of what a subscriber has thrown (phongo_execute_bulk_write), also with
\* callbacks that use the BulkWrite.
THEOREM FailuresAreReported == Spec => FailureReported
  <1> DEFINE Reported(e) ==
        (/\ Len(stack') < Len(stack) /\ Top.error = e)
        => /\ exception' # <<>>
           /\ exception'[1] = [class |-> "BulkWrite", writeResult |-> TRUE]
           /\ exception = SubSeq(exception', Len(exception') - Len(exception) + 1,
                                 Len(exception'))
  <1>1. ASSUME TypeOK, [Next]_vars, NEW e \in Errors \ {"none"} PROVE Reported(e)
    <2>1. SUFFICES ASSUME Len(stack') < Len(stack), Top.error = e
                   PROVE  /\ exception' # <<>>
                          /\ exception'[1] = [class |-> "BulkWrite", writeResult |-> TRUE]
                          /\ exception = SubSeq(exception', Len(exception') - Len(exception) + 1,
                                                Len(exception'))
      OBVIOUS
    <2>2. Len(stack) \in Nat /\ stack \in Seq(Frame) /\ exception \in Seq(Exception)
      BY <1>1 DEF TypeOK
    <2>3. stack' # stack
      BY <2>1, <2>2
    <2>4. \A b \in Bulk : \A f : Len(Append(Shared(b), f)) = Len(stack) + 1
      BY <1>1, <2>2, SharedFacts
    <2>5. \A f : stack # <<>> => Len(WithTop(f)) = Len(stack)
      BY <2>2 DEF WithTop
    <2>6. Finish
      <3>1. ASSUME NEW b \in Bulk, Calls(b) PROVE FALSE
        <4>1. ASSUME NEW r \in Request, NEW q \in BOOLEAN, ExecuteBegins(b, r, q) PROVE FALSE
          BY <2>1, <2>2, <2>4, <4>1 DEF ExecuteBegins
        <4>2. ASSUME NEW r \in Request, NEW bad \in BOOLEAN,
                     \/ ExecuteRejectedLate(b, r, bad)
                     \/ ExecuteEmpty(b, r)
              PROVE  stack' = stack
          BY <4>2 DEF ExecuteRejectedLate, ExecuteEmpty
        <4>3. ASSUME NEW bad \in BOOLEAN,
                     Enqueue(b) \/ EnqueueFails(b) \/ ExecuteRejectedEarly(b, bad)
              PROVE  stack' = stack
          BY <4>3 DEF Enqueue, EnqueueFails, ExecuteRejectedEarly
        <4> QED BY <2>3, <3>1, <4>1, <4>2, <4>3 DEF Calls
      <3>2. \A err \in Errors, got \in BOOLEAN, q \in BOOLEAN : ~Send(err, got, q)
        BY <2>1, <2>2, <2>5 DEF Send
      <3>3. \A throws \in BOOLEAN : ~CallbackReturns(throws)
        BY <2>1, <2>2, <2>5 DEF CallbackReturns
      <3> QED BY <1>1, <2>3, <3>1, <3>2, <3>3 DEF Next, Catch, vars
    <2>7. exception' = Layered(e, exception)
      BY <2>1, <2>6 DEF Finish
    <2> QED BY <2>2, <2>7, LayeredFacts
  <1>2. TypeOK /\ [Next]_vars => [\A e \in Errors \ {"none"} : Reported(e)]_vars
    BY <1>1
  <1> QED BY <1>2, TypeCorrect, PTL DEF Spec, FailureReported

================================================================================
