------------------------------ MODULE Transactions ------------------------------
(***************************************************************************)
(* MongoDB\Driver\Session: transactions (Session.c), the Manager's methods *)
(* that run operations in them (Manager.c, phongo_parse_* of php_phongo.c) *)
(* and the exceptions by which an application learns what to do again.     *)
(*                                                                         *)
(* The application runs units of work in one Session of a sharded cluster, *)
(* in the way hasErrorLabel() is there for: a unit whose exception has the *)
(* label TransientTransactionError is run again, a commit whose exception  *)
(* has UnknownTransactionCommitResult is tried again.  libmongoc's state   *)
(* machine, the servers and the network, which loses requests and replies, *)
(* are external.  Cluster and operation times are left out: of the methods *)
(* that advance them only the callback they make is modelled.              *)
(***************************************************************************)
EXTENDS Integers, Sequences, FiniteSets

CONSTANTS
    Server,         \* mongos servers
    SessionOptions, \* options for Manager::startSession
    StartOptions,   \* options for Session::startTransaction
    Sizes,          \* operations in a unit of work
    UInt32Max,      \* UINT32_MAX
    ClientOpts,     \* the client's own concerns
    MaxUnits,       \* bound: units of work
    MaxTxns,        \* bound: transactions
    MaxCommits,     \* bound: commits of a transaction
    NULL

VARIABLES
    client_session, \* mongoc_client_session_t of the Session, or NULL
    advancing,      \* advanceClusterTime or advanceOperationTime is running
    txns,           \* what the servers know of the transactions, by number
    app,            \* the application
    crashed         \* libmongoc was given NULL for a session, and has aborted

vars == <<client_session, advancing, txns, app, crashed>>

ASSUME ServerAssumption == NULL \notin Server
ASSUME SizesAssumption == Sizes \subseteq Nat
ASSUME SnapshotAssumption == \A o \in SessionOptions : o.snapshot \in BOOLEAN

-------------------------------------------------------------------------------
(* Exceptions *)

Transient == "TransientTransactionError"
Unknown == "UnknownTransactionCommitResult"

Reply(top, nested) == [errorLabels |-> top, writeConcernError |-> nested]

ASSUME ReplyAssumption ==
    \A top, nested \in SUBSET {Transient, Unknown} : Reply(top, nested) # NULL

\* Labels of the reply itself only.
ErrorLabelsOfReply(reply) == IF reply = NULL THEN {} ELSE reply.errorLabels

\* phongo_exception_add_error_labels (writeConcernErrors, which bulk writes
\* have, is another place of the same kind)
ErrorLabels(reply) ==
    IF reply = NULL THEN {} ELSE reply.errorLabels \cup reply.writeConcernError

ExceptionClass(domain, reply) ==
    CASE domain \in {"server", "write_concern"} ->
           IF reply # NULL THEN "CommandException" ELSE "ServerException"
      [] domain = "server_selection" -> "ConnectionTimeoutException"
      [] domain = "stream" -> "ConnectionException"
      [] domain = "invalid_arg" -> "InvalidArgumentException"
      [] domain = "logic" -> "LogicException"
      [] OTHER -> "RuntimeException"

\* phongo_throw_exception_from_bson_error_t and ..._and_reply
Exception(domain, reply) ==
    [class |-> ExceptionClass(domain, reply), labels |-> ErrorLabels(reply)]

\* The exceptions that have the method are RuntimeException and its children.
HasErrorLabel(e, label) ==
    e.class \notin {"InvalidArgumentException", "LogicException"} /\ label \in e.labels

-------------------------------------------------------------------------------
(* Options *)

OptionKeys == {"maxCommitTimeMS", "readConcern", "readPreference", "writeConcern"}

\* A setting of another class than it must be of is "other".
ValidOption(key, value) ==
    IF key = "maxCommitTimeMS" THEN value \in 0..UInt32Max ELSE value # "other"

\* The concerns of a client are of the right class from its construction on.
ASSUME ClientOptsAssumption ==
    /\ "writeConcern" \in DOMAIN ClientOpts
    /\ \A k \in DOMAIN ClientOpts : ValidOption(k, ClientOpts[k])

\* What is given, and where it says nothing, the defaults.
Over(given, defaults) ==
    [k \in DOMAIN given \cup DOMAIN defaults |->
       IF k \in DOMAIN given THEN given[k] ELSE defaults[k]]

\* What is valid of the options.
ParseTransactionOptionsLoosely(options) ==
    [k \in {k \in DOMAIN options : ValidOption(k, options[k])} |-> options[k]]

\* php_mongodb_session_parse_transaction_options: one option that is not valid
\* is an exception; no options are as good as none given.
ParseTransactionOptions(options) ==
    IF \A k \in DOMAIN options : ValidOption(k, options[k]) THEN options ELSE NULL

\* Values that are not reported.
IsDefault(key, value) ==
    IF key = "maxCommitTimeMS" THEN value = 0
    ELSE key # "readPreference" /\ value = "default"

\* mongoc_client_session_in_transaction, Session::isInTransaction
InTransaction(cs) == cs.state \in {"starting", "in_progress"}

\* php_phongo_transaction_options_to_zval
TransactionOptions(cs) ==
    IF cs = NULL \/ ~InTransaction(cs) THEN NULL
    ELSE [k \in {k \in DOMAIN cs.opts : ~IsDefault(k, cs.opts[k])} |-> cs.opts[k]]

-------------------------------------------------------------------------------
(* libmongoc's session *)

NewSession(defaults, snapshot) ==
    [state |-> "none", txn |-> 0, server |-> NULL, opts |-> <<>>,
     defaults |-> defaults, snapshot |-> snapshot]

\* What is not given is taken from the session, then from the client.
Merged(cs, given) == Over(Over(given, cs.defaults), ClientOpts)

CanStart(cs, given) ==
    /\ ~InTransaction(cs) /\ ~cs.snapshot
    /\ Merged(cs, given).writeConcern # "unacknowledged"

MongocStart(cs, given) ==
    [cs EXCEPT !.state = "starting", !.txn = @ + 1, !.server = NULL,
               !.opts = Merged(cs, given)]

Unpinned(cs) == [cs EXCEPT !.server = NULL]

-------------------------------------------------------------------------------
(* The application *)

NewUnit(unit, size) ==
    [phase |-> "begin", unit |-> unit, size |-> size, done |-> 0, commits |-> 0,
     ambiguous |-> FALSE, again |-> FALSE]

Init ==
    /\ client_session = NULL
    /\ advancing = FALSE
    /\ txns = <<>>
    /\ \E size \in Sizes : app = [NewUnit(1, size) EXCEPT !.phase = "session"]
    /\ crashed = FALSE

Goes(phase) == app' = [app EXCEPT !.phase = phase]

\* An exception from startTransaction or from an operation: the transaction, if
\* there is one, is aborted, and the unit run again if that makes sense.
Recovers(e) == app' = [app EXCEPT !.phase = "recover", !.again = HasErrorLabel(e, Transient)]

\* An exception from commitTransaction.
CommitFailed(e) ==
    app' = [app EXCEPT
              !.commits = @ + 1,
              !.ambiguous = @ \/ HasErrorLabel(e, Unknown),
              !.phase = IF HasErrorLabel(e, Unknown)
                          THEN IF app.commits + 1 < MaxCommits THEN "commit" ELSE "unknown"
                        ELSE IF HasErrorLabel(e, Transient) THEN "again"
                        ELSE IF app.ambiguous THEN "unknown" ELSE "failed"]

\* The unit from the beginning.
RunAgain ==
    /\ app.phase = "again"
    /\ app' = NewUnit(app.unit, app.size)
    /\ UNCHANGED <<client_session, advancing, txns, crashed>>

NextUnit(size) ==
    /\ app.phase = "done" /\ app.unit < MaxUnits
    /\ app' = NewUnit(app.unit + 1, size)
    /\ UNCHANGED <<client_session, advancing, txns, crashed>>

-------------------------------------------------------------------------------
(* Manager::startSession and Session::startTransaction *)

StartSession(o) ==
    /\ app.phase = "session"
    /\ LET defaults == ParseTransactionOptions(o.defaults)
       IN IF defaults = NULL \/ (o.causal /\ o.snapshot)
            THEN Goes("failed") /\ UNCHANGED client_session
            ELSE /\ client_session' = NewSession(defaults, o.snapshot)
                 /\ Goes("begin")
    /\ UNCHANGED <<advancing, txns, crashed>>

\* SESSION_CHECK_LIVELINESS
Live == client_session # NULL

StartTransaction(options) ==
    /\ app.phase = "begin" /\ Len(txns) < MaxTxns
    /\ LET given == ParseTransactionOptions(options)
       IN IF Live /\ given # NULL /\ CanStart(client_session, given)
            THEN /\ client_session' = MongocStart(client_session, given)
                 /\ txns' = Append(txns, [state |-> "none", ops |-> 0, sent |-> {},
                                          unit |-> app.unit, size |-> app.size,
                                          asked |-> Over(options, client_session.defaults),
                                          committed |-> NULL])
                 /\ Goes(IF app.size = 0 THEN "commit" ELSE "work")
            ELSE /\ Recovers(Exception(IF ~Live THEN "logic" ELSE
                                       IF given = NULL THEN "invalid_arg"
                                       ELSE "transaction", NULL))
                 /\ UNCHANGED <<client_session, txns>>
    /\ UNCHANGED <<advancing, crashed>>

-------------------------------------------------------------------------------
(* Operations *)

\* A server for each operation.
SelectServerAlways(cs) == Server

\* php_phongo_manager_select_server: the one the session is pinned to.
SelectServer(cs) == IF cs.server # NULL THEN {cs.server} ELSE Server

Current == client_session.txn

\* A transaction becomes known to the servers by its first operation.
Accepted == client_session.state = "starting" \/ txns[Current].state = "open"

\* One with a higher number ends the one before.
Opened(t) ==
    [i \in DOMAIN t |->
       IF i = Current THEN [t[i] EXCEPT !.state = "open", !.ops = @ + 1]
       ELSE IF t[i].state = "open" THEN [t[i] EXCEPT !.state = "aborted"] ELSE t[i]]
Aborted(t, i) == IF t[i].state = "open" THEN [t EXCEPT ![i].state = "aborted"] ELSE t
Sent(s) == [txns EXCEPT ![Current].sent = @ \cup {s}]

\* An operation that reaches libmongoc: it succeeds; the request or the reply is
\* lost; the server aborts the transaction, because of a conflict or because
\* the operation is wrong.  What has the label unpins the session.
Run(s, outcome) ==
    LET cs == [client_session EXCEPT !.state = "in_progress", !.server = s]
    IN CASE outcome = "ok" ->
              /\ Accepted /\ txns' = Opened(Sent(s)) /\ client_session' = cs
              /\ app' = [app EXCEPT !.done = @ + 1,
                                    !.phase = IF app.done + 1 = app.size THEN "commit" ELSE @]
         [] outcome = "unanswered" ->
              /\ Accepted /\ txns' = Opened(Sent(s)) /\ client_session' = Unpinned(cs)
              /\ Recovers(Exception("stream", Reply({Transient}, {})))
         [] outcome = "lost" ->
              /\ txns' = Sent(s) /\ client_session' = Unpinned(cs)
              /\ Recovers(Exception("stream", Reply({Transient}, {})))
         [] outcome = "conflict" ->
              /\ txns' = Aborted(Sent(s), Current) /\ client_session' = Unpinned(cs)
              /\ Recovers(Exception("server", Reply({Transient}, {})))
         [] outcome = "wrong" ->
              /\ Accepted /\ txns' = Aborted(Opened(Sent(s)), Current) /\ client_session' = cs
              /\ Recovers(Exception("server", Reply({}, {})))

\* phongo_parse_session asks libmongoc for the client of a session that may be
\* NULL.  Settings of another class are refused, and any read or write concern
\* in a transaction.
Execute(options) ==
    /\ app.phase = "work"
    /\ IF ~Live THEN crashed' = TRUE /\ UNCHANGED <<client_session, txns, app>>
       ELSE /\ \/ \E s \in SelectServer(client_session),
                     r \in {"ok", "unanswered", "lost", "conflict", "wrong"} :
                    options = "none" /\ Run(s, r)
               \/ /\ client_session.server = NULL
                  /\ Recovers(Exception("server_selection", NULL))
                  /\ UNCHANGED <<client_session, txns>>
               \/ /\ options \in {"other", "concern"}
                  /\ Recovers(Exception("invalid_arg", NULL))
                  /\ UNCHANGED <<client_session, txns>>
            /\ UNCHANGED crashed
    /\ UNCHANGED advancing

-------------------------------------------------------------------------------
(* Session::commitTransaction, abortTransaction and endSession *)

\* The first commit has the transaction's write concern, later ones wait for the
\* majority.
Committing(t) ==
    [t EXCEPT ![Current].committed = IF client_session.state = "committed" THEN @
                               ELSE client_session.opts]
Committed(t) == [t EXCEPT ![Current].state = "committed"]

MongocCommit(outcome) ==
    LET known == txns[Current].state \in {"open", "committed"}
        fails(domain, reply) ==
          /\ client_session' = Unpinned([client_session EXCEPT !.state = "committed"])
          /\ CommitFailed(Exception(domain, reply))
    IN CASE outcome = "ok" ->
              /\ known /\ txns' = Committed(Committing(txns))
              /\ client_session' = [client_session EXCEPT !.state = "committed"]
              /\ Goes("done")
         [] outcome = "unanswered" ->
              /\ known /\ txns' = Committed(Committing(txns))
              /\ fails("stream", Reply({Unknown}, {}))
         [] outcome = "lost" ->
              /\ txns' = Committing(txns)
              /\ fails("stream", Reply({Unknown}, {}))
         [] outcome = "concern" ->
              /\ known /\ txns' = Committed(Committing(txns))
              /\ \E labels \in {<<{Unknown}, {}>>, <<{}, {Unknown}>>} :
                   fails("write_concern", Reply(labels[1], labels[2]))
         [] outcome = "gone" ->
              /\ ~known /\ txns' = Committing(txns)
              /\ fails("server", Reply({Transient}, {}))

CommitTransaction ==
    /\ app.phase = "commit"
    /\ IF ~Live THEN CommitFailed(Exception("logic", NULL)) /\ UNCHANGED <<client_session, txns>>
       ELSE CASE client_session.state \in {"none", "aborted"} ->
                   /\ CommitFailed(Exception("transaction", NULL))
                   /\ UNCHANGED <<client_session, txns>>
              [] client_session.state = "starting" ->
                   /\ client_session' = [client_session EXCEPT !.state = "committed"]
                   /\ Goes("done") /\ UNCHANGED txns
              [] OTHER -> \E r \in {"ok", "unanswered", "lost", "concern", "gone"} : MongocCommit(r)
    /\ UNCHANGED <<advancing, crashed>>

\* The abort is sent once and its failure ignored.
AbortSent(arrives) ==
    txns' = IF Live /\ client_session.state = "in_progress" /\ arrives
              THEN Aborted(txns, Current) ELSE txns

\* isInTransaction() and abortTransaction(); both refuse an ended Session.
AbortTransaction(arrives) ==
    /\ app.phase = "recover"
    /\ IF Live /\ InTransaction(client_session)
         THEN /\ client_session' = Unpinned([client_session EXCEPT !.state = "aborted"])
              /\ AbortSent(arrives)
         ELSE UNCHANGED <<client_session, txns>>
    /\ Goes(IF Live /\ app.again THEN "again" ELSE "failed")
    /\ UNCHANGED <<advancing, crashed>>

\* Session::endSession, from any part of the application, and the destructor.
EndSession(arrives) ==
    /\ app.phase # "session"
    /\ client_session' = NULL
    /\ AbortSent(arrives)
    /\ UNCHANGED <<advancing, app, crashed>>

\* advanceClusterTime() and advanceOperationTime() call the application back
\* after they have checked the session ...
Advance ==
    /\ Live /\ ~advancing
    /\ advancing' = TRUE
    /\ UNCHANGED <<client_session, txns, app, crashed>>

\* ... and, unless it throws, use what is there then.
Advanced(thrown) ==
    /\ advancing
    /\ advancing' = FALSE
    /\ crashed' = (~Live /\ ~thrown)
    /\ UNCHANGED <<client_session, txns, app>>

\* A server ends a transaction that takes too long, or has to step down.
ServerAborts(i) ==
    /\ txns[i].state = "open"
    /\ txns' = Aborted(txns, i)
    /\ UNCHANGED <<client_session, advancing, app, crashed>>

Next ==
    /\ ~crashed
    /\ \/ \E o \in SessionOptions : StartSession(o)
       \/ \E o \in StartOptions : StartTransaction(o)
       \/ \E o \in {"none", "other", "concern"} : Execute(o)
       \/ CommitTransaction
       \/ \E arrives \in BOOLEAN : AbortTransaction(arrives) \/ EndSession(arrives)
       \/ RunAgain \/ \E size \in Sizes : NextUnit(size)
       \/ Advance \/ \E thrown \in BOOLEAN : Advanced(thrown)
       \/ \E i \in DOMAIN txns : ServerAborts(i)

Spec == Init /\ [][Next]_vars

-------------------------------------------------------------------------------
(* Properties *)

\* A unit of work has its effects once, whole, and if it is said to be done; not
\* at all if it has failed; and at most once if the application has to leave it
\* open, although requests, replies and commits are tried again
\* (commitTransaction, phongo_exception_add_error_labels, hasErrorLabel).
EffectsOnce ==
    \A u \in 1..MaxUnits :
      LET effects == {i \in DOMAIN txns : txns[i].unit = u /\ txns[i].state = "committed"}
      IN /\ Cardinality(effects) <= 1
         /\ \A i \in effects : txns[i].ops = txns[i].size
         /\ u = app.unit /\ app.phase = "failed" => effects = {}
         /\ u = app.unit /\ app.phase = "done" /\ app.size > 0 => effects # {}
         /\ u < app.unit => \E i \in DOMAIN txns : txns[i].unit = u /\
                              (txns[i].size > 0 => i \in effects)

\* All operations of a transaction are sent to one mongos, the one that
\* getServer() reports as long as the session is pinned, and a transaction does
\* not inherit the server of the one before (php_phongo_manager_select_server).
OneServer ==
    /\ \A i \in DOMAIN txns : Cardinality(txns[i].sent) <= 1
    /\ Live /\ client_session.server # NULL => client_session.server \in txns[Current].sent

\* A transaction is started only with options that are valid, and committed with
\* those that its startTransaction() was given, else with the session's, never
\* with those of another transaction; getTransactionOptions() reports them
\* (php_mongodb_session_parse_transaction_options).
CommittedAsAsked ==
    \A i \in DOMAIN txns :
      LET asked == Over(txns[i].asked, ClientOpts)
      IN /\ \A k \in DOMAIN asked : ValidOption(k, asked[k])
         /\ asked.writeConcern # "unacknowledged"
         /\ txns[i].committed # NULL => txns[i].committed = asked
         /\ Live /\ i = Current /\ TransactionOptions(client_session) # NULL =>
              TransactionOptions(client_session) =
                [k \in {k \in DOMAIN asked : ~IsDefault(k, asked[k])} |-> asked[k]]

================================================================================
