------------------------------ MODULE BulkWrite ------------------------------
(***************************************************************************)
(* BulkWrite objects (BulkWrite.c) and their execution                     *)
(* (phongo_execute_bulk_write in php_phongo.c).                            *)
(*                                                                         *)
(* A BulkWrite collects operations and is executed once; an attempt that   *)
(* is rejected may be repeated with other arguments.  While libmongoc runs *)
(* the commands, command subscribers are called: PHP code that may use any *)
(* BulkWrite, the one being executed too, execute it, and throw.  The      *)
(* executions in progress form a stack.  The batches libmongoc splits a    *)
(* bulk into are one command here, with the callbacks of its two events.   *)
(***************************************************************************)
EXTENDS Naturals, Sequences

CONSTANTS
    Bulk,       \* BulkWrite objects
    Mgr,        \* Managers, each with a client of its own
    Session,    \* explicit Sessions
    SessionOf,  \* [Session -> Mgr]: the Manager that started a Session
    DefaultWC,  \* [Mgr -> Concern]: the write concern of the client
    NS,         \* namespaces "database.collection"
    Requests,   \* the calls of executeBulkWrite that the program makes
    MaxOps,     \* bound: operations in a BulkWrite
    MaxDepth,   \* bound: executions nested in callbacks of executions
    MaxSent,    \* bound: commands that servers get, over all executions
    NULL

Concern == {"acknowledged", "unacknowledged"}

ASSUME BoundsAssumption == {MaxOps, MaxDepth, MaxSent} \subseteq Nat
ASSUME SessionAssumption == SessionOf \in [Session -> Mgr]
ASSUME ConcernAssumption == DefaultWC \in [Mgr -> Concern]
ASSUME NullAssumption == NULL \notin NS \cup Mgr \cup Session \cup Concern

VARIABLES
    bulk,       \* [Bulk -> BulkRec]
    stack,      \* executions in progress, the innermost last
    exception,  \* EG(exception), a chain: the newest first, then its previous ones
    log         \* what was sent to servers, in order

vars == <<bulk, stack, exception, log>>

-------------------------------------------------------------------------------
(* Data *)

\* What a call of executeBulkWrite asks for; ns NULL stands for a malformed one,
\* session and wc NULL for options not given.
Request == [mgr: Mgr, ns: NS \cup {NULL}, session: Session \cup {NULL},
            wc: Concern \cup {NULL}]

ASSUME RequestsAssumption == Requests \subseteq Request

\* What libmongoc's bulk operation has been told.
Op == [mgr: Mgr \cup {NULL}, ns: NS \cup {NULL}, session: Session \cup {NULL},
       wc: Concern \cup {NULL}]

\* php_phongo_bulkwrite_t: num_ops, executed, database and collection, session
BulkRec == [numOps: 0..MaxOps, executed: BOOLEAN, ns: NS \cup {NULL},
            session: Session \cup {NULL}, op: Op]

\* BulkWrite::__construct
Fresh == [numOps |-> 0, executed |-> FALSE, ns |-> NULL, session |-> NULL,
          op |-> [mgr |-> NULL, ns |-> NULL, session |-> NULL, wc |-> NULL]]

Errors == {"none", "server", "network"}

\* An execution: started, its first event and then its command to come; or
\* finished, with its second event to come.  running: a callback is running.
\* nested: it began while its BulkWrite was being executed; shared: it is
\* nested, or another execution of its BulkWrite began within it.
Frame == [bulk: Bulk, request: Request, finished: BOOLEAN, running: BOOLEAN,
          error: Errors, nested: BOOLEAN, shared: BOOLEAN]

\* What was sent, and for which call
Entry == [bulk: Bulk, request: Request, op: Op, nested: BOOLEAN, shared: BOOLEAN]

Exception == [class: {"User", "InvalidArgument", "Connection", "BulkWrite"},
              writeResult: BOOLEAN]

Thrown(class) == [class |-> class, writeResult |-> FALSE]

TypeOK ==
    /\ bulk \in [Bulk -> BulkRec]
    /\ stack \in Seq(Frame) /\ Len(stack) <= MaxDepth
    /\ exception \in Seq(Exception)
    /\ log \in Seq(Entry)

Init ==
    /\ bulk = [b \in Bulk |-> Fresh]
    /\ stack = <<>> /\ exception = <<>> /\ log = <<>>

Top == stack[Len(stack)]
Below == SubSeq(stack, 1, Len(stack) - 1)
WithTop(f) == [stack EXCEPT ![Len(stack)] = f]

\* PHP code of the program or of a callback is running.
InUserCode == IF stack = <<>> THEN TRUE ELSE Top.running
UserCode == InUserCode /\ exception = <<>>

Executing(b) == \E i \in 1..Len(stack) : stack[i].bulk = b

-------------------------------------------------------------------------------
(* Adding operations *)

\* BulkWrite::insert, ::update and ::delete, once the operation is accepted
Enqueue(b) ==
    /\ UserCode
    /\ bulk[b].numOps < MaxOps
    /\ bulk' = [bulk EXCEPT ![b].numOps = @ + 1]
    /\ UNCHANGED <<stack, exception, log>>

\* ... and when a document cannot be converted, an option is malformed, or
\* libmongoc rejects the operation
EnqueueFails(b) ==
    /\ UserCode
    /\ exception' = <<Thrown("InvalidArgument")>>
    /\ UNCHANGED <<bulk, stack, log>>

-------------------------------------------------------------------------------
(* Executing: phongo_execute_bulk_write *)

\* The write concern of the call: the option's, or the client's.
WriteConcern(r) == IF r.wc # NULL THEN r.wc ELSE DefaultWC[r.mgr]

\* phongo_parse_session rejects the Session of another client.
Foreign(r) == r.session # NULL /\ SessionOf[r.session] # r.mgr

\* Mutant: only the option is looked at.
ConflictOfOptions(r) == r.session # NULL /\ r.wc = "unacknowledged"

\* "Cannot combine "session" option with an unacknowledged write concern"
Conflict(r) == r.session # NULL /\ WriteConcern(r) = "unacknowledged"

\* Mutant: a namespace that is there is kept.
ParsedOnce(x, r) == IF x.ns # NULL THEN x ELSE [x EXCEPT !.ns = r.ns]

\* phongo_split_namespace into database and collection
Parsed(x, r) == [x EXCEPT !.ns = r.ns]

\* Manager::executeBulkWrite checks the Session and selects a server before it
\* gets to the BulkWrite; Server::executeBulkWrite goes there at once.  An option
\* that is not an object of its class is malformed.
ExecuteRejectedEarly(b, malformed) ==
    /\ UserCode
    /\ \/ /\ \/ malformed \/ bulk[b].executed
             \/ \E r \in Requests : Foreign(r) \/ r.ns = NULL
          /\ exception' = <<Thrown("InvalidArgument")>>
       \/ /\ \E r \in Requests : ~Foreign(r)
          /\ exception' = <<Thrown("Connection")>>
    /\ UNCHANGED <<bulk, stack, log>>

\* A call that is rejected after the namespace has been parsed
ExecuteRejectedLate(b, r, malformed) ==
    /\ UserCode
    /\ ~bulk[b].executed /\ r.ns # NULL
    /\ malformed \/ Foreign(r) \/ Conflict(r)
    /\ bulk' = [bulk EXCEPT ![b] = Parsed(@, r)]
    /\ exception' = <<Thrown("InvalidArgument")>>
    /\ UNCHANGED <<stack, log>>

\* The bulk operation is told what to do; the BulkWrite holds the Session.
Prepared(x, r) ==
    [x EXCEPT !.session = IF r.session # NULL THEN r.session ELSE @,
              !.op = [mgr |-> r.mgr, ns |-> x.ns,
                      session |-> IF r.session # NULL THEN r.session ELSE @.session,
                      wc |-> IF r.wc # NULL THEN r.wc ELSE @.wc]]

Accepts(b, r) == ~bulk[b].executed /\ r.ns # NULL /\ ~Foreign(r) /\ ~Conflict(r)

\* libmongoc asserts that a bulk operation with a Session is given its client
\* again, and ends the process otherwise.
ClientKept(b, r) ==
    bulk[b].op.session # NULL => SessionOf[bulk[b].op.session] = r.mgr

\* Executions of b in progress share it with the one that begins.
Shared(b) ==
    [i \in 1..Len(stack) |->
       [stack[i] EXCEPT !.shared = @ \/ stack[i].bulk = b]]

\* mongoc_bulk_operation_execute begins: the first event, if anyone subscribes.
\* The executed flag is still down, so that a callback can begin another
\* execution of the same BulkWrite.
ExecuteBegins(b, r, subscribed) ==
    /\ UserCode
    /\ Accepts(b, r) /\ ClientKept(b, r)
    /\ bulk[b].numOps > 0
    /\ Len(stack) < MaxDepth /\ Len(log) + Len(stack) < MaxSent
    /\ bulk' = [bulk EXCEPT ![b] = Prepared(Parsed(@, r), r)]
    /\ stack' = Append(Shared(b), [bulk |-> b, request |-> r, finished |-> FALSE,
                                   running |-> subscribed, error |-> "none",
                                   nested |-> Executing(b), shared |-> Executing(b)])
    /\ UNCHANGED <<exception, log>>

\* ... and refuses an empty bulk, which counts as executed all the same
ExecuteEmpty(b, r) ==
    /\ UserCode
    /\ Accepts(b, r)
    /\ bulk[b].numOps = 0
    /\ bulk' = [bulk EXCEPT ![b] = [Prepared(Parsed(@, r), r) EXCEPT !.executed = TRUE]]
    /\ exception' = <<Thrown("InvalidArgument")>>
    /\ UNCHANGED <<stack, log>>

\* The command is sent; the second event, unless an exception is pending or
\* nobody subscribes.  Of a network error nobody knows if the server got it.
Send(error, received, subscribed) ==
    /\ stack # <<>> /\ ~Top.running /\ ~Top.finished
    /\ error # "network" => received
    /\ subscribed => exception = <<>>
    /\ log' = IF received THEN Append(log, [bulk |-> Top.bulk, request |-> Top.request,
                                            op |-> bulk[Top.bulk].op,
                                            nested |-> Top.nested, shared |-> Top.shared])
              ELSE log
    /\ stack' = WithTop([Top EXCEPT !.finished = TRUE, !.error = error,
                                    !.running = subscribed])
    /\ UNCHANGED <<bulk, exception>>

\* Mutants: no BulkWriteException on top of another exception; the executed
\* flag is set only if the execution succeeds.
LayeredOnce(error, pending) ==
    IF error = "none" \/ pending # <<>> THEN pending
    ELSE <<[class |-> "BulkWrite", writeResult |-> TRUE]>>
FinishedIfOk(x, error) == [x EXCEPT !.executed = error = "none"]

\* The exceptions of a failed execution, on top of a pending one: that of an
\* error which is not the server's, and a BulkWriteException with the result.
Layered(error, pending) ==
    IF error = "none" THEN pending
    ELSE <<[class |-> "BulkWrite", writeResult |-> TRUE]>>
         \o (IF error = "network" THEN <<Thrown("Connection")>> ELSE <<>>) \o pending

Finished(x, error) == [x EXCEPT !.executed = TRUE]

Finish ==
    /\ stack # <<>> /\ ~Top.running /\ Top.finished
    /\ bulk' = [bulk EXCEPT ![Top.bulk] = Finished(@, Top.error)]
    /\ exception' = Layered(Top.error, exception)
    /\ stack' = Below
    /\ UNCHANGED log

-------------------------------------------------------------------------------
(* Callbacks *)

\* A callback returns, with an exception of its own or of a call it made, or
\* without.
CallbackReturns(throws) ==
    /\ stack # <<>> /\ Top.running
    /\ throws => exception = <<>>
    /\ exception' = IF throws THEN <<Thrown("User")>> ELSE exception
    /\ stack' = WithTop([Top EXCEPT !.running = FALSE])
    /\ UNCHANGED <<bulk, log>>

\* The program, or a callback, catches the exception of a call it made.
Catch ==
    /\ exception # <<>> /\ InUserCode
    /\ exception' = <<>>
    /\ UNCHANGED <<bulk, stack, log>>

-------------------------------------------------------------------------------
Calls(b) ==
    \/ Enqueue(b)
    \/ EnqueueFails(b)
    \/ \E malformed \in BOOLEAN : ExecuteRejectedEarly(b, malformed)
    \/ \E r \in Requests : \/ \E malformed \in BOOLEAN : ExecuteRejectedLate(b, r, malformed)
                          \/ ExecuteEmpty(b, r)
                          \/ \E s \in BOOLEAN : ExecuteBegins(b, r, s)

Next ==
    \/ \E b \in Bulk : Calls(b)
    \/ \E error \in Errors, received \in BOOLEAN, s \in BOOLEAN : Send(error, received, s)
    \/ Finish
    \/ \E throws \in BOOLEAN : CallbackReturns(throws)
    \/ Catch

Spec == Init /\ [][Next]_vars

-------------------------------------------------------------------------------
(* Properties *)

\* "BulkWrite objects may only be executed once": however attempts are rejected,
\* repeated and nested, of all the times that servers get the operations of a
\* BulkWrite at most one was begun while that BulkWrite was not being executed.
\* The others, if any, were begun by subscribers within the first one: the
\* executed flag is tested before the commands are sent, and set after.
ExecutedOnce ==
    \A i, j \in 1..Len(log) :
       log[i].bulk = log[j].bulk /\ i # j => log[i].nested \/ log[j].nested

\* What is sent goes where, in the Session and with the write concern that the
\* call asked for, whatever earlier rejected calls left in the BulkWrite and
\* whatever callbacks do with other BulkWrites, or add to this one.  Only
\* executions of one BulkWrite within each other share what it is told.
WrittenAsAsked ==
    \A i \in 1..Len(log) : ~log[i].shared =>
       log[i].op = [mgr |-> log[i].request.mgr, ns |-> log[i].request.ns,
                    session |-> log[i].request.session, wc |-> log[i].request.wc]

\* No write that needs no acknowledgement is sent in an explicit Session, be the
\* write concern the call's or the client's; with the same exception.
SessionAcknowledged ==
    \A i \in 1..Len(log) :
       LET op == log[i].op
       IN ~log[i].shared /\ op.session # NULL
          => /\ WriteConcern(op) = "acknowledged"
             /\ SessionOf[op.session] = op.mgr

\* An execution that fails ends with a BulkWriteException that carries the write
\* result, also if a subscriber has thrown, and what the subscriber threw is
\* still in the chain of exceptions.
FailureReported ==
    [][\A e \in Errors \ {"none"} :
         (/\ Len(stack') < Len(stack) /\ Top.error = e)
         => /\ exception' # <<>>
            /\ exception'[1] = [class |-> "BulkWrite", writeResult |-> TRUE]
            /\ exception = SubSeq(exception', Len(exception') - Len(exception) + 1,
                                  Len(exception'))]_vars

================================================================================
