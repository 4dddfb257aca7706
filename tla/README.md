# Verification of the MongoDB PHP driver

TLA+ models, TLC model checks and TLAPS proofs of the core of the `mongodb` PHP
extension: the C code that sits between PHP's object model (reference counts,
requests, callbacks, `fork`) and libmongoc. Paths below are those of the
repository; libmongoc, libmongocrypt, PHP itself and the MongoDB server are
external and are modelled only by what the extension uses of them.

## 1. The system

### Components, their state and their operations

| Component | Code | State | Operations |
| --- | --- | --- | --- |
| Client registries, Managers | `php_phongo.c`, `Manager.c` | persistent and request-scoped tables of `php_phongo_pclient_t` (pid of creation, pid of last reset); a Manager's client, pid, key vault Manager | construct, free, reset on a changed pid, RINIT, RSHUTDOWN, GSHUTDOWN |
| Servers | `Server.c` | Manager, server id, pid | selectServer, getServers, Cursor::getServer, execute* |
| Sessions | `Session.c`, `Manager.c` | libmongoc session (NULL once ended), client reset generation, pid | start, end, free, transactions, advance |
| Queries, commands, cursors | `php_phongo.c`, `Cursor.c` | libmongoc cursor, `advanced`, position, decoded document, type map, session | execute*, rewind, next, current, key, valid, toArray, setTypeMap, free |
| Bulk writes | `BulkWrite.c`, `php_phongo.c`, `WriteResult.c` | libmongoc bulk, number of operations, namespace, Session, `executed` | insert, update, delete, execute, the write result and its exceptions |
| Command monitoring | `phongo_apm.c`, `Monitoring/*.c` | global subscribers, each Manager's subscribers, registry of Managers, APM callbacks of a client | addSubscriber, removeSubscriber, dispatch of started, succeeded and failed events |
| Connection options | `php_phongo.c` 1340-2580, 3202-3310 | a `mongoc_uri_t` under construction | merge and validate URI string and options arrays |
| Client-side encryption | `ClientEncryption.c`, `php_phongo.c` | key vault client, options | auto-encryption options, explicit encryption |
| BSON decoding | `src/bson.c` | visitor state: type map, field path, class named by `__pclass` | visit, type map lookup, instantiate |
| BSON encoding | `src/bson-encode.c` | the document being built | encode, `_id` injection, Persistable, Serializable |
| BSON values | `src/BSON/*.c` | one value each, immutable but for a second call of the constructor or unserialize() | construct, compare, serialize, set_state |
| Settings | `ReadPreference.c`, `WriteConcern.c`, `ReadConcern.c`, `ServerApi.c`, `CursorId.c`, `Query.c`, `Command.c` | the same | construct, round trips |
| Exceptions | `php_phongo.c`, `Exception/*.c` | the pending exception and its predecessors | map libmongoc errors, labels, result documents |
| Module lifecycle, log | `php_phongo.c` | threads alive, debug stream | GINIT, MINIT, MSHUTDOWN, GSHUTDOWN, ini updates |

### How they interact

* A Manager is found by a hash of its constructor arguments, so several Managers
  share one persistent client; with `disableClientPersistence` each has its own,
  in a second registry that dies with the request.
* Every Server, Session and Cursor holds a Manager and the pid of its creator.
  The first use after a fork (`PHONGO_RESET_CLIENT_IF_PID_DIFFERS`) resets the
  client: libmongoc then gives up the parent's cursors and pooled sessions.
* An encrypted Manager holds the Manager of its key vault client; a reset
  follows that reference, and destruction has to respect it.
* Executing anything calls libmongoc, which calls the APM callbacks, which call
  PHP subscribers, which may call anything of the above again.
* A Cursor keeps its Session alive, an implicit one included; freeing it may
  send killCursors, and so raise events.

### What is hard about it

There is one PHP thread in a process, so the difficulty is not in locks. It is in
processes that share sockets, cursors and LSIDs after a fork; in callbacks that
change the registries being iterated and the objects being used; in the order in
which objects, registries and clients are destroyed; in state that a Cursor or a
BulkWrite keeps from one call to the next; and in calls that fail half way. The
list `hazards` in `PROJECT.json` gives each one at its line with the property
that covers it, or the reason why none does yet.

### What makes each component correct

* Clients: no process affects cursors, sockets or LSIDs of another, nor its
  transactions unless it ends an inherited one itself; its own remain usable and are closed when it exits; a key vault
  client outlives its users.
* Cursors: each result is shown once, in order, decoded as the type map says,
  under the right key; an error is never mistaken for the end; implicit sessions
  are neither leaked nor shared.
* Bulk writes: sent at most once, but for what its own callbacks do, to what the accepted call named, and a failure
  is always reported with its result.
* Monitoring: events reach live subscribers, name a live Manager of the right
  client - that of a key vault, for its commands - and come in pairs.
* Connection options: what a Manager is configured with does not depend on an
  earlier call, nor on the order of the options but where the code says so (which
  of several spellings of an option is the last, and three pairs of options), and
  its parts agree with each other and with what was asked, wherever each came from.
* Transactions: a unit of work that is retried as the error labels say has its
  effects once or not at all, on one server, under the options it was given.
* BSON: each document is decoded as its own path in the type map says, and what
  is encoded comes back.
* Value objects: no sequence of calls leaves one with a value its class refuses,
  and each written form that its class can read gives the same value again.

## 2. Modules

### ClientLifecycle

Every process has its own image of the extension's memory and `Fork` copies it.
`manager`, `pclient`, `server`, `session` and `cursor` are the driver's structs;
`client` is `mongoc_client_t` (reset generation, session pool, the process whose
sockets it uses, its key vault). `interference` records each effect that a step
of one process has on server state another process owns (a cursor killed, a
transaction ended, a client destroyed): it is the history variable most properties
speak about. The free handler of a Session compares pids before libmongoc ends its
transaction; `endSession()`, `commitTransaction()` and `abortTransaction()` do not,
and in the model they end the transaction of the parent. `faults` records uses of released memory.

| Action | Code |
| --- | --- |
| Construct, ConstructRejected | `phongo_manager_init`, `php_phongo_manager_register`, auto-encryption options |
| FreeManager | Manager free_object, `php_phongo_client_unregister` |
| server, execute, Cursor and Session steps | Server.c, Session.c, Cursor.c with the reset at the head of each |
| Fork | the `pid` comparisons of `PHONGO_RESET_CLIENT_IF_PID_DIFFERS` |
| Rshutdown... Rinit, Gshutdown... | RSHUTDOWN, object store teardown, RINIT, GSHUTDOWN, one client destroyed per step |

Abstractions: the hash that finds a client is a choice of option sets; a Manager
argument list is a member of `Opts`; documents and servers do not appear.
`Habits` says which legal but delicate things the application does; each is
described at its declaration. Pids are never used again.

### CursorIteration and ResultStream

`obj` is `php_phongo_cursor_t`, `mc` the libmongoc cursor (results, how many are
taken and buffered, cursor id, failure), `sess`, `pool` and `minted` the sessions.
A method call is one step, because one thread runs it, except `toArray()`, which
is a loop over the iterator's methods and takes a step for each. How the server
splits results into batches, and which getMore fails, is chosen freely. The class
decision of `bson.c` for a root document is modelled with the fields it leaves
behind (`root`, `odm`), since they carry over to the next document.

`ResultStream` is the abstract specification: results are taken in order and the
one on show is the last one taken. `IsResultStream` states that CursorIteration
implements it under the mapping `open <- alive`, `taken <- mc.taken`,
`shown <- zchild.doc`.

### Apm

`stack` is the call stack of commands in progress; user code may run when it is
empty or when the top frame is inside a callback, and may then subscribe,
unsubscribe, construct and drop objects, throw, or run another command. `held`
is the snapshot of subscribers that `phongo_apm_get_subscribers_to_notify` builds
for each event. The registry of Managers, which is searched in the order of
registration, is the place of each Manager in that order (0 for none). Objects live
as long as something refers to them (`mgrVar`, `subVar`, registries, snapshots,
frames, and `holder`: the Manager that an encrypted one keeps for its key vault).
A command of an encrypted client may be preceded by commands that libmongoc runs on
the client of its key vault, which raise events of their own: a frame has the Manager
whose operation it is and the client of the command at hand. A Manager
over a persistent client that an earlier request or another Manager has set up is in
`cached`: it gets no `holder`, because `set_auto_encryption_opts` is skipped for it.

### BulkWrite

`bulk` holds `php_phongo_bulkwrite_t` with what libmongoc's bulk operation has
been told (`op`); `stack` the executions in progress; `exception` the chain of
pending exceptions; `log` what was sent and for which call. An execution takes
three steps (accepted, command sent, returned), with callbacks in between, which may
use any BulkWrite: another one, or the one that is being executed, whose `executed`
flag is tested at 727 and set at 773 of `php_phongo.c`, after the callbacks. A frame
is `nested` if its BulkWrite was being executed when it began, and `shared` if it is
one of several executions of one BulkWrite, which also share what libmongoc has been
told. libmongoc asserts that a bulk operation with a Session keeps its client
(`ClientKept`), and would end the process, so there is no such step.

### UriOptions

The constructor of a Manager, from its arguments to a registered client: one
action per function that `phongo_manager_init` calls, in its order, and a fold
over the options inside each. `uri` is the `mongoc_uri_t` under construction,
`pclients` the persistent clients by the hash of the arguments. An option is its
key and a value tagged with its BSON type. A key is compared regardless of case and
libmongoc knows some by two names, so that several elements of one PHP array may be
the same option: `Spellings` maps each other spelling to its key and `Key` is what
the loops compare. libmongoc's own parsing of the
connection string is external and gives the URI's first configuration.

### Transactions

An application runs units of work in one Session of a sharded cluster, retrying
as the error labels tell it. The driver's part is Session.c (options,
start, commit, abort, end), the choice of server (`Manager.c` 195-240) and the
mapping of a reply to an exception with labels. The rest is external: libmongoc's
transaction states, and a cluster that may lose a request or its reply, may
apply a commit without answering, and may fail to select a server.

### FieldPath, BsonDecode, BsonEncode, BsonCodec

`FieldPath` is the path builder both directions share, with its growth by
`Expansion` levels. `BsonDecode` reads a document as a sequence of elements, one
step each: `states` are the nested visitor states and `zvals` what has been
built, by location. `BsonEncode` walks a graph of arrays and objects depth first;
`frames` are the nested calls and `protected` stands for the recursion guard of
`phongo_compat.c`. `BsonCodec` puts the two together: a program encodes a value
and decodes the result, or decodes a document of another origin.

### Zval, BsonValues, TextValues, Settings, ValueObjects

`Zval` has PHP values and the conversions of `php_array_api.h`; arguments are
what is left after PHP's own conversion of scalar parameters. `BsonValues`
(Timestamp, UTCDateTime, Int64, Binary), `TextValues` (ObjectId, Decimal128, Regex,
Javascript, Symbol, DBPointer) and `Settings` (WriteConcern, ReadPreference,
ReadConcern, ServerApi, CursorId) define, for each class, the calls that give an object a value and the forms it is
written in, as operators from an old value to an outcome. `ValueObjects` is the
life of one object through any sequence of those calls. Int64, Symbol and DBPointer
have no `__set_state()` and are made from a hash by `unserialize()` only
(`SetStateClasses`, `UnserializeNew`).

### Proof modules

One for each component: `ClientLifecycle_proofs`, `CursorIteration_proofs`,
`Apm_proofs`, `BulkWrite_proofs`, `UriOptions_proofs`, `Transactions_proofs`,
`BsonCodec_proofs` and `ValueObjects_proofs`; see section 4.

## 3. Runs

| Run | Expected | What it asks |
| --- | --- | --- |
| fork | pass | inherited cursors, transactions and LSIDs are left alone, own cursors stay killable, exit closes own clients |
| key_vault | pass | order of destruction with key vault clients, across fork, request end and exit |
| server_in_child | violation | a Server taken in a child from a client not yet reset |
| cursor_iteration | pass | what key() and toArray() return; refinement of ResultStream; failures are final; toArray() ends |
| cursor_sessions | pass | sessions of two cursors over one pool |
| monitoring | pass | events, subscribers and Managers with callbacks that change them |
| monitoring_nested | pass | a dispatch nested in a dispatch |
| bulk_write | pass | once, as asked, acknowledged in Sessions, failures reported |
| uri_options | pass | constructing a Manager twice, from options in every order and on several connection strings |
| transactions | pass | retried units of work over an unreliable network: effects, server, options |
| bson_codec | pass | decoding of documents of any origin, encoding of shared and recursive values, the round trip |
| value_objects | pass | any sequence of initializations of a value object, and its written forms |

### Bounds, and why they are enough

* `fork`: a parent and a child with one object of each kind. Every hazard of this
  component is between one process and its ancestor through one client, so a
  second child or a second Cursor repeats the case. One LSID for each process
  suffices to be shared.
* `key_vault`: two Managers and two clients make the key vault and its user, in
  both registries, in both processes.
* `cursor_iteration`: three results give a first, a middle and a last one and
  all splits into batches, each result good or corrupt; `MaxIndex` lets the
  program step past the end. `cursor_sessions`: two cursors and two sessions are
  the least that can share a session or race for a pooled one.
* `monitoring`: two Managers on a shared and a request-scoped client and two
  subscribers, so that one callback can disturb the other's. One client encrypts and
  has its key vault on another, set up in this request or in one before. Depth 2 is in
  `monitoring_nested` with one Manager; two of both do not fit a run.
* `bulk_write`: two BulkWrites, each nested in the other or in itself, two
  namespaces (so that an old one can be seen to stick), a Session of one of two
  Managers whose default write concern conflicts with it. Two commands sent are
  enough for one to be the repetition of the other.
* `uri_options`: lists of up to three options of one kind, so that a third can come
  between or after two that interact, some of them in a second spelling; two calls,
  so that the second may find the client of the first. The kinds do not interact with
  each other, except those of TLS with the driver options, which are combined.
* `transactions`: two units of work (one may inherit from the other) of none or
  two operations, two mongos, up to three transactions and two commits each: a
  retry of everything that can be retried, once.
* `bson_codec`: `Expansion` is 2 rather than 8, so that a path outgrows its
  allocation within six elements; two nodes make every shape of sharing and
  recursion, with every combination of fields in `MCBsonCodec`. There are two
  Persistable classes, so that the `__pclass` field of an object of one of them,
  nested or at the root, can name the other.
* `value_objects`: integer widths are small (`Int32Max` = 5) with the same
  relations between them as the real ones, and the arguments lie on both sides of
  each limit. Texts have up to three characters, with a null byte inside, first
  or last, and flags out of order; what libbson makes of ids and decimals is a
  small table (`OidOf`, `DecimalOf`), assumed to read back what it writes. One
  object is enough, as value objects share nothing.

Section 4 removes these bounds for every property of the passing runs but three:
the liveness property of `cursor_iteration`, and `DecodedAsMapped` and `RoundTrip`
of `bson_codec`. For the others the runs show that the properties are worth proving
and that the mutated code breaks them.

Symmetry is used over objects that the actions treat alike, and not in
`cursor_iteration`, which checks liveness.

Deadlock is not checked where the system may stop: all processes of
ClientLifecycle may exit; the calls, documents and units of work of UriOptions,
BsonCodec and Transactions come to an end; and in ValueObjects a call may trip
an assertion of libmongoc, which ends the process.

### Fairness

Only CursorIteration assumes any: weak fairness of the step of the `toArray()`
loop. That loop is `spl_iterator_apply`, which runs without returning to the
program, so once started nothing but the end of the process stops it.
`ToArrayTerminates` needs no fairness of the server: a getMore either answers or
fails, both in the step that sent it (libmongoc bounds it by socket timeouts).

## 4. Proofs

Every theorem holds for every value of the constants, under the assumptions named
in the modules, which say that constants are well formed (bounds are numbers, sets
of objects that are counted are finite, `NULL` is none of the objects) and which
TLC evaluates in every run. Hypotheses beyond those are in the statement of the
theorem and are named below. `PROJECT.json` lists the theorems with the property
each one states.

**ClientLifecycle_proofs.** `TypeCorrect`, `CursorsAreSafe` (`NoForeignKill`),
`FreeingIsSafe` (`FreeingEndsNothing`: freeing a Session ends no transaction of
another process) and `ClientsAreSafe` (`NoForeignDestroy`), for all habits, and
`TransactionsAreSafe` (`NoForeignAbort`: nothing does) for programs without the habit
`inherited_transactions`, that is, which do not call `endSession()`,
`commitTransaction()` or `abortTransaction()` in a child for a transaction that
the parent has in progress. None of the properties is inductive: that a
free handler does nothing to the parent depends on a comparison of generations,
and that the comparison gives the right answer on how the memory image came
about. The invariant is

    ForkInv == TypeOK /\ Refs /\ Registered /\ Owners /\ Born /\ Generations

`Refs`: objects refer to objects that exist. `Registered`: an inherited object's
client is in a registry the reset looks through, while the registries are usable.
`Owners`: a registry entry's pid is the process whose sockets the client uses.
`Born`: a process that does not exist yet has left no trace. `Generations`, the
heart of it: an object made by another process is not younger than its client,
and older once this process has reset that client. Most actions are shown to be an
`ImageStep`, which changes only the image of one process and either keeps or
resets its clients, and `ImageStepInv` shows once and for all that such a step
preserves `ForkInv`; construction, destruction, fork and shutdown are done
one by one.

Its second part proves the properties that do not hold for every application,
each with the habits that break it as its hypotheses, and with a further
invariant on top of `ForkInv`. `StepCases` reduces `Next` to a few kinds of
step (a method or a free handler in one process, construction, destruction of a
client, fork, phases), described by what they may change; each invariant is then
shown to survive each kind.

| Theorem | Habits excluded | Invariant |
| --- | --- | --- |
| `ExitsAreClean` (`ExitClosesOwnClients`) | `rejected_options` | `ExitInv`: an own client is registered until destroyed; RSHUTDOWN and GSHUTDOWN have emptied their registries |
| `KeyVaultsOutliveDependents` (`KeyVaultOutlivesDependents`) | `leftover_objects` | `VaultInv`: a registered client's key vault client is older, registered and of the same registry; a request-scoped one belongs to a Manager that holds the key vault's |
| `OwnCursorsStayKillable` (`OwnCursorsKillable`) | `server_before_reset` | `InheritInv` (an object of another process has a Manager of another process, for all habits) and `OwnInv` (own Servers and Cursors are of clients this process made or has reset, own Cursors of their current generation) |
| `NoLsidIsShared` (`NoSharedLsid`) | `server_before_reset`, `keyvault_inherited`, `keyvault_cached` | these and `LsidInv`: own objects and the pools of such clients have own LSIDs only; every Manager of an encrypted client refers to the key vault's Manager, and both are inherited or neither is |

**CursorIteration_proofs.** `KeysArePositions` (`KeyIsPosition`),
`ToArrayIsComplete` (`ToArrayComplete`), `FailuresAreFinal` (`FailureIsFinal`) and
the refinement `CursorsAreResultStreams` (`IsResultStream`), from

    IterInv == CursorsOK /\ LoopOK /\ ToArrayComplete

`CursorsOK` relates the driver's position and `advanced` to what libmongoc has
taken and buffered, the two counters of one position that the code moves apart
and together again. `LoopOK`: the array a running `toArray()` has so far is the
results before the one on show. For the action properties, every step is
shown to open, close or move one Cursor or to leave all alone (`Opens`, `Closes`,
`Moves`), and each of these to be a step of ResultStream or to stutter.

Its second part is about the sessions. `SessionsAreAccounted`, `SessionsOutliveCursors`,
`NoUnacknowledgedSessions`, `SessionsAreReleased` (`ReleasedAtExhaustion`) and
`TypeCorrect`, from `IterInv` and

    SessInv == RecordsOK /\ PoolOK /\ BoundOK /\ ~dangling

`RecordsOK`: a reference count is the number of Cursors that hold the Session,
and one more for a variable. `PoolOK`: an LSID is in the pool or in one live
Session. `BoundOK`: while the server cursor is open its Cursor holds the
session. The counting is why Cursors are assumed finite.

**Apm_proofs.** `SubscribersAreLive`, `EventManagersLive`, `ManagersAreFound`,
`EventsComeInPairs` and `TypeCorrect`, for any depth of nested commands, from

    ApmInv == TypeOK /\ RegistryOK /\ StackOK /\ ~orphan

`RegistryOK`: the registry has the Managers that exist. `StackOK`: of each
frame, not only of the top one, the Managers it names exist, its snapshot
holds whom it has to call, whoever stayed subscribed is still subscribed, and what
has been heard and is still to do covers them; all frames but the top one are
inside a callback. That a Manager is found for each event of an operation's own
client rests on `LeastNatural`: a non-empty set of places has a first one.

`ManagersAreFound` is about the commands on key vaults too, and needs in addition

    VaultInv == ApmInv /\ HolderOK /\ WalksOK

`HolderOK`: a Manager that encrypts, unless `cached`, holds one whose client is its
key vault. `WalksOK`: from the Manager whose operation it is, the chain of held
Managers leads to one of the client that runs the command, or to a `cached` one. So an
event without a Manager is one of a key vault that is reached through a `cached`
Manager; that it does occur then is in section 5.

**BulkWrite_proofs.** Whatever callbacks do, with the BulkWrite being executed too, and
for any depth: `TypeCorrect`, `FailuresAreReported` (`FailureReported`: an execution
that fails leaves a BulkWriteException with the result on top of all that was
pending), `BulksAreExecutedOnce` (`ExecutedOnce`: of all that is sent of a BulkWrite,
one execution at most began outside an execution of it), `BulksAreWrittenAsAsked` and
`SessionsAreAcknowledged` (for executions that are not `shared`). The invariant is

    OnceInv == TypeOK /\ Stacked /\ Told /\ Untold /\ Logged /\ LogAsked /\ ExecutedOnce

`Stacked`: of the executions of a BulkWrite in progress one is not nested, and until
it is finished only nested ones have sent anything. `Told`: what libmongoc was told is
what the frame's call asked, unless shared. `Untold`: rejected calls left no Session
and no write concern. `Logged`: what was sent is nested, marked executed, or the
outermost frame has only to finish - which is what connects the flag, set late,
with the log.

**Transactions_proofs.** `OperationsGoToOneServer` (`OneServer`),
`OptionsAreCommittedAsAsked` (`CommittedAsAsked`) and `EffectsHappenOnce`
(`EffectsOnce`), for any number of units, retries and servers, from

    TxnInv == TypeOK /\ Agrees /\ Pinned /\ OptionsKept /\ Units /\ LastOne

`Agrees`: the session's transaction is the last one, and its state is one the
application's phase allows. `Pinned`: a transaction was sent to at most one server,
the session's pin while it has one, and work under way is pinned. `OptionsKept`: what was asked for is valid and is what the session
holds. `Units` and `LastOne`: only a transaction in or past its commit has effects,
it is the last of its unit and has all of its operations, and a retry starts
only when the outcome is known to be nothing.

**BsonCodec_proofs.** For documents of any nesting and length, graphs of any size
and any `Expansion` above 0: `PathsAreOwned` (`PathOwned`), `FieldPathsAreExact`
(`FieldPathExact`) and `MarksAreTakenOff` (`NothingMarked`: every end of the encoder
has taken its marks off), from

    CodecInv == DecodeInv /\ EncodeInv

`DecodeInv`: there is a reference to the path for each open state; the path has
room for its levels, which are set, with nothing left above the field visited
last (`Exact`); and `Traces`: the keys of the open documents, followed along the
elements read so far, are the levels of the path. The property names those keys by
a recursive function (`Enclosing`), and what such a function computes for every
input needs induction over data. The invariant therefore carries the whole sequence
of its values, and `EnclosingIs` shows that there is only one such sequence, by the
first place where two could differ. `EncodeInv`: each nested call but the outermost has
marked its own node, all of these are distinct, and it has gone down one level. Both
rest on lemmas of the path builder (`EnsureFacts`, `WriteItemFacts`, `PushFacts`, ...).
The assumptions are that elements and fields have keys, that an object of a graph
refers to values the encoder knows, and that `NULL` is no key.

`RecursionIsDetected` (`RecursionDetected`) adds that the encoder reports recursion for
the values that contain themselves and for no others, although its marks are on
the open calls only and what it has left is forgotten. It needs, beside `CodecInv`,

    SearchInv: while running, Nested /\ Chained /\ LeftSafe; "recursion" raised only if
               the value is cyclic; done without an exception only if it is not

`Nested`: each call is on the field that the next one is for. `Chained`: each node
under way is reached from the ones before it, so that a mark met again closes a
cycle. `LeftSafe`: while nothing was raised, every field already passed leads to no
cycle. That a node is safe when all its fields are is the step that gives up the
record of what was visited; reachability is a closed set of nodes, not a recursion, and
the lemmas about it are of the form "a set closed under the fields contains all that
is reached".

**UriOptions_proofs.** For any number of calls and any lists of options:
`OutcomeOfArguments`, `ClientsAreConsistent` (`ClientConsistent`), `TlsIsAsAsked`
(`TlsAsAsked`) and `OutcomeIsTheSame` (`SameOutcome`), from

    IInv == Running /\ Progress /\ Ended /\ Registered

`Progress`: what the URI is at each step of `phongo_manager_init` is what the call's
arguments alone come to, through the steps before it. `Ended`: the same of every
result. `Registered`: a persistent client is what a new one made from its
arguments would be, without which a call that finds a client could not be compared
with one that makes it. The rest is about that function of the arguments. Each loop
over the options is a fold; its intermediate results are a sequence with one entry
for each prefix, and what the loop comes to is stated in closed form (the last
spelling of a key, or the first refusal) and shown by the least prefix for which it
would fail (`PrefixInduction`), in place of an induction theorem. From
the closed forms it follows that a permutation of the options has the same
outcome unless one of the three orders named in `OrderMatters` is at stake or another
spelling of an option comes last (`SameLast`), which is what the tests
`manager-ctor-duplicate-option-001` to `004` expect.
`CallsAssumption` says what arguments the constructor can get: options with values of
a BSON type, each spelling once but a key in any number of spellings, and a connection string that
libmongoc has parsed and found valid. `TextAssumption` says that the names of two
mechanisms are texts.

**ValueObjects_proofs.** For integers of any width and texts, tag sets and arrays of
any size: `ObjectsAreWellFormed`, `ValuesStayValid` (`AlwaysValid`) and `ValuesReadBack`
(`ReadsBack`), from

    IInv == crashed \in BOOLEAN /\ ObjectInv

`ObjectInv`: unless libmongoc's assertion has ended the process, the object `Holds` one
of the `Values` of its class, or nothing if the class allows it. `Values` is stronger
than `AlwaysValid`: it also says in which form a value is kept (flags sorted, an id
as libbson writes it, a tag that is not "majority"), which is what reading back
needs. For each class, each way to initialize it is `Sound`: from an old value that
is one of the `Values`, a success gives another, and an exception leaves one, whether
the call was refused before or between its assignments. The settings are
initialized in several steps, and `Stage` states what is true between two of them.
Of the texts: `qsort` of the flags gives an arrangement in order (`Arranges`), and
sorting what is in order leaves it (by a count of places: each is where it was);
a C string ends at the least null byte, so that one without any is not cut. Of
the integers: a value within a width is its own `Wrapped` value, and seconds and
milliseconds of a UTCDateTime add up again, for negative ones too. `ReadsBack` then
has one lemma for each class and form, that of `var_export()` for the classes with
a `__set_state()` only; a kept properties hash counts when it has
the keys of the current value, which is a condition of the property (section 5).
The assumptions are that PHP passes zvals of the types the parameters are declared
with (`ArgsAssumption`), that widths are ordered (`WidthAssumption`), that libbson
reads back its own text of an id or a decimal (`ParseAssumption`), and that `NULL` is
none of the values.

**Only model-checked.**

* `ToArrayTerminates`: liveness under fairness is outside what the prover handles.
* `DecodedAsMapped` of BsonDecode and `RoundTrip` of BsonCodec: they compare all that
  a nested document or a graph holds, at every depth, with a value defined by
  recursion over it. The loops of UriOptions and ValueObjects are over one list, and
  the least prefix stands in for induction; here the recursion is over trees of any
  depth, and an induction theorem with an operator as its parameter would be
  needed, which the installed provers cannot instantiate.

## 5. Behaviours seen

The violation run server_in_child is a finding in `PROJECT.json`, with the lines
of the repository it disagrees with. The models show more where the code and its
own comments, documentation or tests part. They have no run of their own; the
setting that makes TLC show each is given.

In ClientLifecycle, by adding to `Habits`:

* `keyvault_cached` (`php_phongo.c:3222`): a second encrypted Manager over a
  cached client never gets its reference to the key vault Manager, so a reset does
  not reach the key vault client, against the comment at 2712; `NoSharedLsid` fails.
* `keyvault_inherited` (`php_phongo.h:220`): an encrypted Manager constructed in a
  child around an inherited key vault Manager bears the child's pid, so its uses
  never reset the key vault client; `NoSharedLsid` fails.
* `inherited_transactions` (`Session.c:586`): `endSession()`, and likewise
  `commitTransaction()` and `abortTransaction()`, do not compare pids as the free
  handler does (662), so that a child that calls one of them on an inherited Session
  ends the transaction that the parent has in progress; `NoForeignAbort` fails.
* `leftover_objects` with two Managers (`php_phongo.c:3806`): RSHUTDOWN empties
  the request registry in its own order; `KeyVaultOutlivesDependents` fails.
* `leftover_objects` (`php_phongo.c:3468`): free handlers that run after
  RSHUTDOWN walk a registry that is NULL; `NoFaults` fails. Whether PHP gets
  there depends on its shutdown order, which is why this is kept as a remark.
* `rejected_options` (`php_phongo.c:3287`): the constructor throws after the
  client was created and before it was registered, so that nothing owns it;
  `ExitClosesOwnClients` fails.

In CursorIteration:

* `ToArrayReturnsAll` fails (`Cursor.c:325`): after the first advance of a command
  cursor has failed, a second `toArray()` returns an empty array and no error.
* `ClassIsOwn` fails with `Kinds` = {"plain", "odm"} (`bson.c:1034`): the class
  that one result names is used for the next one, which names none.

In Apm: a command on a key vault throws "Found no Manager for client in APM event
context" (`phongo_apm.c:160`) when an encrypted Manager is over a persistent client
that was there already (`php_phongo.c:3222` skips its auto-encryption options, and
with them the reference to the key vault's Manager) and the Manager of the key vault
is gone. `ManagerAlwaysFound` names this one exception; without it, it fails.

In BulkWrite: a subscriber may execute the BulkWrite that is being executed again, as
`php_phongo.c:773` sets the flag after libmongoc has called the subscribers, against
the message at 728 ("BulkWrite objects may only be executed once"); its
operations are sent twice, and what the outer execution has yet to send goes where
and in the Session that the inner one was given. The properties name these executions (`nested`, `shared`); without the exception
they fail.

In UriOptions:

* With handshake data that are not strings, `php_phongo.c:2571` throws but goes on,
  the client is registered at 3306, and the same call succeeds the next time, where
  `tests/manager/manager-ctor_error-005.phpt` expects an exception. `SameOutcome`
  excepts these calls; without its condition `HandshakeOk` the run `uri_options`,
  which has such calls, fails.
* An option may be given in several spellings ("w" and "W", "ssl" and "tls"); the
  last one counts, as `tests/manager/manager-ctor-duplicate-option-001.phpt` and its
  three companions expect. A second spelling of `gssapiServiceName` is refused (1698).
* Some orders are part of the outcome, and the property leaves them out:
  `readPreference` after `maxStalenessSeconds` (1901), `gssapiServiceName` with
  `authMechanismProperties` (1698), and a `safe` after `w`, whose type is then not
  checked (1969).

In Transactions:

* An ended Session that is passed as an option gives libmongoc a NULL session
  (`php_phongo.c:651`), and the advance methods test whether the session is alive
  before they run code of the program that may end it (`Session.c:182`, 212).
* A failure to select a server within a transaction carries no error label
  (`Manager.c:235`), so that the application cannot tell it from a lasting one.
* The debug output of a Session shows no operation time unless both its parts are
  non-zero (`Session.c:754`), where `getOperationTime` (306) asks for either.

In BsonDecode and BsonEncode:

* A nested Persistable object's own field `__pclass` is written beside the class
  name (`bson-encode.c` 128-131), where the comment at 388 says it is ignored; the
  decoder takes the last one. `RoundTrip` says so: such an object comes back as one
  of the class that its field names, and the object at the root as its own.
* `php_phongo_field_path_as_string` reads one element past the allocation when
  the path fills it (`bson.c:62`), and writes before its buffer if no level is set
  (81). The first is a nondeterministic value in the model (`Garbage`).
* A `fieldPaths` entry with an empty type name leaves its type unset (1255).
* The encoder goes on after an exception, and the decoder reports success when
  `bsonUnserialize()` has thrown for the root; the callers look at the exception.

In ValueObjects:

* Initializing a setting again replaces its value, and where it fails leaves
  none (`WriteConcern.c:103`) or a partial one, depending on the call; an object
  without a value is serialized as an empty array, which reads back as a default.
* `w` is narrowed to 32 bits after it was compared with -3 (`WriteConcern.c:45`,
  132): some large values become -1, others trip libmongoc's assertion.
* `clone` of a Javascript without a scope hands NULL to `bson_copy`
  (`Javascript.c:465`), which asserts that it is given a document; decoding tests
  for it (`bson.c:524`), and `bson-javascript-clone-001.phpt` has a scope.
* `serialize()` of a default ReadConcern is an empty string (`ReadConcern.c:221`),
  which `unserialize()` ignores: the object it makes has no value. So has any
  setting made from an empty string, and the properties of such a ServerApi trip an
  assertion (`ServerApi.c:156`).
* `var_export()` of an Int64, a Symbol and a DBPointer, whose constructors are private,
  calls a `__set_state()` that is "intentionally missing" (`Int64.c:238`,
  `Symbol.c:229`, `DBPointer.c:254`); `ReadsBack` does not ask it of them.
* The export of a CursorId has an integer, where `__set_state()` requires a string
  (`CursorId.c:53`, 86).
* Flags of a Regex that are refused by a second call of the constructor leave the
  new pattern beside the old flags (`Regex.c:49`); a Decimal128 then holds NaN
  (`Decimal128.c:35`), and a Javascript whose scope is refused keeps its new code
  (`Javascript.c:46`).
* A Decimal128, the level of a ReadConcern and the version of a ServerApi are cut
  at a null byte, where the other types refuse it.
* Null bytes of a symbol or a code are refused when a program makes the object, not
  when it is decoded (`bson.c`); `AlwaysValid` is about the former.
* The properties hash that a setting keeps for `var_export` still has the
  optional keys of an earlier value (`php_phongo.h:190`).

The properties of ClientLifecycle that a habit breaks are therefore checked in the
passing runs, and proved, for applications without that habit: it is a hypothesis
of the theorem, so that section 4 also says which habits each property depends on.

## 6. Not modelled, and the plan

Done: ClientLifecycle, CursorIteration with its abstract specification, Apm,
BulkWrite, UriOptions, Transactions, BsonCodec and ValueObjects with their parts, all
model-checked and with proofs. What could be added, in this order:

1. **BulkWrite**, continued: classification of updates, contents of WriteResult.
2. **CursorIteration**, continued: a decoding step during which
   `bsonUnserialize()` uses the same Cursor.
3. **ClientEncryption**: the options of explicit encryption.
4. **ModuleLifecycle**: threads and `mongoc_cleanup`, the debug stream, subscribers
   freed in RSHUTDOWN.

Left out for good: phpinfo and the text of the handshake, Query and Command
objects (no condition between their fields), the compatibility macros, the vendored helpers, the encryption itself (libmongocrypt), and the wording of
messages. They keep no state the properties speak about.
