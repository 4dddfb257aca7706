--------------------------------- MODULE Apm ---------------------------------
(***************************************************************************)
(* Command monitoring: phongo_apm.c, the global and per-Manager subscriber *)
(* registries (Monitoring/functions.c, Manager.c) and the registry of      *)
(* Managers (php_phongo.c).                                                *)
(*                                                                         *)
(* libmongoc calls back for each command as it starts and as it ends; the  *)
(* driver then calls the subscribers, which are PHP objects.  They may do  *)
(* whatever a program may: subscribe and unsubscribe, drop objects, throw, *)
(* and run further operations, whose events nest inside the one being      *)
(* dispatched.  The call stack is a sequence of frames, one for each       *)
(* operation that has not returned; user code runs when the stack is empty *)
(* or a callback of the top frame is running.                              *)
(*                                                                         *)
(* With automatic encryption libmongoc also runs commands on the client of *)
(* the key vault, which is another Manager's.  The Manager that encrypts   *)
(* holds the other one, unless its own client was there before it.         *)
(***************************************************************************)
EXTENDS Naturals, Sequences, FiniteSets, SequencesExt

CONSTANTS
    Mgr,        \* Manager objects
    Sub,        \* CommandSubscriber objects
    Client,     \* mongoc clients; Managers with equal options share one
    Scoped,     \* the request-scoped ones, which no two Managers share
    Vault,      \* [Client -> Client \cup {NULL}]: the keyVaultClient of those
                \* that encrypt, NULL for the others
    MaxDepth,   \* bound: operations nested in callbacks of operations
    NULL

ASSUME DepthAssumption == MaxDepth \in Nat
ASSUME ScopedAssumption == Scoped \subseteq Client
ASSUME ManagerAssumption == IsFiniteSet(Mgr)
\* The disableClientPersistence of a Manager and its keyVaultClient is the same.
ASSUME VaultAssumption ==
    /\ Vault \in [Client -> Client \cup {NULL}]
    /\ \A c \in Client : Vault[c] # NULL => (Vault[c] \in Scoped <=> c \in Scoped)
ASSUME NullAssumption == NULL \notin Mgr \cup Sub \cup Client

VARIABLES
    mgrVar,     \* Managers a variable of the program refers to
    subVar,     \* subscribers a variable of the program refers to
    client,     \* [Mgr -> Client \cup {NULL}]; NULL if the object is not there
    holder,     \* [Mgr -> Mgr \cup {NULL}]: key_vault_client_manager
    cached,     \* history: the Managers that encrypt with a client found in the
                \* registry of persistent clients
    apm,        \* the clients that have APM callbacks
    managers,   \* the Managers registry: their places in it, 0 for those not in it
    globals,    \* the global subscribers registry
    subs,       \* [Mgr -> SUBSET Sub]: the Managers' own subscribers
    stack,      \* operations in progress, the innermost last
    exception,  \* EG(exception) is set
    orphan      \* a client that is being destroyed could raise an event

vars == <<mgrVar, subVar, client, holder, cached, apm, managers, globals, subs,
          stack, exception, orphan>>

-------------------------------------------------------------------------------
(* Frames *)

\* Of an operation that is not idle, a command has started, waits for its
\* reply, or has finished.
Stages == {"idle", "started", "waiting", "finished"}

\* owner is the Manager whose method (or whose Cursor, Session or ClientEncryption)
\* runs the operation, client the client of the last command; todo the subscribers
\* the current event still has to reach; held the snapshot they were taken from;
\* event the Manager of the event object; lost: there was none for the event.
\* Of the history of the command: who heard it start, who heard it finish and
\* who has been subscribed to it all the time; quiet is whether no exception
\* has been pending when an event was dispatched, and no event was lost.
Frame == [owner: Mgr, client: Client, stage: Stages, held: SUBSET Sub,
          todo: SUBSET Sub, event: Mgr \cup {NULL}, lost: BOOLEAN,
          running: Sub \cup {NULL},
          heardStart: SUBSET Sub, heardEnd: SUBSET Sub, stayed: SUBSET Sub,
          quiet: BOOLEAN]

TypeOK ==
    /\ mgrVar \subseteq Mgr /\ subVar \subseteq Sub
    /\ client \in [Mgr -> Client \cup {NULL}]
    /\ holder \in [Mgr -> Mgr \cup {NULL}]
    /\ cached \subseteq Mgr
    /\ apm \subseteq Client
    /\ managers \in [Mgr -> 0..Cardinality(Mgr)]
    /\ globals \subseteq Sub
    /\ subs \in [Mgr -> SUBSET Sub]
    /\ stack \in Seq(Frame) /\ Len(stack) <= MaxDepth
    /\ exception \in BOOLEAN /\ orphan \in BOOLEAN

\* A request begins; earlier ones have left persistent clients.
Init ==
    /\ mgrVar = {} /\ subVar = Sub
    /\ client = [m \in Mgr |-> NULL] /\ holder = [m \in Mgr |-> NULL]
    /\ cached = {}
    /\ apm \in SUBSET (Client \ Scoped) /\ \A c \in apm : Vault[c] \in apm \cup {NULL}
    /\ managers = [m \in Mgr |-> 0]
    /\ globals = {}
    /\ subs = [m \in Mgr |-> {}]
    /\ stack = <<>>
    /\ exception = FALSE /\ orphan = FALSE

Top == stack[Len(stack)]
WithTop(f) == [stack EXCEPT ![Len(stack)] = f]

\* PHP code of the program or of a callback is running.
InUserCode == IF stack = <<>> THEN TRUE ELSE Top.running # NULL
UserCode == InUserCode /\ ~exception

-------------------------------------------------------------------------------
(* Subscribers and Managers *)

\* The Managers in the registry.
Listed == {m \in Mgr : managers[m] # 0}

\* phongo_apm_get_subscribers_to_notify: the global subscribers and those of
\* every Manager that has the client.
Subscribed(g, own, c) ==
    g \cup UNION {own[m] : m \in {x \in Listed : client[x] = c}}

\* Forget, in every frame, subscribers that are no longer subscribed.
Pruned(st, g, own) ==
    [i \in 1..Len(st) |->
        [st[i] EXCEPT !.stayed = @ \cap Subscribed(g, own, st[i].client)]]

Add(g, own) ==
    /\ globals' = g /\ subs' = own
    /\ stack' = Pruned(stack, g, own)
    /\ UNCHANGED <<mgrVar, subVar, client, holder, cached, apm, managers, exception, orphan>>

\* Monitoring\addSubscriber, Monitoring\removeSubscriber
AddSubscriber(s) == UserCode /\ s \in subVar /\ Add(globals \cup {s}, subs)
RemoveSubscriber(s) == UserCode /\ s \in subVar /\ Add(globals \ {s}, subs)

\* Manager::addSubscriber, Manager::removeSubscriber
ManagerAddSubscriber(m, s) ==
    /\ UserCode /\ s \in subVar /\ m \in mgrVar
    /\ Add(globals, [subs EXCEPT ![m] = @ \cup {s}])
ManagerRemoveSubscriber(m, s) ==
    /\ UserCode /\ s \in subVar /\ m \in mgrVar
    /\ Add(globals, [subs EXCEPT ![m] = @ \ {s}])

UnsetSubscriber(s) ==
    /\ UserCode /\ s \in subVar
    /\ subVar' = subVar \ {s}
    /\ UNCHANGED <<mgrVar, client, holder, cached, apm, managers, globals, subs, stack,
                   exception, orphan>>

\* php_phongo_manager_register appends.
Registered(m) == [managers EXCEPT ![m] = Cardinality(Listed) + 1]

\* phongo_apm_set_callbacks
SetCallbacks(c) == apm \cup {c}

\* php_phongo_find_persistent_client finds the client.
Found(c) == c \in apm \ Scoped

\* The Managers that may be given as keyVaultClient.
KeyVaults(c) ==
    IF Vault[c] = NULL THEN {NULL} ELSE {v \in mgrVar : client[v] = Vault[c]}

\* Mutant: the Manager does not hold the keyVaultClient.
KeyVaultBorrowed(c, v) == NULL

\* phongo_manager_set_auto_encryption_opts copies the keyVaultClient to the
\* Manager; phongo_manager_init skips it for a client that was there already.
KeyVaultHeld(c, v) == IF Found(c) THEN NULL ELSE v

\* Manager::__construct with options that lead to client c
Construct(m, c) ==
    /\ UserCode /\ client[m] = NULL
    /\ c \in Scoped => \A x \in Mgr : client[x] # c
    /\ \E v \in KeyVaults(c) : holder' = [holder EXCEPT ![m] = KeyVaultHeld(c, v)]
    /\ cached' = IF Found(c) /\ Vault[c] # NULL THEN cached \cup {m} ELSE cached
    /\ client' = [client EXCEPT ![m] = c]
    /\ apm' = SetCallbacks(c)
    /\ managers' = Registered(m)
    /\ mgrVar' = mgrVar \cup {m}
    /\ UNCHANGED <<subVar, globals, subs, stack, exception, orphan>>

\* A set of Managers and those they hold as key vaults, by h, one by another.
Closed(h, ms) == \A m \in ms : h[m] \in ms \cup {NULL}
Reachable(h, ms) ==
    {m \in Mgr : \A S \in SUBSET Mgr : ms \subseteq S /\ Closed(h, S) => m \in S}

\* The Managers that something refers to, were v the program's variables and
\* st the stack: the frames that execute on them, the events that name them,
\* and Managers that hold them.
Referenced(v, st) ==
    Reachable(holder, v \cup {st[i].owner : i \in 1..Len(st)}
                        \cup ({st[i].event : i \in 1..Len(st)} \ {NULL}))

\* php_phongo_manager_unregister, for all but the live Managers: those move
\* up, in the same order.
Unregistered(live) ==
    [m \in Mgr |->
        IF m \in live
        THEN Cardinality({x \in Listed \cap live : managers[x] <= managers[m]})
        ELSE 0]

\* php_phongo_pclient_destroy clears the callbacks of a client before
\* mongoc_client_destroy, which may run endSessions.
CallbacksAtDestroy(cs) == apm \ cs

\* php_phongo_manager_free_object of every Manager that has lost its last
\* reference: it leaves the registry, takes its request-scoped client with it
\* and lets go of its keyVaultClient and its subscribers.  An event of a
\* destroyed client would find the global subscribers, and no Manager.
Release(v, st) ==
    LET live == Referenced(v, st)
        own == [m \in Mgr |-> IF m \in live THEN subs[m] ELSE {}]
        gone == {client[m] : m \in Mgr \ live} \cap Scoped
    IN /\ mgrVar' = v
       /\ apm' = CallbacksAtDestroy(gone)
       /\ orphan' = (orphan \/ (gone \cap CallbacksAtDestroy(gone) # {} /\ globals # {}))
       /\ client' = [m \in Mgr |-> IF m \in live THEN client[m] ELSE NULL]
       /\ holder' = [m \in Mgr |-> IF m \in live THEN holder[m] ELSE NULL]
       /\ cached' = cached \cap live
       /\ managers' = Unregistered(live)
       /\ subs' = own
       /\ stack' = Pruned(st, globals, own)

UnsetManager(m) ==
    /\ UserCode /\ m \in mgrVar
    /\ Release(mgrVar \ {m}, stack)
    /\ UNCHANGED <<subVar, globals, exception>>

-------------------------------------------------------------------------------
(* Events *)

\* Mutants: the snapshot does not own its subscribers, is not taken while a
\* callback runs, or is of the global ones only.
SnapshotBorrowed(f) == [f EXCEPT !.held = {}, !.todo = Subscribed(globals, subs, f.client)]
SnapshotGuarded(f) ==
    IF \E i \in 1..Len(stack) : stack[i].running # NULL THEN f
    ELSE LET to == Subscribed(globals, subs, f.client)
         IN [f EXCEPT !.held = to, !.todo = to]
SnapshotGlobal(f) == [f EXCEPT !.held = globals, !.todo = globals]

\* The subscribers an event goes to; the snapshot holds references to them.
Snapshot(f) ==
    LET to == Subscribed(globals, subs, f.client)
    IN [f EXCEPT !.held = to, !.todo = to]

\* The first of a set of registered Managers, NULL if it is empty.
First(ms) ==
    IF ms = {} THEN NULL
    ELSE CHOOSE m \in ms : \A x \in ms : managers[m] <= managers[x]

\* Mutant: whatever client it has.
ManagerForClientAny(c) == First(Listed)

\* phongo_apm_copy_manager_for_client: the first registered Manager that has
\* the client, or NULL.
ManagerForClient(c) == First({m \in Listed : client[m] = c})

\* phongo_apm_command_started, _succeeded and _failed up to the dispatch: no
\* event without subscribers; without a Manager, an exception instead.
Event(f) ==
    LET m == ManagerForClient(f.client) IN
    IF Snapshot(f).todo = {} THEN f
    ELSE IF m = NULL THEN [f EXCEPT !.lost = TRUE, !.quiet = FALSE]
    ELSE [Snapshot(f) EXCEPT !.event = m, !.quiet = @ /\ ~exception]

Raise(f) ==
    /\ stack' = WithTop(Event(f))
    /\ exception' = (exception \/ Event(f).lost)
    /\ UNCHANGED <<mgrVar, subVar, client, holder, cached, apm, managers, globals,
                   subs, orphan>>

\* An operation of m that ran its last command on c
Idle(m, c) ==
    [owner |-> m, client |-> c, stage |-> "idle", held |-> {}, todo |-> {},
     event |-> NULL, lost |-> FALSE, running |-> NULL,
     heardStart |-> {}, heardEnd |-> {}, stayed |-> {}, quiet |-> TRUE]

\* A method of a Manager, or of a Cursor, Session or ClientEncryption that has a
\* reference to it, begins an operation.
Execute(m) ==
    /\ UserCode /\ m \in mgrVar
    /\ Len(stack) < MaxDepth
    /\ stack' = Append(stack, Idle(m, client[m]))
    /\ UNCHANGED <<mgrVar, subVar, client, holder, cached, apm, managers, globals,
                   subs, exception, orphan>>

\* The operation runs a command: on the Manager's client, on that of the last
\* command, or on the key vault of that.  The first event of the command.
Command(c) ==
    /\ stack # <<>> /\ Top.stage = "idle"
    /\ c \in {client[Top.owner], Top.client, Vault[Top.client]} \ {NULL}
    /\ Raise([Idle(Top.owner, c) EXCEPT !.stage = "started",
                                        !.stayed = Subscribed(globals, subs, c)])

\* phongo_apm_dispatch_event calls one more subscriber, unless an exception is
\* pending.
Call(s) ==
    /\ stack # <<>> /\ Top.running = NULL
    /\ s \in Top.todo /\ ~exception
    /\ stack' = WithTop([Top EXCEPT
                   !.todo = @ \ {s}, !.running = s,
                   !.heardStart = IF Top.stage = "started" THEN @ \cup {s} ELSE @,
                   !.heardEnd = IF Top.stage = "finished" THEN @ \cup {s} ELSE @])
    /\ UNCHANGED <<mgrVar, subVar, client, holder, cached, apm, managers, globals, subs,
                   exception, orphan>>

\* A callback keeps the event, or the Server it gets from it: either refers to
\* the Manager.
KeepEvent ==
    /\ stack # <<>> /\ UserCode
    /\ Top.event # NULL
    /\ mgrVar' = mgrVar \cup {Top.event}
    /\ UNCHANGED <<subVar, client, holder, cached, apm, managers, globals, subs, stack,
                   exception, orphan>>

\* A callback returns, with an exception of its own or of a command it ran, or
\* without.
Return(throws) ==
    /\ stack # <<>> /\ Top.running # NULL
    /\ exception' = (exception \/ throws)
    /\ stack' = WithTop([Top EXCEPT !.running = NULL, !.quiet = @ /\ ~exception'])
    /\ UNCHANGED <<mgrVar, subVar, client, holder, cached, apm, managers, globals, subs, orphan>>

\* The program, or a callback, catches the exception of a command it ran.
Catch ==
    /\ exception
    /\ InUserCode
    /\ exception' = FALSE
    /\ UNCHANGED <<mgrVar, subVar, client, holder, cached, apm, managers, globals, subs, stack, orphan>>

\* The event has been dispatched: the event object and the snapshot go.  A
\* command that started is sent; one that finished is over.
Dispatched(f) ==
    IF f.stage = "started"
    THEN [f EXCEPT !.held = {}, !.todo = {}, !.event = NULL, !.lost = FALSE,
                   !.stage = "waiting"]
    ELSE Idle(f.owner, f.client)

EventDone ==
    /\ stack # <<>> /\ Top.running = NULL
    /\ Top.stage \in {"started", "finished"}
    /\ Top.todo = {} \/ exception
    /\ Release(mgrVar, WithTop(Dispatched(Top)))
    /\ UNCHANGED <<subVar, globals, exception>>

\* The reply, or an error, arrives; the second event of the command.
Reply ==
    /\ stack # <<>> /\ Top.stage = "waiting"
    /\ Raise([Top EXCEPT !.stage = "finished"])

\* The operation returns to its caller.
Returns ==
    /\ stack # <<>> /\ Top.stage = "idle"
    /\ Release(mgrVar, Front(stack))
    /\ UNCHANGED <<subVar, globals, exception>>

-------------------------------------------------------------------------------
Program ==
    \/ \E s \in Sub : AddSubscriber(s) \/ RemoveSubscriber(s) \/ UnsetSubscriber(s)
    \/ \E m \in Mgr, s \in Sub : \/ ManagerAddSubscriber(m, s)
                                 \/ ManagerRemoveSubscriber(m, s)
    \/ \E m \in Mgr : UnsetManager(m) \/ Execute(m)
    \/ \E m \in Mgr, c \in Client : Construct(m, c)
    \/ \E b \in BOOLEAN : Return(b)
    \/ KeepEvent
    \/ Catch

Driver ==
    \/ \E c \in Client : Command(c)
    \/ \E s \in Sub : Call(s)
    \/ EventDone \/ Reply \/ Returns

Next == Program \/ Driver

Spec == Init /\ [][Next]_vars

-------------------------------------------------------------------------------
(* Properties *)

Frames == Range(stack)

\* Whatever callbacks unsubscribe and drop, a subscriber that the dispatch in
\* progress calls or will call still has an owner: a variable, a registry of a
\* live Manager, or a snapshot.
SubscribersLive ==
    \A f \in Frames : \A s \in f.todo \cup ({f.running} \ {NULL}) :
       \/ s \in subVar \cup globals
       \/ \E m \in Mgr : s \in subs[m]
       \/ \E g \in Frames : s \in g.held

\* The Manager an event object hands to callbacks is there until the dispatch
\* is over, also if the program drops it meanwhile, and has the client that
\* runs the command.
EventManagerLives ==
    \A f \in Frames : f.event # NULL =>
       /\ client[f.event] # NULL
       /\ client[f.event] = f.client
       /\ f.event \in Listed

\* "Found no Manager for client in APM event context" is thrown for a command on
\* a key vault only, and only if a Manager that encrypts with it was constructed
\* over a client that was there already.  In all other cases, be it dropped by the
\* program or by a callback, the Manager of a client outlives the commands on it.
ManagerAlwaysFound ==
    /\ ~orphan
    /\ \A f \in Frames : f.lost => /\ f.client # client[f.owner]
                                   /\ Reachable(holder, {f.owner}) \cap cached # {}

\* A command that no exception has disturbed has been reported both at its
\* start and at its end to every subscriber that stayed subscribed to it, no
\* matter what subscribers did, or which commands they ran, in between.
EventsPaired ==
    \A i \in {Len(stack)} \ {0} : LET f == stack[i] IN
       (/\ f.stage = "finished" /\ f.running = NULL /\ f.todo = {}
        /\ f.quiet /\ ~exception)
       => f.stayed \subseteq f.heardStart \cap f.heardEnd

================================================================================
