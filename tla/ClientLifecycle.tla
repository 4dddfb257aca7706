--------------------------- MODULE ClientLifecycle ---------------------------
(***************************************************************************)
(* The life of libmongoc clients in the driver, across forks, requests and *)
(* shutdown: php_phongo.c (client registries, reset-on-fork, RINIT,        *)
(* RSHUTDOWN, GSHUTDOWN), Manager.c, Server.c, Session.c and Cursor.c      *)
(* (object creation, execution and free_object handlers).                  *)
(*                                                                         *)
(* Every process has its own image of the extension's memory; fork() copies*)
(* the parent's image.  What the images still share is the MongoDB server: *)
(* cursors, logical sessions (LSIDs), transactions and sockets.  The       *)
(* variable "interference" records every effect a process has had on such  *)
(* state when another process owns it.                                     *)
(***************************************************************************)
EXTENDS Naturals, FiniteSets

CONSTANTS
    Pid,        \* process ids; a pid is never reused
    Root,       \* the process PHP starts
    Opts,       \* URI string and options a Manager is constructed with
    Mgr,        \* Manager objects (slots of the object store of a process)
    Srv,        \* Server objects
    Sess,       \* Session objects
    Cur,        \* Cursor objects
    MaxClient,  \* bound: mongoc_client_t ever allocated in one memory image
    MaxLsid,    \* bound: LSIDs ever generated by one process
    Habits,     \* which of AllHabits the application has
    NULL

\* Things an application may do that are legal but that the driver's fork and
\* shutdown handling does not fully cover (see the README's findings):
\*  server_before_reset: obtain a Server in a child from an inherited Manager
\*      (or Cursor) before anything has reset that Manager's client;
\*  keyvault_inherited: construct an encrypted Manager in a child around a
\*      keyVaultClient that the child inherited;
\*  keyvault_cached: construct an encrypted Manager whose client is already
\*      in the persistent registry;
\*  rejected_options: construct a Manager with driver options that are only
\*      rejected once its client exists;
\*  leftover_objects: end the request while driver objects are alive;
\*  inherited_transactions: in a child, call endSession, commitTransaction or
\*      abortTransaction on an inherited Session with a transaction in
\*      progress.
AllHabits == {"server_before_reset", "keyvault_inherited", "keyvault_cached",
              "rejected_options", "leftover_objects", "inherited_transactions"}

ASSUME RootAssumption == Root \in Pid
ASSUME BoundAssumption == MaxClient \in Nat /\ MaxLsid \in Nat
ASSUME HabitAssumption == Habits \subseteq AllHabits
ASSUME NullAssumption == /\ NULL \notin Mgr
                         /\ NULL \notin Sess
                         /\ NULL \notin Cur
                         /\ NULL \notin Pid
                         /\ NULL \notin 1..MaxClient

Client == 1..MaxClient
Lsid == [by: Pid, n: 1..MaxLsid]
Effects == {"killCursors", "endTransaction", "closeSockets", "lsid"}
Interference == [what: Effects, owner: Pid \cup {NULL}, by: Pid]

Phases == {"unborn",      \* not forked yet
           "request",     \* RINIT done, user code runs
           "rshutdown",   \* RSHUTDOWN is destroying request_clients
           "deactivated", \* RSHUTDOWN done: request registries are NULL
           "idle",        \* no request, no objects
           "gshutdown",   \* GSHUTDOWN is destroying persistent_clients
           "exited",      \* GSHUTDOWN done
           "crashed"}     \* the process touched released memory

VARIABLES
    phase,        \* [Pid -> Phases]
    manager,      \* php_phongo_manager_t objects of each process
    client,       \* mongoc_client_t structures of each process
    pclient,      \* php_phongo_pclient_t entries of both client registries
    server,       \* php_phongo_server_t objects
    session,      \* php_phongo_session_t objects
    cursor,       \* php_phongo_cursor_t objects
    lsids,        \* LSIDs generated so far by each process
    interference, \* effects on state that another process owns
    faults        \* memory the process touched after it was released

vars == <<phase, manager, client, pclient, server, session, cursor, lsids,
          interference, faults>>

-----------------------------------------------------------------------------
(* Types *)

ManagerRec == [created_by_pid: Pid, client: Client,
               use_persistent_client: BOOLEAN,
               key_vault_client_manager: Mgr \cup {NULL}]

\* generation and pool are libmongoc's: mongoc_client_reset increments the
\* one and empties the other.
\* owner is the process whose mongoc_client_new_from_uri opened its sockets.
ClientRec == [st: {"none", "live", "destroyed"}, owner: Pid \cup {NULL},
              generation: Nat, pool: SUBSET Lsid, opts: Opts \cup {NULL},
              key_vault: Client \cup {NULL}]

PclientRec == [created_by_pid: Pid, last_reset_by_pid: Pid \cup {NULL},
               is_persistent: BOOLEAN]

ServerRec == [created_by_pid: Pid, manager: Mgr]

\* lsid is NULL once client_session was destroyed by endSession.
SessionRec == [created_by_pid: Pid, manager: Mgr, generation: Nat,
               lsid: Lsid \cup {NULL}, in_transaction: BOOLEAN]

\* A cursor holds an explicit Session, or the LSID of an implicit session.
\* A command's implicit session is a Session zval owned by the Cursor; a
\* query's lives inside the mongoc_cursor_t.
CursorRec == [created_by_pid: Pid, manager: Mgr, generation: Nat,
              open: BOOLEAN, kind: {"command", "query"},
              session: Sess \cup {NULL}, lsid: Lsid \cup {NULL}]

\* NULL marks a free slot, so it is none of the records.
ASSUME NullRecordAssumption ==
    NULL \notin ManagerRec \cup PclientRec \cup ServerRec \cup SessionRec
                  \cup CursorRec \cup Lsid

TypeOK ==
    /\ phase \in [Pid -> Phases]
    /\ manager \in [Pid -> [Mgr -> ManagerRec \cup {NULL}]]
    /\ client \in [Pid -> [Client -> ClientRec]]
    /\ pclient \in [Pid -> [Client -> PclientRec \cup {NULL}]]
    /\ server \in [Pid -> [Srv -> ServerRec \cup {NULL}]]
    /\ session \in [Pid -> [Sess -> SessionRec \cup {NULL}]]
    /\ cursor \in [Pid -> [Cur -> CursorRec \cup {NULL}]]
    /\ lsids \in [Pid -> Nat]
    /\ interference \subseteq Interference
    /\ faults \subseteq {"destroyed_client", "null_registry"}

-----------------------------------------------------------------------------
(* Looking things up in a memory image *)

ClientOf(p, m) == manager[p][m].client

\* A Manager is referenced by the zvals of other objects; it is freed only
\* when its reference count drops to zero.
Referenced(p, m) ==
    \/ \E v \in Srv : server[p][v] # NULL /\ server[p][v].manager = m
    \/ \E s \in Sess : session[p][s] # NULL /\ session[p][s].manager = m
    \/ \E k \in Cur : cursor[p][k] # NULL /\ cursor[p][k].manager = m
    \/ \E x \in Mgr : /\ manager[p][x] # NULL
                      /\ manager[p][x].key_vault_client_manager = m

NoObjects(p) ==
    /\ \A m \in Mgr : manager[p][m] = NULL
    /\ \A v \in Srv : server[p][v] = NULL
    /\ \A s \in Sess : session[p][s] = NULL
    /\ \A k \in Cur : cursor[p][k] = NULL

\* php_phongo_find_persistent_client: the client hash covers the pid, the
\* options and the key vault client's own hash.
FindPersistent(p, o, kv) ==
    {c \in Client : /\ pclient[p][c] # NULL
                    /\ pclient[p][c].is_persistent
                    /\ pclient[p][c].created_by_pid = p
                    /\ client[p][c].opts = o
                    /\ client[p][c].key_vault = kv}

-----------------------------------------------------------------------------
(* php_phongo_client_reset_once *)

\* The Managers the recursion over key_vault_client_manager visits: the
\* smallest set that holds m and is closed under that reference.
KeyVaultChain(p, m) ==
    {x \in Mgr : \A S \in SUBSET Mgr :
        (/\ m \in S
         /\ \A y \in S : LET kv == manager[p][y].key_vault_client_manager
                         IN  manager[p][y] # NULL /\ kv # NULL => kv \in S)
        => x \in S}

\* Mutant of ResetSet: the pid of the last reset is not compared.
ResetSetEveryTime(p, m) ==
    {c \in Client : /\ \E x \in KeyVaultChain(p, m) :
                          manager[p][x] # NULL /\ ClientOf(p, x) = c
                    /\ pclient[p][c] # NULL}

\* The registered clients that are reset: those not yet reset by this pid.
ResetSet(p, m) ==
    {c \in Client : /\ \E x \in KeyVaultChain(p, m) :
                          manager[p][x] # NULL /\ ClientOf(p, x) = c
                    /\ pclient[p][c] # NULL
                    /\ pclient[p][c].last_reset_by_pid # p}

\* Mutant of ResetClient: the session pool survives the reset.
ResetClientKeepPool(cl) == [cl EXCEPT !.generation = @ + 1]

\* mongoc_client_reset
ResetClient(cl) == [cl EXCEPT !.generation = @ + 1, !.pool = {}]

\* Mutant of ToReset: the check of the pid is missing.
ToResetNever(p, by, m) == {}

\* PHONGO_RESET_CLIENT_IF_PID_DIFFERS(intern, manager), where by is
\* intern->created_by_pid: the client image and the registry it leaves.
ToReset(p, by, m) == IF by = p THEN {} ELSE ResetSet(p, m)

ClientsAfter(p, by, m) ==
    [c \in Client |-> IF c \in ToReset(p, by, m)
                      THEN ResetClient(client[p][c]) ELSE client[p][c]]

PclientsAfter(p, by, m) ==
    [c \in Client |-> IF c \in ToReset(p, by, m)
                      THEN [pclient[p][c] EXCEPT !.last_reset_by_pid = p]
                      ELSE pclient[p][c]]

-----------------------------------------------------------------------------
(* libmongoc: the server session pool, cursors and clients *)

\* What starting a session takes: a pooled LSID, or a new one when there is
\* none.  j is the number of LSIDs the same call already generated.
Offered(p, pool, j) ==
    IF pool # {} THEN pool ELSE {[by |-> p, n |-> lsids[p] + j + 1]}

Generated(pool) == IF pool = {} THEN 1 ELSE 0

\* mongoc_client_session_destroy: a session of an older generation is
\* discarded, any other returns to the pool.
Return(cl, gen, l) ==
    IF l # NULL /\ gen = cl.generation
    THEN [cl EXCEPT !.pool = @ \cup {l}] ELSE cl

Effect(what, owner, p) ==
    IF owner = p THEN {} ELSE {[what |-> what, owner |-> owner, by |-> p]}

\* Ending the transaction of session record se, of a client that is at the
\* given generation: the command is sent unless the client no longer knows the
\* session because it was reset since.
EndsTransaction(p, se, generation) ==
    IF se.in_transaction /\ se.generation = generation
    THEN Effect("endTransaction", se.created_by_pid, p) ELSE {}

-----------------------------------------------------------------------------
Init ==
    /\ phase = [p \in Pid |-> IF p = Root THEN "request" ELSE "unborn"]
    /\ manager = [p \in Pid |-> [m \in Mgr |-> NULL]]
    /\ client = [p \in Pid |-> [c \in Client |->
                    [st |-> "none", owner |-> NULL, generation |-> 0,
                     pool |-> {}, opts |-> NULL, key_vault |-> NULL]]]
    /\ pclient = [p \in Pid |-> [c \in Client |-> NULL]]
    /\ server = [p \in Pid |-> [v \in Srv |-> NULL]]
    /\ session = [p \in Pid |-> [s \in Sess |-> NULL]]
    /\ cursor = [p \in Pid |-> [k \in Cur |-> NULL]]
    /\ lsids = [p \in Pid |-> 0]
    /\ interference = {}
    /\ faults = {}

-----------------------------------------------------------------------------
(* Manager *)

\* Manager::__construct and phongo_manager_init.  A persistent Manager whose
\* hash is cached takes the cached client and skips everything else, the
\* copy of keyVaultClient included; otherwise a client is created and
\* registered.  kv is the "keyVaultClient" encryption option, or NULL.
KeyVaultClientOf(p, kv) == IF kv = NULL THEN NULL ELSE ClientOf(p, kv)

ConstructCached(p, m, o, kv) ==
    /\ \E c \in FindPersistent(p, o, KeyVaultClientOf(p, kv)) :
          manager' = [manager EXCEPT ![p][m] =
                        [created_by_pid |-> p, client |-> c,
                         use_persistent_client |-> TRUE,
                         key_vault_client_manager |-> NULL]]
    /\ UNCHANGED <<client, pclient>>

\* The next mongoc_client_t that php_phongo_make_mongo_client allocates.
NewClient(p, c, o, kv) ==
    /\ client[p][c].st = "none"
    /\ \A d \in Client : d < c => client[p][d].st # "none"
    /\ client' = [client EXCEPT ![p][c] =
          [st |-> "live", owner |-> p, generation |-> 0, pool |-> {},
           opts |-> o, key_vault |-> KeyVaultClientOf(p, kv)]]

ConstructNew(p, m, o, persistent, kv) ==
    \* The Manager and its keyVaultClient must agree on persistence.
    /\ kv # NULL => manager[p][kv].use_persistent_client = persistent
    /\ persistent => FindPersistent(p, o, KeyVaultClientOf(p, kv)) = {}
    /\ \E c \in Client :
          /\ NewClient(p, c, o, kv)
          \* php_phongo_client_register
          /\ pclient' = [pclient EXCEPT ![p][c] =
                [created_by_pid |-> p, last_reset_by_pid |-> NULL,
                 is_persistent |-> persistent]]
          /\ manager' = [manager EXCEPT ![p][m] =
                [created_by_pid |-> p, client |-> c,
                 use_persistent_client |-> persistent,
                 key_vault_client_manager |-> kv]]

Construct(p, m, o, persistent, kv) ==
    /\ phase[p] = "request"
    /\ manager[p][m] = NULL
    /\ kv # NULL => manager[p][kv] # NULL
    /\ kv # NULL /\ "keyvault_inherited" \notin Habits
         => manager[p][kv].created_by_pid = p
    /\ kv # NULL /\ persistent /\ "keyvault_cached" \notin Habits
         => FindPersistent(p, o, ClientOf(p, kv)) = {}
    /\ \/ persistent /\ ConstructCached(p, m, o, kv)
       \/ ConstructNew(p, m, o, persistent, kv)
    /\ UNCHANGED <<phase, server, session, cursor, lsids, interference, faults>>

\* The "autoEncryption" or "serverApi" driver option is rejected after the
\* client was created and before it is registered: the constructor throws, and
\* the free_object handler of the Manager finds no client to unregister.
ConstructRejected(p, o) ==
    /\ phase[p] = "request"
    /\ "rejected_options" \in Habits
    /\ \E c \in Client : NewClient(p, c, o, NULL)
    /\ UNCHANGED <<phase, manager, pclient, server, session, cursor, lsids,
                   interference, faults>>

\* Mutant of MayDestroy: every registered client is destroyed.
MayDestroyAny(p, c) == TRUE

\* php_phongo_pclient_destroy: only the process that created a client closes
\* it (and its sockets); an inherited client is leaked.
MayDestroy(p, c) == pclient[p][c].created_by_pid = p

DestroyPclient(p, c) ==
    /\ pclient' = [pclient EXCEPT ![p][c] = NULL]
    /\ IF MayDestroy(p, c)
       THEN /\ client' = [client EXCEPT ![p][c].st = "destroyed"]
            /\ interference' = interference \cup
                   Effect("closeSockets", client[p][c].owner, p)
       ELSE UNCHANGED <<client, interference>>

\* php_phongo_manager_free_object with php_phongo_client_unregister: a NOP for
\* persistent clients and once RSHUTDOWN has released the registry.
FreeManager(p, m) ==
    /\ phase[p] \in {"request", "deactivated"}
    /\ manager[p][m] # NULL
    /\ ~Referenced(p, m)
    /\ manager' = [manager EXCEPT ![p][m] = NULL]
    /\ IF manager[p][m].use_persistent_client \/ phase[p] = "deactivated"
       THEN UNCHANGED <<client, pclient, interference>>
       ELSE DestroyPclient(p, ClientOf(p, m))
    /\ UNCHANGED <<phase, server, session, cursor, lsids, faults>>

\* Mutant of GetServer: the Server is not stamped with a pid.
GetServerUnstamped(p, v, m) ==
    /\ phase[p] = "request"
    /\ server[p][v] = NULL
    /\ manager[p][m] # NULL
    /\ \/ "server_before_reset" \in Habits
       \/ manager[p][m].created_by_pid = p
       \/ pclient[p][ClientOf(p, m)].last_reset_by_pid = p
    /\ server' = [server EXCEPT ![p][v] =
                    [created_by_pid |-> NULL, manager |-> m]]
    /\ UNCHANGED <<phase, manager, client, pclient, session, cursor, lsids,
                   interference, faults>>

\* Manager::selectServer, Manager::getServers, Cursor::getServer and
\* Session::getServer: none of them resets the client.
GetServer(p, v, m) ==
    /\ phase[p] = "request"
    /\ server[p][v] = NULL
    /\ manager[p][m] # NULL
    /\ \/ "server_before_reset" \in Habits
       \/ manager[p][m].created_by_pid = p
       \/ pclient[p][ClientOf(p, m)].last_reset_by_pid = p
    /\ server' = [server EXCEPT ![p][v] =
                    [created_by_pid |-> p, manager |-> m]]
    /\ UNCHANGED <<phase, manager, client, pclient, session, cursor, lsids,
                   interference, faults>>

FreeServer(p, v) ==
    /\ phase[p] \in {"request", "deactivated"}
    /\ server[p][v] # NULL
    /\ server' = [server EXCEPT ![p][v] = NULL]
    /\ UNCHANGED <<phase, manager, client, pclient, session, cursor, lsids,
                   interference, faults>>

-----------------------------------------------------------------------------
(* Operations *)

\* Manager::execute* and Server::execute* share this body; by is the
\* created_by_pid of the object the method is called on.  The reset comes
\* after server selection and before the operation.

\* An operation without a "session" option takes an implicit session.  k is
\* the Cursor it returns (NULL for a bulk write, and for an operation that
\* fails): the Cursor keeps the session, otherwise it returns to the pool, as
\* libmongoc's own session of an already exhausted query cursor does.
\* The key vault client of an encrypted client may be queried first, with an
\* implicit session of its own.
ExecuteImplicit(p, by, m, k, kind, open) ==
    LET c   == ClientOf(p, m)
        cl  == ClientsAfter(p, by, m)
        kvc == cl[c].key_vault
        keeps == k # NULL /\ (open \/ kind = "command")
    IN  \E kvl \in IF kvc = NULL THEN {NULL}
                    ELSE {NULL} \cup Offered(p, cl[kvc].pool, 0) :
        LET j   == IF kvl = NULL THEN 0 ELSE Generated(cl[kvc].pool)
            cl2 == IF kvl = NULL THEN cl
                   ELSE [cl EXCEPT ![kvc].pool = @ \cup {kvl}]
        IN  \E l \in Offered(p, cl2[c].pool, j) :
            /\ lsids[p] + j + Generated(cl2[c].pool) <= MaxLsid
            /\ lsids' = [lsids EXCEPT ![p] = @ + j + Generated(cl2[c].pool)]
            /\ pclient' = [pclient EXCEPT ![p] = PclientsAfter(p, by, m)]
            /\ client' = [client EXCEPT ![p] =
                 [cl2 EXCEPT ![c].pool = IF keeps THEN @ \ {l}
                                         ELSE @ \cup {l}]]
            /\ cursor' = IF k = NULL THEN cursor ELSE
                 [cursor EXCEPT ![p][k] =
                    [created_by_pid |-> p, manager |-> m,
                     generation |-> cl[c].generation, open |-> open,
                     kind |-> kind, session |-> NULL,
                     lsid |-> IF keeps THEN l ELSE NULL]]
            /\ interference' = interference \cup Effect("lsid", l.by, p)
                 \cup (IF kvl = NULL THEN {} ELSE Effect("lsid", kvl.by, p))

\* An operation with an explicit Session of the same client.  libmongoc
\* rejects a session that predates a reset, so nothing but the reset is left.
ExecuteExplicit(p, by, m, s, k, kind, open) ==
    LET c  == ClientOf(p, m)
        cl == ClientsAfter(p, by, m)
        ok == session[p][s].generation = cl[c].generation
    IN  /\ session[p][s] # NULL
        /\ session[p][s].lsid # NULL
        /\ ClientOf(p, session[p][s].manager) = c
        /\ client' = [client EXCEPT ![p] = cl]
        /\ pclient' = [pclient EXCEPT ![p] = PclientsAfter(p, by, m)]
        /\ cursor' = IF k = NULL \/ ~ok THEN cursor ELSE
             [cursor EXCEPT ![p][k] =
                [created_by_pid |-> p, manager |-> m,
                 generation |-> cl[c].generation, open |-> open,
                 kind |-> kind, session |-> s, lsid |-> NULL]]
        /\ interference' = IF ~ok THEN interference ELSE
             interference \cup Effect("lsid", session[p][s].lsid.by, p)
        /\ UNCHANGED lsids

Execute(p, by, m, k, kind, open) ==
    /\ k # NULL => cursor[p][k] = NULL
    /\ k = NULL => ~open /\ kind = "command"
    /\ \/ ExecuteImplicit(p, by, m, k, kind, open)
       \/ \E s \in Sess : ExecuteExplicit(p, by, m, s, k, kind, open)
    /\ UNCHANGED <<phase, manager, server, session, faults>>

ManagerExecute(p, m, k, kind, open) ==
    /\ phase[p] = "request"
    /\ manager[p][m] # NULL
    /\ Execute(p, manager[p][m].created_by_pid, m, k, kind, open)

ServerExecute(p, v, k, kind, open) ==
    /\ phase[p] = "request"
    /\ server[p][v] # NULL
    /\ Execute(p, server[p][v].created_by_pid, server[p][v].manager,
               k, kind, open)

-----------------------------------------------------------------------------
(* Cursor *)

\* Cursor::next and Cursor::rewind when the server reports the cursor as
\* exhausted (id zero): php_phongo_cursor_free_session_if_exhausted drops the
\* session.  A command's implicit Session is freed by that, and its
\* free_object handler resets an inherited client; libmongoc releases a
\* query's implicit session without such a check.  Advancing an open cursor
\* after the client was reset only raises an error.
CursorExhaust(p, k) ==
    LET cu == cursor[p][k]
        c  == ClientOf(p, cu.manager)
        by == IF cu.kind = "command" /\ cu.lsid # NULL
              THEN cu.created_by_pid ELSE p
        cl == ClientsAfter(p, by, cu.manager)
    IN  /\ phase[p] = "request"
        /\ cu # NULL
        /\ cu.open \/ cu.lsid # NULL \/ cu.session # NULL
        /\ cu.open => cu.generation = client[p][c].generation
        /\ cursor' = [cursor EXCEPT ![p][k] =
              [@ EXCEPT !.open = FALSE, !.lsid = NULL, !.session = NULL]]
        /\ client' = [client EXCEPT ![p] =
                        [cl EXCEPT ![c] = Return(@, cu.generation, cu.lsid)]]
        /\ pclient' = [pclient EXCEPT ![p] = PclientsAfter(p, by, cu.manager)]
        /\ UNCHANGED <<phase, manager, server, session, lsids, interference,
                       faults>>

\* Whether a free_object handler can reset and use the client of Manager m:
\* after RSHUTDOWN, request_clients is NULL and its clients are destroyed.
RegistryUsable(p, by, m) ==
    by = p \/ phase[p] # "deactivated" \/ manager[p][m].use_persistent_client

\* php_phongo_cursor_free_object: reset if inherited, then
\* mongoc_cursor_destroy, which sends killCursors for an open cursor of the
\* current generation.
FreeCursor(p, k) ==
    LET cu == cursor[p][k]
        by == cu.created_by_pid
        c  == ClientOf(p, cu.manager)
        cl == ClientsAfter(p, by, cu.manager)
    IN  /\ phase[p] \in {"request", "deactivated"}
        /\ cu # NULL
        /\ client[p][c].st = "live"
        /\ RegistryUsable(p, by, cu.manager)
        /\ cursor' = [cursor EXCEPT ![p][k] = NULL]
        /\ client' = [client EXCEPT ![p] =
                        [cl EXCEPT ![c] = Return(@, cu.generation, cu.lsid)]]
        /\ pclient' = [pclient EXCEPT ![p] = PclientsAfter(p, by, cu.manager)]
        /\ interference' =
             IF cu.open /\ cu.generation = cl[c].generation
             THEN interference \cup Effect("killCursors", by, p)
             ELSE interference
        /\ UNCHANGED <<phase, manager, server, session, lsids, faults>>

-----------------------------------------------------------------------------
(* Session *)

\* Manager::startSession
StartSession(p, m, s) ==
    LET by == manager[p][m].created_by_pid
        c  == ClientOf(p, m)
        cl == ClientsAfter(p, by, m)
    IN  /\ phase[p] = "request"
        /\ manager[p][m] # NULL
        /\ session[p][s] = NULL
        /\ lsids[p] + Generated(cl[c].pool) <= MaxLsid
        /\ lsids' = [lsids EXCEPT ![p] = @ + Generated(cl[c].pool)]
        /\ pclient' = [pclient EXCEPT ![p] = PclientsAfter(p, by, m)]
        /\ \E l \in Offered(p, cl[c].pool, 0) :
             /\ client' = [client EXCEPT ![p] =
                             [cl EXCEPT ![c].pool = @ \ {l}]]
             /\ session' = [session EXCEPT ![p][s] =
                    [created_by_pid |-> p, manager |-> m,
                     generation |-> cl[c].generation, lsid |-> l,
                     in_transaction |-> FALSE]]
             /\ interference' = interference \cup Effect("lsid", l.by, p)
        /\ UNCHANGED <<phase, manager, server, cursor, faults>>

\* The calls of a program without the habit "inherited_transactions".
MayEndTransaction(p, se) ==
    \/ "inherited_transactions" \in Habits
    \/ se.created_by_pid = p
    \/ ~se.in_transaction

\* Session::startTransaction (begin) and commitTransaction / abortTransaction:
\* none of them compares pids or resets.
Transact(p, s, begin) ==
    LET se == session[p][s]
        c  == ClientOf(p, se.manager)
    IN  /\ phase[p] = "request"
        /\ se # NULL
        /\ se.lsid # NULL
        /\ se.in_transaction = ~begin
        /\ MayEndTransaction(p, se)
        /\ session' = [session EXCEPT ![p][s].in_transaction = begin]
        /\ interference' = interference \cup
                             EndsTransaction(p, se, client[p][c].generation)
        /\ UNCHANGED <<phase, manager, client, pclient, server, cursor, lsids,
                       faults>>

\* Session::endSession destroys client_session, without a reset, and with it a
\* running transaction, whichever process started it; a second call finds it
\* NULL and does nothing.
EndSession(p, s) ==
    LET se == session[p][s]
        c  == ClientOf(p, se.manager)
    IN  /\ phase[p] = "request"
        /\ se # NULL
        /\ se.lsid # NULL
        /\ MayEndTransaction(p, se)
        /\ session' = [session EXCEPT ![p][s] =
                         [@ EXCEPT !.lsid = NULL, !.in_transaction = FALSE]]
        /\ client' = [client EXCEPT ![p][c] = Return(@, se.generation, se.lsid)]
        /\ interference' = interference \cup
                             EndsTransaction(p, se, client[p][c].generation)
        /\ UNCHANGED <<phase, manager, pclient, server, cursor, lsids, faults>>

\* php_phongo_session_free_object: reset if inherited, then
\* mongoc_client_session_destroy, which aborts a running transaction and pools
\* the LSID unless the session is of an older generation.
FreeSession(p, s) ==
    LET se == session[p][s]
        by == se.created_by_pid
        c  == ClientOf(p, se.manager)
        cl == ClientsAfter(p, by, se.manager)
    IN  /\ phase[p] \in {"request", "deactivated"}
        /\ se # NULL
        /\ \A k \in Cur : cursor[p][k] # NULL => cursor[p][k].session # s
        /\ se.lsid # NULL => client[p][c].st = "live"
        /\ RegistryUsable(p, by, se.manager)
        /\ session' = [session EXCEPT ![p][s] = NULL]
        /\ client' = [client EXCEPT ![p] =
                        [cl EXCEPT ![c] = Return(@, se.generation, se.lsid)]]
        /\ pclient' = [pclient EXCEPT ![p] = PclientsAfter(p, by, se.manager)]
        /\ interference' = interference \cup
                             EndsTransaction(p, se, cl[c].generation)
        /\ UNCHANGED <<phase, manager, server, cursor, lsids, faults>>

-----------------------------------------------------------------------------
(* Processes, requests and shutdown *)

\* pcntl_fork() in user code: the child starts with a copy of the image.
Fork(p, q) ==
    /\ phase[p] = "request"
    /\ phase[q] = "unborn"
    /\ phase' = [phase EXCEPT ![q] = "request"]
    /\ manager' = [manager EXCEPT ![q] = manager[p]]
    /\ client' = [client EXCEPT ![q] = client[p]]
    /\ pclient' = [pclient EXCEPT ![q] = pclient[p]]
    /\ server' = [server EXCEPT ![q] = server[p]]
    /\ session' = [session EXCEPT ![q] = session[p]]
    /\ cursor' = [cursor EXCEPT ![q] = cursor[p]]
    /\ UNCHANGED <<lsids, interference, faults>>

objectVars == <<manager, server, session, cursor>>

EnterPhase(p, from, to) ==
    /\ phase[p] = from
    /\ phase' = [phase EXCEPT ![p] = to]
    /\ UNCHANGED <<objectVars, client, pclient, lsids, interference>>

RequestClients(p) ==
    {c \in Client : pclient[p][c] # NULL /\ ~pclient[p][c].is_persistent}

PersistentClients(p) ==
    {c \in Client : pclient[p][c] # NULL /\ pclient[p][c].is_persistent}

\* RSHUTDOWN destroys request_clients first to last, then sets the registries
\* to NULL; the engine frees the remaining objects afterwards.  Clients are
\* numbered in the order in which they were registered.
Rshutdown(p) ==
    /\ NoObjects(p) \/ "leftover_objects" \in Habits
    /\ UNCHANGED faults
    /\ EnterPhase(p, "request", "rshutdown")

\* Mutant of RshutdownDestroy: request_clients without an element destructor.
RshutdownForget(p) ==
    /\ phase[p] = "rshutdown"
    /\ \E c \in RequestClients(p) :
          pclient' = [pclient EXCEPT ![p][c] = NULL]
    /\ UNCHANGED <<phase, objectVars, client, lsids, interference, faults>>

RshutdownDestroy(p) ==
    /\ phase[p] = "rshutdown"
    /\ \E c \in RequestClients(p) :
          /\ \A d \in RequestClients(p) : c <= d
          /\ DestroyPclient(p, c)
    /\ UNCHANGED <<phase, objectVars, lsids, faults>>

RshutdownDone(p) ==
    /\ RequestClients(p) = {}
    /\ UNCHANGED faults
    /\ EnterPhase(p, "rshutdown", "deactivated")

\* A free_object handler that runs after RSHUTDOWN and needs the registry, or
\* a client of it, touches released memory: the process is lost.
CrashingFree(p, by, m, uses_client) ==
    /\ \/ /\ ~RegistryUsable(p, by, m)
          /\ faults' = faults \cup {"null_registry"}
       \/ /\ uses_client
          /\ client[p][ClientOf(p, m)].st = "destroyed"
          /\ faults' = faults \cup {"destroyed_client"}
    /\ EnterPhase(p, "deactivated", "crashed")

FreeAfterRshutdown(p) ==
    \/ \E k \in Cur :
          /\ cursor[p][k] # NULL
          /\ CrashingFree(p, cursor[p][k].created_by_pid,
                          cursor[p][k].manager, TRUE)
    \/ \E s \in Sess :
          /\ session[p][s] # NULL
          /\ CrashingFree(p, session[p][s].created_by_pid,
                          session[p][s].manager, session[p][s].lsid # NULL)

Deactivated(p) ==
    /\ NoObjects(p)
    /\ UNCHANGED faults
    /\ EnterPhase(p, "deactivated", "idle")

\* RINIT of the process's next request: the registries exist again, and the
\* persistent clients of earlier requests are still cached.
Rinit(p) == EnterPhase(p, "idle", "request") /\ UNCHANGED faults

\* Mutant of GshutdownDestroy: first to last.
GshutdownDestroyForward(p) ==
    /\ phase[p] = "gshutdown"
    /\ \E c \in PersistentClients(p) :
          /\ \A d \in PersistentClients(p) : c <= d
          /\ DestroyPclient(p, c)
    /\ UNCHANGED <<phase, objectVars, lsids, faults>>

\* GSHUTDOWN destroys persistent_clients last to first.
Gshutdown(p) == EnterPhase(p, "idle", "gshutdown") /\ UNCHANGED faults

GshutdownDestroy(p) ==
    /\ phase[p] = "gshutdown"
    /\ \E c \in PersistentClients(p) :
          /\ \A d \in PersistentClients(p) : d <= c
          /\ DestroyPclient(p, c)
    /\ UNCHANGED <<phase, objectVars, lsids, faults>>

GshutdownDone(p) ==
    /\ PersistentClients(p) = {}
    /\ UNCHANGED faults
    /\ EnterPhase(p, "gshutdown", "exited")

-----------------------------------------------------------------------------
ManagerStep(p) ==
    \/ \E o \in Opts : ConstructRejected(p, o)
    \/ \E m \in Mgr :
        \/ \E o \in Opts, persistent \in BOOLEAN, kv \in Mgr \cup {NULL} :
              Construct(p, m, o, persistent, kv)
        \/ FreeManager(p, m)
        \/ \E v \in Srv : GetServer(p, v, m)
        \/ \E s \in Sess : StartSession(p, m, s)

ExecuteStep(p) ==
    \E k \in Cur \cup {NULL}, kind \in {"command", "query"}, open \in BOOLEAN :
        \/ \E m \in Mgr : ManagerExecute(p, m, k, kind, open)
        \/ \E v \in Srv : ServerExecute(p, v, k, kind, open)

ObjectStep(p) ==
    \/ \E v \in Srv : FreeServer(p, v)
    \/ \E k \in Cur : CursorExhaust(p, k) \/ FreeCursor(p, k)
    \/ \E s \in Sess : \/ \E begin \in BOOLEAN : Transact(p, s, begin)
                       \/ EndSession(p, s)
                       \/ FreeSession(p, s)

ShutdownStep(p) ==
    \/ Rshutdown(p) \/ RshutdownDestroy(p) \/ RshutdownDone(p)
    \/ FreeAfterRshutdown(p) \/ Deactivated(p) \/ Rinit(p)
    \/ Gshutdown(p) \/ GshutdownDestroy(p) \/ GshutdownDone(p)

Next ==
    \E p \in Pid :
        \/ ManagerStep(p) \/ ExecuteStep(p) \/ ObjectStep(p)
        \/ ShutdownStep(p)
        \/ \E q \in Pid : Fork(p, q)

Spec == Init /\ [][Next]_vars

-----------------------------------------------------------------------------
(* Properties *)

NoEffect(what) == \A e \in interference : e.what # what

\* Freeing a Cursor never sends killCursors for a cursor that another process
\* opened (PHPC-1274: "Cursor destruct should not kill cursor from parent
\* process").
NoForeignKill == NoEffect("killCursors")

\* No process ends a transaction that another process started: freeing a
\* Session never aborts one (PHPC-1274: "Session destruct should not abort
\* transaction from parent process"), whatever the program did before.  It
\* excepts the programs with the habit "inherited_transactions": endSession,
\* commitTransaction and abortTransaction do not compare pids, so in a child
\* they do end the parent's transaction.
NoForeignAbort == NoEffect("endTransaction")

\* Whatever its habits, and so also when a child may end the transactions of
\* inherited Sessions by a call, a program never does so by freeing a Session
\* (Session free_object resets the client before it destroys the session).
FreeingEndsNothing ==
    [][\A p \in Pid, s \in Sess : FreeSession(p, s) =>
          \A e \in interference' \ interference : e.what # "endTransaction"]_vars

\* No process destroys a client, and closes its sockets, that another process
\* created (php_phongo_pclient_destroy, PHPC-1522).
NoForeignDestroy == NoEffect("closeSockets")

\* No session that a process starts, implicitly or explicitly, carries an LSID
\* of another process (Manager::startSession, Server::execute*).
NoSharedLsid == NoEffect("lsid")

\* A cursor that this process opened is still killable when its Cursor is
\* freed: no later reset made it look like an inherited one
\* (php_phongo_client_reset_once: "we do not reset a client multiple times
\* from the same child process").
OwnCursorsKillable ==
    \A p \in Pid, k \in Cur :
        LET cu == cursor[p][k]
        IN  /\ phase[p] = "request"
            /\ cu # NULL
            /\ cu.created_by_pid = p
            /\ cu.open
            => cu.generation = client[p][ClientOf(p, cu.manager)].generation

\* A process that shuts down in order has closed every client it created, so
\* no connection or server session outlives it (Manager free_object, RSHUTDOWN
\* and GSHUTDOWN between them destroy what php_phongo_client_register stored).
ExitClosesOwnClients ==
    \A p \in Pid : phase[p] = "exited" =>
        \A c \in Client : client[p][c].owner = p => client[p][c].st = "destroyed"

\* A client is not destroyed while a client of the same process that uses it
\* as its key vault is alive (Manager free_object, RSHUTDOWN, GSHUTDOWN).
KeyVaultOutlivesDependents ==
    \A p \in Pid, c \in Client :
        LET kv == client[p][c].key_vault
        IN  /\ pclient[p][c] # NULL
            /\ kv # NULL
            => client[p][kv].st = "live"

\* No free_object handler touches a registry or a client that RSHUTDOWN has
\* released.
NoFaults == faults = {}

=============================================================================
