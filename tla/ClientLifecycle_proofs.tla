----------------------- MODULE ClientLifecycle_proofs -----------------------
(***************************************************************************)
(* Theorems about ClientLifecycle, for any number of processes, objects    *)
(* and clients and for every choice of Habits.                             *)
(***************************************************************************)
EXTENDS ClientLifecycle, TLAPS

USE RootAssumption, BoundAssumption, NullAssumption

-----------------------------------------------------------------------------
(* Lemmas about the reset, the pool and the operators of the model *)

\* mongoc_client_reset keeps a client's type and increments its generation.
LEMMA ResetClientType ==
    ASSUME NEW cl \in ClientRec
    PROVE  /\ ResetClient(cl) \in ClientRec
           /\ ResetClient(cl).generation = cl.generation + 1
  <1>1. ASSUME NEW n \in Nat, NEW S \in SUBSET Lsid
        PROVE  LET r == [cl EXCEPT !.generation = n, !.pool = S]
               IN  r \in ClientRec /\ r.generation = n
    BY ZenonT(30) DEF ClientRec
  <1>2. cl.generation + 1 \in Nat /\ {} \in SUBSET Lsid
    BY DEF ClientRec
  <1> QED BY ZenonT(30), <1>1, <1>2 DEF ResetClient

\* A reset leaves a client image and a registry of the right type.
LEMMA ResetType ==
    ASSUME TypeOK, NEW p \in Pid, NEW by \in Pid, NEW m \in Mgr
    PROVE  /\ ClientsAfter(p, by, m) \in [Client -> ClientRec]
           /\ PclientsAfter(p, by, m) \in [Client -> PclientRec \cup {NULL}]
  <1>1. ASSUME NEW c \in ToReset(p, by, m)
        PROVE  c \in Client /\ pclient[p][c] \in PclientRec
    BY DEF ToReset, ResetSet, TypeOK
  <1>2. ASSUME NEW c \in Client
        PROVE  /\ client[p][c] \in ClientRec
               /\ ResetClient(client[p][c]) \in ClientRec
    <2>1. client[p][c] \in ClientRec
      BY DEF TypeOK
    <2> QED BY <2>1, ResetClientType
  <1>3. ASSUME NEW c \in ToReset(p, by, m)
        PROVE  [pclient[p][c] EXCEPT !.last_reset_by_pid = p] \in PclientRec
    <2>1. pclient[p][c] \in PclientRec
      BY <1>1
    <2> QED BY <2>1 DEF PclientRec
  <1>4. ClientsAfter(p, by, m) \in [Client -> ClientRec]
    BY <1>2 DEF ClientsAfter
  <1>5. \A c \in Client : pclient[p][c] \in PclientRec \cup {NULL}
    BY DEF TypeOK
  <1>6. PclientsAfter(p, by, m) \in [Client -> PclientRec \cup {NULL}]
    BY <1>3, <1>5 DEF PclientsAfter
  <1> QED BY <1>4, <1>6

\* Changing a client's pool keeps its type.
LEMMA PoolType ==
    ASSUME NEW cl \in ClientRec, NEW S \in SUBSET Lsid
    PROVE  [cl EXCEPT !.pool = S] \in ClientRec
  BY DEF ClientRec

\* Returning a session to a pool keeps the client's type and generation.
LEMMA ReturnType ==
    ASSUME NEW cl \in ClientRec, NEW gen \in Nat, NEW l \in Lsid \cup {NULL}
    PROVE  /\ Return(cl, gen, l) \in ClientRec
           /\ Return(cl, gen, l).generation = cl.generation
  BY DEF Return, ClientRec

\* An effect is a member of Interference.
LEMMA EffectType ==
    ASSUME NEW what \in Effects, NEW owner \in Pid \cup {NULL}, NEW p \in Pid
    PROVE  Effect(what, owner, p) \subseteq Interference
  BY DEF Effect, Interference

\* Ending a transaction has at most that one effect.
LEMMA EndsType ==
    ASSUME NEW p \in Pid, NEW se \in SessionRec, NEW generation \in Nat
    PROVE  /\ EndsTransaction(p, se, generation) \subseteq Interference
           /\ \A e \in EndsTransaction(p, se, generation) :
                 e.what = "endTransaction"
  BY EffectType DEF EndsTransaction, Effect, Effects, SessionRec

\* What a pool offers is an LSID as long as the bound allows another one.
LEMMA OfferedType ==
    ASSUME TypeOK, NEW p \in Pid, NEW pool \in SUBSET Lsid, NEW j \in Nat,
           lsids[p] + j + Generated(pool) <= MaxLsid,
           NEW l \in Offered(p, pool, j)
    PROVE  l \in Lsid
  <1>1. CASE pool # {}
    BY <1>1 DEF Offered
  <1>2. CASE pool = {}
    <2>1. lsids[p] \in Nat /\ lsids[p] + j + 1 <= MaxLsid
      BY <1>2 DEF Generated, TypeOK
    <2>2. lsids[p] + j + 1 \in 1..MaxLsid
      BY <2>1
    <2> QED BY <1>2, <2>2 DEF Offered, Lsid
  <1> QED BY <1>1, <1>2

\* Types of the records of live objects, and of the fields the actions use.
LEMMA ObjectTypes ==
    ASSUME TypeOK, NEW p \in Pid
    PROVE  /\ \A m \in Mgr : manager[p][m] # NULL =>
                /\ manager[p][m] \in ManagerRec
                /\ manager[p][m].created_by_pid \in Pid
                /\ manager[p][m].client \in Client
                /\ manager[p][m].key_vault_client_manager \in Mgr \cup {NULL}
           /\ \A v \in Srv : server[p][v] # NULL =>
                /\ server[p][v] \in ServerRec
                /\ server[p][v].created_by_pid \in Pid
                /\ server[p][v].manager \in Mgr
           /\ \A s \in Sess : session[p][s] # NULL =>
                /\ session[p][s] \in SessionRec
                /\ session[p][s].created_by_pid \in Pid
                /\ session[p][s].manager \in Mgr
                /\ session[p][s].generation \in Nat
                /\ session[p][s].lsid \in Lsid \cup {NULL}
           /\ \A k \in Cur : cursor[p][k] # NULL =>
                /\ cursor[p][k] \in CursorRec
                /\ cursor[p][k].created_by_pid \in Pid
                /\ cursor[p][k].manager \in Mgr
                /\ cursor[p][k].generation \in Nat
                /\ cursor[p][k].lsid \in Lsid \cup {NULL}
           /\ \A c \in Client :
                /\ client[p][c] \in ClientRec
                /\ client[p][c].generation \in Nat
                /\ client[p][c].owner \in Pid \cup {NULL}
                /\ client[p][c].pool \in SUBSET Lsid
                /\ client[p][c].key_vault \in Client \cup {NULL}
           /\ \A c \in Client : pclient[p][c] # NULL =>
                /\ pclient[p][c] \in PclientRec
                /\ pclient[p][c].created_by_pid \in Pid
  <1>1. \A m \in Mgr : manager[p][m] # NULL => manager[p][m] \in ManagerRec
    BY DEF TypeOK
  <1>2. \A v \in Srv : server[p][v] # NULL => server[p][v] \in ServerRec
    BY DEF TypeOK
  <1>3. \A s \in Sess : session[p][s] # NULL => session[p][s] \in SessionRec
    BY DEF TypeOK
  <1>4. \A k \in Cur : cursor[p][k] # NULL => cursor[p][k] \in CursorRec
    BY DEF TypeOK
  <1>5. \A c \in Client : client[p][c] \in ClientRec
    BY DEF TypeOK
  <1>6. \A c \in Client : pclient[p][c] # NULL => pclient[p][c] \in PclientRec
    BY DEF TypeOK
  <1>a. \A r \in ManagerRec : /\ r.created_by_pid \in Pid
                              /\ r.client \in Client
                              /\ r.key_vault_client_manager \in Mgr \cup {NULL}
    BY DEF ManagerRec
  <1>b. \A r \in ServerRec : r.created_by_pid \in Pid /\ r.manager \in Mgr
    BY DEF ServerRec
  <1>c. \A r \in SessionRec : /\ r.created_by_pid \in Pid
                              /\ r.manager \in Mgr
                              /\ r.generation \in Nat
                              /\ r.lsid \in Lsid \cup {NULL}
    BY DEF SessionRec
  <1>d. \A r \in CursorRec : /\ r.created_by_pid \in Pid
                             /\ r.manager \in Mgr
                             /\ r.generation \in Nat
                             /\ r.lsid \in Lsid \cup {NULL}
    BY DEF CursorRec
  <1>e. \A r \in ClientRec : /\ r.generation \in Nat
                             /\ r.owner \in Pid \cup {NULL}
                             /\ r.pool \in SUBSET Lsid
                             /\ r.key_vault \in Client \cup {NULL}
    BY DEF ClientRec
  <1>f. \A r \in PclientRec : r.created_by_pid \in Pid
    BY SMTT(30) DEF PclientRec
  <1> QED BY ZenonT(30), <1>1, <1>2, <1>3, <1>4, <1>5, <1>6,
             <1>a, <1>b, <1>c, <1>d, <1>e, <1>f, Zenon

-----------------------------------------------------------------------------
(* The inductive invariant *)

\* Every object's Manager is alive: zvals hold a reference to it.
Refs ==
    \A p \in Pid :
      /\ \A v \in Srv : server[p][v] # NULL =>
                            manager[p][server[p][v].manager] # NULL
      /\ \A s \in Sess : session[p][s] # NULL =>
                            manager[p][session[p][s].manager] # NULL
      /\ \A k \in Cur : cursor[p][k] # NULL =>
                            manager[p][cursor[p][k].manager] # NULL

\* While a process may run free_object handlers, the client of a live Manager
\* is registered, unless RSHUTDOWN has taken request_clients away; the
\* Managers that share a client are persistent; between requests there are no
\* objects.
Registered ==
    \A p \in Pid :
      /\ phase[p] \in {"idle", "gshutdown", "exited"} =>
            \A m \in Mgr : manager[p][m] = NULL
      /\ \A m \in Mgr : manager[p][m] # NULL =>
            /\ client[p][ClientOf(p, m)].st # "none"
            /\ \/ phase[p] = "request"
               \/ manager[p][m].use_persistent_client
               => pclient[p][ClientOf(p, m)] # NULL
            /\ pclient[p][ClientOf(p, m)] # NULL =>
                  pclient[p][ClientOf(p, m)].is_persistent
                     = manager[p][m].use_persistent_client
            /\ \A x \in Mgr \ {m} :
                  manager[p][x] # NULL /\ ClientOf(p, x) = ClientOf(p, m)
                    => manager[p][m].use_persistent_client

\* A registry entry is of a client that exists, and it names the process that
\* opened the client's sockets.
Owners ==
    \A p \in Pid, c \in Client : pclient[p][c] # NULL =>
        /\ client[p][c].owner = pclient[p][c].created_by_pid
        /\ client[p][c].st # "none"

\* A pid that was not forked yet is not recorded in any memory image.
Born ==
    \A p \in Pid, c \in Client : pclient[p][c] # NULL =>
        \A q \in Pid : pclient[p][c].last_reset_by_pid = q => phase[q] # "unborn"

\* An object is never of a newer generation than its client, and an inherited
\* object is of an older one as soon as this process has reset the client.
Older(p, cl, pc, obj) ==
    /\ obj.generation <= cl.generation
    /\ obj.created_by_pid # p /\ pc # NULL /\ pc.last_reset_by_pid = p
         => obj.generation < cl.generation

Generations ==
    \A p \in Pid :
      /\ \A s \in Sess : session[p][s] # NULL =>
            LET c == ClientOf(p, session[p][s].manager)
            IN  Older(p, client[p][c], pclient[p][c], session[p][s])
      /\ \A k \in Cur : cursor[p][k] # NULL =>
            LET c == ClientOf(p, cursor[p][k].manager)
            IN  Older(p, client[p][c], pclient[p][c], cursor[p][k])

ForkInv == TypeOK /\ Refs /\ Registered /\ Owners /\ Born /\ Generations

\* What Generations says of one Session and of one Cursor.
LEMMA SessionOlder ==
    ASSUME Generations, NEW q \in Pid, NEW s \in Sess, session[q][s] # NULL
    PROVE  LET d == manager[q][session[q][s].manager].client
           IN  Older(q, client[q][d], pclient[q][d], session[q][s])
  BY SMTT(30) DEF Generations, ClientOf

LEMMA CursorOlder ==
    ASSUME Generations, NEW q \in Pid, NEW k \in Cur, cursor[q][k] # NULL
    PROVE  LET d == manager[q][cursor[q][k].manager].client
           IN  Older(q, client[q][d], pclient[q][d], cursor[q][k])
  BY SMTT(30) DEF Generations, ClientOf

-----------------------------------------------------------------------------
(* The steps that only reset clients and move sessions *)

\* What such a step may do to client c of process p: keep it, or reset it and
\* record that.  The pool is left open.
ResetOrKept(p, c) ==
    /\ client'[p][c].st = client[p][c].st
    /\ client'[p][c].owner = client[p][c].owner
    /\ \/ /\ client'[p][c].generation = client[p][c].generation
          /\ pclient'[p][c] = pclient[p][c]
       \/ /\ client'[p][c].generation = client[p][c].generation + 1
          /\ pclient[p][c] # NULL
          /\ pclient'[p][c] # NULL
          /\ pclient'[p][c].created_by_pid = pclient[p][c].created_by_pid
          /\ pclient'[p][c].is_persistent = pclient[p][c].is_persistent
          /\ pclient'[p][c].last_reset_by_pid = p

\* The images of the other processes are left alone.
OthersKept(p) ==
    \A q \in Pid \ {p} :
        /\ client'[q] = client[q]
        /\ pclient'[q] = pclient[q]
        /\ server'[q] = server[q]
        /\ session'[q] = session[q]
        /\ cursor'[q] = cursor[q]

\* An object keeps what Generations says of it, or this process created it at
\* its client's present generation.
KeptOrNew(p, old, new) ==
    new # NULL =>
        \/ /\ old # NULL
           /\ new.created_by_pid = old.created_by_pid
           /\ new.manager = old.manager
           /\ new.generation = old.generation
        \/ /\ new.created_by_pid = p
           /\ new.manager \in Mgr
           /\ manager[p][new.manager] # NULL
           /\ new.generation = client'[p][ClientOf(p, new.manager)].generation

ImageStep(p) ==
    /\ phase[p] # "unborn"
    /\ UNCHANGED <<phase, manager>>
    /\ OthersKept(p)
    /\ \A c \in Client : ResetOrKept(p, c)
    /\ \A v \in Srv : server'[p][v] # NULL =>
            \/ server[p][v] # NULL /\ server'[p][v].manager = server[p][v].manager
            \/ manager[p][server'[p][v].manager] # NULL
    /\ \A s \in Sess : KeptOrNew(p, session[p][s], session'[p][s])
    /\ \A k \in Cur : KeptOrNew(p, cursor[p][k], cursor'[p][k])

\* Steps of this kind keep the inductive invariant.
LEMMA ImageStepInv ==
    ASSUME ForkInv, TypeOK', NEW p \in Pid, ImageStep(p)
    PROVE  ForkInv'
  <1> USE DEF ForkInv
  <1>1. \A q \in Pid, m \in Mgr : ClientOf(q, m)' = ClientOf(q, m)
    BY DEF ImageStep, ClientOf
  <1>2. Refs'
    <2>1. ASSUME NEW q \in Pid, NEW v \in Srv, server'[q][v] # NULL
          PROVE  manager'[q][server'[q][v].manager] # NULL
      BY <2>1 DEF ImageStep, OthersKept, Refs
    <2>2. ASSUME NEW q \in Pid, NEW s \in Sess, session'[q][s] # NULL
          PROVE  manager'[q][session'[q][s].manager] # NULL
      BY <2>2 DEF ImageStep, OthersKept, KeptOrNew, Refs
    <2>3. ASSUME NEW q \in Pid, NEW k \in Cur, cursor'[q][k] # NULL
          PROVE  manager'[q][cursor'[q][k].manager] # NULL
      BY <2>3 DEF ImageStep, OthersKept, KeptOrNew, Refs
    <2> QED BY <2>1, <2>2, <2>3 DEF Refs
  <1>3. \A q \in Pid, c \in Client :
          /\ client'[q][c].st = client[q][c].st
          /\ client'[q][c].owner = client[q][c].owner
          /\ pclient'[q][c] # NULL <=> pclient[q][c] # NULL
          /\ pclient[q][c] # NULL =>
                /\ pclient'[q][c].created_by_pid = pclient[q][c].created_by_pid
                /\ pclient'[q][c].is_persistent = pclient[q][c].is_persistent
                /\ \/ pclient'[q][c].last_reset_by_pid
                         = pclient[q][c].last_reset_by_pid
                   \/ q = p /\ pclient'[q][c].last_reset_by_pid = p
    BY DEF ImageStep, OthersKept, ResetOrKept
  <1>4. Registered'
    <2>1. ASSUME NEW q \in Pid, NEW m \in Mgr, manager[q][m] # NULL
          PROVE  ClientOf(q, m) \in Client
      BY <2>1, ObjectTypes DEF ClientOf
    <2>2. \A q \in Pid, m \in Mgr : manager'[q][m] = manager[q][m]
                                    /\ phase'[q] = phase[q]
      BY DEF ImageStep
    <2> QED BY <1>1, <1>3, <2>1, <2>2 DEF Registered
  <1>5. Owners'
    BY <1>3 DEF Owners
  <1>6. Born'
    <2>1. ASSUME NEW q \in Pid, NEW c \in Client, pclient'[q][c] # NULL,
                 NEW r \in Pid, pclient'[q][c].last_reset_by_pid = r
          PROVE  phase'[r] # "unborn"
      <3>1. phase' = phase
        BY DEF ImageStep
      <3>2. CASE pclient[q][c].last_reset_by_pid = r
        BY <1>3, <2>1, <3>1, <3>2 DEF Born
      <3>3. CASE r = p
        BY <3>1, <3>3 DEF ImageStep
      <3> QED BY <1>3, <2>1, <3>2, <3>3
    <2> QED BY <2>1 DEF Born
  <1>7. ASSUME NEW q \in Pid, NEW old, NEW new, KeptOrNew(p, old, new),
               q # p => new = old, new # NULL, new.generation \in Nat,
               old # NULL =>
                  /\ old.manager \in Mgr
                  /\ manager[q][old.manager] # NULL
                  /\ old.generation \in Nat
                  /\ LET c == ClientOf(q, old.manager)
                     IN  Older(q, client[q][c], pclient[q][c], old)
        PROVE  LET c == ClientOf(q, new.manager)
               IN  Older(q, client'[q][c], pclient'[q][c], new)
    <2> DEFINE c == ClientOf(q, new.manager)
    <2>1. CASE q # p
      BY <1>7, <2>1, ObjectTypes DEF ImageStep, OthersKept
    <2>2. CASE q = p
      <3>1. CASE /\ old # NULL
                 /\ new.created_by_pid = old.created_by_pid
                 /\ new.manager = old.manager
                 /\ new.generation = old.generation
        <4>1. c \in Client /\ client[p][c].generation \in Nat
          BY <1>7, <2>2, <3>1, ObjectTypes DEF ClientOf
        <4>2. ResetOrKept(p, c)
          BY <4>1 DEF ImageStep
        <4> QED BY SMTT(30), <1>7, <2>2, <3>1, <4>1, <4>2 DEF Older, ResetOrKept
      <3>2. CASE /\ new.created_by_pid = p
                 /\ new.generation = client'[p][c].generation
        BY SMTT(30), <1>7, <2>2, <3>2 DEF Older
      <3> QED BY <1>7, <2>2, <3>1, <3>2 DEF KeptOrNew
    <2> QED BY <2>1, <2>2
  <1>8. Generations'
    <2>1. ASSUME NEW q \in Pid, NEW s \in Sess, session'[q][s] # NULL
          PROVE  LET c == ClientOf(q, session'[q][s].manager)
                 IN  Older(q, client'[q][c], pclient'[q][c], session'[q][s])
      <3>1. session'[q][s].generation \in Nat
        BY <2>1 DEF TypeOK, SessionRec
      <3>2. session[q][s] # NULL =>
              /\ session[q][s].manager \in Mgr
              /\ manager[q][session[q][s].manager] # NULL
              /\ session[q][s].generation \in Nat
              /\ LET c == ClientOf(q, session[q][s].manager)
                 IN  Older(q, client[q][c], pclient[q][c], session[q][s])
        BY ObjectTypes DEF Refs, Generations
      <3>3. /\ q # p => session'[q][s] = session[q][s]
            /\ q = p => KeptOrNew(p, session[q][s], session'[q][s])
        BY DEF ImageStep, OthersKept
      <3>4. KeptOrNew(p, session[q][s], session'[q][s])
        BY <3>3 DEF KeptOrNew
      <3> QED BY <1>7, <2>1, <3>1, <3>2, <3>3, <3>4
    <2>2. ASSUME NEW q \in Pid, NEW k \in Cur, cursor'[q][k] # NULL
          PROVE  LET c == ClientOf(q, cursor'[q][k].manager)
                 IN  Older(q, client'[q][c], pclient'[q][c], cursor'[q][k])
      <3>1. cursor'[q][k].generation \in Nat
        BY <2>2 DEF TypeOK, CursorRec
      <3>2. cursor[q][k] # NULL =>
              /\ cursor[q][k].manager \in Mgr
              /\ manager[q][cursor[q][k].manager] # NULL
              /\ cursor[q][k].generation \in Nat
              /\ LET c == ClientOf(q, cursor[q][k].manager)
                 IN  Older(q, client[q][c], pclient[q][c], cursor[q][k])
        BY ObjectTypes DEF Refs, Generations
      <3>3. /\ q # p => cursor'[q][k] = cursor[q][k]
            /\ q = p => KeptOrNew(p, cursor[q][k], cursor'[q][k])
        BY DEF ImageStep, OthersKept
      <3>4. KeptOrNew(p, cursor[q][k], cursor'[q][k])
        BY <3>3 DEF KeptOrNew
      <3> QED BY <1>7, <2>2, <3>1, <3>2, <3>3, <3>4
    <2> QED BY ZenonT(30), <2>1, <2>2 DEF Generations, ClientOf, ImageStep
  <1> QED BY <1>2, <1>4, <1>5, <1>6, <1>8

\* A reset keeps a client but for its pool and its generation, and it moves
\* the generation on exactly when it records this process's pid.
LEMMA ResetKeeps ==
    ASSUME TypeOK, NEW p \in Pid, NEW by \in Pid, NEW m \in Mgr, NEW c \in Client
    PROVE  LET cl == ClientsAfter(p, by, m)[c]
               pc == PclientsAfter(p, by, m)[c]
           IN  /\ cl.st = client[p][c].st
               /\ cl.owner = client[p][c].owner
               /\ \/ /\ cl.generation = client[p][c].generation
                     /\ pc = pclient[p][c]
                  \/ /\ cl.generation = client[p][c].generation + 1
                     /\ pclient[p][c] # NULL
                     /\ pc # NULL
                     /\ pc.created_by_pid = pclient[p][c].created_by_pid
                     /\ pc.is_persistent = pclient[p][c].is_persistent
                     /\ pc.last_reset_by_pid = p
  <1>1. client[p][c] \in ClientRec
    BY ObjectTypes
  <1>2. CASE c \notin ToReset(p, by, m)
    BY <1>2 DEF ClientsAfter, PclientsAfter
  <1>3. CASE c \in ToReset(p, by, m)
    <2>1. pclient[p][c] # NULL
      BY <1>3 DEF ToReset, ResetSet
    <2>2. pclient[p][c] \in PclientRec
      BY <2>1, ObjectTypes
    <2>3. ClientsAfter(p, by, m)[c] = ResetClient(client[p][c])
      BY <1>3 DEF ClientsAfter
    <2>4. /\ ResetClient(client[p][c]).st = client[p][c].st
          /\ ResetClient(client[p][c]).owner = client[p][c].owner
      BY <1>1 DEF ResetClient, ClientRec
    <2>5. ResetClient(client[p][c]).generation = client[p][c].generation + 1
      BY <1>1, ResetClientType
    <2> DEFINE pc == [pclient[p][c] EXCEPT !.last_reset_by_pid = p]
    <2>6. PclientsAfter(p, by, m)[c] = pc
      BY <1>3 DEF PclientsAfter
    <2>7. /\ pc \in PclientRec
          /\ pc.created_by_pid = pclient[p][c].created_by_pid
          /\ pc.is_persistent = pclient[p][c].is_persistent
          /\ pc.last_reset_by_pid = p
      BY <2>2 DEF PclientRec
    <2>8. pc # NULL
      BY <2>7, NullRecordAssumption
    <2> QED BY <2>1, <2>3, <2>4, <2>5, <2>6, <2>7, <2>8
  <1> QED BY <1>2, <1>3

\* Returning a session changes nothing but the pool.
LEMMA ReturnKeeps ==
    ASSUME NEW cl \in ClientRec, NEW gen \in Nat, NEW l \in Lsid \cup {NULL}
    PROVE  /\ Return(cl, gen, l).st = cl.st
           /\ Return(cl, gen, l).owner = cl.owner
           /\ Return(cl, gen, l).generation = cl.generation
  BY DEF Return, ClientRec

\* A reset of an inherited object's client leaves the object older than it.
LEMMA ResetAges ==
    ASSUME TypeOK, NEW p \in Pid, NEW by \in Pid \ {p}, NEW m \in Mgr,
           manager[p][m] # NULL, pclient[p][ClientOf(p, m)] # NULL,
           NEW obj, obj.created_by_pid = by, obj.generation \in Nat,
           Older(p, client[p][ClientOf(p, m)], pclient[p][ClientOf(p, m)], obj)
    PROVE  obj.generation < ClientsAfter(p, by, m)[ClientOf(p, m)].generation
  <1> DEFINE c == ClientOf(p, m)
  <1>1. c \in Client /\ client[p][c].generation \in Nat
    BY ObjectTypes DEF ClientOf
  <1>2. m \in KeyVaultChain(p, m)
    BY DEF KeyVaultChain
  <1>3. CASE pclient[p][c].last_reset_by_pid = p
    <2>1. obj.generation < client[p][c].generation
      BY <1>3 DEF Older
    <2>2. \/ ClientsAfter(p, by, m)[c].generation = client[p][c].generation
          \/ ClientsAfter(p, by, m)[c].generation = client[p][c].generation + 1
      BY <1>1, ResetKeeps
    <2> QED BY <1>1, <2>1, <2>2
  <1>4. CASE pclient[p][c].last_reset_by_pid # p
    <2>1. c \in ToReset(p, by, m)
      BY <1>1, <1>2, <1>4 DEF ToReset, ResetSet
    <2>2. ClientsAfter(p, by, m)[c].generation = client[p][c].generation + 1
      BY <1>1, <2>1, ObjectTypes, ResetClientType DEF ClientsAfter
    <2> QED BY <1>1, <2>2 DEF Older
  <1> QED BY SMTT(30), <1>3, <1>4

\* An image that agrees with the reset one on everything but the pools.
LEMMA ResetImage ==
    ASSUME TypeOK, NEW p \in Pid, NEW by \in Pid, NEW m \in Mgr, NEW f,
           client' = [client EXCEPT ![p] = f],
           pclient' = [pclient EXCEPT ![p] = PclientsAfter(p, by, m)],
           \A c \in Client :
              LET cl == ClientsAfter(p, by, m)[c]
              IN  /\ f[c].st = cl.st
                  /\ f[c].owner = cl.owner
                  /\ f[c].generation = cl.generation
    PROVE  \A c \in Client : ResetOrKept(p, c)
  <1> SUFFICES ASSUME NEW c \in Client PROVE ResetOrKept(p, c)
    OBVIOUS
  <1>1. client'[p][c] = f[c] /\ pclient'[p][c] = PclientsAfter(p, by, m)[c]
    BY DEF TypeOK
  <1> QED BY <1>1, ResetKeeps DEF ResetOrKept

-----------------------------------------------------------------------------
(* Type correctness, action by action *)

\* Destroying a client keeps the types (php_phongo_pclient_destroy).
LEMMA DestroyType ==
    ASSUME TypeOK, NEW p \in Pid, NEW c \in Client, DestroyPclient(p, c)
    PROVE  /\ client' \in [Pid -> [Client -> ClientRec]]
           /\ pclient' \in [Pid -> [Client -> PclientRec \cup {NULL}]]
           /\ interference' \subseteq Interference
  <1>1. pclient' \in [Pid -> [Client -> PclientRec \cup {NULL}]]
    BY DEF DestroyPclient, TypeOK
  <1>2. [client[p][c] EXCEPT !.st = "destroyed"] \in ClientRec
    BY ObjectTypes DEF ClientRec
  <1>3. CASE MayDestroy(p, c)
    <2>1. client' = [client EXCEPT ![p] = [client[p] EXCEPT ![c] =
                        [client[p][c] EXCEPT !.st = "destroyed"]]]
      BY <1>3 DEF DestroyPclient
    <2>2. client' \in [Pid -> [Client -> ClientRec]]
      BY <1>2, <2>1 DEF TypeOK
    <2>3. Effect("closeSockets", client[p][c].owner, p) \subseteq Interference
      BY EffectType, ObjectTypes DEF Effects
    <2> QED BY <1>1, <1>3, <2>2, <2>3 DEF DestroyPclient, TypeOK
  <1>4. CASE ~MayDestroy(p, c)
    BY <1>1, <1>4 DEF DestroyPclient, TypeOK
  <1> QED BY <1>3, <1>4

\* Constructing a Manager keeps the types.
LEMMA ConstructType ==
    ASSUME TypeOK, NEW p \in Pid, NEW m \in Mgr, NEW o \in Opts,
           NEW persistent \in BOOLEAN, NEW kv \in Mgr \cup {NULL},
           Construct(p, m, o, persistent, kv)
    PROVE  TypeOK'
  <1>1. KeyVaultClientOf(p, kv) \in Client \cup {NULL}
    BY ObjectTypes DEF Construct, KeyVaultClientOf, ClientOf
  <1>2. ASSUME ConstructCached(p, m, o, kv)
        PROVE  TypeOK'
    <2>1. PICK c \in Client : manager' = [manager EXCEPT ![p][m] =
                        [created_by_pid |-> p, client |-> c,
                         use_persistent_client |-> TRUE,
                         key_vault_client_manager |-> NULL]]
      BY ZenonT(30), <1>2 DEF ConstructCached, FindPersistent
    <2>2. manager' \in [Pid -> [Mgr -> ManagerRec \cup {NULL}]]
      BY <2>1 DEF TypeOK, ManagerRec
    <2> QED BY <1>2, <2>2 DEF Construct, ConstructCached, TypeOK
  <1>3. ASSUME ConstructNew(p, m, o, persistent, kv)
        PROVE  TypeOK'
    <2>1. PICK c \in Client :
            /\ client' = [client EXCEPT ![p][c] =
                  [st |-> "live", owner |-> p, generation |-> 0, pool |-> {},
                   opts |-> o, key_vault |-> KeyVaultClientOf(p, kv)]]
            /\ pclient' = [pclient EXCEPT ![p][c] =
                  [created_by_pid |-> p, last_reset_by_pid |-> NULL,
                   is_persistent |-> persistent]]
            /\ manager' = [manager EXCEPT ![p][m] =
                  [created_by_pid |-> p, client |-> c,
                   use_persistent_client |-> persistent,
                   key_vault_client_manager |-> kv]]
      BY ZenonT(30), <1>3 DEF ConstructNew, NewClient
    <2>2. [st |-> "live", owner |-> p, generation |-> 0, pool |-> {},
           opts |-> o, key_vault |-> KeyVaultClientOf(p, kv)] \in ClientRec
      BY <1>1 DEF ClientRec
    <2>3. client' \in [Pid -> [Client -> ClientRec]]
      BY <2>1, <2>2 DEF TypeOK
    <2>4. pclient' \in [Pid -> [Client -> PclientRec \cup {NULL}]]
      BY <2>1 DEF TypeOK, PclientRec
    <2>5. manager' \in [Pid -> [Mgr -> ManagerRec \cup {NULL}]]
      BY <2>1 DEF TypeOK, ManagerRec
    <2> QED BY <2>3, <2>4, <2>5 DEF Construct, TypeOK
  <1> QED BY <1>2, <1>3 DEF Construct

\* A constructor that fails after creating its client keeps the types.
LEMMA ConstructRejectedType ==
    ASSUME TypeOK, NEW p \in Pid, NEW o \in Opts, ConstructRejected(p, o)
    PROVE  TypeOK'
  <1> DEFINE nc == [st |-> "live", owner |-> p, generation |-> 0, pool |-> {},
                    opts |-> o, key_vault |-> KeyVaultClientOf(p, NULL)]
  <1>1. nc \in ClientRec
    BY DEF ClientRec, KeyVaultClientOf
  <1>2. PICK c \in Client : client' = [client EXCEPT ![p][c] = nc]
    BY ZenonT(30) DEF ConstructRejected, NewClient
  <1> HIDE DEF nc
  <1>3. client' \in [Pid -> [Client -> ClientRec]]
    BY <1>1, <1>2 DEF TypeOK
  <1> QED BY <1>3 DEF ConstructRejected, TypeOK

\* Freeing a Manager keeps the types.
LEMMA FreeManagerType ==
    ASSUME TypeOK, NEW p \in Pid, NEW m \in Mgr, FreeManager(p, m)
    PROVE  TypeOK'
  <1>1. manager' \in [Pid -> [Mgr -> ManagerRec \cup {NULL}]]
    BY DEF FreeManager, TypeOK
  <1>2. ClientOf(p, m) \in Client
    BY ObjectTypes DEF FreeManager, ClientOf
  <1>3. /\ client' \in [Pid -> [Client -> ClientRec]]
        /\ pclient' \in [Pid -> [Client -> PclientRec \cup {NULL}]]
        /\ interference' \subseteq Interference
    BY <1>2, DestroyType DEF FreeManager, TypeOK
  <1> QED BY <1>1, <1>3 DEF FreeManager, TypeOK

\* Obtaining and freeing a Server keeps the types.
LEMMA ServerType ==
    ASSUME TypeOK, NEW p \in Pid, NEW v \in Srv,
           FreeServer(p, v) \/ \E m \in Mgr : GetServer(p, v, m)
    PROVE  TypeOK'
  <1>1. CASE FreeServer(p, v)
    BY <1>1 DEF FreeServer, TypeOK
  <1>2. ASSUME NEW m \in Mgr, GetServer(p, v, m)
        PROVE  TypeOK'
    <2>1. [created_by_pid |-> p, manager |-> m] \in ServerRec
      BY DEF ServerRec
    <2>2. server' \in [Pid -> [Srv -> ServerRec \cup {NULL}]]
      BY <1>2, <2>1 DEF GetServer, TypeOK
    <2> QED BY <1>2, <2>2 DEF GetServer, TypeOK
  <1> QED BY <1>1, <1>2

\* What executing an operation does to the image of process p.
ExecuteImage(p) ==
    /\ \A c \in Client : ResetOrKept(p, c)
    /\ \A q \in Pid \ {p} : /\ client'[q] = client[q]
                            /\ pclient'[q] = pclient[q]
                            /\ cursor'[q] = cursor[q]
    /\ \A x \in Cur : KeptOrNew(p, cursor[p][x], cursor'[p][x])
    /\ \A e \in interference' : e \in interference \/ e.what = "lsid"

\* Executing an operation with an implicit session keeps the types; apart from
\* a reset it only moves sessions, and its only effect is to use an LSID.
LEMMA ExecuteImplicitStep ==
    ASSUME TypeOK, NEW p \in Pid, NEW by \in Pid, NEW m \in Mgr,
           NEW k \in Cur \cup {NULL}, NEW kind \in {"command", "query"},
           NEW open \in BOOLEAN, manager[p][m] # NULL,
           ExecuteImplicit(p, by, m, k, kind, open)
    PROVE  /\ client' \in [Pid -> [Client -> ClientRec]]
           /\ pclient' \in [Pid -> [Client -> PclientRec \cup {NULL}]]
           /\ cursor' \in [Pid -> [Cur -> CursorRec \cup {NULL}]]
           /\ lsids' \in [Pid -> Nat]
           /\ interference' \subseteq Interference
           /\ ExecuteImage(p)
  <1> DEFINE c == ClientOf(p, m)
             cl == ClientsAfter(p, by, m)
             kvc == cl[c].key_vault
             keeps == k # NULL /\ (open \/ kind = "command")
  <1>1. c \in Client
    BY ObjectTypes DEF ClientOf
  <1>2. cl \in [Client -> ClientRec]
    BY ResetType
  <1>3. \A d \in Client : /\ cl[d] \in ClientRec
                          /\ cl[d].pool \in SUBSET Lsid
                          /\ cl[d].generation \in Nat
                          /\ cl[d].key_vault \in Client \cup {NULL}
    BY SMTT(30), <1>2 DEF ClientRec
  <1> HIDE DEF cl, c
  <1>4. PICK kvl \in IF kvc = NULL THEN {NULL}
                     ELSE {NULL} \cup Offered(p, cl[kvc].pool, 0) :
        LET j   == IF kvl = NULL THEN 0 ELSE Generated(cl[kvc].pool)
            cl2 == IF kvl = NULL THEN cl
                   ELSE [cl EXCEPT ![kvc].pool = @ \cup {kvl}]
        IN  \E l \in Offered(p, cl2[c].pool, j) :
            /\ lsids[p] + j + Generated(cl2[c].pool) <= MaxLsid
            /\ lsids' = [lsids EXCEPT ![p] = @ + j + Generated(cl2[c].pool)]
            /\ pclient' = [pclient EXCEPT ![p] = PclientsAfter(p, by, m)]
            /\ client' = [client EXCEPT ![p] =
                 [cl2 EXCEPT ![c].pool = IF keeps THEN @ \ {l}
                                         ELSE @ \cup {l}]]
            /\ cursor' = IF k = NULL THEN cursor ELSE
                 [cursor EXCEPT ![p][k] =
                    [created_by_pid |-> p, manager |-> m,
                     generation |-> cl[c].generation, open |-> open,
                     kind |-> kind, session |-> NULL,
                     lsid |-> IF keeps THEN l ELSE NULL]]
            /\ interference' = interference \cup Effect("lsid", l.by, p)
                 \cup (IF kvl = NULL THEN {} ELSE Effect("lsid", kvl.by, p))
    BY ZenonT(30) DEF ExecuteImplicit, cl, c
  <1> DEFINE j   == IF kvl = NULL THEN 0 ELSE Generated(cl[kvc].pool)
             cl2 == IF kvl = NULL THEN cl
                    ELSE [cl EXCEPT ![kvc].pool = @ \cup {kvl}]
  <1>5. PICK l \in Offered(p, cl2[c].pool, j) :
            /\ lsids[p] + j + Generated(cl2[c].pool) <= MaxLsid
            /\ lsids' = [lsids EXCEPT ![p] = @ + j + Generated(cl2[c].pool)]
            /\ pclient' = [pclient EXCEPT ![p] = PclientsAfter(p, by, m)]
            /\ client' = [client EXCEPT ![p] =
                 [cl2 EXCEPT ![c].pool = IF keeps THEN @ \ {l}
                                         ELSE @ \cup {l}]]
            /\ cursor' = IF k = NULL THEN cursor ELSE
                 [cursor EXCEPT ![p][k] =
                    [created_by_pid |-> p, manager |-> m,
                     generation |-> cl[c].generation, open |-> open,
                     kind |-> kind, session |-> NULL,
                     lsid |-> IF keeps THEN l ELSE NULL]]
            /\ interference' = interference \cup Effect("lsid", l.by, p)
                 \cup (IF kvl = NULL THEN {} ELSE Effect("lsid", kvl.by, p))
    BY ZenonT(30), <1>4
  <1>6. j \in Nat /\ \A S : Generated(S) \in {0, 1}
    BY DEF Generated
  <1>7. lsids[p] \in Nat
    BY DEF TypeOK
  <1>8. ASSUME kvl # NULL
        PROVE  kvc \in Client /\ kvl \in Lsid
    <2>1. kvc \in Client /\ kvl \in Offered(p, cl[kvc].pool, 0)
      BY SMTT(30), <1>1, <1>3, <1>4, <1>8
    <2>2. lsids[p] + 0 + Generated(cl[kvc].pool) <= MaxLsid
      BY <1>5, <1>6, <1>7, <1>8
    <2>3. cl[kvc].pool \in SUBSET Lsid
      BY <1>3, <2>1
    <2> QED BY SMTT(30), <2>1, <2>2, <2>3, OfferedType
  <1>9. /\ cl2 \in [Client -> ClientRec]
        /\ cl2[c] \in ClientRec
        /\ cl2[c].pool \in SUBSET Lsid
    <2>1. CASE kvl = NULL
      BY SMTT(30), <1>1, <1>2, <1>3, <2>1
    <2>2. CASE kvl # NULL
      <3>1. cl[kvc].pool \cup {kvl} \in SUBSET Lsid
        BY <1>3, <1>8, <2>2
      <3>2. [cl[kvc] EXCEPT !.pool = cl[kvc].pool \cup {kvl}] \in ClientRec
        BY ZenonT(30), <1>3, <1>8, <2>2, <3>1, PoolType
      <3>3. cl2 \in [Client -> ClientRec]
        BY <1>2, <1>8, <2>2, <3>2
      <3>4. cl2[c] \in ClientRec
        BY ZenonT(30), <1>1, <3>3
      <3> QED BY <3>3, <3>4 DEF ClientRec
    <2> QED BY <2>1, <2>2
  <1> HIDE DEF cl2, j, kvc
  <1>10. l \in Lsid
    BY <1>5, <1>6, <1>9, OfferedType
  <1>11. client' \in [Pid -> [Client -> ClientRec]]
    <2> DEFINE S == IF keeps THEN cl2[c].pool \ {l} ELSE cl2[c].pool \cup {l}
    <2>1. S \in SUBSET Lsid
      BY <1>9, <1>10
    <2>2. [cl2[c] EXCEPT !.pool = S] \in ClientRec
      BY ZenonT(30), <1>9, <2>1, PoolType
    <2>3. client' = [client EXCEPT ![p] =
                        [cl2 EXCEPT ![c] = [cl2[c] EXCEPT !.pool = S]]]
      BY <1>5
    <2> HIDE DEF S
    <2>4. [cl2 EXCEPT ![c] = [cl2[c] EXCEPT !.pool = S]] \in [Client -> ClientRec]
      BY ZenonT(30), <1>9, <2>2
    <2> QED BY <2>3, <2>4 DEF TypeOK
  <1>12. pclient' \in [Pid -> [Client -> PclientRec \cup {NULL}]]
    BY ZenonT(30), <1>5, ResetType DEF TypeOK
  <1>13. cursor' \in [Pid -> [Cur -> CursorRec \cup {NULL}]]
    <2> DEFINE r == [created_by_pid |-> p, manager |-> m,
                     generation |-> cl[c].generation, open |-> open,
                     kind |-> kind, session |-> NULL,
                     lsid |-> IF keeps THEN l ELSE NULL]
    <2>1. r \in CursorRec
      BY <1>1, <1>3, <1>10 DEF CursorRec
    <2> HIDE DEF r
    <2>2. cursor' = IF k = NULL THEN cursor ELSE [cursor EXCEPT ![p][k] = r]
      BY <1>5 DEF r
    <2> QED BY <2>1, <2>2 DEF TypeOK
  <1>14. lsids' \in [Pid -> Nat]
    <2>1. Generated(cl2[c].pool) \in {0, 1}
      BY <1>6
    <2>2. lsids[p] + j + Generated(cl2[c].pool) \in Nat
      BY <1>6, <1>7, <2>1
    <2> QED BY <1>5, <2>2 DEF TypeOK
  <1>15. interference' \subseteq Interference
    <2>1. l.by \in Pid /\ (kvl # NULL => kvl.by \in Pid)
      BY <1>8, <1>10 DEF Lsid
    <2>2. /\ Effect("lsid", l.by, p) \subseteq Interference
          /\ kvl # NULL => Effect("lsid", kvl.by, p) \subseteq Interference
      BY <2>1, EffectType DEF Effects
    <2> QED BY <1>5, <2>2 DEF TypeOK
  <1>16. ExecuteImage(p)
    <2> DEFINE f == [cl2 EXCEPT ![c].pool = IF keeps THEN @ \ {l} ELSE @ \cup {l}]
    <2>1. \A d \in Client : /\ cl2[d].st = cl[d].st
                            /\ cl2[d].owner = cl[d].owner
                            /\ cl2[d].generation = cl[d].generation
      BY <1>2, <1>8 DEF ClientRec, cl2
    <2>2. \A d \in Client : /\ f[d].st = cl[d].st
                            /\ f[d].owner = cl[d].owner
                            /\ f[d].generation = cl[d].generation
      BY <1>1, <1>9, <2>1 DEF ClientRec
    <2>3. client' = [client EXCEPT ![p] = f]
      BY <1>5
    <2> HIDE DEF f
    <2>4. \A d \in Client : ResetOrKept(p, d)
      BY ZenonT(30), <1>5, <2>2, <2>3, ResetImage DEF cl
    <2>5. \A q \in Pid \ {p} : /\ client'[q] = client[q]
                               /\ pclient'[q] = pclient[q]
                               /\ cursor'[q] = cursor[q]
      BY <1>5 DEF TypeOK
    <2>6. client'[p][c].generation = cl[c].generation
      BY <1>1, <2>2, <2>3 DEF TypeOK
    <2>7. ASSUME NEW x \in Cur
          PROVE  KeptOrNew(p, cursor[p][x], cursor'[p][x])
      <3>1. CASE k = NULL \/ x # k
        BY <1>5, <3>1 DEF KeptOrNew, TypeOK
      <3>2. CASE k # NULL /\ x = k
        <4>1. /\ cursor'[p][x].created_by_pid = p
              /\ cursor'[p][x].manager = m
              /\ cursor'[p][x].generation = cl[c].generation
          BY <1>5, <3>2 DEF TypeOK
        <4> QED BY <2>6, <4>1 DEF KeptOrNew, c
      <3> QED BY <3>1, <3>2
    <2>8. \A e \in interference' : e \in interference \/ e.what = "lsid"
      BY <1>5 DEF Effect
    <2> QED BY <2>4, <2>5, <2>7, <2>8 DEF ExecuteImage
  <1> QED BY <1>11, <1>12, <1>13, <1>14, <1>15, <1>16

\* The same of an operation with an explicit Session.
LEMMA ExecuteExplicitStep ==
    ASSUME TypeOK, NEW p \in Pid, NEW by \in Pid, NEW m \in Mgr, NEW s \in Sess,
           NEW k \in Cur \cup {NULL}, NEW kind \in {"command", "query"},
           NEW open \in BOOLEAN, manager[p][m] # NULL,
           ExecuteExplicit(p, by, m, s, k, kind, open)
    PROVE  /\ client' \in [Pid -> [Client -> ClientRec]]
           /\ pclient' \in [Pid -> [Client -> PclientRec \cup {NULL}]]
           /\ cursor' \in [Pid -> [Cur -> CursorRec \cup {NULL}]]
           /\ lsids' \in [Pid -> Nat]
           /\ interference' \subseteq Interference
           /\ ExecuteImage(p)
  <1> DEFINE c == ClientOf(p, m)
             cl == ClientsAfter(p, by, m)
             r == [created_by_pid |-> p, manager |-> m,
                   generation |-> cl[c].generation, open |-> open,
                   kind |-> kind, session |-> s, lsid |-> NULL]
  <1>1. c \in Client
    BY ObjectTypes DEF ClientOf
  <1>2. cl \in [Client -> ClientRec]
    BY ResetType
  <1>3. cl[c].generation \in Nat
    BY <1>1, <1>2 DEF ClientRec
  <1>4. client' \in [Pid -> [Client -> ClientRec]]
    BY <1>2 DEF ExecuteExplicit, TypeOK
  <1>5. pclient' \in [Pid -> [Client -> PclientRec \cup {NULL}]]
    BY ZenonT(30), ResetType DEF ExecuteExplicit, TypeOK
  <1>6. r \in CursorRec
    BY <1>3 DEF CursorRec
  <1>7. cursor' = cursor \/ (k \in Cur /\ cursor' = [cursor EXCEPT ![p][k] = r])
    BY DEF ExecuteExplicit
  <1> HIDE DEF r
  <1>8. cursor' \in [Pid -> [Cur -> CursorRec \cup {NULL}]]
    <2>1. CASE cursor' = cursor
      BY <2>1 DEF TypeOK
    <2>2. CASE k \in Cur /\ cursor' = [cursor EXCEPT ![p][k] = r]
      BY <1>6, <2>2 DEF TypeOK
    <2> QED BY <1>7, <2>1, <2>2
  <1>9. session[p][s].lsid \in Lsid
    BY ObjectTypes DEF ExecuteExplicit
  <1>10. Effect("lsid", session[p][s].lsid.by, p) \subseteq Interference
    <2>1. session[p][s].lsid.by \in Pid
      BY <1>9 DEF Lsid
    <2> QED BY <2>1, EffectType DEF Effects
  <1>11. interference' \subseteq Interference
    BY <1>10 DEF ExecuteExplicit, TypeOK
  <1>12. ExecuteImage(p)
    <2>1. \A d \in Client : ResetOrKept(p, d)
      BY ZenonT(30), ResetImage DEF ExecuteExplicit
    <2>2. client'[p][c].generation = cl[c].generation
      BY DEF ExecuteExplicit, TypeOK
    <2>3. ASSUME NEW x \in Cur
          PROVE  KeptOrNew(p, cursor[p][x], cursor'[p][x])
      <3>1. CASE cursor' = cursor
        BY <3>1 DEF KeptOrNew
      <3>2. CASE k \in Cur /\ cursor' = [cursor EXCEPT ![p][k] = r]
        <4>1. CASE x # k
          BY <3>2, <4>1 DEF KeptOrNew, TypeOK
        <4>2. CASE x = k
          <5>1. cursor'[p][x] = r
            BY <3>2, <4>2 DEF TypeOK
          <5> QED BY <2>2, <5>1 DEF KeptOrNew, r
        <4> QED BY <4>1, <4>2
      <3> QED BY <1>7, <3>1, <3>2
    <2>4. \A q \in Pid \ {p} : /\ client'[q] = client[q]
                               /\ pclient'[q] = pclient[q]
      BY DEF ExecuteExplicit, TypeOK
    <2>5. \A q \in Pid \ {p} : cursor'[q] = cursor[q]
      BY <1>7 DEF TypeOK
    <2>6. \A e \in interference' : e \in interference \/ e.what = "lsid"
      BY DEF ExecuteExplicit, Effect
    <2> QED BY <2>1, <2>3, <2>4, <2>5, <2>6 DEF ExecuteImage
  <1> QED BY ZenonT(30), <1>4, <1>5, <1>8, <1>11, <1>12 DEF ExecuteExplicit, TypeOK

\* Executing an operation on a live Manager keeps the types.
LEMMA ExecuteType ==
    ASSUME TypeOK, NEW p \in Pid, NEW by \in Pid, NEW m \in Mgr,
           NEW k \in Cur \cup {NULL}, NEW kind \in {"command", "query"},
           NEW open \in BOOLEAN, manager[p][m] # NULL,
           Execute(p, by, m, k, kind, open)
    PROVE  TypeOK'
  BY SMTT(30), ExecuteImplicitStep, ExecuteExplicitStep DEF Execute, TypeOK

\* The client image after a reset of m's client and the return of a session.
LEMMA ReturnImageType ==
    ASSUME TypeOK, NEW p \in Pid, NEW by \in Pid, NEW m \in Mgr,
           NEW gen \in Nat, NEW l \in Lsid \cup {NULL}, manager[p][m] # NULL
    PROVE  [ClientsAfter(p, by, m) EXCEPT ![ClientOf(p, m)] = Return(@, gen, l)]
              \in [Client -> ClientRec]
  <1> DEFINE c == ClientOf(p, m)
             cl == ClientsAfter(p, by, m)
  <1>1. c \in Client
    BY ObjectTypes DEF ClientOf
  <1>2. cl \in [Client -> ClientRec]
    BY ResetType
  <1>3. Return(cl[c], gen, l) \in ClientRec
    BY <1>1, <1>2, ReturnType
  <1> HIDE DEF c, cl
  <1>4. [cl EXCEPT ![c] = Return(cl[c], gen, l)] \in [Client -> ClientRec]
    BY ZenonT(30), <1>2, <1>3
  <1> QED BY <1>4 DEF c, cl

\* Exhausting or freeing a Cursor keeps the types.
LEMMA CursorType ==
    ASSUME TypeOK, Refs, NEW p \in Pid, NEW k \in Cur,
           CursorExhaust(p, k) \/ FreeCursor(p, k)
    PROVE  TypeOK'
  <1> DEFINE cu == cursor[p][k]
  <1>1. cu # NULL
    BY DEF CursorExhaust, FreeCursor
  <1>2. /\ cu \in CursorRec
        /\ cu.created_by_pid \in Pid
        /\ cu.manager \in Mgr
        /\ cu.generation \in Nat
        /\ cu.lsid \in Lsid \cup {NULL}
        /\ manager[p][cu.manager] # NULL
    BY SMTT(30), <1>1, ObjectTypes DEF Refs
  <1>3. PICK by \in Pid :
          /\ client' = [client EXCEPT ![p] =
                [ClientsAfter(p, by, cu.manager) EXCEPT
                     ![ClientOf(p, cu.manager)] = Return(@, cu.generation, cu.lsid)]]
          /\ pclient' = [pclient EXCEPT ![p] = PclientsAfter(p, by, cu.manager)]
    BY ZenonT(30), <1>2 DEF CursorExhaust, FreeCursor
  <1>4. client' \in [Pid -> [Client -> ClientRec]]
    BY ZenonT(30), <1>2, <1>3, ReturnImageType DEF TypeOK
  <1>5. pclient' \in [Pid -> [Client -> PclientRec \cup {NULL}]]
    BY SMTT(30), <1>2, <1>3, ResetType DEF TypeOK
  <1>6. CASE CursorExhaust(p, k)
    <2>1. [cu EXCEPT !.open = FALSE, !.lsid = NULL, !.session = NULL] \in CursorRec
      BY ZenonT(30), <1>2 DEF CursorRec
    <2>2. cursor' \in [Pid -> [Cur -> CursorRec \cup {NULL}]]
      BY SMTT(30), <1>6, <2>1 DEF CursorExhaust, TypeOK
    <2> QED BY SMTT(30), <1>4, <1>5, <1>6, <2>2 DEF CursorExhaust, TypeOK
  <1>7. CASE FreeCursor(p, k)
    <2>1. cursor' \in [Pid -> [Cur -> CursorRec \cup {NULL}]]
      BY SMTT(30), <1>7 DEF FreeCursor, TypeOK
    <2>2. Effect("killCursors", cu.created_by_pid, p) \subseteq Interference
      BY SMTT(30), <1>2, EffectType DEF Effects
    <2>3. interference' \subseteq Interference
      BY <1>7, <2>2 DEF FreeCursor, TypeOK
    <2> QED BY <1>4, <1>5, <1>7, <2>1, <2>3 DEF FreeCursor, TypeOK
  <1> QED BY SMTT(30), <1>6, <1>7

\* Starting, using, ending or freeing a Session keeps the types.
LEMMA SessionType ==
    ASSUME TypeOK, Refs, NEW p \in Pid, NEW s \in Sess,
           \/ \E m \in Mgr : StartSession(p, m, s)
           \/ \E begin \in BOOLEAN : Transact(p, s, begin)
           \/ EndSession(p, s)
           \/ FreeSession(p, s)
    PROVE  TypeOK'
  <1> DEFINE se == session[p][s]
  <1>1. ASSUME se # NULL
        PROVE  /\ se \in SessionRec
               /\ se.created_by_pid \in Pid
               /\ se.manager \in Mgr
               /\ se.generation \in Nat
               /\ se.lsid \in Lsid \cup {NULL}
               /\ manager[p][se.manager] # NULL
    BY <1>1, ObjectTypes DEF Refs
  <1>2. ASSUME NEW m \in Mgr, StartSession(p, m, s)
        PROVE  TypeOK'
    <2> DEFINE by == manager[p][m].created_by_pid
               c  == ClientOf(p, m)
               cl == ClientsAfter(p, by, m)
    <2>1. by \in Pid /\ c \in Client
      BY ZenonT(30), <1>2, ObjectTypes DEF StartSession, ClientOf
    <2>2. cl \in [Client -> ClientRec]
      BY <2>1, ResetType
    <2>3. /\ cl[c] \in ClientRec
          /\ cl[c].pool \in SUBSET Lsid
          /\ cl[c].generation \in Nat
      BY SMTT(30), <2>1, <2>2 DEF ClientRec
    <2>4. /\ lsids[p] + Generated(cl[c].pool) <= MaxLsid
          /\ lsids' = [lsids EXCEPT ![p] = @ + Generated(cl[c].pool)]
          /\ pclient' = [pclient EXCEPT ![p] = PclientsAfter(p, by, m)]
          /\ UNCHANGED <<phase, manager, server, cursor, faults>>
      BY ZenonT(30), <1>2 DEF StartSession
    <2>5. PICK l \in Offered(p, cl[c].pool, 0) :
             /\ client' = [client EXCEPT ![p] =
                             [cl EXCEPT ![c].pool = @ \ {l}]]
             /\ session' = [session EXCEPT ![p][s] =
                    [created_by_pid |-> p, manager |-> m,
                     generation |-> cl[c].generation, lsid |-> l,
                     in_transaction |-> FALSE]]
             /\ interference' = interference \cup Effect("lsid", l.by, p)
      BY ZenonT(30), <1>2 DEF StartSession
    <2> HIDE DEF cl, c, by
    <2>6. lsids[p] \in Nat /\ Generated(cl[c].pool) \in {0, 1}
      BY DEF TypeOK, Generated
    <2>7. lsids[p] + 0 + Generated(cl[c].pool) <= MaxLsid
      BY <2>4, <2>6
    <2>8. l \in Lsid /\ l.by \in Pid
      <3>1. l \in Lsid
        BY <2>3, <2>7, OfferedType
      <3> QED BY <3>1 DEF Lsid
    <2>9. [cl EXCEPT ![c].pool = @ \ {l}] \in [Client -> ClientRec]
      <3>1. cl[c].pool \ {l} \in SUBSET Lsid
        BY <2>3
      <3>2. [cl[c] EXCEPT !.pool = cl[c].pool \ {l}] \in ClientRec
        BY <2>3, <3>1, PoolType
      <3> QED BY <2>1, <2>2, <3>2
    <2>10. client' \in [Pid -> [Client -> ClientRec]]
      BY <2>5, <2>9 DEF TypeOK
    <2>11. pclient' \in [Pid -> [Client -> PclientRec \cup {NULL}]]
      BY <2>1, <2>4, ResetType DEF TypeOK
    <2>12. session' \in [Pid -> [Sess -> SessionRec \cup {NULL}]]
      <3> DEFINE r == [created_by_pid |-> p, manager |-> m,
                       generation |-> cl[c].generation, lsid |-> l,
                       in_transaction |-> FALSE]
      <3>1. r \in SessionRec
        BY <2>3, <2>8 DEF SessionRec
      <3>2. session' = [session EXCEPT ![p][s] = r]
        BY <2>5
      <3> HIDE DEF r
      <3> QED BY <3>1, <3>2 DEF TypeOK
    <2>13. lsids' \in [Pid -> Nat]
      BY <2>4, <2>6 DEF TypeOK
    <2>14. interference' \subseteq Interference
      BY <2>5, <2>8, EffectType DEF Effects, TypeOK
    <2> QED BY SMTT(30), <2>4, <2>10, <2>11, <2>12, <2>13, <2>14 DEF TypeOK
  <1>3. ASSUME NEW begin \in BOOLEAN, Transact(p, s, begin)
        PROVE  TypeOK'
    <2>1. [se EXCEPT !.in_transaction = begin] \in SessionRec
      BY <1>1, <1>3 DEF Transact, SessionRec
    <2>2. session' = [session EXCEPT ![p] =
              [session[p] EXCEPT ![s] = [se EXCEPT !.in_transaction = begin]]]
      BY <1>3 DEF Transact
    <2>3. session' \in [Pid -> [Sess -> SessionRec \cup {NULL}]]
      BY <2>1, <2>2 DEF TypeOK
    <2>4. client[p][ClientOf(p, se.manager)].generation \in Nat
      BY <1>1, <1>3, ObjectTypes DEF Transact, ClientOf, ClientRec
    <2>5. interference' \subseteq Interference
      BY <1>1, <1>3, <2>4, EndsType DEF Transact, TypeOK
    <2> QED BY <1>3, <2>3, <2>5 DEF Transact, TypeOK
  <1>4. CASE EndSession(p, s)
    <2> DEFINE c == ClientOf(p, se.manager)
    <2>1. se # NULL
      BY <1>4 DEF EndSession
    <2>2. [se EXCEPT !.lsid = NULL, !.in_transaction = FALSE] \in SessionRec
      BY ZenonT(30), <1>1, <2>1 DEF SessionRec
    <2>3. session' \in [Pid -> [Sess -> SessionRec \cup {NULL}]]
      BY <1>4, <2>2 DEF EndSession, TypeOK
    <2>4. c \in Client /\ client[p][c] \in ClientRec
      BY <1>1, <2>1, ObjectTypes DEF ClientOf
    <2>5. Return(client[p][c], se.generation, se.lsid) \in ClientRec
      BY <1>1, <2>1, <2>4, ReturnType
    <2>6. client' \in [Pid -> [Client -> ClientRec]]
      BY SMTT(30), <1>4, <2>4, <2>5 DEF EndSession, TypeOK
    <2>7. interference' \subseteq Interference
      <3>1. EndsTransaction(p, se, client[p][c].generation) \subseteq Interference
        BY <1>1, <2>1, <2>4, EndsType DEF ClientRec
      <3> QED BY <1>4, <3>1 DEF EndSession, TypeOK
    <2> QED BY <1>4, <2>3, <2>6, <2>7 DEF EndSession, TypeOK
  <1>5. CASE FreeSession(p, s)
    <2>1. se # NULL
      BY <1>5 DEF FreeSession
    <2>2. client' \in [Pid -> [Client -> ClientRec]]
      BY ZenonT(30), <1>1, <1>5, <2>1, ReturnImageType DEF FreeSession, TypeOK
    <2>3. pclient' \in [Pid -> [Client -> PclientRec \cup {NULL}]]
      BY SMTT(30), <1>1, <1>5, <2>1, ResetType DEF FreeSession, TypeOK
    <2>4. session' \in [Pid -> [Sess -> SessionRec \cup {NULL}]]
      BY <1>5 DEF FreeSession, TypeOK
    <2>5. EndsTransaction(p, se,
             ClientsAfter(p, se.created_by_pid, se.manager)
               [ClientOf(p, se.manager)].generation) \subseteq Interference
      <3>1. /\ ClientsAfter(p, se.created_by_pid, se.manager) \in [Client -> ClientRec]
            /\ ClientOf(p, se.manager) \in Client
        BY <1>1, <2>1, ObjectTypes, ResetType DEF ClientOf
      <3> QED BY <1>1, <2>1, <3>1, EndsType DEF ClientRec
    <2>6. interference' \subseteq Interference
      BY <1>5, <2>5 DEF FreeSession, TypeOK
    <2> QED BY SMTT(30), <1>5, <2>2, <2>3, <2>4, <2>6 DEF FreeSession, TypeOK
  <1> QED BY <1>2, <1>3, <1>4, <1>5

\* fork() keeps the types.
LEMMA ForkType ==
    ASSUME TypeOK, NEW p \in Pid, NEW q \in Pid, Fork(p, q)
    PROVE  TypeOK'
  BY DEF Fork, TypeOK, Phases

\* The steps of RSHUTDOWN, RINIT and GSHUTDOWN keep the types.
LEMMA ShutdownType ==
    ASSUME TypeOK, NEW p \in Pid, ShutdownStep(p)
    PROVE  TypeOK'
  <1>1. ASSUME NEW from \in Phases, NEW to \in Phases, EnterPhase(p, from, to),
               faults' \subseteq {"destroyed_client", "null_registry"}
        PROVE  TypeOK'
    BY <1>1 DEF EnterPhase, TypeOK, objectVars
  <1>2. ASSUME NEW c \in Client, DestroyPclient(p, c),
               UNCHANGED <<phase, objectVars, lsids, faults>>
        PROVE  TypeOK'
    BY <1>2, DestroyType DEF TypeOK, objectVars
  <1>3. faults \subseteq {"destroyed_client", "null_registry"}
    BY DEF TypeOK
  <1>4. CASE \/ Rshutdown(p) \/ RshutdownDone(p) \/ Deactivated(p) \/ Rinit(p)
             \/ Gshutdown(p) \/ GshutdownDone(p)
    BY ZenonT(30), <1>1, <1>3, <1>4 DEF Rshutdown, RshutdownDone, Deactivated, Rinit,
                            Gshutdown, GshutdownDone, Phases
  <1>5. CASE RshutdownDestroy(p) \/ GshutdownDestroy(p)
    BY <1>2, <1>5 DEF RshutdownDestroy, GshutdownDestroy, RequestClients,
                      PersistentClients
  <1>6. CASE FreeAfterRshutdown(p)
    BY ZenonT(30), <1>1, <1>3, <1>6 DEF FreeAfterRshutdown, CrashingFree, Phases
  <1> QED BY <1>4, <1>5, <1>6 DEF ShutdownStep

\* Every step keeps the types, given that referenced Managers are alive.
LEMMA TypeStep ==
    ASSUME TypeOK, Refs, [Next]_vars
    PROVE  TypeOK'
  <1>1. CASE UNCHANGED vars
    BY <1>1 DEF vars, TypeOK
  <1>2. ASSUME NEW p \in Pid, ManagerStep(p)
        PROVE  TypeOK'
    BY <1>2, ConstructType, ConstructRejectedType, FreeManagerType, ServerType,
       SessionType
       DEF ManagerStep
  <1>3. ASSUME NEW p \in Pid, ExecuteStep(p)
        PROVE  TypeOK'
    <2>1. ASSUME NEW k \in Cur \cup {NULL}, NEW kind \in {"command", "query"},
                 NEW open \in BOOLEAN, NEW m \in Mgr,
                 ManagerExecute(p, m, k, kind, open)
          PROVE  TypeOK'
      BY <2>1, ObjectTypes, ExecuteType DEF ManagerExecute
    <2>2. ASSUME NEW k \in Cur \cup {NULL}, NEW kind \in {"command", "query"},
                 NEW open \in BOOLEAN, NEW v \in Srv,
                 ServerExecute(p, v, k, kind, open)
          PROVE  TypeOK'
      BY <2>2, ObjectTypes, ExecuteType DEF ServerExecute, Refs
    <2> QED BY <1>3, <2>1, <2>2 DEF ExecuteStep
  <1>4. ASSUME NEW p \in Pid, ObjectStep(p)
        PROVE  TypeOK'
    BY <1>4, ServerType, CursorType, SessionType DEF ObjectStep
  <1>5. ASSUME NEW p \in Pid, ShutdownStep(p)
        PROVE  TypeOK'
    BY <1>5, ShutdownType
  <1>6. ASSUME NEW p \in Pid, NEW q \in Pid, Fork(p, q)
        PROVE  TypeOK'
    BY <1>6, ForkType
  <1> QED BY <1>1, <1>2, <1>3, <1>4, <1>5, <1>6 DEF Next

-----------------------------------------------------------------------------
(* Fork safety, action by action *)

ForkSafe ==
    /\ NoForeignKill
    /\ "inherited_transactions" \notin Habits => NoForeignAbort
    /\ NoForeignDestroy


\* Obtaining and freeing a Server are steps of this kind.
LEMMA ServerStep ==
    ASSUME TypeOK, NEW p \in Pid, NEW v \in Srv,
           FreeServer(p, v) \/ \E m \in Mgr : GetServer(p, v, m)
    PROVE  ImageStep(p) /\ interference' = interference
  <1>1. /\ UNCHANGED <<phase, manager, client, pclient, session, cursor, interference>>
        /\ phase[p] # "unborn"
    BY DEF FreeServer, GetServer
  <1>2. \A c \in Client : ResetOrKept(p, c)
    BY <1>1 DEF ResetOrKept
  <1>3. /\ \A q \in Pid \ {p} : server'[q] = server[q]
        /\ \A w \in Srv : server'[p][w] # NULL =>
            \/ server[p][w] # NULL /\ server'[p][w].manager = server[p][w].manager
            \/ manager[p][server'[p][w].manager] # NULL
    BY DEF FreeServer, GetServer, TypeOK
  <1> QED BY <1>1, <1>2, <1>3 DEF ImageStep, OthersKept, KeptOrNew

\* Executing an operation is a step of this kind, with no effect but on LSIDs.
LEMMA ExecuteSafe ==
    ASSUME TypeOK, ForkSafe, NEW p \in Pid, NEW by \in Pid, NEW m \in Mgr,
           NEW k \in Cur \cup {NULL}, NEW kind \in {"command", "query"},
           NEW open \in BOOLEAN, manager[p][m] # NULL, phase[p] = "request",
           Execute(p, by, m, k, kind, open)
    PROVE  ImageStep(p) /\ ForkSafe'
  <1>1. ExecuteImage(p)
    BY ExecuteImplicitStep, ExecuteExplicitStep DEF Execute
  <1>2. UNCHANGED <<phase, manager, server, session>>
    BY DEF Execute
  <1>3. ImageStep(p)
    BY <1>1, <1>2 DEF ExecuteImage, ImageStep, OthersKept, KeptOrNew
  <1>4. ForkSafe'
    BY <1>1 DEF ExecuteImage, ForkSafe, NoForeignKill, NoForeignAbort,
                NoForeignDestroy, NoEffect
  <1> QED BY <1>3, <1>4

\* In the phases in which free_object handlers run, the client of a Manager
\* whose registry is usable is registered.
LEMMA UsableRegistered ==
    ASSUME ForkInv, NEW p \in Pid, NEW by \in Pid \ {p}, NEW m \in Mgr,
           manager[p][m] # NULL, phase[p] \in {"request", "deactivated"},
           RegistryUsable(p, by, m)
    PROVE  pclient[p][ClientOf(p, m)] # NULL
  BY DEF ForkInv, Registered, RegistryUsable

\* Exhausting or freeing a Cursor is a step of this kind, and a Cursor of
\* another process is freed without killing its cursor.
LEMMA CursorSafe ==
    ASSUME ForkInv, ForkSafe, NEW p \in Pid, NEW k \in Cur,
           CursorExhaust(p, k) \/ FreeCursor(p, k)
    PROVE  ImageStep(p) /\ ForkSafe'
  <1> USE DEF ForkInv
  <1> DEFINE cu == cursor[p][k]
             m == cu.manager
             c == ClientOf(p, m)
  <1>1. cu # NULL
    BY DEF CursorExhaust, FreeCursor
  <1>2. /\ cu \in CursorRec
        /\ cu.created_by_pid \in Pid
        /\ m \in Mgr
        /\ cu.generation \in Nat
        /\ cu.lsid \in Lsid \cup {NULL}
        /\ manager[p][m] # NULL
    BY <1>1, ObjectTypes DEF Refs
  <1>3. c \in Client
    BY SMTT(30), <1>2, ObjectTypes DEF ClientOf
  <1>4. PICK by \in Pid :
          /\ client' = [client EXCEPT ![p] =
                [ClientsAfter(p, by, m) EXCEPT
                     ![c] = Return(@, cu.generation, cu.lsid)]]
          /\ pclient' = [pclient EXCEPT ![p] = PclientsAfter(p, by, m)]
    BY ZenonT(30), <1>2 DEF CursorExhaust, FreeCursor
  <1>5. \A d \in Client : ResetOrKept(p, d)
    <2> DEFINE cl == ClientsAfter(p, by, m)
               f == [cl EXCEPT ![c] = Return(cl[c], cu.generation, cu.lsid)]
    <2>1. cl \in [Client -> ClientRec]
      BY <1>2, ResetType
    <2> HIDE DEF cl
    <2>2. \A d \in Client : /\ f[d].st = cl[d].st
                            /\ f[d].owner = cl[d].owner
                            /\ f[d].generation = cl[d].generation
      BY <1>2, <1>3, <2>1, ReturnKeeps
    <2>3. client' = [client EXCEPT ![p] = f]
      BY <1>4 DEF cl
    <2> HIDE DEF f
    <2> QED BY ZenonT(30), <1>2, <1>4, <2>2, <2>3, ResetImage DEF cl
  <1>6. /\ UNCHANGED <<phase, manager, server, session>>
        /\ phase[p] # "unborn"
    BY DEF CursorExhaust, FreeCursor
  <1>7. \A x \in Cur : KeptOrNew(p, cursor[p][x], cursor'[p][x])
    <2>1. \A x \in Cur \ {k} : cursor'[p][x] = cursor[p][x]
      BY SMTT(30) DEF CursorExhaust, FreeCursor, TypeOK
    <2>2. CASE FreeCursor(p, k)
      BY <2>1, <2>2 DEF KeptOrNew, FreeCursor, TypeOK
    <2>3. CASE CursorExhaust(p, k)
      <3>1. cursor'[p][k] =
               [cu EXCEPT !.open = FALSE, !.lsid = NULL, !.session = NULL]
        BY ZenonT(30), <2>3 DEF CursorExhaust, TypeOK
      <3>2. /\ cursor'[p][k].created_by_pid = cu.created_by_pid
            /\ cursor'[p][k].manager = cu.manager
            /\ cursor'[p][k].generation = cu.generation
        BY <1>2, <3>1 DEF CursorRec
      <3> QED BY <1>1, <2>1, <3>2 DEF KeptOrNew
    <2> QED BY <2>2, <2>3
  <1>8. \A q \in Pid \ {p} : /\ client'[q] = client[q]
                             /\ pclient'[q] = pclient[q]
                             /\ cursor'[q] = cursor[q]
    <2>1. \A q \in Pid \ {p} : client'[q] = client[q] /\ pclient'[q] = pclient[q]
      BY <1>4 DEF TypeOK
    <2>2. \A q \in Pid \ {p} : cursor'[q] = cursor[q]
      BY DEF CursorExhaust, FreeCursor, TypeOK
    <2> QED BY <2>1, <2>2
  <1>9. ImageStep(p)
    BY <1>5, <1>6, <1>7, <1>8 DEF ImageStep, OthersKept, KeptOrNew
  <1>10. interference' = interference
    <2>1. CASE CursorExhaust(p, k)
      BY <2>1 DEF CursorExhaust
    <2>2. CASE FreeCursor(p, k) /\ cu.created_by_pid = p
      BY SMTT(30), <2>2 DEF FreeCursor, Effect
    <2>3. CASE FreeCursor(p, k) /\ cu.created_by_pid # p
      <3>1. pclient[p][c] # NULL
        BY <1>2, <2>3, UsableRegistered DEF FreeCursor
      <3>2. Older(p, client[p][c], pclient[p][c], cu)
        BY <1>1 DEF Generations
      <3>3. cu.generation
              < ClientsAfter(p, cu.created_by_pid, m)[c].generation
        BY <1>2, <2>3, <3>1, <3>2, ResetAges
      <3>4. ClientsAfter(p, cu.created_by_pid, m)[c].generation \in Nat
        BY SMTT(30), <1>2, <1>3, ResetType DEF ClientRec
      <3> QED BY SMTT(30), <1>2, <2>3, <3>3, <3>4 DEF FreeCursor
    <2> QED BY SMTT(30), <2>1, <2>2, <2>3
  <1> QED BY SMTT(30), <1>9, <1>10 DEF ForkSafe, NoForeignKill, NoForeignAbort,
                             NoForeignDestroy, NoEffect

\* Freeing a Session has no effect on another process: an inherited one is of
\* an older generation once its client is reset.
LEMMA FreeSessionQuiet ==
    ASSUME ForkInv, NEW p \in Pid, NEW s \in Sess, FreeSession(p, s)
    PROVE  interference' = interference
  <1> USE DEF ForkInv
  <1> DEFINE se == session[p][s]
             m == se.manager
             by == se.created_by_pid
             c == ClientOf(p, m)
             cl == ClientsAfter(p, by, m)
  <1>1. se # NULL
    BY DEF FreeSession
  <1>2. /\ se \in SessionRec
        /\ by \in Pid
        /\ m \in Mgr
        /\ se.generation \in Nat
        /\ manager[p][m] # NULL
        /\ c \in Client
    BY <1>1, ObjectTypes DEF Refs, ClientOf
  <1>3. cl \in [Client -> ClientRec]
    BY SMTT(30), <1>2, ResetType
  <1> HIDE DEF cl
  <1>4. interference' = interference \cup EndsTransaction(p, se, cl[c].generation)
    BY DEF FreeSession, cl
  <1>5. CASE by = p
    BY <1>4, <1>5 DEF EndsTransaction, Effect
  <1>6. CASE by # p
    <2>1. pclient[p][c] # NULL
      BY <1>2, <1>6, UsableRegistered DEF FreeSession
    <2>2. Older(p, client[p][c], pclient[p][c], se)
      BY <1>1 DEF Generations
    <2>3. se.generation < cl[c].generation
      BY <1>2, <1>6, <2>1, <2>2, ResetAges DEF cl
    <2>4. cl[c].generation \in Nat
      BY <1>2, <1>3 DEF ClientRec
    <2> QED BY SMTT(30), <1>2, <1>4, <2>3, <2>4 DEF EndsTransaction
  <1> QED BY <1>5, <1>6

\* Starting, using, ending or freeing a Session is a step of this kind, and
\* ends no transaction of another process but by a call that the habits allow.
LEMMA SessionSafe ==
    ASSUME ForkInv, ForkSafe, NEW p \in Pid, NEW s \in Sess,
           \/ \E m \in Mgr : StartSession(p, m, s)
           \/ \E begin \in BOOLEAN : Transact(p, s, begin)
           \/ EndSession(p, s)
           \/ FreeSession(p, s)
    PROVE  ImageStep(p) /\ ForkSafe'
  <1> USE DEF ForkInv
  <1> DEFINE se == session[p][s]
  <1>1. /\ UNCHANGED <<phase, manager, server, cursor>>
        /\ phase[p] # "unborn"
    BY ZenonT(30) DEF StartSession, Transact, EndSession, FreeSession
  <1>2. ASSUME se # NULL
        PROVE  /\ se \in SessionRec
               /\ se.created_by_pid \in Pid
               /\ se.manager \in Mgr
               /\ se.generation \in Nat
               /\ se.lsid \in Lsid \cup {NULL}
               /\ manager[p][se.manager] # NULL
               /\ ClientOf(p, se.manager) \in Client
    BY <1>2, ObjectTypes DEF Refs, ClientOf
  <1>3. ASSUME \A c \in Client : ResetOrKept(p, c),
               \A q \in Pid \ {p} : /\ client'[q] = client[q]
                                    /\ pclient'[q] = pclient[q]
                                    /\ session'[q] = session[q],
               \A x \in Sess \ {s} : session'[p][x] = session[p][x],
               KeptOrNew(p, session[p][s], session'[p][s]),
               \A e \in interference' :
                  \/ e \in interference
                  \/ e.what = "lsid"
                  \/ /\ e.what = "endTransaction"
                     /\ "inherited_transactions" \in Habits
        PROVE  ImageStep(p) /\ ForkSafe'
    <2>1. \A x \in Sess : KeptOrNew(p, session[p][x], session'[p][x])
      BY <1>3 DEF KeptOrNew
    <2>2. \A x \in Cur : KeptOrNew(p, cursor[p][x], cursor'[p][x])
      BY <1>1 DEF KeptOrNew
    <2>3. ImageStep(p)
      BY <1>1, <1>3, <2>1, <2>2 DEF ImageStep, OthersKept
    <2> QED BY <1>3, <2>3 DEF ForkSafe, NoForeignKill, NoForeignAbort,
                              NoForeignDestroy, NoEffect
  <1>3a. ASSUME se # NULL, MayEndTransaction(p, se), NEW generation \in Nat,
               NEW e \in EndsTransaction(p, se, generation)
        PROVE  e.what = "endTransaction" /\ "inherited_transactions" \in Habits
    BY <1>3a DEF EndsTransaction, Effect, MayEndTransaction
  <1>4. ASSUME NEW m \in Mgr, StartSession(p, m, s)
        PROVE  ImageStep(p) /\ ForkSafe'
    <2> DEFINE by == manager[p][m].created_by_pid
               c  == ClientOf(p, m)
               cl == ClientsAfter(p, by, m)
    <2>1. by \in Pid /\ c \in Client /\ manager[p][m] # NULL
      BY ZenonT(30), <1>4, ObjectTypes DEF StartSession, ClientOf
    <2>2. cl \in [Client -> ClientRec]
      BY <2>1, ResetType
    <2>3. pclient' = [pclient EXCEPT ![p] = PclientsAfter(p, by, m)]
      BY ZenonT(30), <1>4 DEF StartSession
    <2>4. PICK l \in Offered(p, cl[c].pool, 0) :
             /\ client' = [client EXCEPT ![p] =
                             [cl EXCEPT ![c].pool = @ \ {l}]]
             /\ session' = [session EXCEPT ![p][s] =
                    [created_by_pid |-> p, manager |-> m,
                     generation |-> cl[c].generation, lsid |-> l,
                     in_transaction |-> FALSE]]
             /\ interference' = interference \cup Effect("lsid", l.by, p)
      BY ZenonT(30), <1>4 DEF StartSession
    <2> HIDE DEF cl
    <2> DEFINE f == [cl EXCEPT ![c].pool = @ \ {l}]
    <2>5. \A d \in Client : /\ f[d].st = cl[d].st
                            /\ f[d].owner = cl[d].owner
                            /\ f[d].generation = cl[d].generation
      BY <2>1, <2>2 DEF ClientRec
    <2>6. client' = [client EXCEPT ![p] = f]
      BY <2>4
    <2> HIDE DEF f
    <2>7. \A d \in Client : ResetOrKept(p, d)
      BY ZenonT(30), <2>1, <2>3, <2>5, <2>6, ResetImage DEF cl
    <2>8. /\ session'[p][s].created_by_pid = p
          /\ session'[p][s].manager = m
          /\ session'[p][s].generation = cl[c].generation
          /\ client'[p][c].generation = cl[c].generation
      BY <2>1, <2>4, <2>5, <2>6 DEF TypeOK
    <2>9. KeptOrNew(p, session[p][s], session'[p][s])
      BY <2>1, <2>8 DEF KeptOrNew
    <2>10. /\ \A q \in Pid \ {p} : /\ client'[q] = client[q]
                                   /\ pclient'[q] = pclient[q]
                                   /\ session'[q] = session[q]
           /\ \A x \in Sess \ {s} : session'[p][x] = session[p][x]
      BY <2>3, <2>4 DEF TypeOK
    <2>11. \A e \in interference' : e \in interference \/ e.what = "lsid"
      BY <2>4 DEF Effect
    <2> QED BY SMTT(30), <1>3, <2>7, <2>9, <2>10, <2>11
  <1>5. ASSUME NEW begin \in BOOLEAN, Transact(p, s, begin)
        PROVE  ImageStep(p) /\ ForkSafe'
    <2>1. \A c \in Client : ResetOrKept(p, c)
      BY <1>5 DEF Transact, ResetOrKept
    <2>2. se # NULL /\ session'[p][s] = [se EXCEPT !.in_transaction = begin]
      BY ZenonT(30), <1>5 DEF Transact, TypeOK
    <2>3. KeptOrNew(p, se, session'[p][s])
      BY <1>2, <2>2 DEF KeptOrNew, SessionRec
    <2> DEFINE c == ClientOf(p, se.manager)
    <2>4. client[p][c].generation \in Nat
      BY <1>2, <2>2, ObjectTypes DEF ClientRec
    <2>5. \A e \in interference' :
            \/ e \in interference
            \/ e.what = "endTransaction" /\ "inherited_transactions" \in Habits
      BY <1>5, <1>3a, <2>2, <2>4 DEF Transact
    <2>6. /\ \A q \in Pid \ {p} : /\ client'[q] = client[q]
                                  /\ pclient'[q] = pclient[q]
                                  /\ session'[q] = session[q]
          /\ \A x \in Sess \ {s} : session'[p][x] = session[p][x]
      BY <1>5 DEF Transact, TypeOK
    <2> QED BY <1>3, <2>1, <2>3, <2>5, <2>6
  <1>6. CASE EndSession(p, s)
    <2> DEFINE c == ClientOf(p, se.manager)
    <2>1. /\ se # NULL
          /\ session'[p][s] = [se EXCEPT !.lsid = NULL, !.in_transaction = FALSE]
      BY ZenonT(30), <1>6 DEF EndSession, TypeOK
    <2>2. KeptOrNew(p, se, session'[p][s])
      BY <1>2, <2>1 DEF KeptOrNew, SessionRec
    <2>3. client' = [client EXCEPT ![p][c] =
                        Return(client[p][c], se.generation, se.lsid)]
      BY <1>6 DEF EndSession
    <2>4. client[p][c] \in ClientRec
      BY <1>2, <2>1, ObjectTypes
    <2>5. \A d \in Client : /\ client'[p][d].st = client[p][d].st
                            /\ client'[p][d].owner = client[p][d].owner
                            /\ client'[p][d].generation = client[p][d].generation
      BY SMTT(30), <1>2, <2>1, <2>3, <2>4, ReturnKeeps DEF TypeOK
    <2>6. \A d \in Client : ResetOrKept(p, d)
      BY <1>6, <2>5 DEF EndSession, ResetOrKept
    <2>7. \A q \in Pid \ {p} : /\ client'[q] = client[q]
                               /\ pclient'[q] = pclient[q]
                               /\ session'[q] = session[q]
      BY <1>6 DEF EndSession, TypeOK
    <2>8. \A x \in Sess \ {s} : session'[p][x] = session[p][x]
      BY <1>6 DEF EndSession, TypeOK
    <2>9. \A e \in interference' :
            \/ e \in interference
            \/ e.what = "endTransaction" /\ "inherited_transactions" \in Habits
      BY <1>6, <1>3a, <2>1, <2>4 DEF EndSession, ClientRec
    <2> QED BY <1>3, <2>2, <2>6, <2>7, <2>8, <2>9
  <1>7. CASE FreeSession(p, s)
    <2> DEFINE m == se.manager
               by == se.created_by_pid
               c == ClientOf(p, m)
               cl == ClientsAfter(p, by, m)
               f == [cl EXCEPT ![c] = Return(cl[c], se.generation, se.lsid)]
    <2>1. se # NULL
      BY <1>7 DEF FreeSession
    <2>2. cl \in [Client -> ClientRec]
      BY SMTT(30), <1>2, <2>1, ResetType
    <2>3. client' = [client EXCEPT ![p] = f]
      BY <1>7 DEF FreeSession
    <2> HIDE DEF cl
    <2>4. \A d \in Client : /\ f[d].st = cl[d].st
                            /\ f[d].owner = cl[d].owner
                            /\ f[d].generation = cl[d].generation
      BY <1>2, <2>1, <2>2, ReturnKeeps
    <2> HIDE DEF f
    <2>5. \A d \in Client : ResetOrKept(p, d)
      <3>1. pclient' = [pclient EXCEPT ![p] = PclientsAfter(p, by, m)]
        BY <1>7 DEF FreeSession
      <3> QED BY ZenonT(30), <1>2, <2>1, <2>3, <2>4, <3>1, ResetImage DEF cl
    <2>6. \A q \in Pid \ {p} : /\ client'[q] = client[q]
                               /\ pclient'[q] = pclient[q]
                               /\ session'[q] = session[q]
      BY <1>7 DEF FreeSession, TypeOK
    <2>7. /\ session'[p][s] = NULL
          /\ \A x \in Sess \ {s} : session'[p][x] = session[p][x]
      BY <1>7 DEF FreeSession, TypeOK
    <2>8. interference' = interference
      BY <1>7, FreeSessionQuiet
    <2>9. KeptOrNew(p, se, session'[p][s])
      BY <2>7 DEF KeptOrNew
    <2> QED BY SMTT(30), <1>3, <2>5, <2>6, <2>7, <2>8, <2>9
  <1> QED BY <1>4, <1>5, <1>6, <1>7

\* Destroying a registered client keeps the invariant as long as no live
\* Manager still needs its registry entry, and closes only own sockets.
LEMMA DestroyInv ==
    ASSUME ForkInv, TypeOK', Refs', NEW p \in Pid, NEW c \in Client,
           pclient[p][c] # NULL, DestroyPclient(p, c),
           UNCHANGED <<phase, server, session, cursor>>,
           \A q \in Pid, x \in Mgr : manager'[q][x] \in {manager[q][x], NULL},
           \A x \in Mgr : manager'[p][x] # NULL =>
              \/ ClientOf(p, x) # c
              \/ phase[p] # "request" /\ ~manager[p][x].use_persistent_client
    PROVE  ForkInv' /\ interference' = interference
  <1> USE DEF ForkInv
  <1>1. \A q \in Pid, d \in Client : q # p \/ d # c =>
           client'[q][d] = client[q][d] /\ pclient'[q][d] = pclient[q][d]
    BY DEF DestroyPclient, TypeOK
  <1>2. pclient'[p][c] = NULL
    BY DEF DestroyPclient, TypeOK
  <1>3. \A q \in Pid, d \in Client :
          /\ client'[q][d].generation = client[q][d].generation
          /\ client'[q][d].owner = client[q][d].owner
          /\ client[q][d].st # "none" => client'[q][d].st # "none"
    <2>1. client[p][c] \in ClientRec
      BY ObjectTypes
    <2>2. \/ client'[p][c] = client[p][c]
          \/ client'[p][c] = [client[p][c] EXCEPT !.st = "destroyed"]
      <3>1. CASE MayDestroy(p, c)
        <4>1. client' = [client EXCEPT ![p] = [client[p] EXCEPT ![c] =
                            [client[p][c] EXCEPT !.st = "destroyed"]]]
          BY <3>1 DEF DestroyPclient
        <4> QED BY <4>1 DEF TypeOK
      <3>2. CASE ~MayDestroy(p, c)
        BY <3>2 DEF DestroyPclient
      <3> QED BY <3>1, <3>2
    <2> QED BY <1>1, <2>1, <2>2 DEF ClientRec
  <1>4. \A q \in Pid, x \in Mgr : manager'[q][x] # NULL =>
          /\ manager[q][x] # NULL
          /\ manager'[q][x] = manager[q][x]
          /\ ClientOf(q, x) \in Client
    BY SMTT(30), ObjectTypes DEF ClientOf
  <1>5. Registered'
    <2>1. ASSUME NEW q \in Pid, phase'[q] \in {"idle", "gshutdown", "exited"},
                 NEW x \in Mgr
          PROVE  manager'[q][x] = NULL
      BY <1>4, <2>1 DEF Registered
    <2>2. ASSUME NEW q \in Pid, NEW x \in Mgr, manager'[q][x] # NULL
          PROVE  LET d == ClientOf(q, x)
                 IN  /\ client'[q][d].st # "none"
                     /\ \/ phase'[q] = "request"
                        \/ manager'[q][x].use_persistent_client
                        => pclient'[q][d] # NULL
                     /\ pclient'[q][d] # NULL =>
                           pclient'[q][d].is_persistent
                              = manager'[q][x].use_persistent_client
                     /\ \A y \in Mgr \ {x} :
                           manager'[q][y] # NULL /\ manager'[q][y].client = d
                             => manager'[q][x].use_persistent_client
      <3>1. CASE q # p \/ ClientOf(q, x) # c
        BY SMTT(30), <1>1, <1>3, <1>4, <2>2, <3>1 DEF Registered, ClientOf
      <3>2. CASE q = p /\ ClientOf(q, x) = c
        BY SMTT(30), <1>2, <1>3, <1>4, <2>2, <3>2 DEF Registered, ClientOf
      <3> QED BY <3>1, <3>2
    <2> QED BY <1>4, <2>1, <2>2 DEF Registered, ClientOf
  <1>6. Owners'
    BY <1>1, <1>2, <1>3 DEF Owners
  <1>7. Born'
    BY SMTT(30), <1>1, <1>2 DEF Born
  <1>8. Generations'
    <2>1. ASSUME NEW q \in Pid, NEW obj, obj.manager \in Mgr,
                 manager'[q][obj.manager] # NULL,
                 Older(q, client[q][ClientOf(q, obj.manager)],
                       pclient[q][ClientOf(q, obj.manager)], obj)
          PROVE  Older(q, client'[q][manager'[q][obj.manager].client],
                       pclient'[q][manager'[q][obj.manager].client], obj)
      <3> DEFINE d == ClientOf(q, obj.manager)
      <3>1. d \in Client /\ manager'[q][obj.manager].client = d
        BY <1>4, <2>1 DEF ClientOf
      <3>2. /\ client'[q][d].generation = client[q][d].generation
            /\ pclient'[q][d] = pclient[q][d] \/ pclient'[q][d] = NULL
        BY <1>1, <1>2, <1>3, <3>1
      <3> QED BY <2>1, <3>1, <3>2 DEF Older
    <2>2. \A q \in Pid, s \in Sess : session'[q][s] # NULL =>
             /\ session'[q][s] = session[q][s]
             /\ session[q][s].manager \in Mgr
             /\ manager'[q][session[q][s].manager] # NULL
      BY ObjectTypes DEF Refs
    <2>3. \A q \in Pid, k \in Cur : cursor'[q][k] # NULL =>
             /\ cursor'[q][k] = cursor[q][k]
             /\ cursor[q][k].manager \in Mgr
             /\ manager'[q][cursor[q][k].manager] # NULL
      BY SMTT(30), ObjectTypes DEF Refs
    <2>4. ASSUME NEW q \in Pid, NEW s \in Sess, session'[q][s] # NULL
          PROVE  LET d == manager'[q][session'[q][s].manager].client
                 IN  Older(q, client'[q][d], pclient'[q][d], session'[q][s])
      <3>1. Older(q, client[q][ClientOf(q, session[q][s].manager)],
                  pclient[q][ClientOf(q, session[q][s].manager)], session[q][s])
        BY <2>2, <2>4 DEF Generations
      <3> QED BY SMTT(30), <2>1, <2>2, <2>4, <3>1
    <2>5. ASSUME NEW q \in Pid, NEW k \in Cur, cursor'[q][k] # NULL
          PROVE  LET d == manager'[q][cursor'[q][k].manager].client
                 IN  Older(q, client'[q][d], pclient'[q][d], cursor'[q][k])
      <3>1. Older(q, client[q][ClientOf(q, cursor[q][k].manager)],
                  pclient[q][ClientOf(q, cursor[q][k].manager)], cursor[q][k])
        BY <2>3, <2>5 DEF Generations
      <3> QED BY ZenonT(30), <2>1, <2>3, <2>5, <3>1
    <2> QED BY ZenonT(30), <2>4, <2>5 DEF Generations, ClientOf
  <1>9. interference' = interference
    BY ZenonT(30) DEF DestroyPclient, MayDestroy, Effect, Owners
  <1> QED BY <1>5, <1>6, <1>7, <1>8, <1>9

\* Freeing a Manager keeps the invariant.
LEMMA FreeManagerInv ==
    ASSUME ForkInv, TypeOK', NEW p \in Pid, NEW m \in Mgr, FreeManager(p, m)
    PROVE  ForkInv' /\ interference' = interference
  <1> USE DEF ForkInv
  <1>1. /\ \A q \in Pid, x \in Mgr : q # p \/ x # m => manager'[q][x] = manager[q][x]
        /\ manager'[p][m] = NULL
        /\ UNCHANGED <<phase, server, session, cursor>>
    BY DEF FreeManager, TypeOK
  <1>2. \A q \in Pid, x \in Mgr : manager'[q][x] \in {manager[q][x], NULL}
    BY <1>1
  <1>3. Refs'
    <2>1. \A q \in Pid, v \in Srv : server[q][v] # NULL =>
             server[q][v].manager \in Mgr /\ (q = p => server[q][v].manager # m)
      BY ObjectTypes DEF FreeManager, Referenced
    <2>2. \A q \in Pid, s \in Sess : session[q][s] # NULL =>
             session[q][s].manager \in Mgr /\ (q = p => session[q][s].manager # m)
      BY ObjectTypes DEF FreeManager, Referenced
    <2>3. \A q \in Pid, k \in Cur : cursor[q][k] # NULL =>
             cursor[q][k].manager \in Mgr /\ (q = p => cursor[q][k].manager # m)
      BY ObjectTypes DEF FreeManager, Referenced
    <2> QED BY <1>1, <2>1, <2>2, <2>3 DEF Refs
  <1>4. CASE manager[p][m].use_persistent_client \/ phase[p] = "deactivated"
    <2>1. UNCHANGED <<client, pclient, interference>>
      BY <1>4 DEF FreeManager
    <2>2. \A q \in Pid, x \in Mgr : manager'[q][x] # NULL =>
             manager[q][x] # NULL /\ manager'[q][x] = manager[q][x]
      BY <1>1
    <2>3. Registered'
      BY SMTT(30), <1>1, <2>1, <2>2 DEF Registered, ClientOf
    <2>4. Owners' /\ Born'
      BY <1>1, <2>1 DEF Owners, Born
    <2>5. Generations'
      <3>a. Generations
        OBVIOUS
      <3>b. \A q \in Pid, s \in Sess : session[q][s] # NULL => session[q][s].manager \in Mgr
        BY ObjectTypes
      <3>c. \A q \in Pid, k \in Cur : cursor[q][k] # NULL => cursor[q][k].manager \in Mgr
        BY ObjectTypes
      <3> HIDE DEF ForkInv
      <3>1. \A q \in Pid, s \in Sess : session'[q][s] # NULL =>
               /\ session'[q][s] = session[q][s]
               /\ manager'[q][session[q][s].manager]
                     = manager[q][session[q][s].manager]
        BY <1>1, <1>3, <2>2, <3>b DEF Refs
      <3>2. \A q \in Pid, k \in Cur : cursor'[q][k] # NULL =>
               /\ cursor'[q][k] = cursor[q][k]
               /\ manager'[q][cursor[q][k].manager]
                     = manager[q][cursor[q][k].manager]
        BY <1>1, <1>3, <2>2, <3>c DEF Refs
      <3>3. ASSUME NEW q \in Pid, NEW s \in Sess, session'[q][s] # NULL
            PROVE  LET c == manager'[q][session'[q][s].manager].client
                   IN  Older(q, client'[q][c], pclient'[q][c], session'[q][s])
        <4>1. session[q][s] # NULL /\ session'[q][s] = session[q][s]
          BY ZenonT(30), <3>1, <3>3
        <4>2. LET c == manager[q][session[q][s].manager].client
              IN  Older(q, client[q][c], pclient[q][c], session[q][s])
          BY <3>a, <4>1, SessionOlder
        <4>3. manager'[q][session[q][s].manager] = manager[q][session[q][s].manager]
          BY Zenon, <3>1, <3>3
        <4> QED BY Zenon, <2>1, <4>1, <4>2, <4>3
      <3>4. ASSUME NEW q \in Pid, NEW k \in Cur, cursor'[q][k] # NULL
            PROVE  LET c == manager'[q][cursor'[q][k].manager].client
                   IN  Older(q, client'[q][c], pclient'[q][c], cursor'[q][k])
        <4>1. cursor[q][k] # NULL /\ cursor'[q][k] = cursor[q][k]
          BY ZenonT(30), <3>2, <3>4
        <4>2. LET c == manager[q][cursor[q][k].manager].client
              IN  Older(q, client[q][c], pclient[q][c], cursor[q][k])
          BY <3>a, <4>1, CursorOlder
        <4>3. manager'[q][cursor[q][k].manager] = manager[q][cursor[q][k].manager]
          BY <3>2, <3>4
        <4> QED BY Zenon, <2>1, <4>1, <4>2, <4>3
      <3> QED BY ZenonT(30), <3>3, <3>4 DEF Generations, ClientOf
    <2> QED BY <1>3, <2>1, <2>3, <2>4, <2>5
  <1>5. CASE ~(manager[p][m].use_persistent_client \/ phase[p] = "deactivated")
    <2> DEFINE c == ClientOf(p, m)
    <2>1. phase[p] = "request" /\ manager[p][m] # NULL /\ DestroyPclient(p, c)
      BY <1>5 DEF FreeManager
    <2>2. c \in Client /\ pclient[p][c] # NULL
      BY <2>1, ObjectTypes DEF Registered, ClientOf
    <2>3. \A x \in Mgr : manager'[p][x] # NULL => ClientOf(p, x) # c
      BY <1>1, <1>5, <2>1 DEF Registered
    <2> QED BY <1>1, <1>2, <1>3, <2>1, <2>2, <2>3, DestroyInv
  <1> QED BY <1>4, <1>5

\* Constructing a Manager keeps the invariant.
LEMMA ConstructInv ==
    ASSUME ForkInv, TypeOK', NEW p \in Pid, NEW m \in Mgr, NEW o \in Opts,
           NEW persistent \in BOOLEAN, NEW kv \in Mgr \cup {NULL},
           Construct(p, m, o, persistent, kv)
    PROVE  ForkInv' /\ interference' = interference
  <1> USE DEF ForkInv
  <1>1. /\ UNCHANGED <<phase, server, session, cursor, interference>>
        /\ phase[p] = "request"
        /\ manager[p][m] = NULL
    BY DEF Construct
  <1>2. PICK c \in Client :
          /\ manager'[p][m] \in ManagerRec
          /\ manager'[p][m].client = c
          /\ \A q \in Pid, x \in Mgr : q # p \/ x # m => manager'[q][x] = manager[q][x]
          /\ \/ /\ UNCHANGED <<client, pclient>>
                /\ pclient[p][c] # NULL
                /\ pclient[p][c].is_persistent
                /\ manager'[p][m].use_persistent_client
             \/ /\ client[p][c].st = "none"
                /\ client'[p][c].st = "live"
                /\ client'[p][c].owner = p
                /\ pclient'[p][c] # NULL
                /\ pclient'[p][c].created_by_pid = p
                /\ pclient'[p][c].last_reset_by_pid = NULL
                /\ pclient'[p][c].is_persistent
                      = manager'[p][m].use_persistent_client
                /\ \A q \in Pid, d \in Client : q # p \/ d # c =>
                     client'[q][d] = client[q][d] /\ pclient'[q][d] = pclient[q][d]
    <2>1. CASE ConstructCached(p, m, o, kv)
      <3>1. PICK c \in FindPersistent(p, o, KeyVaultClientOf(p, kv)) :
              manager' = [manager EXCEPT ![p][m] =
                        [created_by_pid |-> p, client |-> c,
                         use_persistent_client |-> TRUE,
                         key_vault_client_manager |-> NULL]]
        BY ZenonT(30), <2>1 DEF ConstructCached
      <3>2. /\ c \in Client
            /\ pclient[p][c] # NULL
            /\ pclient[p][c].is_persistent
        BY DEF FindPersistent
      <3>3. /\ manager'[p][m] \in ManagerRec
            /\ manager'[p][m].client = c
            /\ manager'[p][m].use_persistent_client
            /\ \A q \in Pid, x \in Mgr : q # p \/ x # m => manager'[q][x] = manager[q][x]
        BY <3>1, <3>2 DEF TypeOK, ManagerRec
      <3> QED BY ZenonT(30), <2>1, <3>2, <3>3 DEF ConstructCached
    <2>2. CASE ConstructNew(p, m, o, persistent, kv)
      <3> DEFINE nc == [st |-> "live", owner |-> p, generation |-> 0, pool |-> {},
                        opts |-> o, key_vault |-> KeyVaultClientOf(p, kv)]
                 npc == [created_by_pid |-> p, last_reset_by_pid |-> NULL,
                         is_persistent |-> persistent]
      <3>1. PICK c \in Client :
            /\ client[p][c].st = "none"
            /\ client' = [client EXCEPT ![p][c] = nc]
            /\ pclient' = [pclient EXCEPT ![p][c] = npc]
            /\ manager' = [manager EXCEPT ![p][m] =
                  [created_by_pid |-> p, client |-> c,
                   use_persistent_client |-> persistent,
                   key_vault_client_manager |-> kv]]
        BY ZenonT(30), <2>2 DEF ConstructNew, NewClient
      <3>2. npc \in PclientRec
        BY DEF PclientRec
      <3>3. npc # NULL
        BY <3>2, NullRecordAssumption
      <3>4. /\ manager'[p][m] \in ManagerRec
            /\ manager'[p][m].client = c
            /\ manager'[p][m].use_persistent_client = persistent
            /\ \A q \in Pid, x \in Mgr : q # p \/ x # m => manager'[q][x] = manager[q][x]
        BY <3>1 DEF TypeOK, ManagerRec
      <3>5. client'[p][c] = nc /\ pclient'[p][c] = npc
        BY <3>1 DEF TypeOK
      <3>6. \A q \in Pid, d \in Client : q # p \/ d # c =>
               client'[q][d] = client[q][d] /\ pclient'[q][d] = pclient[q][d]
        BY <3>1 DEF TypeOK
      <3> QED BY SMTT(30), <3>1, <3>3, <3>4, <3>5, <3>6
    <2> QED BY <2>1, <2>2 DEF Construct
  <1>3. manager'[p][m] # NULL
    BY SMTT(30), <1>2, NullRecordAssumption
  \* The images of live Managers' clients, and of registered ones, are kept.
  <1>4. \A q \in Pid, d \in Client : client[q][d].st # "none" =>
           client'[q][d] = client[q][d] /\ pclient'[q][d] = pclient[q][d]
    BY <1>2
  <1>5. \A q \in Pid, x \in Mgr : manager[q][x] # NULL =>
          /\ manager'[q][x] = manager[q][x]
          /\ manager[q][x].client \in Client
          /\ client[q][manager[q][x].client].st # "none"
    BY <1>1, <1>2, ObjectTypes DEF Registered, ClientOf
  <1>6. Refs'
    BY SMTT(30), <1>1, <1>5, ObjectTypes DEF Refs
  <1>7. Registered'
    <2>1. ASSUME NEW q \in Pid, phase'[q] \in {"idle", "gshutdown", "exited"},
                 NEW x \in Mgr
          PROVE  manager'[q][x] = NULL
      <3>1. q # p /\ phase[q] = phase'[q]
        BY SMTT(30), <1>1, <2>1
      <3> QED BY <1>2, <2>1, <3>1 DEF Registered
    <2>2. ASSUME NEW q \in Pid, NEW x \in Mgr, manager'[q][x] # NULL,
                 q # p \/ x # m
          PROVE  LET d == manager'[q][x].client
                 IN  /\ client'[q][d].st # "none"
                     /\ \/ phase'[q] = "request"
                        \/ manager'[q][x].use_persistent_client
                        => pclient'[q][d] # NULL
                     /\ pclient'[q][d] # NULL =>
                           pclient'[q][d].is_persistent
                              = manager'[q][x].use_persistent_client
                     /\ \A y \in Mgr \ {x} :
                           manager'[q][y] # NULL /\ manager'[q][y].client = d
                             => manager'[q][x].use_persistent_client
      <3> DEFINE d == manager[q][x].client
      <3>1. /\ manager[q][x] # NULL
            /\ manager'[q][x] = manager[q][x]
            /\ phase'[q] = phase[q]
        BY <1>1, <1>2, <2>2
      <3>2. /\ d \in Client
            /\ client[q][d].st # "none"
            /\ client'[q][d] = client[q][d]
            /\ pclient'[q][d] = pclient[q][d]
        BY <1>4, <1>5, <3>1
      <3>3. /\ \/ phase[q] = "request"
               \/ manager[q][x].use_persistent_client
               => pclient[q][d] # NULL
            /\ pclient[q][d] # NULL =>
                  pclient[q][d].is_persistent = manager[q][x].use_persistent_client
        BY <3>1 DEF Registered, ClientOf
      <3>4. ASSUME NEW y \in Mgr \ {x}, manager'[q][y] # NULL,
                   manager'[q][y].client = d
            PROVE  manager[q][x].use_persistent_client
        <4>1. CASE q = p /\ y = m
          BY SMTT(30), <1>2, <3>2, <3>3, <3>4, <4>1
        <4>2. CASE q # p \/ y # m
          BY SMTT(30), <1>2, <3>1, <3>4, <4>2 DEF Registered, ClientOf
        <4> QED BY <4>1, <4>2
      <3> QED BY <3>1, <3>2, <3>3, <3>4
    <2>3. /\ client'[p][c].st # "none"
          /\ pclient'[p][c] # NULL
          /\ pclient'[p][c].is_persistent = manager'[p][m].use_persistent_client
      <3>1. manager'[p][m].use_persistent_client \in BOOLEAN
        BY <1>2 DEF ManagerRec
      <3>2. pclient[p][c] # NULL =>
              client[p][c].st # "none" /\ pclient[p][c].is_persistent \in BOOLEAN
        <4>1. pclient[p][c] # NULL => pclient[p][c] \in PclientRec
          BY ObjectTypes
        <4> QED BY <4>1 DEF PclientRec, Owners
      <3> QED BY <1>2, <3>1, <3>2
    <2>4. ASSUME NEW y \in Mgr \ {m}, manager'[p][y] # NULL,
                 manager'[p][y].client = c
          PROVE  manager'[p][m].use_persistent_client
      <3>1. manager[p][y] # NULL /\ manager[p][y].client = c
        BY <1>2, <2>4
      <3>2. client[p][c].st # "none"
        BY <1>5, <3>1
      <3> QED BY <1>2, <3>2
    <2>5. manager'[p][m].client = c
      BY <1>2
    <2> QED BY <2>1, <2>2, <2>3, <2>4, <2>5 DEF Registered, ClientOf
  <1>8. Owners'
    BY SMTT(30), <1>2, <1>4 DEF Owners
  <1>9. Born'
    BY <1>1, <1>2 DEF Born
  <1>10. Generations'
    <2>1. ASSUME NEW q \in Pid, NEW s \in Sess, session'[q][s] # NULL
          PROVE  LET d == manager'[q][session'[q][s].manager].client
                 IN  Older(q, client'[q][d], pclient'[q][d], session'[q][s])
      <3>1. /\ session'[q][s] = session[q][s]
            /\ session[q][s].manager \in Mgr
            /\ manager[q][session[q][s].manager] # NULL
        BY SMTT(30), <1>1, <2>1, ObjectTypes DEF Refs
      <3> DEFINE d == manager[q][session[q][s].manager].client
      <3>2. Older(q, client[q][d], pclient[q][d], session[q][s])
        BY SMTT(30), <2>1, <3>1, SessionOlder
      <3>3. /\ manager'[q][session[q][s].manager].client = d
            /\ client'[q][d] = client[q][d]
            /\ pclient'[q][d] = pclient[q][d]
        BY SMTT(30), <1>4, <1>5, <3>1
      <3> QED BY ZenonT(30), <3>1, <3>2, <3>3
    <2>2. ASSUME NEW q \in Pid, NEW k \in Cur, cursor'[q][k] # NULL
          PROVE  LET d == manager'[q][cursor'[q][k].manager].client
                 IN  Older(q, client'[q][d], pclient'[q][d], cursor'[q][k])
      <3>1. /\ cursor'[q][k] = cursor[q][k]
            /\ cursor[q][k].manager \in Mgr
            /\ manager[q][cursor[q][k].manager] # NULL
        BY SMTT(30), <1>1, <2>2, ObjectTypes DEF Refs
      <3> DEFINE d == manager[q][cursor[q][k].manager].client
      <3>2. Older(q, client[q][d], pclient[q][d], cursor[q][k])
        BY SMTT(30), <2>2, <3>1, CursorOlder
      <3>3. /\ manager'[q][cursor[q][k].manager].client = d
            /\ client'[q][d] = client[q][d]
            /\ pclient'[q][d] = pclient[q][d]
        BY <1>4, <1>5, <3>1
      <3> QED BY ZenonT(30), <3>1, <3>2, <3>3
    <2> QED BY ZenonT(30), <2>1, <2>2 DEF Generations, ClientOf
  <1> QED BY <1>1, <1>6, <1>7, <1>8, <1>9, <1>10

\* So does a constructor that fails: nothing refers to the client it leaves.
LEMMA ConstructRejectedInv ==
    ASSUME ForkInv, TypeOK', NEW p \in Pid, NEW o \in Opts,
           ConstructRejected(p, o)
    PROVE  ForkInv' /\ interference' = interference
  <1> USE DEF ForkInv
  <1>1. UNCHANGED <<phase, manager, pclient, server, session, cursor, interference>>
    BY DEF ConstructRejected
  <1>2. \A q \in Pid, d \in Client : client[q][d].st # "none" =>
           client'[q][d] = client[q][d]
    BY DEF ConstructRejected, NewClient, TypeOK
  <1>3. \A q \in Pid, x \in Mgr : manager[q][x] # NULL =>
          /\ manager[q][x].client \in Client
          /\ client[q][manager[q][x].client].st # "none"
    BY ObjectTypes DEF Registered, ClientOf
  <1>4. Refs' /\ Born'
    BY <1>1 DEF Refs, Born
  <1>5. Owners'
    BY SMTT(30), <1>1, <1>2 DEF Owners
  <1>6. Registered'
    BY SMTT(30), <1>1, <1>2, <1>3 DEF Registered, ClientOf
  <1>7. Generations'
    <2>1. ASSUME NEW q \in Pid, NEW s \in Sess, session[q][s] # NULL
          PROVE  LET d == manager[q][session[q][s].manager].client
                 IN  Older(q, client'[q][d], pclient[q][d], session[q][s])
      <3>1. /\ session[q][s].manager \in Mgr
            /\ manager[q][session[q][s].manager] # NULL
        BY SMTT(30), <2>1, ObjectTypes DEF Refs
      <3> DEFINE d == manager[q][session[q][s].manager].client
      <3>2. Older(q, client[q][d], pclient[q][d], session[q][s])
        BY SMTT(30), <2>1, SessionOlder
      <3>3. client'[q][d] = client[q][d]
        BY SMTT(30), <1>2, <1>3, <3>1
      <3> QED BY Zenon, <3>2, <3>3
    <2>2. ASSUME NEW q \in Pid, NEW k \in Cur, cursor[q][k] # NULL
          PROVE  LET d == manager[q][cursor[q][k].manager].client
                 IN  Older(q, client'[q][d], pclient[q][d], cursor[q][k])
      <3>1. /\ cursor[q][k].manager \in Mgr
            /\ manager[q][cursor[q][k].manager] # NULL
        BY SMTT(30), <2>2, ObjectTypes DEF Refs
      <3> DEFINE d == manager[q][cursor[q][k].manager].client
      <3>2. Older(q, client[q][d], pclient[q][d], cursor[q][k])
        BY SMTT(30), <2>2, CursorOlder
      <3>3. client'[q][d] = client[q][d]
        BY SMTT(30), <1>2, <1>3, <3>1
      <3> QED BY Zenon, <3>2, <3>3
    <2> QED BY ZenonT(30), <1>1, <2>1, <2>2 DEF Generations, ClientOf
  <1> QED BY <1>1, <1>4, <1>5, <1>6, <1>7

\* fork() keeps the invariant: the child has not reset anything yet.
LEMMA ForkStepInv ==
    ASSUME ForkInv, TypeOK', NEW p \in Pid, NEW q \in Pid, Fork(p, q)
    PROVE  ForkInv' /\ interference' = interference
  <1> USE DEF ForkInv
  <1>1. \A r \in Pid : LET src == IF r = q THEN p ELSE r
                       IN  /\ manager'[r] = manager[src]
                           /\ client'[r] = client[src]
                           /\ pclient'[r] = pclient[src]
                           /\ server'[r] = server[src]
                           /\ session'[r] = session[src]
                           /\ cursor'[r] = cursor[src]
                           /\ phase'[r] = phase[src]
    BY DEF Fork, TypeOK
  <1>2. /\ phase[q] = "unborn"
        /\ phase[p] = "request"
        /\ interference' = interference
        /\ \A r \in Pid : phase[r] # "unborn" => phase'[r] # "unborn"
    BY DEF Fork, TypeOK
  <1>3. Refs'
    BY SMTT(30), <1>1 DEF Refs
  <1>4. Registered'
    <2>1. ASSUME NEW r \in Pid
          PROVE  /\ phase'[r] \in {"idle", "gshutdown", "exited"} =>
                       \A m \in Mgr : manager'[r][m] = NULL
                 /\ \A m \in Mgr : manager'[r][m] # NULL =>
                      LET c == manager'[r][m].client
                      IN  /\ client'[r][c].st # "none"
                          /\ \/ phase'[r] = "request"
                             \/ manager'[r][m].use_persistent_client
                             => pclient'[r][c] # NULL
                          /\ pclient'[r][c] # NULL =>
                                pclient'[r][c].is_persistent
                                   = manager'[r][m].use_persistent_client
                          /\ \A x \in Mgr \ {m} :
                                manager'[r][x] # NULL /\ manager'[r][x].client = c
                                  => manager'[r][m].use_persistent_client
      <3>1. PICK src \in Pid : /\ manager'[r] = manager[src]
                               /\ client'[r] = client[src]
                               /\ pclient'[r] = pclient[src]
                               /\ phase'[r] = phase[src]
        BY <1>1
      <3> QED BY <3>1 DEF Registered, ClientOf
    <2> QED BY <2>1 DEF Registered, ClientOf
  <1>5. Owners'
    BY SMTT(30), <1>1 DEF Owners
  <1>6. Born'
    BY <1>1, <1>2 DEF Born
  <1>7. Generations'
    <2>1. ASSUME NEW r \in Pid, NEW src \in Pid, src = IF r = q THEN p ELSE r,
                 NEW obj, NEW d \in Client,
                 Older(src, client[src][d], pclient[src][d], obj)
          PROVE  Older(r, client'[r][d], pclient'[r][d], obj)
      <3>1. client'[r][d] = client[src][d] /\ pclient'[r][d] = pclient[src][d]
        BY <1>1, <2>1
      <3>2. CASE r = q
        <4>1. pclient'[r][d] # NULL => pclient'[r][d].last_reset_by_pid # r
          BY <1>2, <2>1, <3>1, <3>2 DEF Born
        <4> QED BY <2>1, <3>1, <4>1 DEF Older
      <3>3. CASE r # q
        BY <2>1, <3>1, <3>3
      <3> QED BY <3>2, <3>3
    <2>2. ASSUME NEW r \in Pid, NEW s \in Sess, session'[r][s] # NULL
          PROVE  LET d == manager'[r][session'[r][s].manager].client
                 IN  Older(r, client'[r][d], pclient'[r][d], session'[r][s])
      <3> DEFINE src == IF r = q THEN p ELSE r
                 d == manager[src][session[src][s].manager].client
      <3>1. src \in Pid /\ session'[r][s] = session[src][s]
        BY <1>1
      <3>2. d \in Client
        BY SMTT(30), <2>2, <3>1, ObjectTypes DEF Refs
      <3>3. Older(src, client[src][d], pclient[src][d], session[src][s])
        <4>1. Generations /\ session[src][s] # NULL
          BY <2>2, <3>1
        <4> HIDE DEF src
        <4> QED BY ZenonT(30), <3>1, <4>1, SessionOlder
      <3>4. manager'[r][session'[r][s].manager].client = d
        BY <1>1, <3>1
      <3> HIDE DEF d
      <3>5. Older(r, client'[r][d], pclient'[r][d], session'[r][s])
        BY <2>1, <3>1, <3>2, <3>3
      <3> QED BY <3>4, <3>5
    <2>3. ASSUME NEW r \in Pid, NEW k \in Cur, cursor'[r][k] # NULL
          PROVE  LET d == manager'[r][cursor'[r][k].manager].client
                 IN  Older(r, client'[r][d], pclient'[r][d], cursor'[r][k])
      <3> DEFINE src == IF r = q THEN p ELSE r
                 d == manager[src][cursor[src][k].manager].client
      <3>1. src \in Pid /\ cursor'[r][k] = cursor[src][k]
        BY <1>1
      <3>2. d \in Client
        BY SMTT(30), <2>3, <3>1, ObjectTypes DEF Refs
      <3>3. Older(src, client[src][d], pclient[src][d], cursor[src][k])
        <4>1. Generations /\ cursor[src][k] # NULL
          BY <2>3, <3>1
        <4> HIDE DEF src
        <4> QED BY ZenonT(30), <3>1, <4>1, CursorOlder
      <3>4. manager'[r][cursor'[r][k].manager].client = d
        BY <1>1, <3>1
      <3> HIDE DEF d
      <3>5. Older(r, client'[r][d], pclient'[r][d], cursor'[r][k])
        BY <2>1, <3>1, <3>2, <3>3
      <3> QED BY <3>4, <3>5
    <2> QED BY ZenonT(30), <2>2, <2>3 DEF Generations, ClientOf
  <1> QED BY <1>2, <1>3, <1>4, <1>5, <1>6, <1>7

\* The steps of RSHUTDOWN, RINIT and GSHUTDOWN keep the invariant.
LEMMA ShutdownInv ==
    ASSUME ForkInv, TypeOK', NEW p \in Pid, ShutdownStep(p)
    PROVE  ForkInv' /\ interference' = interference
  <1> USE DEF ForkInv
  <1>1. ASSUME NEW from \in Phases \ {"unborn"}, NEW to \in Phases \ {"unborn"},
               EnterPhase(p, from, to),
               to = "request" => from = "idle",
               to \in {"idle", "gshutdown", "exited"} =>
                  \A m \in Mgr : manager[p][m] = NULL
        PROVE  ForkInv' /\ interference' = interference
    <2>1. /\ UNCHANGED <<manager, server, session, cursor, client, pclient, interference>>
          /\ phase'[p] = to /\ phase[p] = from
          /\ \A q \in Pid \ {p} : phase'[q] = phase[q]
      BY <1>1 DEF EnterPhase, objectVars, TypeOK
    <2>2. Refs' /\ Owners'
      BY SMTT(30), <2>1 DEF Refs, Owners
    <2>3. Generations'
      BY ZenonT(30), <2>1 DEF Generations, ClientOf
    <2>4. Born'
      BY <1>1, <2>1 DEF Born
    <2>5. Registered'
      BY <1>1, <2>1 DEF Registered, ClientOf
    <2> QED BY <2>1, <2>2, <2>3, <2>4, <2>5
  <1>2. phase[p] \in {"idle", "gshutdown"} => \A m \in Mgr : manager[p][m] = NULL
    BY DEF Registered
  <1>3. CASE Rshutdown(p)
    BY <1>1, <1>3 DEF Rshutdown, Phases
  <1>4. CASE RshutdownDone(p)
    BY SMTT(30), <1>1, <1>4 DEF RshutdownDone, Phases
  <1>5. CASE FreeAfterRshutdown(p)
    BY SMTT(30), <1>1, <1>5 DEF FreeAfterRshutdown, CrashingFree, Phases
  <1>6. CASE Deactivated(p)
    BY <1>1, <1>6 DEF Deactivated, NoObjects, Phases
  <1>7. CASE Rinit(p)
    BY <1>1, <1>7 DEF Rinit, Phases
  <1>8. CASE Gshutdown(p)
    BY ZenonT(30), <1>1, <1>2, <1>8 DEF Gshutdown, EnterPhase, Phases
  <1>9. CASE GshutdownDone(p)
    BY ZenonT(30), <1>1, <1>2, <1>9 DEF GshutdownDone, EnterPhase, Phases
  <1>10. ASSUME NEW c \in Client, pclient[p][c] # NULL, DestroyPclient(p, c),
                UNCHANGED <<phase, objectVars>>, phase[p] # "request",
                \A x \in Mgr : /\ manager[p][x] # NULL
                               /\ ClientOf(p, x) = c
                               => ~manager[p][x].use_persistent_client
         PROVE  ForkInv' /\ interference' = interference
    <2>1. UNCHANGED <<phase, manager, server, session, cursor>>
      BY <1>10 DEF objectVars
    <2>2. Refs'
      BY <2>1 DEF Refs
    <2>3. \A q \in Pid, x \in Mgr : manager'[q][x] \in {manager[q][x], NULL}
      BY <2>1
    <2>4. \A x \in Mgr : manager'[p][x] # NULL =>
              \/ ClientOf(p, x) # c
              \/ phase[p] # "request" /\ ~manager[p][x].use_persistent_client
      BY <1>10, <2>1
    <2> QED BY <1>10, <2>1, <2>2, <2>3, <2>4, DestroyInv
  <1>11. CASE RshutdownDestroy(p)
    <2>1. PICK c \in RequestClients(p) : DestroyPclient(p, c)
      BY <1>11 DEF RshutdownDestroy
    <2>2. c \in Client /\ pclient[p][c] # NULL /\ ~pclient[p][c].is_persistent
      BY DEF RequestClients
    <2>3. \A x \in Mgr : manager[p][x] # NULL /\ ClientOf(p, x) = c
                           => ~manager[p][x].use_persistent_client
      BY <2>2 DEF Registered
    <2> QED BY <1>10, <1>11, <2>1, <2>2, <2>3 DEF RshutdownDestroy
  <1>12. CASE GshutdownDestroy(p)
    <2>1. PICK c \in PersistentClients(p) : DestroyPclient(p, c)
      BY <1>12 DEF GshutdownDestroy
    <2>2. c \in Client /\ pclient[p][c] # NULL
      BY DEF PersistentClients
    <2> QED BY <1>2, <1>10, <1>12, <2>1, <2>2 DEF GshutdownDestroy
  <1> QED BY <1>3, <1>4, <1>5, <1>6, <1>7, <1>8, <1>9, <1>11, <1>12
          DEF ShutdownStep

-----------------------------------------------------------------------------
(* The theorems *)

\* Initially the invariant holds and no process has affected another.
LEMMA InitInv == Init => ForkInv /\ ForkSafe
  <1> SUFFICES ASSUME Init PROVE ForkInv /\ ForkSafe
    OBVIOUS
  <1>1. TypeOK
    <2>1. [st |-> "none", owner |-> NULL, generation |-> 0, pool |-> {},
           opts |-> NULL, key_vault |-> NULL] \in ClientRec
      BY DEF ClientRec
    <2> QED BY <2>1 DEF Init, TypeOK, Phases
  <1>2. Refs /\ Generations /\ Registered /\ Owners /\ Born
    BY DEF Init, Refs, Generations, Registered, Owners, Born
  <1>3. ForkSafe
    BY DEF Init, ForkSafe, NoForeignKill, NoForeignAbort, NoForeignDestroy, NoEffect
  <1> QED BY <1>1, <1>2, <1>3 DEF ForkInv

\* Every step keeps the invariant and affects no other process.
LEMMA NextInv == ForkInv /\ ForkSafe /\ [Next]_vars => ForkInv' /\ ForkSafe'
  <1> SUFFICES ASSUME ForkInv, ForkSafe, [Next]_vars
               PROVE  ForkInv' /\ ForkSafe'
    OBVIOUS
  <1>1. TypeOK'
    BY TypeStep DEF ForkInv
  <1>2. ASSUME interference' = interference
        PROVE  ForkSafe'
    BY <1>2 DEF ForkSafe, NoForeignKill, NoForeignAbort, NoForeignDestroy, NoEffect
  <1>3. TypeOK /\ Refs
    BY DEF ForkInv
  <1>4. CASE UNCHANGED vars
    <2>1. UNCHANGED <<phase, manager, client, pclient, server, session, cursor,
                      interference>>
      BY <1>4 DEF vars
    <2>2. Refs' /\ Owners' /\ Born'
      BY <2>1 DEF ForkInv, Refs, Owners, Born
    <2>3. Registered'
      BY SMTT(30), <2>1 DEF ForkInv, Registered, ClientOf
    <2>4. Generations'
      BY ZenonT(30), <2>1 DEF ForkInv, Generations, ClientOf
    <2> QED BY <1>1, <1>2, <2>1, <2>2, <2>3, <2>4 DEF ForkInv
  <1>5. ASSUME NEW p \in Pid, ManagerStep(p)
        PROVE  ForkInv' /\ ForkSafe'
    <2>1. CASE \E o \in Opts : ConstructRejected(p, o)
      BY <1>1, <1>2, <2>1, ConstructRejectedInv
    <2>2. ASSUME ~ \E o \in Opts : ConstructRejected(p, o)
          PROVE  \E m \in Mgr :
            \/ \E o \in Opts, persistent \in BOOLEAN, kv \in Mgr \cup {NULL} :
                  Construct(p, m, o, persistent, kv)
            \/ FreeManager(p, m)
            \/ \E v \in Srv : GetServer(p, v, m)
            \/ \E s \in Sess : StartSession(p, m, s)
      BY <1>5, <2>2 DEF ManagerStep
    <2>3. ASSUME NEW m \in Mgr, NEW o \in Opts, NEW persistent \in BOOLEAN,
                 NEW kv \in Mgr \cup {NULL}, Construct(p, m, o, persistent, kv)
          PROVE  ForkInv' /\ ForkSafe'
      BY <1>1, <1>2, <2>3, ConstructInv
    <2>4. ASSUME NEW m \in Mgr, FreeManager(p, m)
          PROVE  ForkInv' /\ ForkSafe'
      BY <1>1, <1>2, <2>4, FreeManagerInv
    <2>5. ASSUME NEW m \in Mgr, NEW v \in Srv, GetServer(p, v, m)
          PROVE  ForkInv' /\ ForkSafe'
      BY <1>1, <1>2, <1>3, <2>5, ServerStep, ImageStepInv
    <2>6. ASSUME NEW m \in Mgr, NEW s \in Sess, StartSession(p, m, s)
          PROVE  ForkInv' /\ ForkSafe'
      BY <1>1, <2>6, SessionSafe, ImageStepInv
    <2> QED BY <2>1, <2>2, <2>3, <2>4, <2>5, <2>6
  <1>6. ASSUME NEW p \in Pid, ExecuteStep(p)
        PROVE  ForkInv' /\ ForkSafe'
    <2>1. PICK k \in Cur \cup {NULL}, kind \in {"command", "query"},
               open \in BOOLEAN :
            \/ \E m \in Mgr : ManagerExecute(p, m, k, kind, open)
            \/ \E v \in Srv : ServerExecute(p, v, k, kind, open)
      BY <1>6 DEF ExecuteStep
    <2>2. CASE \E m \in Mgr : ManagerExecute(p, m, k, kind, open)
      BY <1>1, <1>3, <2>2, ObjectTypes, ExecuteSafe, ImageStepInv DEF ManagerExecute
    <2>3. CASE \E v \in Srv : ServerExecute(p, v, k, kind, open)
      BY <1>1, <1>3, <2>3, ObjectTypes, ExecuteSafe, ImageStepInv
         DEF ServerExecute, Refs
    <2> QED BY <2>1, <2>2, <2>3
  <1>7. ASSUME NEW p \in Pid, ObjectStep(p)
        PROVE  ForkInv' /\ ForkSafe'
    <2>1. CASE \E v \in Srv : FreeServer(p, v)
      BY <1>1, <1>2, <1>3, <2>1, ServerStep, ImageStepInv
    <2>2. CASE \E k \in Cur : CursorExhaust(p, k) \/ FreeCursor(p, k)
      BY <1>1, <2>2, CursorSafe, ImageStepInv
    <2>3. CASE \E s \in Sess : \/ \E begin \in BOOLEAN : Transact(p, s, begin)
                               \/ EndSession(p, s)
                               \/ FreeSession(p, s)
      BY <1>1, <2>3, SessionSafe, ImageStepInv
    <2> QED BY <1>7, <2>1, <2>2, <2>3 DEF ObjectStep
  <1>8. ASSUME NEW p \in Pid, ShutdownStep(p)
        PROVE  ForkInv' /\ ForkSafe'
    BY <1>1, <1>2, <1>8, ShutdownInv
  <1>9. ASSUME NEW p \in Pid, NEW q \in Pid, Fork(p, q)
        PROVE  ForkInv' /\ ForkSafe'
    BY <1>1, <1>2, <1>9, ForkStepInv
  <1> QED BY <1>4, <1>5, <1>6, <1>7, <1>8, <1>9 DEF Next

\* The inductive invariant: every memory image stays well formed, whatever the
\* interleaving of forks, requests, operations and shutdowns.
THEOREM Invariant == Spec => [](ForkInv /\ ForkSafe)
  BY InitInv, NextInv, PTL DEF Spec

\* Type correctness of every reachable state of ClientLifecycle.
THEOREM TypeCorrect == Spec => []TypeOK
  BY Invariant, PTL DEF ForkInv

\* Freeing a Cursor never kills a cursor of another process
\* (php_phongo_cursor_free_object), for every number of processes and objects.
THEOREM CursorsAreSafe == Spec => []NoForeignKill
  BY Invariant, PTL DEF ForkSafe

\* No process ends a transaction of another process, provided that a child
\* never calls endSession, commitTransaction or abortTransaction on a Session
\* with a transaction in progress that it inherited: these methods, unlike
\* php_phongo_session_free_object, do not compare pids.
THEOREM TransactionsAreSafe ==
    ASSUME "inherited_transactions" \notin Habits
    PROVE  Spec => []NoForeignAbort
  BY Invariant, PTL DEF ForkSafe

\* Freeing a Session ends no transaction of another process, whatever the
\* habits of the program (php_phongo_session_free_object).
THEOREM FreeingIsSafe == Spec => FreeingEndsNothing
  <1>1. ASSUME ForkInv, NEW p \in Pid, NEW s \in Sess, FreeSession(p, s)
        PROVE  \A e \in interference' \ interference : e.what # "endTransaction"
    BY <1>1, FreeSessionQuiet
  <1>2. ForkInv => [\A p \in Pid, s \in Sess : FreeSession(p, s) =>
          \A e \in interference' \ interference : e.what # "endTransaction"]_vars
    BY <1>1
  <1> QED BY <1>2, Invariant, PTL DEF FreeingEndsNothing

\* No process destroys a client of another process
\* (php_phongo_pclient_destroy).
THEOREM ClientsAreSafe == Spec => []NoForeignDestroy
  BY Invariant, PTL DEF ForkSafe

-------------------------------------------------------------------------------
(***************************************************************************)
(* What ClientLifecycle promises to applications that lack a habit: an     *)
(* orderly exit closes every own client, key vault clients outlive their   *)
(* dependents, own cursors stay killable, and no LSID is shared.  Each      *)
(* theorem names the habits that it excludes, and no others.               *)
(***************************************************************************)

-------------------------------------------------------------------------------
(* What a method or a free_object handler does to the image of its process *)

\* The object that is used: with created_by_pid = by, it belongs to Manager m.
\* Some steps do not compare pids (by = p).
Runs(p, by, m) ==
    /\ phase[p] = "request"
    /\ \/ manager[p][m].created_by_pid = by
       \/ \E v \in Srv : /\ server[p][v] # NULL
                         /\ server[p][v].created_by_pid = by /\ server[p][v].manager = m

Acts(p, by, m) ==
    \/ by = p
    \/ Runs(p, by, m)
    \/ \E s \in Sess : /\ session[p][s] # NULL
                       /\ session[p][s].created_by_pid = by /\ session[p][s].manager = m
    \/ \E k \in Cur : /\ cursor[p][k] # NULL
                      /\ cursor[p][k].created_by_pid = by /\ cursor[p][k].manager = m

\* An object of client c, of generation g, that has LSID l.
Holder(p, obj, c, g, l) ==
    obj # NULL /\ ClientOf(p, obj.manager) = c /\ obj.generation = g /\ obj.lsid = l

Returned(p, c, g, l) == \/ \E s \in Sess : Holder(p, session[p][s], c, g, l)
                        \/ \E k \in Cur : Holder(p, cursor[p][k], c, g, l)

\* A client after the reset that the step begins with, but for its pool: that
\* gains LSIDs of this process, and those of objects of its generation.
ClientStep(p, by, m, c) ==
    LET cl == ClientsAfter(p, by, m)[c]
        new == client'[p][c]
    IN  /\ new.st = cl.st /\ new.owner = cl.owner
        /\ new.generation = cl.generation /\ new.key_vault = cl.key_vault
        /\ \A l \in new.pool : l \in cl.pool \/ l.by = p \/ Returned(p, c, cl.generation, l)

\* A Session or a Cursor is kept, though perhaps without its LSID, or it is new.
ObjectKept(old, new) ==
    /\ old # NULL /\ new.created_by_pid = old.created_by_pid /\ new.manager = old.manager
    /\ new.generation = old.generation /\ new.lsid \in {old.lsid, NULL}

ObjectNew(p, by, m, new) ==
    LET cl == ClientsAfter(p, by, m)[ClientOf(p, m)]
    IN  /\ Runs(p, by, m)
        /\ new.created_by_pid = p /\ new.manager = m /\ new.generation = cl.generation
        /\ new.lsid = NULL \/ new.lsid.by = p \/ new.lsid \in cl.pool

ObjectStepOf(p, by, m, old, new) ==
    new # NULL => ObjectKept(old, new) \/ ObjectNew(p, by, m, new)

ServerStepOf(p, m, old, new) ==
    new # NULL => \/ new = old
                  \/ /\ phase[p] = "request" /\ new.created_by_pid = p /\ new.manager = m
                     /\ \/ "server_before_reset" \in Habits
                        \/ manager[p][m].created_by_pid = p
                        \/ pclient[p][ClientOf(p, m)].last_reset_by_pid = p

\* The LSIDs that an operation on Manager m sends, after the reset.
Sends(p, by, m, l) ==
    LET cls == ClientsAfter(p, by, m)
        c == ClientOf(p, m)
    IN  /\ Runs(p, by, m)
        /\ \/ l.by = p
           \/ l \in cls[c].pool
           \/ cls[c].key_vault # NULL /\ l \in cls[cls[c].key_vault].pool
           \/ \E s \in Sess : l # NULL /\ Holder(p, session[p][s], c, cls[c].generation, l)

Action(p, by, m) ==
    /\ manager[p][m] # NULL /\ Acts(p, by, m)
    /\ UNCHANGED <<phase, manager>> /\ OthersKept(p)
    /\ pclient'[p] = PclientsAfter(p, by, m)
    /\ \A c \in Client : ClientStep(p, by, m, c)
    /\ \A v \in Srv : ServerStepOf(p, m, server[p][v], server'[p][v])
    /\ \A s \in Sess : ObjectStepOf(p, by, m, session[p][s], session'[p][s])
    /\ \A k \in Cur : ObjectStepOf(p, by, m, cursor[p][k], cursor'[p][k])
    /\ \A e \in interference' : \/ e \in interference
                                \/ e.what # "lsid"
                                \/ \E l : Sends(p, by, m, l) /\ e.owner = l.by /\ e.owner # p

\* Without a comparison of pids nothing is reset.
LEMMA NoReset ==
    ASSUME TypeOK, NEW p \in Pid, NEW m \in Mgr
    PROVE  ClientsAfter(p, p, m) = client[p] /\ PclientsAfter(p, p, m) = pclient[p]
  <1>1. ToReset(p, p, m) = {}
    BY DEF ToReset
  <1>2. client[p] \in [Client -> ClientRec] /\ pclient[p] \in [Client -> PclientRec \cup {NULL}]
    BY DEF TypeOK
  <1> QED BY <1>1, <1>2 DEF ClientsAfter, PclientsAfter

\* Obtaining and freeing a Server.
LEMMA ServerAction ==
    ASSUME ForkInv, NEW p \in Pid, NEW v \in Srv,
           FreeServer(p, v) \/ \E m \in Mgr : GetServer(p, v, m)
    PROVE  \E m \in Mgr : Action(p, p, m)
  <1>1. TypeOK /\ Refs
    BY DEF ForkInv
  <1>2. UNCHANGED <<phase, manager, client, pclient, session, cursor, interference>>
    BY DEF FreeServer, GetServer
  <1>3. PICK m \in Mgr : /\ manager[p][m] # NULL
                         /\ \A w \in Srv : ServerStepOf(p, m, server[p][w], server'[p][w])
    <2>1. CASE FreeServer(p, v)
      <3>1. server[p][v].manager \in Mgr /\ manager[p][server[p][v].manager] # NULL
        BY <1>1, <2>1, ObjectTypes DEF FreeServer, Refs
      <3>2. \A w \in Srv : server'[p][w] = server[p][w] \/ server'[p][w] = NULL
        BY <1>1, <2>1 DEF FreeServer, TypeOK
      <3> QED BY <3>1, <3>2 DEF ServerStepOf
    <2>2. ASSUME NEW m \in Mgr, GetServer(p, v, m)
          PROVE  /\ manager[p][m] # NULL
                 /\ \A w \in Srv : ServerStepOf(p, m, server[p][w], server'[p][w])
      <3>1. \A w \in Srv : \/ server'[p][w] = server[p][w]
                           \/ server'[p][w] = [created_by_pid |-> p, manager |-> m]
        BY <1>1, <2>2 DEF GetServer, TypeOK
      <3> QED BY <2>2, <3>1 DEF GetServer, ServerStepOf
    <2> QED BY <2>1, <2>2
  <1>4. OthersKept(p)
    BY <1>1, <1>2 DEF OthersKept, FreeServer, GetServer, TypeOK
  <1>5. pclient'[p] = PclientsAfter(p, p, m) /\ \A c \in Client : ClientStep(p, p, m, c)
    BY <1>1, <1>2, NoReset DEF ClientStep
  <1>6. /\ \A s \in Sess : ObjectStepOf(p, p, m, session[p][s], session'[p][s])
        /\ \A k \in Cur : ObjectStepOf(p, p, m, cursor[p][k], cursor'[p][k])
    BY <1>2 DEF ObjectStepOf, ObjectKept
  <1> QED BY <1>2, <1>3, <1>4, <1>5, <1>6 DEF Action, Acts

\* What a pool offers is in it, or is an LSID of this process.
LEMMA OfferedFrom ==
    ASSUME NEW p \in Pid, NEW pool, NEW j, NEW l \in Offered(p, pool, j)
    PROVE  l \in pool \/ l.by = p
  BY DEF Offered

\* A client that only differs in its pool.
SameButPool(new, cl) ==
    /\ new.st = cl.st /\ new.owner = cl.owner
    /\ new.generation = cl.generation /\ new.key_vault = cl.key_vault

LEMMA PoolOnly ==
    ASSUME NEW cl \in ClientRec, NEW S
    PROVE  SameButPool([cl EXCEPT !.pool = S], cl) /\ [cl EXCEPT !.pool = S].pool = S
  BY DEF SameButPool, ClientRec

\* An operation with an implicit session.
LEMMA ExecuteImplicitAction ==
    ASSUME ForkInv, NEW p \in Pid, NEW by \in Pid, NEW m \in Mgr,
           NEW k \in Cur \cup {NULL}, NEW kind \in {"command", "query"},
           NEW open \in BOOLEAN, manager[p][m] # NULL, Runs(p, by, m),
           UNCHANGED <<phase, manager, server, session>>,
           ExecuteImplicit(p, by, m, k, kind, open)
    PROVE  Action(p, by, m)
  <1> DEFINE c == ClientOf(p, m)
             cl == ClientsAfter(p, by, m)
             kvc == cl[c].key_vault
             keeps == k # NULL /\ (open \/ kind = "command")
  <1>1. TypeOK /\ c \in Client
    BY ObjectTypes DEF ForkInv, ClientOf
  <1>2. cl \in [Client -> ClientRec]
    BY <1>1, ResetType
  <1>3. \A d \in Client : cl[d] \in ClientRec /\ cl[d].key_vault \in Client \cup {NULL}
    BY <1>2 DEF ClientRec
  <1> HIDE DEF cl, c
  <1>4. PICK kvl \in IF kvc = NULL THEN {NULL}
                     ELSE {NULL} \cup Offered(p, cl[kvc].pool, 0) :
        LET j   == IF kvl = NULL THEN 0 ELSE Generated(cl[kvc].pool)
            cl2 == IF kvl = NULL THEN cl
                   ELSE [cl EXCEPT ![kvc].pool = @ \cup {kvl}]
        IN  \E l \in Offered(p, cl2[c].pool, j) :
            /\ lsids[p] + j + Generated(cl2[c].pool) <= MaxLsid
            /\ lsids' = [lsids EXCEPT ![p] = @ + j + Generated(cl2[c].pool)]
            /\ pclient' = [pclient EXCEPT ![p] = PclientsAfter(p, by, m)]
            /\ client' = [client EXCEPT ![p] =
                 [cl2 EXCEPT ![c].pool = IF keeps THEN @ \ {l}
                                         ELSE @ \cup {l}]]
            /\ cursor' = IF k = NULL THEN cursor ELSE
                 [cursor EXCEPT ![p][k] =
                    [created_by_pid |-> p, manager |-> m,
                     generation |-> cl[c].generation, open |-> open,
                     kind |-> kind, session |-> NULL,
                     lsid |-> IF keeps THEN l ELSE NULL]]
            /\ interference' = interference \cup Effect("lsid", l.by, p)
                 \cup (IF kvl = NULL THEN {} ELSE Effect("lsid", kvl.by, p))
    BY ZenonT(30) DEF ExecuteImplicit, cl, c
  <1> DEFINE j   == IF kvl = NULL THEN 0 ELSE Generated(cl[kvc].pool)
             cl2 == IF kvl = NULL THEN cl
                    ELSE [cl EXCEPT ![kvc].pool = @ \cup {kvl}]
  <1>5. PICK l \in Offered(p, cl2[c].pool, j) :
            /\ lsids[p] + j + Generated(cl2[c].pool) <= MaxLsid
            /\ pclient' = [pclient EXCEPT ![p] = PclientsAfter(p, by, m)]
            /\ client' = [client EXCEPT ![p] =
                 [cl2 EXCEPT ![c].pool = IF keeps THEN @ \ {l}
                                         ELSE @ \cup {l}]]
            /\ cursor' = IF k = NULL THEN cursor ELSE
                 [cursor EXCEPT ![p][k] =
                    [created_by_pid |-> p, manager |-> m,
                     generation |-> cl[c].generation, open |-> open,
                     kind |-> kind, session |-> NULL,
                     lsid |-> IF keeps THEN l ELSE NULL]]
            /\ interference' = interference \cup Effect("lsid", l.by, p)
                 \cup (IF kvl = NULL THEN {} ELSE Effect("lsid", kvl.by, p))
    BY ZenonT(30), <1>4
  <1>6. kvl # NULL => /\ kvc \in Client /\ kvl \in Lsid
                      /\ kvl \in cl[kvc].pool \/ kvl.by = p
    <2>1. kvl # NULL => kvc \in Client /\ kvl \in Offered(p, cl[kvc].pool, 0)
      BY <1>1, <1>3, <1>4
    <2>2. kvl # NULL => lsids[p] + 0 + Generated(cl[kvc].pool) <= MaxLsid
      <3>1. lsids[p] \in Nat /\ \A S : Generated(S) \in {0, 1}
        BY <1>1 DEF TypeOK, Generated
      <3>2. lsids[p] + j + Generated(cl2[c].pool) <= MaxLsid
        BY <1>5
      <3>3. kvl # NULL => j = Generated(cl[kvc].pool)
        OBVIOUS
      <3> HIDE DEF j, cl2, kvc
      <3> DEFINE a == Generated(cl[kvc].pool)
                 b == Generated(cl2[c].pool)
                 n == lsids[p]
      <3>4. a \in {0, 1} /\ b \in {0, 1} /\ n \in Nat /\ MaxLsid \in Nat
        BY Zenon, <3>1, BoundAssumption
      <3>5. kvl # NULL => n + a + b <= MaxLsid
        BY <3>2, <3>3
      <3> HIDE DEF a, b, n
      <3>6. kvl # NULL => n + 0 + a <= MaxLsid
        BY <3>4, <3>5
      <3> QED BY <3>6 DEF a, n
    <2>3. kvl # NULL => cl[kvc].pool \in SUBSET Lsid
      BY <1>3, <2>1 DEF ClientRec
    <2> QED BY <1>1, <2>1, <2>2, <2>3, OfferedFrom, OfferedType
  \* The image with the key vault client's session returned.
  <1>7. \A d \in Client : /\ cl2[d] \in ClientRec
                           /\ SameButPool(cl2[d], cl[d])
                           /\ \A x \in cl2[d].pool : x \in cl[d].pool \/ x.by = p
    <2>1. CASE kvl = NULL
      BY <1>3, <2>1 DEF SameButPool
    <2>2. CASE kvl # NULL
      <3> SUFFICES ASSUME NEW d \in Client
                   PROVE  /\ cl2[d] \in ClientRec
                          /\ SameButPool(cl2[d], cl[d])
                          /\ \A x \in cl2[d].pool : x \in cl[d].pool \/ x.by = p
        OBVIOUS
      <3>1. CASE d # kvc
        <4>1. cl2[d] = cl[d]
          BY <1>2, <2>2, <3>1
        <4> HIDE DEF cl2
        <4> QED BY <1>3, <4>1 DEF SameButPool
      <3>2. CASE d = kvc
        <4> DEFINE S == cl[d].pool \cup {kvl}
        <4>1. cl2[d] = [cl[d] EXCEPT !.pool = S]
          BY <1>2, <2>2, <3>2
        <4>2. \A x \in S : x \in cl[d].pool \/ x.by = p
          BY <1>6, <2>2, <3>2
        <4>3. cl[d] \in ClientRec /\ cl[d].pool \in SUBSET Lsid
          BY <1>3 DEF ClientRec
        <4>4. S \in SUBSET Lsid
          BY <1>6, <2>2, <4>3
        <4> HIDE DEF cl2, S
        <4>5. /\ SameButPool(cl2[d], cl[d]) /\ cl2[d].pool = S
              /\ cl2[d] \in ClientRec
          BY <4>1, <4>3, <4>4, PoolOnly, PoolType
        <4> QED BY <4>2, <4>5
      <3> QED BY <3>1, <3>2
    <2> QED BY <2>1, <2>2
  <1>8. cl2 \in [Client -> ClientRec]
    BY <1>2, <1>7
  <1> HIDE DEF cl2, kvc, j
  <1>9. l \in cl[c].pool \/ l.by = p
    BY <1>1, <1>5, <1>7, OfferedFrom
  <1> DEFINE P == IF keeps THEN cl2[c].pool \ {l} ELSE cl2[c].pool \cup {l}
             f == [cl2 EXCEPT ![c] = [cl2[c] EXCEPT !.pool = P]]
  <1>10. client' = [client EXCEPT ![p] = f]
    BY <1>5
  <1>11. \A x \in P : x \in cl[c].pool \/ x.by = p
    BY <1>1, <1>7, <1>9
  <1> HIDE DEF P
  <1>12. \A d \in Client : /\ SameButPool(f[d], cl[d])
                            /\ \A x \in f[d].pool : x \in cl[d].pool \/ x.by = p
    <2> SUFFICES ASSUME NEW d \in Client
                 PROVE  /\ SameButPool(f[d], cl[d])
                        /\ \A x \in f[d].pool : x \in cl[d].pool \/ x.by = p
      OBVIOUS
    <2>1. CASE d # c
      <3>1. f[d] = cl2[d]
        BY <1>8, <2>1
      <3> QED BY <1>7, <3>1
    <2>2. CASE d = c
      <3>1. f[d] = [cl2[c] EXCEPT !.pool = P]
        BY <1>8, <2>2
      <3> HIDE DEF f
      <3>2. SameButPool(f[d], cl2[c]) /\ f[d].pool = P
        BY <1>1, <1>7, <3>1, PoolOnly
      <3> QED BY <1>1, <1>7, <1>11, <2>2, <3>2 DEF SameButPool
    <2> QED BY <2>1, <2>2
  <1> HIDE DEF f
  <1>13. client'[p] = f /\ pclient'[p] = PclientsAfter(p, by, m)
    BY <1>1, <1>5, <1>10 DEF TypeOK
  <1>14. \A d \in Client : ClientStep(p, by, m, d)
    BY <1>12, <1>13 DEF ClientStep, SameButPool, cl
  <1>15. OthersKept(p)
    BY <1>1, <1>5, <1>10 DEF OthersKept, TypeOK
  <1>16. \A x \in Cur : ObjectStepOf(p, by, m, cursor[p][x], cursor'[p][x])
    <2> DEFINE r == [created_by_pid |-> p, manager |-> m,
                     generation |-> cl[c].generation, open |-> open,
                     kind |-> kind, session |-> NULL,
                     lsid |-> IF keeps THEN l ELSE NULL]
    <2>1. ObjectNew(p, by, m, r)
      BY <1>9 DEF ObjectNew, cl, c
    <2>2. \A x \in Cur : cursor'[p][x] = cursor[p][x] \/ cursor'[p][x] = r
      BY <1>1, <1>5 DEF TypeOK
    <2> HIDE DEF r
    <2> QED BY <2>1, <2>2 DEF ObjectStepOf, ObjectKept
  <1>17. ASSUME NEW e \in interference', e \notin interference
         PROVE  \E x : Sends(p, by, m, x) /\ e.owner = x.by /\ e.owner # p
    <2>1. CASE e \in Effect("lsid", l.by, p)
      <3>1. e.owner = l.by /\ l.by # p
        BY <2>1 DEF Effect
      <3>2. Sends(p, by, m, l)
        BY <1>9 DEF Sends, cl, c
      <3> QED BY <3>1, <3>2
    <2>2. CASE kvl # NULL /\ e \in Effect("lsid", kvl.by, p)
      <3>1. e.owner = kvl.by /\ kvl.by # p
        BY <2>2 DEF Effect
      <3>2. kvc # NULL /\ kvl \in cl[kvc].pool
        BY <1>6, <2>2, <3>1, NullAssumption DEF Client
      <3>3. Sends(p, by, m, kvl)
        BY <3>2 DEF Sends, cl, c, kvc
      <3> QED BY <3>1, <3>3
    <2> QED BY <1>5, <1>17, <2>1, <2>2
  <1>18. /\ \A v \in Srv : ServerStepOf(p, m, server[p][v], server'[p][v])
         /\ \A s \in Sess : ObjectStepOf(p, by, m, session[p][s], session'[p][s])
    BY DEF ServerStepOf, ObjectStepOf, ObjectKept
  <1> QED BY <1>13, <1>14, <1>15, <1>16, <1>17, <1>18 DEF Action, Acts

\* An operation with an explicit Session.
LEMMA ExecuteExplicitAction ==
    ASSUME ForkInv, NEW p \in Pid, NEW by \in Pid, NEW m \in Mgr, NEW s \in Sess,
           NEW k \in Cur \cup {NULL}, NEW kind \in {"command", "query"},
           NEW open \in BOOLEAN, manager[p][m] # NULL, Runs(p, by, m),
           UNCHANGED <<phase, manager, server, session>>,
           ExecuteExplicit(p, by, m, s, k, kind, open)
    PROVE  Action(p, by, m)
  <1> DEFINE c == ClientOf(p, m)
             cl == ClientsAfter(p, by, m)
             l == session[p][s].lsid
             r == [created_by_pid |-> p, manager |-> m,
                   generation |-> cl[c].generation, open |-> open,
                   kind |-> kind, session |-> s, lsid |-> NULL]
  <1>1. TypeOK
    BY DEF ForkInv
  <1>2. /\ session[p][s] # NULL /\ l # NULL /\ ClientOf(p, session[p][s].manager) = c
        /\ client' = [client EXCEPT ![p] = cl]
        /\ pclient' = [pclient EXCEPT ![p] = PclientsAfter(p, by, m)]
    BY DEF ExecuteExplicit
  <1>3. client'[p] = cl /\ pclient'[p] = PclientsAfter(p, by, m)
    BY <1>1, <1>2 DEF TypeOK
  <1>4. \A d \in Client : ClientStep(p, by, m, d)
    BY <1>3 DEF ClientStep
  <1>5. cursor' = cursor \/ (k \in Cur /\ cursor' = [cursor EXCEPT ![p][k] = r])
    BY DEF ExecuteExplicit
  <1>6. OthersKept(p)
    <2> HIDE DEF r, cl
    <2> QED BY <1>1, <1>2, <1>5 DEF OthersKept, TypeOK
  <1>7. \A x \in Cur : ObjectStepOf(p, by, m, cursor[p][x], cursor'[p][x])
    <2>1. ObjectNew(p, by, m, r)
      BY DEF ObjectNew
    <2> HIDE DEF r
    <2>2. \A x \in Cur : cursor'[p][x] = cursor[p][x] \/ cursor'[p][x] = r
      BY <1>1, <1>5 DEF TypeOK
    <2> QED BY <2>1, <2>2 DEF ObjectStepOf, ObjectKept
  <1>8. ASSUME NEW e \in interference', e \notin interference
        PROVE  \E x : Sends(p, by, m, x) /\ e.owner = x.by /\ e.owner # p
    <2>1. session[p][s].generation = cl[c].generation /\ e \in Effect("lsid", l.by, p)
      BY <1>8 DEF ExecuteExplicit
    <2>2. e.owner = l.by /\ l.by # p
      BY <2>1 DEF Effect
    <2>3. Holder(p, session[p][s], c, cl[c].generation, l)
      BY <1>2, <2>1 DEF Holder
    <2>4. Sends(p, by, m, l)
      BY <1>2, <2>3 DEF Sends
    <2> QED BY <2>2, <2>4
  <1>9. /\ \A v \in Srv : ServerStepOf(p, m, server[p][v], server'[p][v])
        /\ \A x \in Sess : ObjectStepOf(p, by, m, session[p][x], session'[p][x])
    BY DEF ServerStepOf, ObjectStepOf, ObjectKept
  <1> QED BY <1>3, <1>4, <1>6, <1>7, <1>8, <1>9 DEF Action, Acts

\* An operation, on a Manager or on a Server.
LEMMA ExecuteAction ==
    ASSUME ForkInv, NEW p \in Pid, ExecuteStep(p)
    PROVE  \E by \in Pid, m \in Mgr : Action(p, by, m)
  <1>1. ASSUME NEW by \in Pid, NEW m \in Mgr, NEW k \in Cur \cup {NULL},
               NEW kind \in {"command", "query"}, NEW open \in BOOLEAN,
               manager[p][m] # NULL, Runs(p, by, m), Execute(p, by, m, k, kind, open)
        PROVE  Action(p, by, m)
    BY <1>1, ExecuteImplicitAction, ExecuteExplicitAction DEF Execute
  <1>2. TypeOK /\ Refs
    BY DEF ForkInv
  <1>3. PICK k \in Cur \cup {NULL}, kind \in {"command", "query"}, open \in BOOLEAN :
            \/ \E m \in Mgr : ManagerExecute(p, m, k, kind, open)
            \/ \E v \in Srv : ServerExecute(p, v, k, kind, open)
    BY DEF ExecuteStep
  <1>4. ASSUME NEW m \in Mgr, ManagerExecute(p, m, k, kind, open)
        PROVE  \E by \in Pid, x \in Mgr : Action(p, by, x)
    <2> DEFINE by == manager[p][m].created_by_pid
    <2>1. /\ manager[p][m] # NULL /\ by \in Pid /\ Runs(p, by, m)
          /\ Execute(p, by, m, k, kind, open)
      BY <1>2, <1>4, ObjectTypes DEF ManagerExecute, Runs
    <2> QED BY <1>1, <2>1
  <1>5. ASSUME NEW v \in Srv, ServerExecute(p, v, k, kind, open)
        PROVE  \E by \in Pid, x \in Mgr : Action(p, by, x)
    <2> DEFINE by == server[p][v].created_by_pid
               m == server[p][v].manager
    <2>1. /\ server[p][v] # NULL /\ by \in Pid /\ m \in Mgr /\ manager[p][m] # NULL
          /\ Execute(p, by, m, k, kind, open) /\ phase[p] = "request"
      BY <1>2, <1>5, ObjectTypes DEF ServerExecute, Refs
    <2>2. Runs(p, by, m)
      BY <2>1 DEF Runs
    <2> QED BY <1>1, <2>1, <2>2
  <1> QED BY <1>3, <1>4, <1>5

\* Returning a session to the pool of a client, after the reset.
LEMMA ReturnAction ==
    ASSUME TypeOK, NEW p \in Pid, NEW by \in Pid, NEW m \in Mgr, manager[p][m] # NULL,
           NEW gen \in Nat, NEW l \in Lsid \cup {NULL},
           l # NULL => Returned(p, ClientOf(p, m), gen, l),
           client' = [client EXCEPT ![p] = [ClientsAfter(p, by, m) EXCEPT
                        ![ClientOf(p, m)] = Return(@, gen, l)]],
           pclient' = [pclient EXCEPT ![p] = PclientsAfter(p, by, m)]
    PROVE  /\ pclient'[p] = PclientsAfter(p, by, m)
           /\ \A d \in Client : ClientStep(p, by, m, d)
           /\ \A q \in Pid \ {p} : client'[q] = client[q] /\ pclient'[q] = pclient[q]
  <1> DEFINE c == ClientOf(p, m)
             cl == ClientsAfter(p, by, m)
             f == [cl EXCEPT ![c] = Return(cl[c], gen, l)]
  <1>1. c \in Client /\ cl \in [Client -> ClientRec]
    BY ObjectTypes, ResetType DEF ClientOf
  <1>2. client' = [client EXCEPT ![p] = f]
    OBVIOUS
  <1>3. /\ client'[p] = f /\ pclient'[p] = PclientsAfter(p, by, m)
        /\ \A q \in Pid \ {p} : client'[q] = client[q] /\ pclient'[q] = pclient[q]
    <2> HIDE DEF f
    <2> QED BY <1>2 DEF TypeOK
  <1> HIDE DEF cl, c
  <1>4. ASSUME NEW d \in Client, d # c
        PROVE  ClientStep(p, by, m, d)
    <2>1. f[d] = cl[d]
      BY <1>1, <1>4
    <2>2. client'[p][d] = cl[d]
      BY Zenon, <1>3, <2>1
    <2> QED BY <2>2 DEF ClientStep, cl
  <1>5. ClientStep(p, by, m, c)
    <2> DEFINE r == cl[c]
    <2>1. r \in ClientRec /\ client'[p][c] = Return(r, gen, l)
      BY <1>1, <1>3
    <2>2. \/ client'[p][c] = r
          \/ l # NULL /\ gen = r.generation /\ client'[p][c] = [r EXCEPT !.pool = r.pool \cup {l}]
      BY <2>1 DEF Return
    <2>3. SameButPool(client'[p][c], r) /\ \A x \in client'[p][c].pool :
             x \in r.pool \/ (x = l /\ l # NULL /\ gen = r.generation)
      <3> DEFINE S == r.pool \cup {l}
      <3>1. \A x \in S : x \in r.pool \/ x = l
        OBVIOUS
      <3> HIDE DEF r, S
      <3>2. SameButPool([r EXCEPT !.pool = S], r) /\ [r EXCEPT !.pool = S].pool = S
        BY <2>1, PoolOnly
      <3> QED BY <2>2, <3>1, <3>2 DEF S, SameButPool
    <2>4. l # NULL => Returned(p, c, gen, l)
      BY DEF c
    <2> QED BY <2>3, <2>4 DEF ClientStep, SameButPool, cl
  <1> QED BY <1>3, <1>4, <1>5

\* Exhausting and freeing a Cursor.
LEMMA CursorAction ==
    ASSUME ForkInv, NEW p \in Pid, NEW k \in Cur, CursorExhaust(p, k) \/ FreeCursor(p, k)
    PROVE  \E by \in Pid, m \in Mgr : Action(p, by, m)
  <1> DEFINE cu == cursor[p][k]
             m == cu.manager
             by == IF FreeCursor(p, k) \/ (cu.kind = "command" /\ cu.lsid # NULL)
                   THEN cu.created_by_pid ELSE p
  <1>1. TypeOK /\ Refs
    BY DEF ForkInv
  <1>2. cu # NULL /\ UNCHANGED <<phase, manager, server, session>>
    BY DEF CursorExhaust, FreeCursor
  <1>3. /\ m \in Mgr /\ manager[p][m] # NULL
        /\ cu.created_by_pid \in Pid /\ cu.generation \in Nat
        /\ cu.lsid \in Lsid \cup {NULL} /\ cu \in CursorRec
    BY <1>1, <1>2, ObjectTypes DEF Refs
  <1>4. by \in Pid /\ Acts(p, by, m)
    BY <1>2, <1>3 DEF Acts
  <1>5. /\ client' = [client EXCEPT ![p] = [ClientsAfter(p, by, m) EXCEPT
                        ![ClientOf(p, m)] = Return(@, cu.generation, cu.lsid)]]
        /\ pclient' = [pclient EXCEPT ![p] = PclientsAfter(p, by, m)]
    <2>1. CASE FreeCursor(p, k)
      <3>1. by = cu.created_by_pid
        BY <2>1
      <3> HIDE DEF by
      <3> QED BY ZenonT(30), <2>1, <3>1 DEF FreeCursor
    <2>2. CASE CursorExhaust(p, k) /\ ~FreeCursor(p, k)
      <3>1. by = IF cu.kind = "command" /\ cu.lsid # NULL THEN cu.created_by_pid ELSE p
        BY <2>2
      <3> HIDE DEF by
      <3> QED BY ZenonT(30), <2>2, <3>1 DEF CursorExhaust
    <2> QED BY <2>1, <2>2
  <1>6. cu.lsid # NULL => Returned(p, ClientOf(p, m), cu.generation, cu.lsid)
    BY <1>2 DEF Returned, Holder
  <1>7. /\ pclient'[p] = PclientsAfter(p, by, m)
        /\ \A d \in Client : ClientStep(p, by, m, d)
        /\ \A q \in Pid \ {p} : client'[q] = client[q] /\ pclient'[q] = pclient[q]
    <2> HIDE DEF by, m
    <2> QED BY <1>1, <1>3, <1>4, <1>5, <1>6, ReturnAction
  <1>8. /\ \A q \in Pid \ {p} : cursor'[q] = cursor[q]
        /\ \A x \in Cur : ObjectStepOf(p, by, m, cursor[p][x], cursor'[p][x])
    <2> DEFINE r == [cu EXCEPT !.open = FALSE, !.lsid = NULL, !.session = NULL]
    <2>1. cursor' = [cursor EXCEPT ![p][k] = r] \/ cursor' = [cursor EXCEPT ![p][k] = NULL]
      BY ZenonT(30) DEF CursorExhaust, FreeCursor
    <2>2. ObjectKept(cu, r)
      BY <1>2, <1>3 DEF ObjectKept, CursorRec
    <2> HIDE DEF r
    <2>3. /\ \A q \in Pid \ {p} : cursor'[q] = cursor[q]
          /\ \A x \in Cur \ {k} : cursor'[p][x] = cursor[p][x]
          /\ cursor'[p][k] = r \/ cursor'[p][k] = NULL
      BY <1>1, <2>1 DEF TypeOK
    <2> QED BY <2>2, <2>3 DEF ObjectStepOf, ObjectKept
  <1>9. \A e \in interference' : e \in interference \/ e.what # "lsid"
    BY DEF CursorExhaust, FreeCursor, Effect
  <1>10. /\ \A v \in Srv : ServerStepOf(p, m, server[p][v], server'[p][v])
         /\ \A s \in Sess : ObjectStepOf(p, by, m, session[p][s], session'[p][s])
    BY <1>2 DEF ServerStepOf, ObjectStepOf, ObjectKept
  <1>11. Action(p, by, m)
    <2>1. OthersKept(p)
      BY <1>2, <1>7, <1>8 DEF OthersKept
    <2> QED BY <1>2, <1>3, <1>4, <1>7, <1>8, <1>9, <1>10, <2>1 DEF Action
  <1> QED BY <1>3, <1>4, <1>11

\* Ending and freeing a Session.
LEMMA SessionAction ==
    ASSUME ForkInv, NEW p \in Pid, NEW s \in Sess, EndSession(p, s) \/ FreeSession(p, s)
    PROVE  \E by \in Pid, m \in Mgr : Action(p, by, m)
  <1> DEFINE se == session[p][s]
             m == se.manager
             by == IF FreeSession(p, s) THEN se.created_by_pid ELSE p
  <1>1. TypeOK /\ Refs
    BY DEF ForkInv
  <1>2. se # NULL /\ UNCHANGED <<phase, manager, server, cursor>>
    BY DEF EndSession, FreeSession
  <1>3. /\ m \in Mgr /\ manager[p][m] # NULL
        /\ se.created_by_pid \in Pid /\ se.generation \in Nat
        /\ se.lsid \in Lsid \cup {NULL} /\ se \in SessionRec
    BY <1>1, <1>2, ObjectTypes DEF Refs
  <1>4. by \in Pid /\ Acts(p, by, m)
    BY <1>2, <1>3 DEF Acts
  <1>5. /\ client' = [client EXCEPT ![p] = [ClientsAfter(p, by, m) EXCEPT
                        ![ClientOf(p, m)] = Return(@, se.generation, se.lsid)]]
        /\ pclient' = [pclient EXCEPT ![p] = PclientsAfter(p, by, m)]
    <2>1. CASE FreeSession(p, s)
      <3>1. by = se.created_by_pid
        BY <2>1
      <3> HIDE DEF by
      <3> QED BY ZenonT(30), <2>1, <3>1 DEF FreeSession
    <2>2. CASE EndSession(p, s) /\ ~FreeSession(p, s)
      <3>1. by = p
        BY <2>2
      <3> HIDE DEF by
      <3>2. ClientsAfter(p, by, m) = client[p] /\ PclientsAfter(p, by, m) = pclient[p]
        BY <1>1, <1>3, <3>1, NoReset
      <3>3. /\ pclient' = pclient
            /\ client' = [client EXCEPT ![p] = [client[p] EXCEPT
                        ![ClientOf(p, m)] = Return(@, se.generation, se.lsid)]]
        BY <2>2 DEF EndSession
      <3>4. pclient = [pclient EXCEPT ![p] = pclient[p]]
        BY <1>1 DEF TypeOK
      <3> QED BY <3>2, <3>3, <3>4
    <2> QED BY <2>1, <2>2
  <1>6. se.lsid # NULL => Returned(p, ClientOf(p, m), se.generation, se.lsid)
    BY <1>2 DEF Returned, Holder
  <1>7. /\ pclient'[p] = PclientsAfter(p, by, m)
        /\ \A d \in Client : ClientStep(p, by, m, d)
        /\ \A q \in Pid \ {p} : client'[q] = client[q] /\ pclient'[q] = pclient[q]
    <2> HIDE DEF by, m
    <2> QED BY <1>1, <1>3, <1>4, <1>5, <1>6, ReturnAction
  <1>8. /\ \A q \in Pid \ {p} : session'[q] = session[q]
        /\ \A x \in Sess : ObjectStepOf(p, by, m, session[p][x], session'[p][x])
    <2> DEFINE r == [se EXCEPT !.lsid = NULL, !.in_transaction = FALSE]
    <2>1. session' = [session EXCEPT ![p][s] = r] \/ session' = [session EXCEPT ![p][s] = NULL]
      BY ZenonT(30) DEF EndSession, FreeSession
    <2>2. ObjectKept(se, r)
      BY <1>2, <1>3 DEF ObjectKept, SessionRec
    <2> HIDE DEF r
    <2>3. /\ \A q \in Pid \ {p} : session'[q] = session[q]
          /\ \A x \in Sess \ {s} : session'[p][x] = session[p][x]
          /\ session'[p][s] = r \/ session'[p][s] = NULL
      BY <1>1, <2>1 DEF TypeOK
    <2> QED BY <2>2, <2>3 DEF ObjectStepOf, ObjectKept
  <1>9. \A e \in interference' : e \in interference \/ e.what # "lsid"
    <2>1. \A gen : \A e \in EndsTransaction(p, se, gen) : e.what = "endTransaction"
      BY DEF EndsTransaction, Effect
    <2>2. \E gen : interference' = interference \cup EndsTransaction(p, se, gen)
      BY DEF EndSession, FreeSession
    <2> QED BY <2>1, <2>2
  <1>10. /\ \A v \in Srv : ServerStepOf(p, m, server[p][v], server'[p][v])
         /\ \A k \in Cur : ObjectStepOf(p, by, m, cursor[p][k], cursor'[p][k])
    BY <1>2 DEF ServerStepOf, ObjectStepOf, ObjectKept
  <1>11. Action(p, by, m)
    <2>1. OthersKept(p)
      BY <1>2, <1>7, <1>8 DEF OthersKept
    <2> QED BY <1>2, <1>3, <1>4, <1>7, <1>8, <1>9, <1>10, <2>1 DEF Action
  <1> QED BY <1>3, <1>4, <1>11

\* Starting and finishing a transaction.
LEMMA TransactAction ==
    ASSUME ForkInv, NEW p \in Pid, NEW s \in Sess, NEW begin \in BOOLEAN, Transact(p, s, begin)
    PROVE  \E by \in Pid, m \in Mgr : Action(p, by, m)
  <1> DEFINE se == session[p][s]
             m == se.manager
             r == [se EXCEPT !.in_transaction = begin]
  <1>1. TypeOK /\ Refs
    BY DEF ForkInv
  <1>2. /\ UNCHANGED <<phase, manager, client, pclient, server, cursor>>
        /\ se # NULL /\ session' = [session EXCEPT ![p][s] = r]
        /\ \A e \in interference' : e \in interference \/ e.what # "lsid"
    BY DEF Transact, EndsTransaction, Effect
  <1>3. m \in Mgr /\ manager[p][m] # NULL /\ se \in SessionRec
    BY <1>1, <1>2, ObjectTypes DEF Refs
  <1>4. pclient'[p] = PclientsAfter(p, p, m) /\ \A c \in Client : ClientStep(p, p, m, c)
    BY <1>1, <1>2, <1>3, NoReset DEF ClientStep
  <1>5. ObjectKept(se, r)
    BY <1>2, <1>3 DEF ObjectKept, SessionRec
  <1> HIDE DEF r
  <1>6. /\ \A q \in Pid \ {p} : session'[q] = session[q]
        /\ \A x \in Sess \ {s} : session'[p][x] = session[p][x]
        /\ session'[p][s] = r
    BY <1>1, <1>2 DEF TypeOK
  <1>7. OthersKept(p)
    BY <1>2, <1>6 DEF OthersKept
  <1>8. \A x \in Sess : ObjectStepOf(p, p, m, session[p][x], session'[p][x])
    BY <1>5, <1>6 DEF ObjectStepOf, ObjectKept
  <1>9. /\ \A v \in Srv : ServerStepOf(p, m, server[p][v], server'[p][v])
        /\ \A k \in Cur : ObjectStepOf(p, p, m, cursor[p][k], cursor'[p][k])
    BY <1>2 DEF ServerStepOf, ObjectStepOf, ObjectKept
  <1>10. Action(p, p, m)
    BY <1>2, <1>3, <1>4, <1>7, <1>8, <1>9 DEF Action, Acts
  <1> QED BY <1>3, <1>10

\* Starting a session.
LEMMA StartSessionAction ==
    ASSUME ForkInv, NEW p \in Pid, NEW m \in Mgr, NEW s \in Sess, StartSession(p, m, s)
    PROVE  \E by \in Pid : Action(p, by, m)
  <1> DEFINE by == manager[p][m].created_by_pid
             c == ClientOf(p, m)
             cl == ClientsAfter(p, by, m)
  <1>1. TypeOK /\ manager[p][m] # NULL /\ phase[p] = "request"
    BY DEF ForkInv, StartSession
  <1>2. by \in Pid /\ c \in Client /\ Runs(p, by, m)
    BY <1>1, ObjectTypes DEF Runs, ClientOf
  <1>3. cl \in [Client -> ClientRec]
    BY <1>1, <1>2, ResetType
  <1>4. PICK l \in Offered(p, cl[c].pool, 0) :
             /\ client' = [client EXCEPT ![p] =
                             [cl EXCEPT ![c].pool = @ \ {l}]]
             /\ session' = [session EXCEPT ![p][s] =
                    [created_by_pid |-> p, manager |-> m,
                     generation |-> cl[c].generation, lsid |-> l,
                     in_transaction |-> FALSE]]
             /\ interference' = interference \cup Effect("lsid", l.by, p)
    BY ZenonT(30) DEF StartSession
  <1>5. /\ pclient' = [pclient EXCEPT ![p] = PclientsAfter(p, by, m)]
        /\ UNCHANGED <<phase, manager, server, cursor>>
    BY ZenonT(30) DEF StartSession
  <1> HIDE DEF cl, c, by
  <1> DEFINE P == cl[c].pool \ {l}
             f == [cl EXCEPT ![c] = [cl[c] EXCEPT !.pool = P]]
             r == [created_by_pid |-> p, manager |-> m,
                   generation |-> cl[c].generation, lsid |-> l,
                   in_transaction |-> FALSE]
  <1>6. l \in cl[c].pool \/ l.by = p
    BY <1>4, OfferedFrom
  <1>7. \A x \in P : x \in cl[c].pool
    OBVIOUS
  <1>8. client' = [client EXCEPT ![p] = f] /\ session' = [session EXCEPT ![p][s] = r]
    BY <1>4
  <1> HIDE DEF P
  <1>9. \A d \in Client : SameButPool(f[d], cl[d]) /\ \A x \in f[d].pool : x \in cl[d].pool
    <2> SUFFICES ASSUME NEW d \in Client
                 PROVE  SameButPool(f[d], cl[d]) /\ \A x \in f[d].pool : x \in cl[d].pool
      OBVIOUS
    <2>1. CASE d # c
      <3>1. f[d] = cl[d]
        BY <1>3, <2>1
      <3> QED BY <3>1 DEF SameButPool
    <2>2. CASE d = c
      <3>1. f[d] = [cl[c] EXCEPT !.pool = P] /\ cl[c] \in ClientRec
        BY <1>3, <2>2
      <3> HIDE DEF f
      <3>2. SameButPool(f[d], cl[c]) /\ f[d].pool = P
        BY <3>1, PoolOnly
      <3> QED BY <1>7, <2>2, <3>2
    <2> QED BY <2>1, <2>2
  <1> HIDE DEF f
  <1>10. ObjectNew(p, by, m, r)
    BY <1>2, <1>6 DEF ObjectNew, cl, c
  <1> HIDE DEF r
  <1>11. /\ client'[p] = f /\ pclient'[p] = PclientsAfter(p, by, m)
         /\ \A x \in Sess : session'[p][x] = session[p][x] \/ session'[p][x] = r
    BY <1>1, <1>5, <1>8 DEF TypeOK
  <1>12. OthersKept(p)
    BY <1>1, <1>5, <1>8 DEF OthersKept, TypeOK
  <1>13. \A d \in Client : ClientStep(p, by, m, d)
    BY <1>9, <1>11 DEF ClientStep, SameButPool, cl
  <1>14. \A x \in Sess : ObjectStepOf(p, by, m, session[p][x], session'[p][x])
    BY <1>10, <1>11 DEF ObjectStepOf, ObjectKept
  <1>15. ASSUME NEW e \in interference', e \notin interference
         PROVE  \E x : Sends(p, by, m, x) /\ e.owner = x.by /\ e.owner # p
    <2>1. e.owner = l.by /\ l.by # p
      BY <1>4, <1>15 DEF Effect
    <2>2. Sends(p, by, m, l)
      BY <1>2, <1>6 DEF Sends, cl, c
    <2> QED BY <2>1, <2>2
  <1>16. /\ \A v \in Srv : ServerStepOf(p, m, server[p][v], server'[p][v])
         /\ \A k \in Cur : ObjectStepOf(p, by, m, cursor[p][k], cursor'[p][k])
    BY <1>5 DEF ServerStepOf, ObjectStepOf, ObjectKept
  <1>17. Action(p, by, m)
    BY <1>1, <1>2, <1>5, <1>11, <1>12, <1>13, <1>14, <1>15, <1>16 DEF Action, Acts
  <1> QED BY <1>2, <1>17

\* Every step is an Action, constructs or frees a Manager, enters another
\* phase or destroys a client during shutdown, or is a fork.
LEMMA StepCases ==
    ASSUME ForkInv, [Next]_vars
    PROVE  \/ UNCHANGED vars
           \/ \E p \in Pid :
                \/ \E by \in Pid, m \in Mgr : Action(p, by, m)
                \/ \E o \in Opts : ConstructRejected(p, o)
                \/ \E m \in Mgr, o \in Opts, persistent \in BOOLEAN, kv \in Mgr \cup {NULL} :
                      Construct(p, m, o, persistent, kv)
                \/ \E m \in Mgr : FreeManager(p, m)
                \/ ShutdownStep(p)
                \/ \E q \in Pid : Fork(p, q)
  <1>1. ASSUME NEW p \in Pid, ManagerStep(p)
        PROVE  \/ \E by \in Pid, m \in Mgr : Action(p, by, m)
               \/ \E o \in Opts : ConstructRejected(p, o)
               \/ \E m \in Mgr, o \in Opts, persistent \in BOOLEAN, kv \in Mgr \cup {NULL} :
                      Construct(p, m, o, persistent, kv)
               \/ \E m \in Mgr : FreeManager(p, m)
    BY <1>1, ServerAction, StartSessionAction DEF ManagerStep
  <1>2. ASSUME NEW p \in Pid, ObjectStep(p)
        PROVE  \E by \in Pid, m \in Mgr : Action(p, by, m)
    BY <1>2, ServerAction, CursorAction, TransactAction, SessionAction DEF ObjectStep
  <1> QED BY <1>1, <1>2, ExecuteAction DEF Next

-------------------------------------------------------------------------------
(* What each kind of step does to the clients and the registries *)

\* An Action keeps what identifies a client and its registration.
LEMMA ActionKeeps ==
    ASSUME ForkInv, NEW p \in Pid, NEW by \in Pid, NEW m \in Mgr, Action(p, by, m)
    PROVE  \A q \in Pid, c \in Client :
             /\ client'[q][c].st = client[q][c].st
             /\ client'[q][c].owner = client[q][c].owner
             /\ client'[q][c].key_vault = client[q][c].key_vault
             /\ pclient'[q][c] # NULL <=> pclient[q][c] # NULL
             /\ pclient[q][c] # NULL =>
                  /\ pclient'[q][c].is_persistent = pclient[q][c].is_persistent
                  /\ \/ pclient'[q][c].last_reset_by_pid = pclient[q][c].last_reset_by_pid
                     \/ q = p /\ pclient'[q][c].last_reset_by_pid = p
  <1> SUFFICES ASSUME NEW c \in Client
               PROVE  /\ client'[p][c].st = client[p][c].st
                      /\ client'[p][c].owner = client[p][c].owner
                      /\ client'[p][c].key_vault = client[p][c].key_vault
                      /\ pclient'[p][c] # NULL <=> pclient[p][c] # NULL
                      /\ pclient[p][c] # NULL =>
                           /\ pclient'[p][c].is_persistent = pclient[p][c].is_persistent
                           /\ \/ pclient'[p][c].last_reset_by_pid = pclient[p][c].last_reset_by_pid
                              \/ pclient'[p][c].last_reset_by_pid = p
    BY DEF Action, OthersKept
  <1>1. TypeOK /\ client[p][c] \in ClientRec
    BY ObjectTypes DEF ForkInv
  <1>2. ClientStep(p, by, m, c) /\ pclient'[p] = PclientsAfter(p, by, m)
    BY DEF Action
  <1>3. ClientsAfter(p, by, m)[c].key_vault = client[p][c].key_vault
    <2>1. ResetClient(client[p][c]).key_vault = client[p][c].key_vault
      BY <1>1 DEF ResetClient, ClientRec
    <2> QED BY <2>1 DEF ClientsAfter
  <1> QED BY <1>1, <1>2, <1>3, ResetKeeps DEF ClientStep

\* Destroying a registered client.
LEMMA DestroyFacts ==
    ASSUME TypeOK, NEW p \in Pid, NEW c \in Client, DestroyPclient(p, c)
    PROVE  /\ \A q \in Pid, d \in Client : q # p \/ d # c =>
                 client'[q][d] = client[q][d] /\ pclient'[q][d] = pclient[q][d]
           /\ pclient'[p][c] = NULL
           /\ client'[p][c].st = IF MayDestroy(p, c) THEN "destroyed" ELSE client[p][c].st
           /\ client'[p][c].owner = client[p][c].owner
           /\ client'[p][c].pool = client[p][c].pool
           /\ client'[p][c].generation = client[p][c].generation
           /\ client'[p][c].key_vault = client[p][c].key_vault
           /\ \A e \in interference' : e \in interference \/ e.what # "lsid"
  <1> DEFINE r == [client[p][c] EXCEPT !.st = "destroyed"]
  <1>1. client[p][c] \in ClientRec
    BY ObjectTypes
  <1>2. /\ r.st = "destroyed" /\ r.owner = client[p][c].owner /\ r.pool = client[p][c].pool
        /\ r.generation = client[p][c].generation /\ r.key_vault = client[p][c].key_vault
    BY <1>1 DEF ClientRec
  <1>3. IF MayDestroy(p, c) THEN client' = [client EXCEPT ![p][c] = r] ELSE client' = client
    BY DEF DestroyPclient
  <1> HIDE DEF r
  <1>4. /\ \A q \in Pid, d \in Client : q # p \/ d # c =>
                 client'[q][d] = client[q][d] /\ pclient'[q][d] = pclient[q][d]
        /\ pclient'[p][c] = NULL
        /\ client'[p][c] = IF MayDestroy(p, c) THEN r ELSE client[p][c]
    BY <1>3 DEF DestroyPclient, TypeOK
  <1>5. \A e \in interference' : e \in interference \/ e.what # "lsid"
    BY DEF DestroyPclient, Effect
  <1> QED BY <1>2, <1>4, <1>5

\* The steps of a shutdown.
PhaseStep(p, from, to) ==
    /\ phase[p] = from /\ phase'[p] = to /\ \A q \in Pid \ {p} : phase'[q] = phase[q]
    /\ UNCHANGED <<client, pclient, interference>>

DestroyStep(p, c) ==
    /\ UNCHANGED phase /\ pclient[p][c] # NULL /\ DestroyPclient(p, c)
    /\ \/ /\ phase[p] = "rshutdown" /\ ~pclient[p][c].is_persistent
          /\ \A d \in RequestClients(p) : c <= d
       \/ /\ phase[p] = "gshutdown" /\ pclient[p][c].is_persistent
          /\ \A d \in PersistentClients(p) : d <= c

LEMMA ShutdownCases ==
    ASSUME TypeOK, NEW p \in Pid, ShutdownStep(p)
    PROVE  /\ UNCHANGED <<manager, server, session, cursor>>
           /\ \/ /\ PhaseStep(p, "request", "rshutdown")
                 /\ NoObjects(p) \/ "leftover_objects" \in Habits
              \/ PhaseStep(p, "rshutdown", "deactivated") /\ RequestClients(p) = {}
              \/ PhaseStep(p, "deactivated", "crashed")
              \/ PhaseStep(p, "deactivated", "idle")
              \/ PhaseStep(p, "idle", "request")
              \/ PhaseStep(p, "idle", "gshutdown")
              \/ PhaseStep(p, "gshutdown", "exited") /\ PersistentClients(p) = {}
              \/ \E c \in Client : DestroyStep(p, c)
  <1>1. ASSUME NEW from, NEW to, EnterPhase(p, from, to)
        PROVE  PhaseStep(p, from, to) /\ UNCHANGED <<manager, server, session, cursor>>
    BY <1>1 DEF EnterPhase, PhaseStep, objectVars, TypeOK
  <1>2. CASE RshutdownDestroy(p) \/ GshutdownDestroy(p)
    <2>1. UNCHANGED <<manager, server, session, cursor>> /\ UNCHANGED phase
      BY <1>2 DEF RshutdownDestroy, GshutdownDestroy, objectVars
    <2>2. \E c \in Client : DestroyStep(p, c)
      BY <1>2, <2>1 DEF RshutdownDestroy, GshutdownDestroy, DestroyStep, RequestClients,
                        PersistentClients
    <2> QED BY <2>1, <2>2
  <1>3. CASE Rshutdown(p)
    BY <1>1, <1>3 DEF Rshutdown
  <1>4. CASE RshutdownDone(p)
    BY <1>1, <1>4 DEF RshutdownDone
  <1>5. CASE FreeAfterRshutdown(p)
    <2>1. EnterPhase(p, "deactivated", "crashed")
      BY <1>5 DEF FreeAfterRshutdown, CrashingFree
    <2> QED BY <1>1, <2>1
  <1>6. CASE Deactivated(p)
    BY <1>1, <1>6 DEF Deactivated
  <1>7. CASE Rinit(p)
    BY <1>1, <1>7 DEF Rinit
  <1>8. CASE Gshutdown(p)
    BY <1>1, <1>8 DEF Gshutdown
  <1>9. CASE GshutdownDone(p)
    BY <1>1, <1>9 DEF GshutdownDone
  <1> QED BY <1>2, <1>3, <1>4, <1>5, <1>6, <1>7, <1>8, <1>9 DEF ShutdownStep

\* The two ways of constructing Manager m, with client c.
CachedImage(p, m, c, kv) ==
    /\ manager'[p][m].client = c
    /\ UNCHANGED <<client, pclient>>
    /\ pclient[p][c] # NULL /\ pclient[p][c].is_persistent
    /\ pclient[p][c].created_by_pid = p
    /\ client[p][c].key_vault = KeyVaultClientOf(p, kv)
    /\ manager'[p][m].use_persistent_client
    /\ manager'[p][m].key_vault_client_manager = NULL
    /\ "keyvault_cached" \notin Habits => kv = NULL

NewImage(p, m, c, kv) ==
    /\ manager'[p][m].client = c
    /\ client[p][c].st = "none" /\ \A d \in Client : d < c => client[p][d].st # "none"
    /\ \A q \in Pid, d \in Client : q # p \/ d # c =>
          client'[q][d] = client[q][d] /\ pclient'[q][d] = pclient[q][d]
    /\ client'[p][c].st = "live" /\ client'[p][c].owner = p
    /\ client'[p][c].generation = 0 /\ client'[p][c].pool = {}
    /\ client'[p][c].key_vault = KeyVaultClientOf(p, kv)
    /\ pclient'[p][c] # NULL /\ pclient'[p][c].last_reset_by_pid = NULL
    /\ pclient'[p][c].is_persistent = manager'[p][m].use_persistent_client
    /\ manager'[p][m].key_vault_client_manager = kv
    /\ kv # NULL => manager[p][kv].use_persistent_client = manager'[p][m].use_persistent_client

Constructed(p, m, kv) ==
    /\ UNCHANGED <<phase, server, session, cursor, interference>>
    /\ phase[p] = "request" /\ manager[p][m] = NULL /\ manager'[p][m] # NULL
    /\ kv # NULL => /\ kv \in Mgr /\ manager[p][kv] # NULL
                    /\ "keyvault_inherited" \in Habits \/ manager[p][kv].created_by_pid = p
    /\ \A q \in Pid, x \in Mgr : q # p \/ x # m => manager'[q][x] = manager[q][x]
    /\ manager'[p][m].created_by_pid = p
    /\ \E c \in Client : \/ CachedImage(p, m, c, kv)
                          \/ NewImage(p, m, c, kv)

LEMMA ConstructCases ==
    ASSUME TypeOK, NEW p \in Pid, NEW m \in Mgr, NEW o \in Opts,
           NEW persistent \in BOOLEAN, NEW kv \in Mgr \cup {NULL},
           Construct(p, m, o, persistent, kv)
    PROVE  Constructed(p, m, kv)
  <1>1. /\ UNCHANGED <<phase, server, session, cursor, interference>>
        /\ phase[p] = "request" /\ manager[p][m] = NULL
        /\ kv # NULL => /\ kv \in Mgr /\ manager[p][kv] # NULL
                        /\ "keyvault_inherited" \in Habits \/ manager[p][kv].created_by_pid = p
    BY DEF Construct
  <1>2. ASSUME NEW c \in Client, NEW use \in BOOLEAN, NEW x \in Mgr \cup {NULL},
               manager' = [manager EXCEPT ![p][m] =
                        [created_by_pid |-> p, client |-> c,
                         use_persistent_client |-> use,
                         key_vault_client_manager |-> x]]
        PROVE  /\ manager'[p][m] # NULL /\ manager'[p][m].client = c
               /\ manager'[p][m].created_by_pid = p
               /\ manager'[p][m].use_persistent_client = use
               /\ manager'[p][m].key_vault_client_manager = x
               /\ \A q \in Pid, y \in Mgr : q # p \/ y # m => manager'[q][y] = manager[q][y]
    <2> DEFINE r == [created_by_pid |-> p, client |-> c, use_persistent_client |-> use,
                     key_vault_client_manager |-> x]
    <2>1. r \in ManagerRec
      BY DEF ManagerRec
    <2>2. r # NULL
      BY <2>1, NullRecordAssumption
    <2>3. /\ r.client = c /\ r.created_by_pid = p /\ r.use_persistent_client = use
          /\ r.key_vault_client_manager = x
      OBVIOUS
    <2>4. manager' = [manager EXCEPT ![p][m] = r]
      BY <1>2
    <2> HIDE DEF r
    <2>5. /\ manager'[p][m] = r
          /\ \A q \in Pid, y \in Mgr : q # p \/ y # m => manager'[q][y] = manager[q][y]
      BY <2>4 DEF TypeOK
    <2> QED BY <2>2, <2>3, <2>5
  <1>3. ASSUME persistent, ConstructCached(p, m, o, kv)
        PROVE  /\ manager'[p][m] # NULL
               /\ \A q \in Pid, y \in Mgr : q # p \/ y # m => manager'[q][y] = manager[q][y]
               /\ manager'[p][m].created_by_pid = p
               /\ \E c \in Client : CachedImage(p, m, c, kv)
    <2>1. PICK c \in FindPersistent(p, o, KeyVaultClientOf(p, kv)) :
              manager' = [manager EXCEPT ![p][m] =
                        [created_by_pid |-> p, client |-> c,
                         use_persistent_client |-> TRUE,
                         key_vault_client_manager |-> NULL]]
      BY ZenonT(30), <1>3 DEF ConstructCached
    <2>2. /\ c \in Client /\ pclient[p][c] # NULL /\ pclient[p][c].is_persistent
          /\ pclient[p][c].created_by_pid = p
          /\ client[p][c].key_vault = KeyVaultClientOf(p, kv)
      BY DEF FindPersistent
    <2>3. "keyvault_cached" \notin Habits => kv = NULL
      <3>1. kv # NULL /\ "keyvault_cached" \notin Habits => FindPersistent(p, o, ClientOf(p, kv)) = {}
        BY <1>3 DEF Construct
      <3> QED BY <2>1, <3>1 DEF KeyVaultClientOf
    <2>4. UNCHANGED <<client, pclient>>
      BY <1>3 DEF ConstructCached
    <2> DEFINE yes == TRUE
    <2>5. yes \in BOOLEAN /\ manager' = [manager EXCEPT ![p][m] =
                        [created_by_pid |-> p, client |-> c,
                         use_persistent_client |-> yes,
                         key_vault_client_manager |-> NULL]]
      BY <2>1
    <2>6. yes
      OBVIOUS
    <2> HIDE DEF yes
    <2>7. /\ manager'[p][m] # NULL /\ manager'[p][m].client = c
          /\ manager'[p][m].created_by_pid = p
          /\ manager'[p][m].use_persistent_client = yes
          /\ manager'[p][m].key_vault_client_manager = NULL
          /\ \A q \in Pid, y \in Mgr : q # p \/ y # m => manager'[q][y] = manager[q][y]
      BY <1>2, <2>2, <2>5
    <2> QED BY <2>2, <2>3, <2>4, <2>6, <2>7 DEF CachedImage
  <1>4. ASSUME ConstructNew(p, m, o, persistent, kv)
        PROVE  /\ manager'[p][m] # NULL
               /\ \A q \in Pid, y \in Mgr : q # p \/ y # m => manager'[q][y] = manager[q][y]
               /\ manager'[p][m].created_by_pid = p
               /\ \E c \in Client : NewImage(p, m, c, kv)
    <2> DEFINE nc == [st |-> "live", owner |-> p, generation |-> 0, pool |-> {},
                      opts |-> o, key_vault |-> KeyVaultClientOf(p, kv)]
               npc == [created_by_pid |-> p, last_reset_by_pid |-> NULL,
                       is_persistent |-> persistent]
    <2>1. PICK c \in Client :
            /\ NewClient(p, c, o, kv)
            /\ pclient' = [pclient EXCEPT ![p][c] = npc]
            /\ manager' = [manager EXCEPT ![p][m] =
                  [created_by_pid |-> p, client |-> c,
                   use_persistent_client |-> persistent,
                   key_vault_client_manager |-> kv]]
      BY ZenonT(30), <1>4 DEF ConstructNew
    <2>2. /\ client[p][c].st = "none" /\ \A d \in Client : d < c => client[p][d].st # "none"
          /\ client' = [client EXCEPT ![p][c] = nc]
      BY <2>1 DEF NewClient
    <2>3. npc \in PclientRec
      BY DEF PclientRec
    <2>4. npc # NULL /\ npc.last_reset_by_pid = NULL /\ npc.is_persistent = persistent
      BY <2>3, NullRecordAssumption
    <2>5. /\ nc.st = "live" /\ nc.owner = p /\ nc.generation = 0 /\ nc.pool = {}
          /\ nc.key_vault = KeyVaultClientOf(p, kv)
      OBVIOUS
    <2> HIDE DEF nc, npc
    <2>6. /\ client'[p][c] = nc /\ pclient'[p][c] = npc
          /\ \A q \in Pid, d \in Client : q # p \/ d # c =>
               client'[q][d] = client[q][d] /\ pclient'[q][d] = pclient[q][d]
      BY <2>1, <2>2 DEF TypeOK
    <2>7. /\ manager'[p][m] # NULL /\ manager'[p][m].client = c
          /\ manager'[p][m].created_by_pid = p
          /\ manager'[p][m].use_persistent_client = persistent
          /\ manager'[p][m].key_vault_client_manager = kv
          /\ \A q \in Pid, y \in Mgr : q # p \/ y # m => manager'[q][y] = manager[q][y]
      BY <1>2, <2>1
    <2>8. kv # NULL => manager[p][kv].use_persistent_client = persistent
      BY <1>4 DEF ConstructNew
    <2>9. NewImage(p, m, c, kv)
      BY <2>2, <2>4, <2>5, <2>6, <2>7, <2>8 DEF NewImage
    <2> QED BY <2>7, <2>9
  <1> QED BY <1>1, <1>3, <1>4 DEF Construct, Constructed

\* Freeing a Manager, and with it the client of a request-scoped one.
LEMMA FreeManagerCases ==
    ASSUME ForkInv, NEW p \in Pid, NEW m \in Mgr, FreeManager(p, m)
    PROVE  /\ UNCHANGED <<phase, server, session, cursor>>
           /\ manager[p][m] # NULL /\ manager'[p][m] = NULL /\ ~Referenced(p, m)
           /\ \A q \in Pid, x \in Mgr : q # p \/ x # m => manager'[q][x] = manager[q][x]
           /\ \/ /\ UNCHANGED <<client, pclient, interference>>
                 /\ manager[p][m].use_persistent_client \/ phase[p] = "deactivated"
              \/ \E c \in Client : /\ c = ClientOf(p, m) /\ phase[p] = "request"
                                    /\ ~manager[p][m].use_persistent_client
                                    /\ pclient[p][c] # NULL /\ ~pclient[p][c].is_persistent
                                    /\ DestroyPclient(p, c)
  <1>1. TypeOK /\ Registered
    BY DEF ForkInv
  <1>2. /\ UNCHANGED <<phase, server, session, cursor>>
        /\ manager[p][m] # NULL /\ ~Referenced(p, m)
        /\ phase[p] \in {"request", "deactivated"}
        /\ manager' = [manager EXCEPT ![p][m] = NULL]
    BY DEF FreeManager
  <1>3. /\ manager'[p][m] = NULL
        /\ \A q \in Pid, x \in Mgr : q # p \/ x # m => manager'[q][x] = manager[q][x]
    BY <1>1, <1>2 DEF TypeOK
  <1>4. CASE manager[p][m].use_persistent_client \/ phase[p] = "deactivated"
    BY <1>2, <1>3, <1>4 DEF FreeManager
  <1>5. CASE ~(manager[p][m].use_persistent_client \/ phase[p] = "deactivated")
    <2> DEFINE c == ClientOf(p, m)
    <2>1. c \in Client /\ phase[p] = "request" /\ DestroyPclient(p, c)
      BY <1>1, <1>2, <1>5, ObjectTypes DEF FreeManager, ClientOf
    <2>2. pclient[p][c] # NULL /\ ~pclient[p][c].is_persistent
      BY <1>1, <1>2, <1>5, <2>1 DEF Registered
    <2> QED BY <1>2, <1>3, <1>5, <2>1, <2>2
  <1> QED BY <1>4, <1>5

\* The child's image is a copy; all others are kept.
Source(p, q, r) == IF r = q THEN p ELSE r

LEMMA ForkCases ==
    ASSUME TypeOK, NEW p \in Pid, NEW q \in Pid, Fork(p, q)
    PROVE  /\ phase[p] = "request" /\ phase[q] = "unborn" /\ interference' = interference
           /\ \A r \in Pid : LET src == Source(p, q, r)
                              IN  /\ src \in Pid /\ phase'[r] = phase[src]
                                  /\ manager'[r] = manager[src] /\ client'[r] = client[src]
                                  /\ pclient'[r] = pclient[src] /\ server'[r] = server[src]
                                  /\ session'[r] = session[src] /\ cursor'[r] = cursor[src]
           /\ \A r \in Pid : phase[r] # "unborn" => phase'[r] # "unborn"
  BY DEF Fork, TypeOK, Source

\* A constructor that fails leaves one more client, and nothing that uses it.
LEMMA RejectedCases ==
    ASSUME TypeOK, NEW p \in Pid, NEW o \in Opts, ConstructRejected(p, o)
    PROVE  /\ UNCHANGED <<phase, manager, pclient, server, session, cursor, interference>>
           /\ "rejected_options" \in Habits /\ phase[p] = "request"
           /\ \E c \in Client :
                /\ client[p][c].st = "none" /\ \A d \in Client : d < c => client[p][d].st # "none"
                /\ \A q \in Pid, d \in Client : q # p \/ d # c => client'[q][d] = client[q][d]
                /\ client'[p][c].st = "live" /\ client'[p][c].owner = p
                /\ client'[p][c].pool = {} /\ client'[p][c].key_vault = NULL
  <1> DEFINE nc == [st |-> "live", owner |-> p, generation |-> 0, pool |-> {},
                    opts |-> o, key_vault |-> KeyVaultClientOf(p, NULL)]
  <1>1. PICK c \in Client : /\ client[p][c].st = "none"
                            /\ \A d \in Client : d < c => client[p][d].st # "none"
                            /\ client' = [client EXCEPT ![p][c] = nc]
    BY ZenonT(30) DEF ConstructRejected, NewClient
  <1>2. nc.st = "live" /\ nc.owner = p /\ nc.pool = {} /\ nc.key_vault = NULL
    BY DEF KeyVaultClientOf
  <1> HIDE DEF nc
  <1>3. /\ client'[p][c] = nc
        /\ \A q \in Pid, d \in Client : q # p \/ d # c => client'[q][d] = client[q][d]
    BY <1>1 DEF TypeOK
  <1> QED BY <1>1, <1>2, <1>3 DEF ConstructRejected

-------------------------------------------------------------------------------
(* An orderly exit *)

\* Only processes that exist have created clients.
OwnerBorn ==
    \A p \in Pid, c \in Client, q \in Pid : client[p][c].owner = q => phase[q] # "unborn"

\* An own client is registered until it is destroyed.
Kept ==
    \A p \in Pid, c \in Client :
        client[p][c].owner = p /\ client[p][c].st # "destroyed" => pclient[p][c] # NULL

\* After RSHUTDOWN only persistent clients are registered, and after GSHUTDOWN
\* none is.
Emptied ==
    \A p \in Pid, c \in Client : pclient[p][c] # NULL =>
        /\ phase[p] \in {"deactivated", "idle", "gshutdown"} => pclient[p][c].is_persistent
        /\ phase[p] # "exited"

ExitInv == OwnerBorn /\ Kept /\ Emptied

LEMMA ExitStep ==
    ASSUME "rejected_options" \notin Habits, ForkInv, ExitInv, [Next]_vars
    PROVE  ExitInv'
  <1>1. TypeOK /\ Owners
    BY DEF ForkInv
  <1>2. CASE UNCHANGED vars
    BY <1>2 DEF vars, ExitInv, OwnerBorn, Kept, Emptied
  <1>3. ASSUME NEW p \in Pid, NEW by \in Pid, NEW m \in Mgr, Action(p, by, m)
        PROVE  ExitInv'
    <2>1. phase' = phase
      BY <1>3 DEF Action
    <2> QED BY <1>3, <2>1, ActionKeeps DEF ExitInv, OwnerBorn, Kept, Emptied
  <1>4. ASSUME NEW p \in Pid, NEW m \in Mgr, NEW o \in Opts, NEW persistent \in BOOLEAN,
               NEW kv \in Mgr \cup {NULL}, Construct(p, m, o, persistent, kv)
        PROVE  ExitInv'
    <2>1. phase' = phase /\ phase[p] = "request"
      BY <1>1, <1>4, ConstructCases DEF Constructed
    <2>2. \/ UNCHANGED <<client, pclient>>
          \/ \E c \in Client :
               /\ \A q \in Pid, d \in Client : q # p \/ d # c =>
                    client'[q][d] = client[q][d] /\ pclient'[q][d] = pclient[q][d]
               /\ client'[p][c].owner = p /\ pclient'[p][c] # NULL
      BY <1>1, <1>4, ConstructCases DEF Constructed, CachedImage, NewImage
    <2> QED BY <2>1, <2>2 DEF ExitInv, OwnerBorn, Kept, Emptied
  <1>5. ASSUME NEW p \in Pid, NEW c \in Client, DestroyPclient(p, c), phase' = phase,
               pclient[p][c] # NULL
        PROVE  ExitInv'
    <2>1. /\ \A q \in Pid, d \in Client : q # p \/ d # c =>
                 client'[q][d] = client[q][d] /\ pclient'[q][d] = pclient[q][d]
          /\ pclient'[p][c] = NULL
          /\ client'[p][c].st = IF MayDestroy(p, c) THEN "destroyed" ELSE client[p][c].st
          /\ client'[p][c].owner = client[p][c].owner
      BY <1>1, <1>5, DestroyFacts
    <2>2. client[p][c].owner = p => MayDestroy(p, c)
      BY <1>1, <1>5 DEF Owners, MayDestroy
    <2> QED BY <1>5, <2>1, <2>2 DEF ExitInv, OwnerBorn, Kept, Emptied
  <1>6. ASSUME NEW p \in Pid, NEW m \in Mgr, FreeManager(p, m)
        PROVE  ExitInv'
    <2>1. phase' = phase
      BY <1>6, FreeManagerCases
    <2>2. CASE UNCHANGED <<client, pclient, interference>>
      BY <2>1, <2>2 DEF ExitInv, OwnerBorn, Kept, Emptied
    <2>3. CASE \E c \in Client : pclient[p][c] # NULL /\ DestroyPclient(p, c)
      BY <1>5, <2>1, <2>3
    <2> QED BY <1>6, <2>2, <2>3, FreeManagerCases
  <1>7. ASSUME NEW p \in Pid, ShutdownStep(p)
        PROVE  ExitInv'
    <2>1. ASSUME NEW from, NEW to, from # "unborn", to # "unborn", PhaseStep(p, from, to),
                 to = "exited" => PersistentClients(p) = {} /\ from = "gshutdown",
                 to \in {"deactivated", "idle", "gshutdown"} =>
                    RequestClients(p) = {} \/ from \in {"deactivated", "idle"}
          PROVE  ExitInv'
      <3>1. UNCHANGED <<client, pclient>> /\ \A q \in Pid : phase'[q] # "unborn" \/ phase[q] = "unborn"
        BY <2>1 DEF PhaseStep
      <3>2. \A q \in Pid, c \in Client : pclient[q][c] # NULL =>
               /\ phase'[q] \in {"deactivated", "idle", "gshutdown"} => pclient[q][c].is_persistent
               /\ phase'[q] # "exited"
        <4>1. ASSUME NEW c \in Client, pclient[p][c] # NULL
              PROVE  /\ to \in {"deactivated", "idle", "gshutdown"} => pclient[p][c].is_persistent
                     /\ to # "exited"
          BY <2>1, <4>1 DEF PhaseStep, ExitInv, Emptied, RequestClients, PersistentClients
        <4> QED BY <2>1, <4>1 DEF PhaseStep, ExitInv, Emptied
      <3> QED BY <3>1, <3>2 DEF ExitInv, OwnerBorn, Kept, Emptied
    <2>2. ASSUME NEW c \in Client, DestroyStep(p, c)
          PROVE  ExitInv'
      BY <1>5, <2>2 DEF DestroyStep
    <2> QED BY <1>1, <1>7, <2>1, <2>2, ShutdownCases
  <1>8. ASSUME NEW p \in Pid, NEW q \in Pid, Fork(p, q)
        PROVE  ExitInv'
    <2>1. /\ phase[p] = "request" /\ phase[q] = "unborn"
          /\ \A r \in Pid : /\ Source(p, q, r) \in Pid
                             /\ phase'[r] = phase[Source(p, q, r)]
                             /\ client'[r] = client[Source(p, q, r)]
                             /\ pclient'[r] = pclient[Source(p, q, r)]
          /\ \A r \in Pid : phase[r] # "unborn" => phase'[r] # "unborn"
      BY <1>1, <1>8, ForkCases
    <2>2. \A c \in Client : client[p][c].owner # q
      BY <2>1 DEF ExitInv, OwnerBorn
    <2> QED BY <2>1, <2>2 DEF Source, ExitInv, OwnerBorn, Kept, Emptied
  <1>9. ~ \E p \in Pid, o \in Opts : ConstructRejected(p, o)
    BY DEF ConstructRejected
  <1> QED BY <1>2, <1>3, <1>4, <1>6, <1>7, <1>8, <1>9, StepCases

\* A process that shuts down in order has closed every client that it created
\* (Manager free_object, RSHUTDOWN and GSHUTDOWN), whatever was left alive at
\* the end of its requests, unless a constructor failed between creating its
\* client and registering it.
THEOREM ExitsAreClean ==
    ASSUME "rejected_options" \notin Habits
    PROVE  Spec => []ExitClosesOwnClients
  <1>1. Init => ExitInv
    BY NullAssumption DEF Init, ExitInv, OwnerBorn, Kept, Emptied
  <1>2. ForkInv /\ ExitInv /\ [Next]_vars => ExitInv'
    BY ExitStep
  <1>3. ExitInv => ExitClosesOwnClients
    BY DEF ExitInv, Kept, Emptied, ExitClosesOwnClients
  <1> QED BY <1>1, <1>2, <1>3, Invariant, PTL DEF Spec

-------------------------------------------------------------------------------
(* Key vault clients *)

\* A step of process p, other than a fork, keeps the images of the others.
LEMMA OtherImages ==
    ASSUME TypeOK, NEW p \in Pid,
           \/ \E by \in Pid, m \in Mgr : Action(p, by, m)
           \/ \E o \in Opts : ConstructRejected(p, o)
           \/ \E m \in Mgr, o \in Opts, persistent \in BOOLEAN, kv \in Mgr \cup {NULL} :
                 Construct(p, m, o, persistent, kv)
           \/ \E m \in Mgr : FreeManager(p, m)
           \/ ShutdownStep(p)
    PROVE  /\ OthersKept(p)
           /\ \A q \in Pid \ {p} : manager'[q] = manager[q] /\ phase'[q] = phase[q]
  <1>1. ASSUME NEW c \in Client, DestroyPclient(p, c)
        PROVE  \A q \in Pid \ {p} : client'[q] = client[q] /\ pclient'[q] = pclient[q]
    BY <1>1 DEF DestroyPclient, TypeOK
  <1>2. ASSUME NEW by \in Pid, NEW m \in Mgr, Action(p, by, m)
        PROVE  OthersKept(p) /\ UNCHANGED <<manager, phase>>
    BY <1>2 DEF Action
  <1>3. ASSUME NEW o \in Opts, ConstructRejected(p, o)
        PROVE  OthersKept(p) /\ UNCHANGED <<manager, phase>>
    BY <1>3 DEF ConstructRejected, NewClient, OthersKept, TypeOK
  <1>4. ASSUME NEW m \in Mgr, NEW o \in Opts, NEW persistent \in BOOLEAN,
               NEW kv \in Mgr \cup {NULL}, Construct(p, m, o, persistent, kv)
        PROVE  OthersKept(p) /\ \A q \in Pid \ {p} : manager'[q] = manager[q] /\ phase'[q] = phase[q]
    <2>1. UNCHANGED <<phase, server, session, cursor>>
      BY <1>4 DEF Construct
    <2>2. \A q \in Pid \ {p} :
            manager'[q] = manager[q] /\ client'[q] = client[q] /\ pclient'[q] = pclient[q]
      BY <1>4 DEF Construct, ConstructCached, ConstructNew, NewClient, TypeOK
    <2> QED BY <2>1, <2>2 DEF OthersKept
  <1>5. ASSUME NEW m \in Mgr, FreeManager(p, m)
        PROVE  OthersKept(p) /\ \A q \in Pid \ {p} : manager'[q] = manager[q] /\ phase'[q] = phase[q]
    <2>1. /\ UNCHANGED <<phase, server, session, cursor>>
          /\ ClientOf(p, m) \in Client
          /\ \A q \in Pid \ {p} : manager'[q] = manager[q]
      BY <1>5, ObjectTypes DEF FreeManager, TypeOK, ClientOf
    <2>2. UNCHANGED <<client, pclient>> \/ DestroyPclient(p, ClientOf(p, m))
      BY <1>5 DEF FreeManager
    <2> QED BY <1>1, <2>1, <2>2 DEF OthersKept
  <1>6. ASSUME ShutdownStep(p)
        PROVE  OthersKept(p) /\ \A q \in Pid \ {p} : manager'[q] = manager[q] /\ phase'[q] = phase[q]
    <2>1. UNCHANGED <<manager, server, session, cursor>>
      BY <1>6, ShutdownCases
    <2>2. ASSUME NEW from, NEW to, PhaseStep(p, from, to)
          PROVE  /\ UNCHANGED <<client, pclient>>
                 /\ \A q \in Pid \ {p} : phase'[q] = phase[q]
      BY <2>2 DEF PhaseStep
    <2>3. \A q \in Pid \ {p} :
            /\ client'[q] = client[q] /\ pclient'[q] = pclient[q] /\ phase'[q] = phase[q]
      BY <1>1, <1>6, <2>2, ShutdownCases DEF DestroyStep
    <2> QED BY <2>1, <2>3 DEF OthersKept
  <1> QED BY <1>2, <1>3, <1>4, <1>5, <1>6

\* Between requests there are no Managers; registered clients are alive;
\* clients are numbered in the order in which they are created.
Orderly(ph, mg, cl, pc) ==
    /\ ph # "request" => \A m \in Mgr : mg[m] = NULL
    /\ \A c \in Client : pc[c] # NULL => cl[c].st = "live"
    /\ \A c \in Client, d \in Client : d < c /\ cl[c].st # "none" => cl[d].st # "none"

\* A registered client's key vault client is older, registered, and of the
\* same registry.
VaultsRegistered(cl, pc) ==
    \A c \in Client : pc[c] # NULL /\ cl[c].key_vault # NULL =>
        /\ cl[c].key_vault < c /\ pc[cl[c].key_vault] # NULL
        /\ pc[cl[c].key_vault].is_persistent = pc[c].is_persistent

\* A request-scoped client belongs to a Manager, which holds a reference to
\* the Manager of the key vault client.
HeldBy(mg, cl, c, m) ==
    /\ mg[m] # NULL /\ mg[m].client = c
    /\ cl[c].key_vault # NULL =>
          LET x == mg[m].key_vault_client_manager
          IN  x \in Mgr /\ mg[x] # NULL /\ mg[x].client = cl[c].key_vault

VaultsHeld(mg, cl, pc) ==
    \A c \in Client : pc[c] # NULL /\ ~pc[c].is_persistent => \E m \in Mgr : HeldBy(mg, cl, c, m)

VaultImage(ph, mg, cl, pc) ==
    Orderly(ph, mg, cl, pc) /\ VaultsRegistered(cl, pc) /\ VaultsHeld(mg, cl, pc)

VaultInv == \A p \in Pid : VaultImage(phase[p], manager[p], client[p], pclient[p])

\* A destroyed client that no registered client depends on.
LEMMA VaultDestroy ==
    ASSUME TypeOK, NEW p \in Pid, NEW c \in Client, pclient[p][c] # NULL, DestroyPclient(p, c),
           VaultImage(phase[p], manager[p], client[p], pclient[p]),
           phase'[p] # "request" => \A m \in Mgr : manager'[p][m] = NULL,
           \A d \in Client : pclient[p][d] # NULL => client[p][d].key_vault # c,
           \A d \in Client, m \in Mgr :
              d # c /\ pclient[p][d] # NULL /\ ~pclient[p][d].is_persistent
                /\ HeldBy(manager[p], client[p], d, m) => HeldBy(manager'[p], client[p], d, m)
    PROVE  VaultImage(phase'[p], manager'[p], client'[p], pclient'[p])
  <1>1. /\ \A d \in Client : d # c =>
             client'[p][d] = client[p][d] /\ pclient'[p][d] = pclient[p][d]
        /\ pclient'[p][c] = NULL
        /\ client'[p][c].st = IF MayDestroy(p, c) THEN "destroyed" ELSE client[p][c].st
    BY DestroyFacts
  <1>2. \A d \in Client : client'[p][d].st # "none" <=> client[p][d].st # "none"
    BY <1>1 DEF VaultImage, Orderly
  <1>3. Orderly(phase'[p], manager'[p], client'[p], pclient'[p])
    BY <1>1, <1>2 DEF VaultImage, Orderly
  <1>4. VaultsRegistered(client'[p], pclient'[p])
    <2> SUFFICES ASSUME NEW d \in Client, pclient'[p][d] # NULL, client'[p][d].key_vault # NULL
                 PROVE  LET x == client'[p][d].key_vault
                        IN  /\ x < d /\ pclient'[p][x] # NULL
                            /\ pclient'[p][x].is_persistent = pclient'[p][d].is_persistent
      BY DEF VaultsRegistered
    <2> DEFINE x == client[p][d].key_vault
    <2>1. d # c /\ client'[p][d] = client[p][d] /\ pclient'[p][d] = pclient[p][d]
      BY <1>1
    <2>2. x \in Client /\ x # c
      BY <2>1, ObjectTypes
    <2>3. pclient'[p][x] = pclient[p][x]
      BY <1>1, <2>2
    <2> QED BY <2>1, <2>2, <2>3 DEF VaultImage, VaultsRegistered
  <1>5. VaultsHeld(manager'[p], client'[p], pclient'[p])
    <2> SUFFICES ASSUME NEW d \in Client, pclient'[p][d] # NULL, ~pclient'[p][d].is_persistent
                 PROVE  \E m \in Mgr : HeldBy(manager'[p], client'[p], d, m)
      BY DEF VaultsHeld
    <2>1. d # c /\ client'[p][d] = client[p][d] /\ pclient'[p][d] = pclient[p][d]
      BY <1>1
    <2>2. PICK m \in Mgr : HeldBy(manager[p], client[p], d, m)
      BY <2>1 DEF VaultImage, VaultsHeld
    <2>3. HeldBy(manager'[p], client[p], d, m)
      BY <2>1, <2>2
    <2> QED BY <2>1, <2>3 DEF HeldBy
  <1> QED BY <1>3, <1>4, <1>5 DEF VaultImage

\* Steps that keep the Managers and what identifies the clients.
LEMMA VaultAction ==
    ASSUME ForkInv, NEW p \in Pid, NEW by \in Pid, NEW m \in Mgr, Action(p, by, m),
           VaultImage(phase[p], manager[p], client[p], pclient[p])
    PROVE  VaultImage(phase'[p], manager'[p], client'[p], pclient'[p])
  <1>1. TypeOK /\ UNCHANGED <<phase, manager>>
    BY DEF ForkInv, Action
  <1>2. \A c \in Client :
          /\ client'[p][c].st = client[p][c].st
          /\ client'[p][c].key_vault = client[p][c].key_vault
          /\ pclient'[p][c] # NULL <=> pclient[p][c] # NULL
          /\ pclient[p][c] # NULL => pclient'[p][c].is_persistent = pclient[p][c].is_persistent
    BY ActionKeeps
  <1>3. Orderly(phase'[p], manager'[p], client'[p], pclient'[p])
    BY <1>1, <1>2 DEF VaultImage, Orderly
  <1>4. VaultsRegistered(client'[p], pclient'[p])
    <2>1. \A c \in Client : client[p][c].key_vault # NULL => client[p][c].key_vault \in Client
      BY <1>1, ObjectTypes
    <2> QED BY <1>2, <2>1 DEF VaultImage, VaultsRegistered
  <1>5. VaultsHeld(manager'[p], client'[p], pclient'[p])
    BY <1>1, <1>2 DEF VaultImage, VaultsHeld, HeldBy
  <1> QED BY <1>3, <1>4, <1>5 DEF VaultImage

\* Constructing a Manager.
LEMMA VaultConstruct ==
    ASSUME ForkInv, NEW p \in Pid, NEW m \in Mgr, NEW o \in Opts,
           NEW persistent \in BOOLEAN, NEW kv \in Mgr \cup {NULL},
           Construct(p, m, o, persistent, kv),
           VaultImage(phase[p], manager[p], client[p], pclient[p])
    PROVE  VaultImage(phase'[p], manager'[p], client'[p], pclient'[p])
  <1>1. TypeOK /\ Registered /\ Owners
    BY DEF ForkInv
  <1>2. Constructed(p, m, kv)
    BY <1>1, ConstructCases
  <1>3. /\ phase'[p] = "request" /\ phase[p] = "request" /\ manager[p][m] = NULL
        /\ kv # NULL => kv \in Mgr /\ manager[p][kv] # NULL
        /\ \A x \in Mgr : x # m => manager'[p][x] = manager[p][x]
        /\ manager'[p][m] # NULL
    BY <1>2 DEF Constructed
  <1>c. PICK c \in Client : CachedImage(p, m, c, kv) \/ NewImage(p, m, c, kv)
    BY <1>2 DEF Constructed
  <1>4. ASSUME NEW d \in Client, NEW x \in Mgr, HeldBy(manager[p], client[p], d, x)
        PROVE  HeldBy(manager'[p], client[p], d, x)
    BY <1>3, <1>4 DEF HeldBy
  <1>5. CASE CachedImage(p, m, c, kv)
    <2>1. UNCHANGED <<client, pclient>>
      BY <1>5 DEF CachedImage
    <2>2. VaultsHeld(manager'[p], client'[p], pclient'[p])
      BY <1>4, <2>1 DEF VaultImage, VaultsHeld
    <2> QED BY <1>3, <2>1, <2>2 DEF VaultImage, Orderly
  <1>6. CASE NewImage(p, m, c, kv)
    <2> DEFINE kvc == KeyVaultClientOf(p, kv)
    <2>1. /\ manager'[p][m].client = c
          /\ client[p][c].st = "none" /\ \A d \in Client : d < c => client[p][d].st # "none"
          /\ \A d \in Client : d # c =>
                client'[p][d] = client[p][d] /\ pclient'[p][d] = pclient[p][d]
          /\ client'[p][c].st = "live" /\ client'[p][c].key_vault = kvc
          /\ pclient'[p][c] # NULL
          /\ pclient'[p][c].is_persistent = manager'[p][m].use_persistent_client
          /\ manager'[p][m].key_vault_client_manager = kv
          /\ kv # NULL =>
               manager[p][kv].use_persistent_client = manager'[p][m].use_persistent_client
      BY <1>6 DEF NewImage
    <2>2. pclient[p][c] = NULL
      BY <1>1, <2>1 DEF Owners
    <2>3. kvc # NULL => /\ kv # NULL /\ kvc = manager[p][kv].client /\ kvc \in Client
                        /\ client[p][kvc].st # "none" /\ pclient[p][kvc] # NULL
                        /\ pclient[p][kvc].is_persistent = manager'[p][m].use_persistent_client
      <3>1. kvc # NULL => kv # NULL /\ kvc = manager[p][kv].client
        BY DEF KeyVaultClientOf, ClientOf
      <3>2. kv # NULL => manager[p][kv].client \in Client
        BY <1>1, <1>3, ObjectTypes
      <3> HIDE DEF kvc
      <3> QED BY <1>1, <1>3, <2>1, <3>1, <3>2 DEF Registered, ClientOf
    <2>4. kvc # NULL => kvc < c
      <3>1. kvc # NULL => kvc # c /\ ~(c < kvc) /\ kvc \in Client
        BY <2>1, <2>3 DEF VaultImage, Orderly
      <3> QED BY <3>1 DEF Client
    <2> HIDE DEF kvc
    <2>5. Orderly(phase'[p], manager'[p], client'[p], pclient'[p])
      BY <1>3, <2>1 DEF VaultImage, Orderly
    <2>6. VaultsRegistered(client'[p], pclient'[p])
      <3> SUFFICES ASSUME NEW d \in Client, pclient'[p][d] # NULL, client'[p][d].key_vault # NULL
                   PROVE  LET x == client'[p][d].key_vault
                          IN  /\ x < d /\ pclient'[p][x] # NULL
                              /\ pclient'[p][x].is_persistent = pclient'[p][d].is_persistent
        BY DEF VaultsRegistered
      <3>1. CASE d = c
        BY <2>1, <2>2, <2>3, <2>4, <3>1
      <3>2. CASE d # c
        <4> DEFINE x == client[p][d].key_vault
        <4>1. x \in Client /\ x # NULL /\ pclient[p][d] # NULL
          BY <1>1, <2>1, <3>2, ObjectTypes
        <4>2. /\ x < d /\ pclient[p][x] # NULL
              /\ pclient[p][x].is_persistent = pclient[p][d].is_persistent
          BY <4>1 DEF VaultImage, VaultsRegistered
        <4>3. x # c /\ pclient'[p][x] = pclient[p][x]
          BY <2>1, <2>2, <4>1, <4>2
        <4> QED BY <2>1, <3>2, <4>2, <4>3
      <3> QED BY <3>1, <3>2
    <2>7. VaultsHeld(manager'[p], client'[p], pclient'[p])
      <3> SUFFICES ASSUME NEW d \in Client, pclient'[p][d] # NULL, ~pclient'[p][d].is_persistent
                   PROVE  \E x \in Mgr : HeldBy(manager'[p], client'[p], d, x)
        BY DEF VaultsHeld
      <3>1. CASE d = c
        <4>1. kvc # NULL => kv \in Mgr /\ kv # m
          BY <1>3, <2>3
        <4>2. HeldBy(manager'[p], client'[p], c, m)
          BY <1>3, <2>1, <2>3, <4>1 DEF HeldBy
        <4> QED BY <3>1, <4>2
      <3>2. CASE d # c
        <4>1. PICK x \in Mgr : HeldBy(manager[p], client[p], d, x)
          BY <2>1, <3>2 DEF VaultImage, VaultsHeld
        <4>2. HeldBy(manager'[p], client[p], d, x)
          BY <1>4, <4>1
        <4> QED BY <2>1, <3>2, <4>2 DEF HeldBy
      <3> QED BY <3>1, <3>2
    <2> QED BY <2>5, <2>6, <2>7 DEF VaultImage
  <1> QED BY <1>c, <1>5, <1>6

\* A constructor that fails.
LEMMA VaultRejected ==
    ASSUME ForkInv, NEW p \in Pid, NEW o \in Opts, ConstructRejected(p, o),
           VaultImage(phase[p], manager[p], client[p], pclient[p])
    PROVE  VaultImage(phase'[p], manager'[p], client'[p], pclient'[p])
  <1>1. TypeOK /\ Owners
    BY DEF ForkInv
  <1>2. UNCHANGED <<phase, manager, pclient>>
    BY <1>1, RejectedCases
  <1>3. PICK c \in Client :
                /\ client[p][c].st = "none" /\ \A d \in Client : d < c => client[p][d].st # "none"
                /\ \A d \in Client : d # c => client'[p][d] = client[p][d]
                /\ client'[p][c].st = "live"
    BY <1>1, RejectedCases
  <1>4. pclient[p][c] = NULL
    BY <1>1, <1>3 DEF Owners
  <1>5. Orderly(phase'[p], manager'[p], client'[p], pclient'[p])
    BY <1>2, <1>3, <1>4 DEF VaultImage, Orderly
  <1>6. \A d \in Client : pclient[p][d] # NULL => client'[p][d] = client[p][d]
    BY <1>3, <1>4
  <1>7. VaultsRegistered(client'[p], pclient'[p])
    BY <1>2, <1>6 DEF VaultImage, VaultsRegistered
  <1>8. VaultsHeld(manager'[p], client'[p], pclient'[p])
    BY <1>2, <1>6 DEF VaultImage, VaultsHeld, HeldBy
  <1> QED BY <1>5, <1>7, <1>8 DEF VaultImage

\* Freeing a Manager: one that a dependent refers to is not freed.
LEMMA VaultFree ==
    ASSUME ForkInv, NEW p \in Pid, NEW m \in Mgr, FreeManager(p, m),
           VaultImage(phase[p], manager[p], client[p], pclient[p])
    PROVE  VaultImage(phase'[p], manager'[p], client'[p], pclient'[p])
  <1>1. TypeOK /\ Registered
    BY DEF ForkInv
  <1>2. /\ phase'[p] = phase[p] /\ manager[p][m] # NULL /\ manager'[p][m] = NULL
        /\ \A x \in Mgr : x # m => manager'[p][x] = manager[p][x]
    BY FreeManagerCases
  <1>3. \A x \in Mgr : manager[p][x] # NULL => manager[p][x].key_vault_client_manager # m
    BY FreeManagerCases DEF Referenced
  <1>4. ASSUME NEW d \in Client, NEW x \in Mgr, HeldBy(manager[p], client[p], d, x), x # m
        PROVE  HeldBy(manager'[p], client[p], d, x)
    BY <1>2, <1>3, <1>4 DEF HeldBy
  <1>5. CASE /\ UNCHANGED <<client, pclient, interference>>
             /\ manager[p][m].use_persistent_client \/ phase[p] = "deactivated"
    <2>1. Orderly(phase'[p], manager'[p], client'[p], pclient'[p])
      BY <1>2, <1>5 DEF VaultImage, Orderly
    <2>2. phase[p] # "deactivated"
      BY <1>2 DEF VaultImage, Orderly
    <2>3. VaultsHeld(manager'[p], client'[p], pclient'[p])
      <3> SUFFICES ASSUME NEW d \in Client, pclient[p][d] # NULL, ~pclient[p][d].is_persistent
                   PROVE  \E x \in Mgr : HeldBy(manager'[p], client[p], d, x)
        BY <1>5 DEF VaultsHeld
      <3>1. PICK x \in Mgr : HeldBy(manager[p], client[p], d, x)
        BY DEF VaultImage, VaultsHeld
      <3>2. x # m
        BY <1>1, <1>2, <1>5, <2>2, <3>1 DEF Registered, HeldBy, ClientOf
      <3> QED BY <1>4, <3>1, <3>2
    <2> QED BY <1>5, <2>1, <2>3 DEF VaultImage
  <1>6. ASSUME NEW c \in Client, c = ClientOf(p, m), ~manager[p][m].use_persistent_client,
               pclient[p][c] # NULL, ~pclient[p][c].is_persistent, DestroyPclient(p, c)
        PROVE  VaultImage(phase'[p], manager'[p], client'[p], pclient'[p])
    <2>1. phase'[p] # "request" => \A x \in Mgr : manager'[p][x] = NULL
      BY <1>2 DEF VaultImage, Orderly
    <2>2. ASSUME NEW d \in Client, pclient[p][d] # NULL, client[p][d].key_vault = c
          PROVE  FALSE
      <3>1. c # NULL
        BY NullAssumption DEF Client
      <3>2. pclient[p][c].is_persistent = pclient[p][d].is_persistent
        BY <2>2, <3>1 DEF VaultImage, VaultsRegistered
      <3>3. ~pclient[p][d].is_persistent
        BY <1>6, <3>2
      <3>4. PICK x \in Mgr : HeldBy(manager[p], client[p], d, x)
        BY <2>2, <3>3 DEF VaultImage, VaultsHeld
      <3> DEFINE y == manager[p][x].key_vault_client_manager
      <3>5. y \in Mgr /\ manager[p][y] # NULL /\ manager[p][y].client = c /\ y # m
        BY <1>3, <2>2, <3>1, <3>4 DEF HeldBy
      <3> QED BY <1>1, <1>2, <1>6, <3>5 DEF Registered, ClientOf
    <2>3. ASSUME NEW d \in Client, NEW x \in Mgr, d # c, HeldBy(manager[p], client[p], d, x)
          PROVE  HeldBy(manager'[p], client[p], d, x)
      <3>1. x # m
        BY <1>6, <2>3 DEF HeldBy, ClientOf
      <3> QED BY <1>4, <2>3, <3>1
    <2> QED BY <1>1, <1>6, <2>1, <2>2, <2>3, VaultDestroy
  <1> QED BY <1>5, <1>6, FreeManagerCases

\* The shutdown: persistent clients go last to first, and of the others none
\* is left.
LEMMA VaultShutdown ==
    ASSUME "leftover_objects" \notin Habits, ForkInv, NEW p \in Pid, ShutdownStep(p),
           VaultImage(phase[p], manager[p], client[p], pclient[p])
    PROVE  VaultImage(phase'[p], manager'[p], client'[p], pclient'[p])
  <1>1. TypeOK
    BY DEF ForkInv
  <1>2. UNCHANGED manager
    BY <1>1, ShutdownCases
  <1>3. ASSUME NEW from, NEW to, PhaseStep(p, from, to), from = "request" => NoObjects(p)
        PROVE  VaultImage(phase'[p], manager'[p], client'[p], pclient'[p])
    BY <1>2, <1>3 DEF PhaseStep, NoObjects, VaultImage, Orderly
  <1>4. ASSUME NEW c \in Client, DestroyStep(p, c)
        PROVE  VaultImage(phase'[p], manager'[p], client'[p], pclient'[p])
    <2>1. /\ pclient[p][c] # NULL /\ DestroyPclient(p, c) /\ phase'[p] = phase[p]
          /\ phase[p] # "request"
      BY <1>4 DEF DestroyStep
    <2>2. \A x \in Mgr : manager[p][x] = NULL
      BY <2>1 DEF VaultImage, Orderly
    <2>3. \A d \in Client, x \in Mgr : ~HeldBy(manager[p], client[p], d, x)
      BY <2>2 DEF HeldBy
    <2>4. \A d \in Client : pclient[p][d] # NULL => pclient[p][d].is_persistent
      BY <2>3 DEF VaultImage, VaultsHeld
    <2>5. ASSUME NEW d \in Client, pclient[p][d] # NULL, client[p][d].key_vault = c
          PROVE  FALSE
      <3>1. c # NULL
        BY NullAssumption DEF Client
      <3>2. c < d
        BY <2>5, <3>1 DEF VaultImage, VaultsRegistered
      <3>3. d <= c
        BY <1>4, <2>1, <2>4, <2>5 DEF DestroyStep, PersistentClients
      <3> QED BY <3>2, <3>3 DEF Client
    <2> QED BY <1>1, <1>2, <2>1, <2>2, <2>3, <2>5, VaultDestroy
  <1> QED BY <1>1, <1>3, <1>4, ShutdownCases

LEMMA VaultStep ==
    ASSUME "leftover_objects" \notin Habits, ForkInv, VaultInv, [Next]_vars
    PROVE  VaultInv'
  <1>1. TypeOK
    BY DEF ForkInv
  <1>2. CASE UNCHANGED vars
    BY <1>2 DEF vars, VaultInv
  <1>3. ASSUME NEW p \in Pid, OthersKept(p),
               \A q \in Pid \ {p} : manager'[q] = manager[q] /\ phase'[q] = phase[q],
               VaultImage(phase'[p], manager'[p], client'[p], pclient'[p])
        PROVE  VaultInv'
    <2>1. ASSUME NEW q \in Pid, q # p
          PROVE  VaultImage(phase'[q], manager'[q], client'[q], pclient'[q])
      <3>1. /\ phase'[q] = phase[q] /\ manager'[q] = manager[q]
            /\ client'[q] = client[q] /\ pclient'[q] = pclient[q]
        BY <1>3, <2>1 DEF OthersKept
      <3> QED BY <3>1 DEF VaultInv
    <2> QED BY <1>3, <2>1 DEF VaultInv
  <1>4. \A p \in Pid : VaultImage(phase[p], manager[p], client[p], pclient[p])
    BY DEF VaultInv
  <1>5. ASSUME NEW p \in Pid, \E by \in Pid, m \in Mgr : Action(p, by, m)
        PROVE  VaultInv'
    BY <1>1, <1>3, <1>4, <1>5, VaultAction, OtherImages
  <1>6. ASSUME NEW p \in Pid, \E o \in Opts : ConstructRejected(p, o)
        PROVE  VaultInv'
    BY <1>1, <1>3, <1>4, <1>6, VaultRejected, OtherImages
  <1>7. ASSUME NEW p \in Pid, \E m \in Mgr, o \in Opts, persistent \in BOOLEAN,
                                 kv \in Mgr \cup {NULL} : Construct(p, m, o, persistent, kv)
        PROVE  VaultInv'
    BY <1>1, <1>3, <1>4, <1>7, VaultConstruct, OtherImages
  <1>8. ASSUME NEW p \in Pid, \E m \in Mgr : FreeManager(p, m)
        PROVE  VaultInv'
    BY <1>1, <1>3, <1>4, <1>8, VaultFree, OtherImages
  <1>9. ASSUME NEW p \in Pid, ShutdownStep(p)
        PROVE  VaultInv'
    BY <1>1, <1>3, <1>4, <1>9, VaultShutdown, OtherImages
  <1>10. ASSUME NEW p \in Pid, NEW q \in Pid, Fork(p, q)
         PROVE  VaultInv'
    <2>1. \A r \in Pid : /\ Source(p, q, r) \in Pid
                         /\ phase'[r] = phase[Source(p, q, r)]
                         /\ manager'[r] = manager[Source(p, q, r)]
                         /\ client'[r] = client[Source(p, q, r)]
                         /\ pclient'[r] = pclient[Source(p, q, r)]
      BY <1>1, <1>10, ForkCases
    <2> QED BY <1>4, <2>1 DEF VaultInv
  <1> QED BY <1>2, <1>5, <1>6, <1>7, <1>8, <1>9, <1>10, StepCases

\* A client is not destroyed while a client of the same process that uses it
\* as its key vault is registered (Manager free_object, RSHUTDOWN, GSHUTDOWN),
\* if requests end without driver objects.
THEOREM KeyVaultsOutliveDependents ==
    ASSUME "leftover_objects" \notin Habits
    PROVE  Spec => []KeyVaultOutlivesDependents
  <1>1. Init => VaultInv
    BY DEF Init, VaultInv, VaultImage, Orderly, VaultsRegistered, VaultsHeld
  <1>2. ForkInv /\ VaultInv /\ [Next]_vars => VaultInv'
    BY VaultStep
  <1>3. ForkInv /\ VaultInv => KeyVaultOutlivesDependents
    <2> SUFFICES ASSUME ForkInv, VaultInv, NEW p \in Pid, NEW c \in Client, pclient[p][c] # NULL,
                        client[p][c].key_vault # NULL
                 PROVE  client[p][client[p][c].key_vault].st = "live"
      BY DEF KeyVaultOutlivesDependents
    <2>1. client[p][c].key_vault \in Client
      BY ObjectTypes DEF ForkInv
    <2> QED BY <2>1 DEF VaultInv, VaultImage, Orderly, VaultsRegistered
  <1> QED BY <1>1, <1>2, <1>3, Invariant, PTL DEF Spec

-------------------------------------------------------------------------------
(* What a process inherits *)

\* Process q created something of this image.
Mentioned(mg, cl, sv, se, cu, q) ==
    \/ \E c \in Client : cl[c].owner = q
    \/ \E m \in Mgr : mg[m] # NULL /\ mg[m].created_by_pid = q
    \/ \E v \in Srv : sv[v] # NULL /\ sv[v].created_by_pid = q
    \/ \E s \in Sess : se[s] # NULL /\ se[s].created_by_pid = q
    \/ \E k \in Cur : cu[k] # NULL /\ cu[k].created_by_pid = q

MentionedIn(p, q) == Mentioned(manager[p], client[p], server[p], session[p], cursor[p], q)

BornInv == \A p \in Pid, q \in Pid : MentionedIn(p, q) => phase[q] # "unborn"

\* A Manager is inherited exactly when its client is, and then so is the
\* Manager of its key vault client, which it keeps alive.
ManagersInherit(p, mg, cl) ==
    \A m \in Mgr : mg[m] # NULL =>
        /\ mg[m].created_by_pid = p <=> cl[mg[m].client].owner = p
        /\ \A x \in Mgr : mg[m].key_vault_client_manager = x =>
              mg[x] # NULL /\ (mg[m].created_by_pid # p => mg[x].created_by_pid # p)

\* An inherited object has an inherited Manager.
ObjectsInherit(p, mg, sv, se, cu) ==
    /\ \A v \in Srv : sv[v] # NULL /\ sv[v].created_by_pid # p => mg[sv[v].manager].created_by_pid # p
    /\ \A s \in Sess : se[s] # NULL /\ se[s].created_by_pid # p => mg[se[s].manager].created_by_pid # p
    /\ \A k \in Cur : cu[k] # NULL /\ cu[k].created_by_pid # p => mg[cu[k].manager].created_by_pid # p

InheritImage(p) == /\ ManagersInherit(p, manager[p], client[p])
                   /\ ObjectsInherit(p, manager[p], server[p], session[p], cursor[p])

InheritInv == BornInv /\ \A p \in Pid : InheritImage(p)

\* Pids that were not forked yet stay unmentioned.
LEMMA BornStep ==
    ASSUME ForkInv, BornInv, [Next]_vars
    PROVE  BornInv'
  <1>1. TypeOK
    BY DEF ForkInv
  <1>2. CASE UNCHANGED vars
    BY <1>2 DEF vars, BornInv, MentionedIn
  <1>3. ASSUME NEW p \in Pid, OthersKept(p), phase[p] # "unborn",
               \A q \in Pid \ {p} : manager'[q] = manager[q],
               \A q \in Pid : phase[q] # "unborn" => phase'[q] # "unborn",
               \A q \in Pid : MentionedIn(p, q)' => MentionedIn(p, q) \/ q = p
        PROVE  BornInv'
    <2>1. ASSUME NEW r \in Pid, NEW q \in Pid, MentionedIn(r, q)', r # p
          PROVE  MentionedIn(r, q)
      <3>1. /\ manager'[r] = manager[r] /\ client'[r] = client[r] /\ server'[r] = server[r]
            /\ session'[r] = session[r] /\ cursor'[r] = cursor[r]
        BY <1>3, <2>1 DEF OthersKept
      <3> QED BY <2>1, <3>1 DEF MentionedIn
    <2> QED BY <1>3, <2>1 DEF BornInv
  <1>4. ASSUME NEW p \in Pid, NEW by \in Pid, NEW m \in Mgr, Action(p, by, m), NEW q \in Pid,
               MentionedIn(p, q)'
        PROVE  MentionedIn(p, q) \/ (q = p /\ phase[p] # "unborn")
    <2>1. manager' = manager /\ \A c \in Client : client'[p][c].owner = client[p][c].owner
      BY <1>4, ActionKeeps DEF Action
    <2>2. \A v \in Srv : server'[p][v] # NULL =>
             server'[p][v] = server[p][v]
             \/ (server'[p][v].created_by_pid = p /\ phase[p] = "request")
      BY <1>4 DEF Action, ServerStepOf
    <2>3. ASSUME NEW old, NEW new, ObjectStepOf(p, by, m, old, new), new # NULL
          PROVE  \/ old # NULL /\ new.created_by_pid = old.created_by_pid
                 \/ new.created_by_pid = p /\ phase[p] = "request"
      BY <2>3 DEF ObjectStepOf, ObjectKept, ObjectNew, Runs
    <2>4. /\ \A s \in Sess : ObjectStepOf(p, by, m, session[p][s], session'[p][s])
          /\ \A k \in Cur : ObjectStepOf(p, by, m, cursor[p][k], cursor'[p][k])
      BY <1>4 DEF Action
    <2>5. /\ \A s \in Sess : session'[p][s] # NULL =>
                \/ session[p][s] # NULL /\ session'[p][s].created_by_pid = session[p][s].created_by_pid
                \/ session'[p][s].created_by_pid = p /\ phase[p] = "request"
          /\ \A k \in Cur : cursor'[p][k] # NULL =>
                \/ cursor[p][k] # NULL /\ cursor'[p][k].created_by_pid = cursor[p][k].created_by_pid
                \/ cursor'[p][k].created_by_pid = p /\ phase[p] = "request"
      BY <2>3, <2>4
    <2> QED BY <1>4, <2>1, <2>2, <2>5 DEF MentionedIn, Mentioned
  <1>5. ASSUME NEW p \in Pid, \E by \in Pid, m \in Mgr : Action(p, by, m)
        PROVE  BornInv'
    <2>1. OthersKept(p) /\ manager' = manager /\ phase' = phase
      BY <1>5 DEF Action
    <2>2. CASE phase[p] # "unborn"
      BY <1>3, <1>4, <1>5, <2>1, <2>2
    <2>3. CASE phase[p] = "unborn"
      <3>1. \A q \in Pid : MentionedIn(p, q)' => MentionedIn(p, q)
        BY <1>4, <1>5, <2>3
      <3>2. \A r \in Pid, q \in Pid : r # p /\ MentionedIn(r, q)' => MentionedIn(r, q)
        BY <2>1 DEF OthersKept, MentionedIn
      <3> QED BY <2>1, <3>1, <3>2 DEF BornInv
    <2> QED BY <2>2, <2>3
  <1>6. ASSUME NEW p \in Pid, NEW o \in Opts, ConstructRejected(p, o)
        PROVE  BornInv'
    <2>1. /\ UNCHANGED <<phase, manager, server, session, cursor>> /\ phase[p] = "request"
          /\ \A c \in Client : client'[p][c].owner = p \/ client'[p][c] = client[p][c]
      BY <1>1, <1>6, RejectedCases
    <2>2. \A q \in Pid : MentionedIn(p, q)' => MentionedIn(p, q) \/ q = p
      BY <2>1 DEF MentionedIn, Mentioned
    <2> QED BY <1>1, <1>3, <1>6, <2>1, <2>2, OtherImages
  <1>7. ASSUME NEW p \in Pid, NEW m \in Mgr, NEW o \in Opts, NEW persistent \in BOOLEAN,
               NEW kv \in Mgr \cup {NULL}, Construct(p, m, o, persistent, kv)
        PROVE  BornInv'
    <2>1. Constructed(p, m, kv)
      BY <1>1, <1>7, ConstructCases
    <2>2. /\ UNCHANGED <<phase, server, session, cursor>> /\ phase[p] = "request"
          /\ manager'[p][m].created_by_pid = p
          /\ \A x \in Mgr : x # m => manager'[p][x] = manager[p][x]
      BY <2>1 DEF Constructed
    <2>3. \A c \in Client : client'[p][c].owner = p \/ client'[p][c] = client[p][c]
      BY <2>1 DEF Constructed, CachedImage, NewImage
    <2>4. \A q \in Pid : MentionedIn(p, q)' => MentionedIn(p, q) \/ q = p
      BY <2>2, <2>3 DEF MentionedIn, Mentioned
    <2>5. OthersKept(p) /\ \A q \in Pid \ {p} : manager'[q] = manager[q]
      BY <1>1, <1>7, OtherImages
    <2> QED BY <1>3, <2>2, <2>4, <2>5
  <1>8. ASSUME NEW p \in Pid, \/ \E m \in Mgr : FreeManager(p, m)
                              \/ ShutdownStep(p)
        PROVE  BornInv'
    <2>1. ASSUME NEW c \in Client, DestroyPclient(p, c)
          PROVE  \A d \in Client : client'[p][d].owner = client[p][d].owner
      BY <1>1, <2>1, DestroyFacts
    <2>2. /\ UNCHANGED <<server, session, cursor>>
          /\ \A x \in Mgr : manager'[p][x] # NULL => manager'[p][x] = manager[p][x]
          /\ \A c \in Client : client'[p][c].owner = client[p][c].owner
          /\ \A q \in Pid : phase[q] # "unborn" => phase'[q] # "unborn"
      <3>1. ASSUME NEW m \in Mgr, FreeManager(p, m)
            PROVE  <2>2!1 /\ <2>2!2 /\ <2>2!3 /\ <2>2!4
        BY <1>1, <2>1, <3>1, FreeManagerCases
      <3>2. ASSUME ShutdownStep(p)
            PROVE  <2>2!1 /\ <2>2!2 /\ <2>2!3 /\ <2>2!4
        BY <1>1, <2>1, <3>2, ShutdownCases DEF PhaseStep, DestroyStep
      <3> QED BY <1>8, <3>1, <3>2
    <2>3. \A q \in Pid : MentionedIn(p, q)' => MentionedIn(p, q)
      BY <2>2 DEF MentionedIn, Mentioned
    <2>4. OthersKept(p) /\ \A q \in Pid \ {p} : manager'[q] = manager[q]
      BY <1>1, <1>8, OtherImages
    <2>5. \A r \in Pid, q \in Pid : r # p /\ MentionedIn(r, q)' => MentionedIn(r, q)
      BY <2>4 DEF OthersKept, MentionedIn
    <2> QED BY <2>2, <2>3, <2>5 DEF BornInv
  <1>9. ASSUME NEW p \in Pid, NEW q \in Pid, Fork(p, q)
        PROVE  BornInv'
    <2>1. /\ \A r \in Pid : LET src == Source(p, q, r)
                             IN  /\ src \in Pid /\ manager'[r] = manager[src]
                                 /\ client'[r] = client[src] /\ server'[r] = server[src]
                                 /\ session'[r] = session[src] /\ cursor'[r] = cursor[src]
          /\ \A r \in Pid : phase[r] # "unborn" => phase'[r] # "unborn"
      BY <1>1, <1>9, ForkCases
    <2>2. \A r \in Pid, x \in Pid : MentionedIn(r, x)' => MentionedIn(Source(p, q, r), x)
      BY <2>1 DEF MentionedIn
    <2> QED BY <2>1, <2>2 DEF BornInv
  <1> QED BY <1>2, <1>5, <1>6, <1>7, <1>8, <1>9, StepCases

\* What a process uses without having created it has an inherited Manager.
LEMMA ActsInherit ==
    ASSUME TypeOK, NEW p \in Pid, InheritImage(p), NEW by \in Pid, NEW m \in Mgr, Acts(p, by, m)
    PROVE  by = p \/ manager[p][m].created_by_pid # p
  BY DEF Acts, Runs, InheritImage, ObjectsInherit

\* An Action keeps this: what is new was created by this process.
LEMMA InheritAction ==
    ASSUME ForkInv, NEW p \in Pid, NEW by \in Pid, NEW m \in Mgr, Action(p, by, m), InheritImage(p)
    PROVE  InheritImage(p)'
  <1>1. TypeOK
    BY DEF ForkInv
  <1>2. manager' = manager /\ \A c \in Client : client'[p][c].owner = client[p][c].owner
    BY ActionKeeps DEF Action
  <1>3. \A v \in Srv : server'[p][v] # NULL =>
           server'[p][v] = server[p][v] \/ server'[p][v].created_by_pid = p
    BY DEF Action, ServerStepOf
  <1>4. ASSUME NEW old, NEW new, ObjectStepOf(p, by, m, old, new), new # NULL
        PROVE  \/ /\ old # NULL /\ new.created_by_pid = old.created_by_pid
                  /\ new.manager = old.manager
               \/ new.created_by_pid = p
    BY <1>4 DEF ObjectStepOf, ObjectKept, ObjectNew
  <1>5. /\ \A s \in Sess : session'[p][s] # NULL =>
              \/ /\ session[p][s] # NULL /\ session'[p][s].created_by_pid = session[p][s].created_by_pid
                 /\ session'[p][s].manager = session[p][s].manager
              \/ session'[p][s].created_by_pid = p
        /\ \A k \in Cur : cursor'[p][k] # NULL =>
              \/ /\ cursor[p][k] # NULL /\ cursor'[p][k].created_by_pid = cursor[p][k].created_by_pid
                 /\ cursor'[p][k].manager = cursor[p][k].manager
              \/ cursor'[p][k].created_by_pid = p
    BY <1>4 DEF Action
  <1>6. ManagersInherit(p, manager'[p], client'[p])
    <2>1. \A x \in Mgr : manager[p][x] # NULL => manager[p][x].client \in Client
      BY <1>1, ObjectTypes
    <2> QED BY <1>2, <2>1 DEF InheritImage, ManagersInherit
  <1>7. ObjectsInherit(p, manager'[p], server'[p], session'[p], cursor'[p])
    BY <1>2, <1>3, <1>5 DEF InheritImage, ObjectsInherit
  <1> QED BY <1>6, <1>7 DEF InheritImage

\* Steps that leave the objects alone, and of the Managers and clients only
\* take some away or add some.
LEMMA InheritManagers ==
    ASSUME ForkInv, NEW p \in Pid, InheritImage(p), UNCHANGED <<server, session, cursor>>,
           \A x \in Mgr : manager'[p][x] # NULL =>
              \/ /\ manager'[p][x] = manager[p][x]
                 /\ client'[p][manager[p][x].client].owner = client[p][manager[p][x].client].owner
                 /\ \A y \in Mgr : manager[p][x].key_vault_client_manager = y =>
                       manager'[p][y] = manager[p][y]
              \/ /\ manager'[p][x].created_by_pid = p
                 /\ client'[p][manager'[p][x].client].owner = p
                 /\ \A y \in Mgr : manager'[p][x].key_vault_client_manager = y =>
                       manager'[p][y] # NULL,
           \A v \in Srv : server[p][v] # NULL =>
              manager'[p][server[p][v].manager] = manager[p][server[p][v].manager],
           \A s \in Sess : session[p][s] # NULL =>
              manager'[p][session[p][s].manager] = manager[p][session[p][s].manager],
           \A k \in Cur : cursor[p][k] # NULL =>
              manager'[p][cursor[p][k].manager] = manager[p][cursor[p][k].manager]
    PROVE  InheritImage(p)'
  <1>1. ManagersInherit(p, manager'[p], client'[p])
    <2> SUFFICES ASSUME NEW x \in Mgr, manager'[p][x] # NULL
                 PROVE  LET r == manager'[p][x]
                        IN  /\ r.created_by_pid = p <=> client'[p][r.client].owner = p
                            /\ \A y \in Mgr : r.key_vault_client_manager = y =>
                                  manager'[p][y] # NULL
                                  /\ (r.created_by_pid # p => manager'[p][y].created_by_pid # p)
      BY DEF ManagersInherit
    <2>1. CASE /\ manager'[p][x] = manager[p][x]
               /\ client'[p][manager[p][x].client].owner = client[p][manager[p][x].client].owner
               /\ \A y \in Mgr : manager[p][x].key_vault_client_manager = y =>
                     manager'[p][y] = manager[p][y]
      BY <2>1 DEF InheritImage, ManagersInherit
    <2>2. CASE /\ manager'[p][x].created_by_pid = p
               /\ client'[p][manager'[p][x].client].owner = p
               /\ \A y \in Mgr : manager'[p][x].key_vault_client_manager = y =>
                     manager'[p][y] # NULL
      BY <2>2
    <2> QED BY <2>1, <2>2
  <1>2. ObjectsInherit(p, manager'[p], server'[p], session'[p], cursor'[p])
    BY DEF InheritImage, ObjectsInherit
  <1> QED BY <1>1, <1>2 DEF InheritImage

LEMMA InheritStep ==
    ASSUME ForkInv, InheritInv, [Next]_vars
    PROVE  InheritInv'
  <1>1. /\ TypeOK /\ Refs /\ Registered /\ Owners /\ BornInv
        /\ \A p \in Pid : InheritImage(p)
    BY DEF ForkInv, InheritInv
  <1>2. BornInv'
    BY <1>1, BornStep
  <1>3. CASE UNCHANGED vars
    BY <1>1, <1>2, <1>3 DEF vars, InheritInv, InheritImage
  <1>4. ASSUME NEW p \in Pid, OthersKept(p), \A q \in Pid \ {p} : manager'[q] = manager[q],
               InheritImage(p)'
        PROVE  InheritInv'
    <2>1. ASSUME NEW q \in Pid, q # p
          PROVE  InheritImage(q)'
      <3>1. /\ manager'[q] = manager[q] /\ client'[q] = client[q] /\ server'[q] = server[q]
            /\ session'[q] = session[q] /\ cursor'[q] = cursor[q]
        BY <1>4, <2>1 DEF OthersKept
      <3> QED BY <1>1, <3>1 DEF InheritImage
    <2> QED BY <1>2, <1>4, <2>1 DEF InheritInv
  <1>5. ASSUME NEW p \in Pid, NEW by \in Pid, NEW m \in Mgr, Action(p, by, m)
        PROVE  InheritInv'
    <2>1. InheritImage(p)'
      BY <1>1, <1>5, InheritAction
    <2> QED BY <1>1, <1>4, <1>5, <2>1, OtherImages
  \* The objects' Managers are alive, and those Managers' clients exist.
  <1>6. \A p \in Pid :
          /\ \A x \in Mgr : manager[p][x] # NULL =>
                /\ manager[p][x].client \in Client
                /\ client[p][manager[p][x].client].st # "none"
          /\ \A v \in Srv : server[p][v] # NULL => /\ server[p][v].manager \in Mgr
                                                   /\ manager[p][server[p][v].manager] # NULL
          /\ \A s \in Sess : session[p][s] # NULL => /\ session[p][s].manager \in Mgr
                                                     /\ manager[p][session[p][s].manager] # NULL
          /\ \A k \in Cur : cursor[p][k] # NULL => /\ cursor[p][k].manager \in Mgr
                                                   /\ manager[p][cursor[p][k].manager] # NULL
    BY <1>1, ObjectTypes DEF Refs, Registered, ClientOf
  <1>7. \A p \in Pid, x \in Mgr, y \in Mgr :
          manager[p][x] # NULL /\ manager[p][x].key_vault_client_manager = y => manager[p][y] # NULL
    BY <1>1 DEF InheritImage, ManagersInherit
  <1>8. ASSUME NEW p \in Pid, NEW o \in Opts, ConstructRejected(p, o)
        PROVE  InheritInv'
    <2>1. /\ UNCHANGED <<manager, server, session, cursor>>
          /\ \A c \in Client : client[p][c].st # "none" => client'[p][c] = client[p][c]
      BY <1>1, <1>8, RejectedCases
    <2>2. InheritImage(p)'
      BY <1>1, <1>6, <2>1, InheritManagers
    <2> QED BY <1>1, <1>4, <1>8, <2>2, OtherImages
  <1>9. ASSUME NEW p \in Pid, NEW m \in Mgr, NEW o \in Opts, NEW persistent \in BOOLEAN,
               NEW kv \in Mgr \cup {NULL}, Construct(p, m, o, persistent, kv)
        PROVE  InheritInv'
    <2>1. Constructed(p, m, kv)
      BY <1>1, <1>9, ConstructCases
    <2>2. /\ UNCHANGED <<server, session, cursor>>
          /\ manager[p][m] = NULL /\ manager'[p][m].created_by_pid = p
          /\ \A x \in Mgr : x # m => manager'[p][x] = manager[p][x]
          /\ kv # NULL => kv \in Mgr /\ manager[p][kv] # NULL
      BY <2>1 DEF Constructed
    <2>3. PICK c \in Client : CachedImage(p, m, c, kv) \/ NewImage(p, m, c, kv)
      BY <2>1 DEF Constructed
    <2>4. /\ \A d \in Client : client[p][d].st # "none" => client'[p][d] = client[p][d]
          /\ manager'[p][m].client = c
          /\ client'[p][c].owner = p
          /\ manager'[p][m].key_vault_client_manager \in {NULL, kv}
      BY <1>1, <2>3 DEF CachedImage, NewImage, Owners
    <2>5. \A y \in Mgr : manager[p][y] # NULL => manager'[p][y] = manager[p][y]
      BY <2>2
    <2>6. \A y \in Mgr : manager'[p][m].key_vault_client_manager = y => manager'[p][y] # NULL
      BY <2>2, <2>4, <2>5, NullAssumption
    <2>7. ASSUME NEW x \in Mgr, manager'[p][x] # NULL, x # m
          PROVE  /\ manager'[p][x] = manager[p][x]
                 /\ client'[p][manager[p][x].client].owner = client[p][manager[p][x].client].owner
                 /\ \A y \in Mgr : manager[p][x].key_vault_client_manager = y =>
                       manager'[p][y] = manager[p][y]
      BY <1>6, <1>7, <2>2, <2>4, <2>5, <2>7
    <2>8. InheritImage(p)'
      <3>1. /\ \A v \in Srv : server[p][v] # NULL =>
                  manager'[p][server[p][v].manager] = manager[p][server[p][v].manager]
            /\ \A s \in Sess : session[p][s] # NULL =>
                  manager'[p][session[p][s].manager] = manager[p][session[p][s].manager]
            /\ \A k \in Cur : cursor[p][k] # NULL =>
                  manager'[p][cursor[p][k].manager] = manager[p][cursor[p][k].manager]
        BY <1>6, <2>5
      <3> QED BY <1>1, <2>2, <2>4, <2>6, <2>7, <3>1, InheritManagers
    <2>9. OthersKept(p) /\ \A q \in Pid \ {p} : manager'[q] = manager[q]
      BY <1>1, <1>9, OtherImages
    <2> QED BY <1>4, <2>8, <2>9
  <1>10. ASSUME NEW p \in Pid, NEW m \in Mgr, FreeManager(p, m)
         PROVE  InheritInv'
    <2>1. /\ UNCHANGED <<server, session, cursor>> /\ manager'[p][m] = NULL /\ ~Referenced(p, m)
          /\ \A x \in Mgr : x # m => manager'[p][x] = manager[p][x]
      BY <1>10, FreeManagerCases
    <2>2. \A c \in Client : client'[p][c].owner = client[p][c].owner
      <3>1. UNCHANGED client \/ \E c \in Client : DestroyPclient(p, c)
        BY <1>10, FreeManagerCases
      <3> QED BY <1>1, <3>1, DestroyFacts
    <2>3. InheritImage(p)'
      BY <1>1, <1>6, <2>1, <2>2, InheritManagers DEF Referenced
    <2> QED BY <1>1, <1>4, <1>10, <2>3, OtherImages
  <1>11. ASSUME NEW p \in Pid, ShutdownStep(p)
         PROVE  InheritInv'
    <2>1. UNCHANGED <<manager, server, session, cursor>>
      BY <1>1, <1>11, ShutdownCases
    <2>2. \A c \in Client : client'[p][c].owner = client[p][c].owner
      <3>1. UNCHANGED client \/ \E c \in Client : DestroyPclient(p, c)
        BY <1>1, <1>11, ShutdownCases DEF PhaseStep, DestroyStep
      <3> QED BY <1>1, <3>1, DestroyFacts
    <2>3. InheritImage(p)'
      BY <1>1, <1>6, <2>1, <2>2, InheritManagers
    <2> QED BY <1>1, <1>4, <1>11, <2>3, OtherImages
  <1>12. ASSUME NEW p \in Pid, NEW q \in Pid, Fork(p, q)
         PROVE  InheritInv'
    <2>1. /\ \A r \in Pid : LET src == Source(p, q, r)
                             IN  /\ src \in Pid /\ manager'[r] = manager[src]
                                 /\ client'[r] = client[src] /\ server'[r] = server[src]
                                 /\ session'[r] = session[src] /\ cursor'[r] = cursor[src]
          /\ phase[q] = "unborn"
      BY <1>1, <1>12, ForkCases
    <2>2. ASSUME NEW r \in Pid, r # q
          PROVE  InheritImage(r)'
      BY <1>1, <2>1, <2>2 DEF Source, InheritImage
    <2>3. /\ manager'[q] = manager[p] /\ client'[q] = client[p] /\ server'[q] = server[p]
          /\ session'[q] = session[p] /\ cursor'[q] = cursor[p]
      BY <2>1 DEF Source
    <2>4. ~Mentioned(manager[p], client[p], server[p], session[p], cursor[p], q)
      BY <1>1, <2>1 DEF BornInv, MentionedIn
    <2>5. ManagersInherit(q, manager[p], client[p])
      BY <1>6, <1>7, <2>4 DEF Mentioned, ManagersInherit
    <2>6. ObjectsInherit(q, manager[p], server[p], session[p], cursor[p])
      BY <1>6, <2>4 DEF Mentioned, ObjectsInherit
    <2>7. InheritImage(q)'
      BY <2>3, <2>5, <2>6 DEF InheritImage
    <2> QED BY <1>2, <2>2, <2>7 DEF InheritInv
  <1> QED BY <1>3, <1>5, <1>8, <1>9, <1>10, <1>11, <1>12, StepCases

LEMMA InheritInit == Init => InheritInv
  BY NullAssumption DEF Init, InheritInv, BornInv, MentionedIn, Mentioned, InheritImage,
                        ManagersInherit, ObjectsInherit

-------------------------------------------------------------------------------
(* Own cursors *)

\* A client that this process created, or has reset.
Fresh(p, cl, pc, c) == cl[c].owner = p \/ (pc[c] # NULL /\ pc[c].last_reset_by_pid = p)

\* Own Servers and Cursors are of fresh clients, and own Cursors are of their
\* client's generation.
OwnFresh(p, mg, cl, pc, sv, cu) ==
    /\ \A v \in Srv : sv[v] # NULL /\ sv[v].created_by_pid = p =>
          Fresh(p, cl, pc, mg[sv[v].manager].client)
    /\ \A k \in Cur : cu[k] # NULL /\ cu[k].created_by_pid = p =>
          LET c == mg[cu[k].manager].client
          IN  Fresh(p, cl, pc, c) /\ cu[k].generation = cl[c].generation

OwnImage(p) == phase[p] = "request" =>
    OwnFresh(p, manager[p], client[p], pclient[p], server[p], cursor[p])

OwnInv == \A p \in Pid : OwnImage(p)

\* A fresh client is not reset: the recursion over the Managers of key vault
\* clients only visits inherited ones.
LEMMA FreshNotReset ==
    ASSUME ForkInv, NEW p \in Pid, InheritImage(p), NEW by \in Pid, NEW m \in Mgr,
           manager[p][m] # NULL, Acts(p, by, m), NEW c \in Client,
           Fresh(p, client[p], pclient[p], c)
    PROVE  c \notin ToReset(p, by, m)
  <1> SUFFICES ASSUME c \in ToReset(p, by, m) PROVE FALSE
    OBVIOUS
  <1>1. TypeOK
    BY DEF ForkInv
  <1>2. by # p /\ c \in ResetSet(p, m)
    BY DEF ToReset
  <1>3. manager[p][m].created_by_pid # p
    BY <1>1, <1>2, ActsInherit
  <1>4. PICK x \in KeyVaultChain(p, m) : manager[p][x] # NULL /\ ClientOf(p, x) = c
    BY <1>2 DEF ResetSet
  <1>5. pclient[p][c] # NULL /\ pclient[p][c].last_reset_by_pid # p
    BY <1>2 DEF ResetSet
  <1> DEFINE S == {y \in Mgr : manager[p][y] # NULL /\ manager[p][y].created_by_pid # p}
  <1>6. S \in SUBSET Mgr /\ m \in S
    BY <1>3
  <1>7. ASSUME NEW y \in S, manager[p][y].key_vault_client_manager # NULL
        PROVE  manager[p][y].key_vault_client_manager \in S
    <2>1. y \in Mgr /\ manager[p][y] # NULL /\ manager[p][y].created_by_pid # p
      OBVIOUS
    <2>2. manager[p][y].key_vault_client_manager \in Mgr
      BY <1>1, <1>7, <2>1, ObjectTypes
    <2> QED BY <2>1, <2>2 DEF InheritImage, ManagersInherit
  <1>8. x \in Mgr /\ x \in S
    <2>1. \A y \in S : LET kv == manager[p][y].key_vault_client_manager
                       IN  manager[p][y] # NULL /\ kv # NULL => kv \in S
      BY <1>7
    <2> HIDE DEF S
    <2> QED BY <1>4, <1>6, <2>1 DEF KeyVaultChain
  <1>9. client[p][c].owner # p
    BY <1>4, <1>8 DEF InheritImage, ManagersInherit, ClientOf
  <1> QED BY <1>5, <1>9 DEF Fresh

\* So an Action leaves it as it is, but for its pool.
LEMMA FreshKept ==
    ASSUME ForkInv, NEW p \in Pid, InheritImage(p), NEW by \in Pid, NEW m \in Mgr,
           Action(p, by, m), NEW c \in Client, Fresh(p, client[p], pclient[p], c)
    PROVE  /\ Fresh(p, client'[p], pclient'[p], c)
           /\ ClientsAfter(p, by, m)[c] = client[p][c]
           /\ client'[p][c].generation = client[p][c].generation
  <1>1. c \notin ToReset(p, by, m)
    BY FreshNotReset DEF Action
  <1>2. ClientsAfter(p, by, m)[c] = client[p][c]
    BY <1>1 DEF ClientsAfter
  <1>3. client'[p][c].generation = client[p][c].generation
    BY <1>2 DEF Action, ClientStep
  <1>4. Fresh(p, client'[p], pclient'[p], c)
    BY ActionKeeps DEF Fresh
  <1> QED BY <1>2, <1>3, <1>4

\* An operation leaves its client fresh: what resets an inherited client is
\* the comparison of pids on each of these paths.
LEMMA RunsFresh ==
    ASSUME ForkInv, NEW p \in Pid, InheritImage(p), OwnImage(p), NEW by \in Pid, NEW m \in Mgr,
           Action(p, by, m), Runs(p, by, m)
    PROVE  /\ ClientOf(p, m) \in Client
           /\ Fresh(p, client'[p], pclient'[p], ClientOf(p, m))
           /\ Fresh(p, client[p], pclient[p], ClientOf(p, m)) \/ ClientOf(p, m) \in ToReset(p, by, m)
  <1> DEFINE c == ClientOf(p, m)
  <1>1. TypeOK /\ Registered /\ manager[p][m] # NULL /\ phase[p] = "request"
    BY DEF ForkInv, Action, Runs
  <1>2. c \in Client /\ pclient[p][c] # NULL
    BY <1>1, ObjectTypes DEF Registered, ClientOf
  <1>3. CASE by = p
    <2>1. manager[p][m].created_by_pid = p => client[p][c].owner = p
      BY <1>1 DEF InheritImage, ManagersInherit, ClientOf
    <2>2. Fresh(p, client[p], pclient[p], c)
      BY <1>1, <1>3, <2>1 DEF Runs, OwnImage, OwnFresh, Fresh, ClientOf
    <2> QED BY <1>2, <2>2, FreshKept
  <1>4. CASE by # p
    <2>1. CASE pclient[p][c].last_reset_by_pid = p
      <3>1. Fresh(p, client[p], pclient[p], c)
        BY <1>2, <2>1 DEF Fresh
      <3> QED BY <1>2, <3>1, FreshKept
    <2>2. CASE pclient[p][c].last_reset_by_pid # p
      <3>1. m \in KeyVaultChain(p, m)
        BY DEF KeyVaultChain
      <3>2. c \in ToReset(p, by, m)
        BY <1>1, <1>2, <1>4, <2>2, <3>1 DEF ToReset, ResetSet
      <3>3. pclient[p][c] \in PclientRec
        BY <1>1, <1>2, ObjectTypes
      <3> DEFINE r == [pclient[p][c] EXCEPT !.last_reset_by_pid = p]
      <3>4. r \in PclientRec /\ r.last_reset_by_pid = p
        BY <3>3 DEF PclientRec
      <3>5. r # NULL
        BY <3>4, NullRecordAssumption
      <3>6. pclient'[p][c] = r
        BY <1>2, <3>2 DEF Action, PclientsAfter
      <3> QED BY <1>2, <3>2, <3>4, <3>5, <3>6 DEF Fresh
    <2> QED BY <2>1, <2>2
  <1> QED BY <1>3, <1>4

LEMMA OwnAction ==
    ASSUME "server_before_reset" \notin Habits, ForkInv, NEW p \in Pid, InheritImage(p), OwnImage(p),
           NEW by \in Pid, NEW m \in Mgr, Action(p, by, m)
    PROVE  OwnImage(p)'
  <1> SUFFICES ASSUME phase'[p] = "request"
               PROVE  OwnFresh(p, manager'[p], client'[p], pclient'[p], server'[p], cursor'[p])
    BY DEF OwnImage
  <1>1. TypeOK /\ Refs /\ Registered
    BY DEF ForkInv
  <1>2. /\ manager' = manager /\ phase[p] = "request" /\ manager[p][m] # NULL
        /\ OwnFresh(p, manager[p], client[p], pclient[p], server[p], cursor[p])
    BY DEF Action, OwnImage
  <1>3. \A x \in Mgr : manager[p][x] # NULL => manager[p][x].client \in Client
    BY <1>1, ObjectTypes
  <1>4. ASSUME NEW v \in Srv, server'[p][v] # NULL, server'[p][v].created_by_pid = p
        PROVE  Fresh(p, client'[p], pclient'[p], manager[p][server'[p][v].manager].client)
    <2> DEFINE c == manager[p][server'[p][v].manager].client
    <2>1. Fresh(p, client[p], pclient[p], c) /\ c \in Client
      <3>1. CASE server'[p][v] = server[p][v]
        <4>1. server[p][v].manager \in Mgr /\ manager[p][server[p][v].manager] # NULL
          BY <1>1, <1>4, <3>1, ObjectTypes DEF Refs
        <4> QED BY <1>2, <1>3, <1>4, <3>1, <4>1 DEF OwnFresh
      <3>2. CASE server'[p][v] # server[p][v]
        <4>1. /\ server'[p][v].manager = m
              /\ \/ manager[p][m].created_by_pid = p
                 \/ pclient[p][ClientOf(p, m)].last_reset_by_pid = p
          BY <1>4, <3>2 DEF Action, ServerStepOf
        <4>2. pclient[p][ClientOf(p, m)] # NULL
          BY <1>1, <1>2 DEF Registered
        <4>3. manager[p][m].created_by_pid = p => client[p][manager[p][m].client].owner = p
          BY <1>2 DEF InheritImage, ManagersInherit
        <4> QED BY <1>2, <1>3, <4>1, <4>2, <4>3 DEF Fresh, ClientOf
      <3> QED BY <3>1, <3>2
    <2> HIDE DEF c
    <2>2. Fresh(p, client'[p], pclient'[p], c)
      BY <2>1, FreshKept
    <2> QED BY <2>2 DEF c
  <1>5. ASSUME NEW k \in Cur, cursor'[p][k] # NULL, cursor'[p][k].created_by_pid = p
        PROVE  LET c == manager[p][cursor'[p][k].manager].client
               IN  /\ Fresh(p, client'[p], pclient'[p], c)
                   /\ cursor'[p][k].generation = client'[p][c].generation
    <2> DEFINE new == cursor'[p][k]
               old == cursor[p][k]
               c == manager[p][new.manager].client
    <2>1. CASE ObjectKept(old, new)
      <3>1. /\ old # NULL /\ old.created_by_pid = p /\ new.manager = old.manager
            /\ new.generation = old.generation
        BY <1>5, <2>1 DEF ObjectKept
      <3>2. old.manager \in Mgr /\ manager[p][old.manager] # NULL
        BY <1>1, <3>1, ObjectTypes DEF Refs
      <3>3. c \in Client /\ Fresh(p, client[p], pclient[p], c) /\ new.generation = client[p][c].generation
        BY <1>2, <1>3, <3>1, <3>2 DEF OwnFresh
      <3> HIDE DEF c, new
      <3>4. /\ Fresh(p, client'[p], pclient'[p], c)
            /\ client'[p][c].generation = client[p][c].generation
        BY <3>3, FreshKept
      <3> QED BY <3>3, <3>4 DEF c, new
    <2>2. CASE ObjectNew(p, by, m, new)
      <3>1. /\ Runs(p, by, m) /\ new.manager = m /\ c = ClientOf(p, m)
            /\ new.generation = ClientsAfter(p, by, m)[ClientOf(p, m)].generation
        BY <2>2 DEF ObjectNew, ClientOf
      <3>2. ClientOf(p, m) \in Client /\ Fresh(p, client'[p], pclient'[p], ClientOf(p, m))
        BY <3>1, RunsFresh
      <3>3. client'[p][ClientOf(p, m)].generation = ClientsAfter(p, by, m)[ClientOf(p, m)].generation
        BY <3>2 DEF Action, ClientStep
      <3> HIDE DEF c, new
      <3> QED BY <3>1, <3>2, <3>3 DEF c, new
    <2>3. ObjectStepOf(p, by, m, old, new)
      BY DEF Action
    <2> QED BY <1>5, <2>1, <2>2, <2>3 DEF ObjectStepOf
  <1> QED BY <1>2, <1>4, <1>5 DEF OwnFresh

\* The other steps of a request leave the objects, their Managers and those
\* Managers' clients alone.
UsedManager(p, x) == \/ \E v \in Srv : server[p][v] # NULL /\ server[p][v].manager = x
                     \/ \E s \in Sess : session[p][s] # NULL /\ session[p][s].manager = x
                     \/ \E k \in Cur : cursor[p][k] # NULL /\ cursor[p][k].manager = x

UsedKept(p) ==
    /\ UNCHANGED <<phase, server, session, cursor>> /\ phase[p] = "request"
    /\ \A x \in Mgr : UsedManager(p, x) =>
          /\ manager'[p][x] = manager[p][x]
          /\ client'[p][manager[p][x].client] = client[p][manager[p][x].client]
          /\ pclient'[p][manager[p][x].client] = pclient[p][manager[p][x].client]

LEMMA UsedObjects ==
    ASSUME ForkInv, NEW p \in Pid, NEW x \in Mgr, UsedManager(p, x)
    PROVE  /\ manager[p][x] # NULL /\ manager[p][x].client \in Client
           /\ client[p][manager[p][x].client].st # "none"
  BY ObjectTypes DEF ForkInv, UsedManager, Refs, Registered, ClientOf

LEMMA RejectedKeepsUsed ==
    ASSUME ForkInv, NEW p \in Pid, NEW o \in Opts, ConstructRejected(p, o)
    PROVE  UsedKept(p)
  <1>1. TypeOK
    BY DEF ForkInv
  <1>2. /\ UNCHANGED <<phase, manager, pclient, server, session, cursor>> /\ phase[p] = "request"
        /\ \A c \in Client : client[p][c].st # "none" => client'[p][c] = client[p][c]
    BY <1>1, RejectedCases
  <1> QED BY <1>2, UsedObjects DEF UsedKept

LEMMA ConstructKeepsUsed ==
    ASSUME ForkInv, NEW p \in Pid, NEW m \in Mgr, NEW o \in Opts, NEW persistent \in BOOLEAN,
           NEW kv \in Mgr \cup {NULL}, Construct(p, m, o, persistent, kv)
    PROVE  UsedKept(p)
  <1>1. TypeOK
    BY DEF ForkInv
  <1>2. Constructed(p, m, kv)
    BY <1>1, ConstructCases
  <1>3. /\ UNCHANGED <<phase, server, session, cursor>> /\ phase[p] = "request"
        /\ manager[p][m] = NULL
        /\ \A x \in Mgr : x # m => manager'[p][x] = manager[p][x]
    BY <1>2 DEF Constructed
  <1>4. \A c \in Client : client[p][c].st # "none" =>
          client'[p][c] = client[p][c] /\ pclient'[p][c] = pclient[p][c]
    BY <1>2 DEF Constructed, CachedImage, NewImage
  <1> QED BY <1>3, <1>4, UsedObjects DEF UsedKept

LEMMA FreeKeepsUsed ==
    ASSUME ForkInv, NEW p \in Pid, NEW m \in Mgr, FreeManager(p, m), phase[p] = "request"
    PROVE  UsedKept(p)
  <1>1. TypeOK /\ Registered
    BY DEF ForkInv
  <1>2. /\ UNCHANGED <<phase, server, session, cursor>>
        /\ manager[p][m] # NULL /\ ~UsedManager(p, m)
        /\ \A x \in Mgr : x # m => manager'[p][x] = manager[p][x]
    BY FreeManagerCases DEF Referenced, UsedManager
  <1>3. CASE UNCHANGED <<client, pclient>>
    BY <1>2, <1>3 DEF UsedKept
  <1>4. ASSUME NEW c \in Client, c = ClientOf(p, m), ~manager[p][m].use_persistent_client,
               DestroyPclient(p, c)
        PROVE  UsedKept(p)
    <2>1. \A d \in Client : d # c => client'[p][d] = client[p][d] /\ pclient'[p][d] = pclient[p][d]
      BY <1>1, <1>4, DestroyFacts
    <2>2. \A x \in Mgr : UsedManager(p, x) => x # m /\ manager[p][x].client # c
      BY <1>1, <1>2, <1>4, UsedObjects DEF Registered, ClientOf
    <2> QED BY <1>2, <2>1, <2>2, UsedObjects DEF UsedKept
  <1> QED BY <1>3, <1>4, FreeManagerCases

LEMMA OwnUsed ==
    ASSUME ForkInv, NEW p \in Pid, OwnImage(p), UsedKept(p)
    PROVE  OwnImage(p)'
  <1>1. OwnFresh(p, manager[p], client[p], pclient[p], server[p], cursor[p])
    BY DEF OwnImage, UsedKept
  <1>2. /\ \A v \in Srv : server[p][v] # NULL => server[p][v].manager \in Mgr
        /\ \A k \in Cur : cursor[p][k] # NULL => cursor[p][k].manager \in Mgr
    BY ObjectTypes DEF ForkInv
  <1>3. UNCHANGED <<server, cursor>>
    BY DEF UsedKept
  <1>4. ASSUME NEW x \in Mgr, UsedManager(p, x)
        PROVE  LET c == manager[p][x].client
               IN  /\ manager'[p][x].client = c
                   /\ Fresh(p, client[p], pclient[p], c) => Fresh(p, client'[p], pclient'[p], c)
                   /\ client'[p][c].generation = client[p][c].generation
    BY <1>4 DEF UsedKept, Fresh
  <1>5. ASSUME NEW v \in Srv, server[p][v] # NULL, server[p][v].created_by_pid = p
        PROVE  Fresh(p, client'[p], pclient'[p], manager'[p][server[p][v].manager].client)
    <2>1. server[p][v].manager \in Mgr /\ UsedManager(p, server[p][v].manager)
      BY <1>2, <1>5 DEF UsedManager
    <2>2. Fresh(p, client[p], pclient[p], manager[p][server[p][v].manager].client)
      BY <1>1, <1>5 DEF OwnFresh
    <2> QED BY <1>4, <2>1, <2>2
  <1>6. ASSUME NEW k \in Cur, cursor[p][k] # NULL, cursor[p][k].created_by_pid = p
        PROVE  LET c == manager'[p][cursor[p][k].manager].client
               IN  /\ Fresh(p, client'[p], pclient'[p], c)
                   /\ cursor[p][k].generation = client'[p][c].generation
    <2>1. cursor[p][k].manager \in Mgr /\ UsedManager(p, cursor[p][k].manager)
      BY <1>2, <1>6 DEF UsedManager
    <2>2. LET c == manager[p][cursor[p][k].manager].client
          IN  Fresh(p, client[p], pclient[p], c) /\ cursor[p][k].generation = client[p][c].generation
      BY <1>1, <1>6 DEF OwnFresh
    <2> QED BY <1>4, <2>1, <2>2
  <1> QED BY <1>3, <1>5, <1>6 DEF OwnImage, OwnFresh

LEMMA OwnStep ==
    ASSUME "server_before_reset" \notin Habits, ForkInv, InheritInv, OwnInv, [Next]_vars
    PROVE  OwnInv'
  <1>1. /\ TypeOK /\ Refs /\ Registered /\ BornInv
        /\ \A p \in Pid : InheritImage(p) /\ OwnImage(p)
    BY DEF ForkInv, InheritInv, OwnInv
  <1>2. CASE UNCHANGED vars
    BY <1>1, <1>2 DEF vars, OwnInv, OwnImage
  <1>3. ASSUME NEW p \in Pid, OthersKept(p),
               \A q \in Pid \ {p} : manager'[q] = manager[q] /\ phase'[q] = phase[q],
               OwnImage(p)'
        PROVE  OwnInv'
    <2>1. ASSUME NEW q \in Pid, q # p
          PROVE  OwnImage(q)'
      <3>1. /\ manager'[q] = manager[q] /\ client'[q] = client[q] /\ pclient'[q] = pclient[q]
            /\ server'[q] = server[q] /\ cursor'[q] = cursor[q] /\ phase'[q] = phase[q]
        BY <1>3, <2>1 DEF OthersKept
      <3> QED BY <1>1, <3>1 DEF OwnImage
    <2> QED BY <1>3, <2>1 DEF OwnInv
  <1>4. ASSUME NEW p \in Pid, NEW by \in Pid, NEW m \in Mgr, Action(p, by, m)
        PROVE  OwnInv'
    <2>1. OwnImage(p)'
      BY <1>1, <1>4, OwnAction
    <2> QED BY <1>1, <1>3, <1>4, <2>1, OtherImages
  <1>5. ASSUME NEW p \in Pid, NEW o \in Opts, ConstructRejected(p, o)
        PROVE  OwnInv'
    BY <1>1, <1>3, <1>5, OwnUsed, RejectedKeepsUsed, OtherImages
  <1>6. ASSUME NEW p \in Pid, NEW m \in Mgr, NEW o \in Opts, NEW persistent \in BOOLEAN,
               NEW kv \in Mgr \cup {NULL}, Construct(p, m, o, persistent, kv)
        PROVE  OwnInv'
    <2>1. UsedKept(p)
      BY <1>6, ConstructKeepsUsed
    <2>2. OwnImage(p)'
      BY <1>1, <2>1, OwnUsed
    <2>3. /\ OthersKept(p)
          /\ \A q \in Pid \ {p} : manager'[q] = manager[q] /\ phase'[q] = phase[q]
      BY <1>1, <1>6, OtherImages
    <2> QED BY <1>3, <2>2, <2>3
  <1>7. ASSUME NEW p \in Pid, NEW m \in Mgr, FreeManager(p, m)
        PROVE  OwnInv'
    <2>1. phase' = phase
      BY <1>7, FreeManagerCases
    <2>2. OwnImage(p)'
      <3>1. CASE phase[p] = "request"
        BY <1>1, <1>7, <3>1, FreeKeepsUsed, OwnUsed
      <3>2. CASE phase[p] # "request"
        BY <2>1, <3>2 DEF OwnImage
      <3> QED BY <3>1, <3>2
    <2> QED BY <1>1, <1>3, <1>7, <2>2, OtherImages
  <1>8. ASSUME NEW p \in Pid, ShutdownStep(p)
        PROVE  OwnInv'
    <2>1. phase'[p] = "request" => phase[p] = "idle" /\ UNCHANGED <<manager, server, cursor>>
      BY <1>1, <1>8, ShutdownCases DEF PhaseStep, DestroyStep
    <2>2. phase[p] = "idle" => /\ \A v \in Srv : server[p][v] = NULL
                               /\ \A k \in Cur : cursor[p][k] = NULL
      BY <1>1, ObjectTypes DEF Registered, Refs
    <2>3. OwnImage(p)'
      BY <2>1, <2>2 DEF OwnImage, OwnFresh
    <2> QED BY <1>1, <1>3, <1>8, <2>3, OtherImages
  <1>9. ASSUME NEW p \in Pid, NEW q \in Pid, Fork(p, q)
        PROVE  OwnInv'
    <2>1. /\ \A r \in Pid : LET src == Source(p, q, r)
                             IN  /\ src \in Pid /\ manager'[r] = manager[src] /\ phase'[r] = phase[src]
                                 /\ client'[r] = client[src] /\ pclient'[r] = pclient[src]
                                 /\ server'[r] = server[src] /\ cursor'[r] = cursor[src]
          /\ phase[q] = "unborn"
      BY <1>1, <1>9, ForkCases
    <2>2. ASSUME NEW r \in Pid, r # q
          PROVE  OwnImage(r)'
      BY <1>1, <2>1, <2>2 DEF Source, OwnImage
    <2>3. server'[q] = server[p] /\ cursor'[q] = cursor[p]
      BY <2>1 DEF Source
    <2>4. ~Mentioned(manager[p], client[p], server[p], session[p], cursor[p], q)
      BY <1>1, <2>1 DEF BornInv, MentionedIn
    <2>5. OwnImage(q)'
      BY <2>3, <2>4 DEF Mentioned, OwnImage, OwnFresh
    <2> QED BY <2>2, <2>5 DEF OwnInv
  <1> QED BY <1>2, <1>4, <1>5, <1>6, <1>7, <1>8, <1>9, StepCases

\* A cursor that a process opened stays killable: no later reset by the same
\* process makes it look inherited (php_phongo_client_reset_once), if Servers
\* of an inherited Manager are only obtained once its client was reset.
THEOREM OwnCursorsStayKillable ==
    ASSUME "server_before_reset" \notin Habits
    PROVE  Spec => []OwnCursorsKillable
  <1>1. Init => OwnInv
    BY DEF Init, OwnInv, OwnImage, OwnFresh
  <1>2. ForkInv /\ InheritInv /\ [Next]_vars => InheritInv'
    BY InheritStep
  <1>3. ForkInv /\ InheritInv /\ OwnInv /\ [Next]_vars => OwnInv'
    BY OwnStep
  <1>4. OwnInv => OwnCursorsKillable
    BY DEF OwnInv, OwnImage, OwnFresh, OwnCursorsKillable, ClientOf
  <1> QED BY <1>1, <1>2, <1>3, <1>4, InheritInit, Invariant, PTL DEF Spec

-------------------------------------------------------------------------------
(* LSIDs *)

\* Own Sessions and Cursors have own LSIDs.
OwnLsids(p, se, cu) ==
    /\ \A s \in Sess : se[s] # NULL /\ se[s].created_by_pid = p /\ se[s].lsid # NULL => se[s].lsid.by = p
    /\ \A k \in Cur : cu[k] # NULL /\ cu[k].created_by_pid = p /\ cu[k].lsid # NULL => cu[k].lsid.by = p

\* The pool of a fresh client has own LSIDs only.
OwnPools(p, cl, pc) == \A c \in Client : Fresh(p, cl, pc, c) => \A l \in cl[c].pool : l.by = p

\* Every Manager of an encrypted client refers to a Manager of the key vault
\* client, and both are inherited or neither is.
VaultManagers(p, mg, cl) ==
    \A m \in Mgr : mg[m] # NULL /\ cl[mg[m].client].key_vault # NULL =>
        LET x == mg[m].key_vault_client_manager
        IN  /\ x \in Mgr /\ mg[x] # NULL /\ mg[x].client = cl[mg[m].client].key_vault
            /\ mg[m].created_by_pid = p <=> mg[x].created_by_pid = p

\* A fresh client's key vault client is fresh.
VaultsFresh(p, mg, cl, pc) ==
    \A m \in Mgr : LET c == mg[m].client
                   IN  mg[m] # NULL /\ cl[c].key_vault # NULL /\ Fresh(p, cl, pc, c)
                         => Fresh(p, cl, pc, cl[c].key_vault)

LsidImage(p) ==
    /\ OwnLsids(p, session[p], cursor[p])
    /\ OwnPools(p, client[p], pclient[p])
    /\ VaultManagers(p, manager[p], client[p])
    /\ phase[p] = "request" => VaultsFresh(p, manager[p], client[p], pclient[p])

LsidInv == NoSharedLsid /\ \A p \in Pid : LsidImage(p)

\* The reset of a client covers its key vault client.
LEMMA ResetVault ==
    ASSUME ForkInv, NEW p \in Pid, LsidImage(p), phase[p] = "request", NEW by \in Pid, NEW m \in Mgr,
           NEW c \in ToReset(p, by, m), client[p][c].key_vault # NULL
    PROVE  LET kv == client[p][c].key_vault
           IN  /\ kv \in Client
               /\ kv \in ToReset(p, by, m) \/ Fresh(p, client[p], pclient[p], kv)
  <1> DEFINE kv == client[p][c].key_vault
  <1>1. TypeOK /\ Registered /\ c \in Client /\ by # p
    BY DEF ForkInv, ToReset, ResetSet
  <1>2. kv \in Client
    BY <1>1, ObjectTypes
  <1>3. PICK y \in KeyVaultChain(p, m) : manager[p][y] # NULL /\ ClientOf(p, y) = c
    BY DEF ToReset, ResetSet
  <1>4. y \in Mgr
    BY DEF KeyVaultChain
  <1> DEFINE z == manager[p][y].key_vault_client_manager
  <1>5. z \in Mgr /\ manager[p][z] # NULL /\ manager[p][z].client = kv
    BY <1>3, <1>4 DEF LsidImage, VaultManagers, ClientOf
  <1>6. z \in KeyVaultChain(p, m)
    <2> SUFFICES ASSUME NEW S \in SUBSET Mgr, m \in S,
                        \A w \in S : LET k == manager[p][w].key_vault_client_manager
                                     IN  manager[p][w] # NULL /\ k # NULL => k \in S
                 PROVE  z \in S
      BY <1>5 DEF KeyVaultChain
    <2>1. y \in S
      BY DEF KeyVaultChain
    <2> QED BY <1>3, <1>5, <2>1, NullAssumption
  <1>7. pclient[p][kv] # NULL
    BY <1>1, <1>5 DEF Registered, ClientOf
  <1> HIDE DEF kv, z
  <1>8. kv \in ToReset(p, by, m) \/ Fresh(p, client[p], pclient[p], kv)
    <2>1. CASE pclient[p][kv].last_reset_by_pid = p
      BY <1>7, <2>1 DEF Fresh
    <2>2. CASE pclient[p][kv].last_reset_by_pid # p
      BY <1>1, <1>2, <1>5, <1>6, <1>7, <2>2 DEF ToReset, ResetSet, ClientOf
    <2> QED BY <2>1, <2>2
  <1> QED BY <1>2, <1>8 DEF kv

\* After the reset, a client that is fresh has a pool of own LSIDs.
LEMMA PoolAfter ==
    ASSUME ForkInv, NEW p \in Pid, InheritImage(p), LsidImage(p), NEW by \in Pid, NEW m \in Mgr,
           Action(p, by, m), NEW c \in Client,
           Fresh(p, client[p], pclient[p], c) \/ c \in ToReset(p, by, m)
    PROVE  \A l \in ClientsAfter(p, by, m)[c].pool : l.by = p
  <1>1. CASE Fresh(p, client[p], pclient[p], c)
    <2>1. ClientsAfter(p, by, m)[c] = client[p][c]
      BY <1>1, FreshKept
    <2> QED BY <1>1, <2>1 DEF LsidImage, OwnPools
  <1>2. CASE c \in ToReset(p, by, m)
    <2>1. client[p][c] \in ClientRec
      BY ObjectTypes DEF ForkInv
    <2>2. ResetClient(client[p][c]).pool = {}
      BY <2>1 DEF ResetClient, ClientRec
    <2>3. ClientsAfter(p, by, m)[c] = ResetClient(client[p][c])
      BY <1>2 DEF ClientsAfter
    <2> QED BY <2>2, <2>3
  <1> QED BY <1>1, <1>2

\* And the objects of its generation are own ones.
LEMMA OwnAfter ==
    ASSUME ForkInv, NEW p \in Pid, InheritImage(p), NEW by \in Pid, NEW m \in Mgr, Action(p, by, m),
           NEW c \in Client, Fresh(p, client[p], pclient[p], c) \/ c \in ToReset(p, by, m),
           NEW obj, obj.manager \in Mgr, manager[p][obj.manager] # NULL, obj.generation \in Nat,
           ClientOf(p, obj.manager) = c, obj.generation = ClientsAfter(p, by, m)[c].generation,
           obj.created_by_pid # p => manager[p][obj.manager].created_by_pid # p,
           Older(p, client[p][c], pclient[p][c], obj)
    PROVE  obj.created_by_pid = p
  <1>1. client[p][c] \in ClientRec /\ client[p][c].generation \in Nat
    BY ObjectTypes DEF ForkInv
  <1>2. CASE Fresh(p, client[p], pclient[p], c)
    <2>1. ClientsAfter(p, by, m)[c] = client[p][c]
      BY <1>2, FreshKept
    <2>2. obj.created_by_pid # p => client[p][c].owner # p
      BY DEF InheritImage, ManagersInherit, ClientOf
    <2>3. obj.created_by_pid # p => obj.generation < client[p][c].generation
      BY <1>2, <2>2 DEF Fresh, Older
    <2> QED BY <1>1, <2>1, <2>3
  <1>3. CASE c \in ToReset(p, by, m)
    <2>1. ClientsAfter(p, by, m)[c].generation = client[p][c].generation + 1
      BY <1>1, <1>3, ResetClientType DEF ClientsAfter
    <2>2. obj.generation <= client[p][c].generation
      BY DEF Older
    <2> QED BY <1>1, <2>1, <2>2
  <1> QED BY <1>2, <1>3

\* The LSIDs of these objects.
LEMMA HeldOwn ==
    ASSUME ForkInv, NEW p \in Pid, InheritImage(p), LsidImage(p), NEW by \in Pid, NEW m \in Mgr,
           Action(p, by, m), NEW c \in Client,
           Fresh(p, client[p], pclient[p], c) \/ c \in ToReset(p, by, m),
           NEW l, l # NULL, Returned(p, c, ClientsAfter(p, by, m)[c].generation, l)
    PROVE  l.by = p
  <1> DEFINE g == ClientsAfter(p, by, m)[c].generation
  <1>1. TypeOK /\ Refs /\ Generations
    BY DEF ForkInv
  <1>2. ASSUME NEW s \in Sess, Holder(p, session[p][s], c, g, l)
        PROVE  l.by = p
    <2> DEFINE o == session[p][s]
    <2>1. o # NULL /\ ClientOf(p, o.manager) = c /\ o.generation = g /\ o.lsid = l
      BY <1>2 DEF Holder
    <2>2. o.manager \in Mgr /\ manager[p][o.manager] # NULL /\ o.generation \in Nat
      BY <1>1, <2>1, ObjectTypes DEF Refs
    <2>3. Older(p, client[p][c], pclient[p][c], o)
      BY <1>1, <2>1, SessionOlder DEF ClientOf
    <2>4. o.created_by_pid # p => manager[p][o.manager].created_by_pid # p
      BY <2>1 DEF InheritImage, ObjectsInherit
    <2>5. o.created_by_pid = p => l.by = p
      BY <2>1 DEF LsidImage, OwnLsids
    <2> HIDE DEF o, g
    <2>6. o.created_by_pid = p
      BY <2>1, <2>2, <2>3, <2>4, OwnAfter DEF g
    <2> QED BY <2>5, <2>6
  <1>3. ASSUME NEW k \in Cur, Holder(p, cursor[p][k], c, g, l)
        PROVE  l.by = p
    <2> DEFINE o == cursor[p][k]
    <2>1. o # NULL /\ ClientOf(p, o.manager) = c /\ o.generation = g /\ o.lsid = l
      BY <1>3 DEF Holder
    <2>2. o.manager \in Mgr /\ manager[p][o.manager] # NULL /\ o.generation \in Nat
      BY <1>1, <2>1, ObjectTypes DEF Refs
    <2>3. Older(p, client[p][c], pclient[p][c], o)
      BY <1>1, <2>1, CursorOlder DEF ClientOf
    <2>4. o.created_by_pid # p => manager[p][o.manager].created_by_pid # p
      BY <2>1 DEF InheritImage, ObjectsInherit
    <2>5. o.created_by_pid = p => l.by = p
      BY <2>1 DEF LsidImage, OwnLsids
    <2> HIDE DEF o, g
    <2>6. o.created_by_pid = p
      BY <2>1, <2>2, <2>3, <2>4, OwnAfter DEF g
    <2> QED BY <2>5, <2>6
  <1> QED BY <1>2, <1>3 DEF Returned

\* The clients that are fresh after an Action.
LEMMA FreshAfter ==
    ASSUME ForkInv, NEW p \in Pid, InheritImage(p), NEW by \in Pid, NEW m \in Mgr,
           Action(p, by, m), NEW c \in Client
    PROVE  Fresh(p, client'[p], pclient'[p], c) <=>
             Fresh(p, client[p], pclient[p], c) \/ c \in ToReset(p, by, m)
  <1>1. TypeOK
    BY DEF ForkInv
  <1>2. CASE c \in ToReset(p, by, m)
    <2>1. pclient[p][c] # NULL /\ pclient[p][c] \in PclientRec
      BY <1>1, <1>2, ObjectTypes DEF ToReset, ResetSet
    <2> DEFINE r == [pclient[p][c] EXCEPT !.last_reset_by_pid = p]
    <2>2. r \in PclientRec /\ r.last_reset_by_pid = p
      BY <2>1 DEF PclientRec
    <2>3. r # NULL
      BY <2>2, NullRecordAssumption
    <2>4. pclient'[p][c] = r
      BY <1>2 DEF Action, PclientsAfter
    <2> QED BY <1>2, <2>2, <2>3, <2>4 DEF Fresh
  <1>3. CASE c \notin ToReset(p, by, m)
    <2>1. pclient'[p][c] = pclient[p][c]
      BY <1>3 DEF Action, PclientsAfter
    <2>2. client'[p][c].owner = client[p][c].owner
      BY ActionKeeps
    <2> QED BY <1>3, <2>1, <2>2 DEF Fresh
  <1> QED BY <1>2, <1>3

\* A client that is fresh after the reset has a fresh key vault client.
LEMMA VaultAfter ==
    ASSUME ForkInv, NEW p \in Pid, InheritImage(p), LsidImage(p), phase[p] = "request",
           NEW by \in Pid, NEW m \in Mgr, Action(p, by, m), NEW x \in Mgr, manager[p][x] # NULL,
           client[p][ClientOf(p, x)].key_vault # NULL,
           \/ Fresh(p, client[p], pclient[p], ClientOf(p, x))
           \/ ClientOf(p, x) \in ToReset(p, by, m)
    PROVE  LET kv == client[p][ClientOf(p, x)].key_vault
           IN  /\ kv \in Client
               /\ Fresh(p, client[p], pclient[p], kv) \/ kv \in ToReset(p, by, m)
  <1> DEFINE c == ClientOf(p, x)
             kv == client[p][c].key_vault
  <1>1. c \in Client /\ kv \in Client
    BY ObjectTypes DEF ForkInv, ClientOf
  <1>2. CASE Fresh(p, client[p], pclient[p], c)
    <2>1. VaultsFresh(p, manager[p], client[p], pclient[p])
      BY DEF LsidImage
    <2> QED BY <1>1, <1>2, <2>1 DEF VaultsFresh, ClientOf
  <1>3. CASE c \in ToReset(p, by, m)
    BY <1>1, <1>3, ResetVault
  <1> QED BY <1>2, <1>3

\* Nothing that an operation sends is another process's.
LEMMA SendsOwn ==
    ASSUME ForkInv, NEW p \in Pid, InheritImage(p), OwnImage(p), LsidImage(p),
           NEW by \in Pid, NEW m \in Mgr, Action(p, by, m), NEW l, Sends(p, by, m, l)
    PROVE  l.by = p
  <1> DEFINE cls == ClientsAfter(p, by, m)
             c == ClientOf(p, m)
  <1>1. Runs(p, by, m) /\ phase[p] = "request" /\ manager[p][m] # NULL
    BY DEF Sends, Runs, Action
  <1>2. c \in Client /\ (Fresh(p, client[p], pclient[p], c) \/ c \in ToReset(p, by, m))
    BY <1>1, RunsFresh
  <1>3. CASE l \in cls[c].pool
    BY <1>2, <1>3, PoolAfter
  <1>4. CASE cls[c].key_vault # NULL /\ l \in cls[cls[c].key_vault].pool
    <2>1. cls[c].key_vault = client[p][c].key_vault
      <3>1. client[p][c] \in ClientRec
        BY <1>2, ObjectTypes DEF ForkInv
      <3>2. ResetClient(client[p][c]).key_vault = client[p][c].key_vault
        BY <3>1 DEF ResetClient, ClientRec
      <3> QED BY <1>2, <3>2 DEF ClientsAfter
    <2> DEFINE kv == client[p][c].key_vault
    <2>2. kv \in Client /\ (Fresh(p, client[p], pclient[p], kv) \/ kv \in ToReset(p, by, m))
      BY <1>1, <1>2, <1>4, <2>1, VaultAfter
    <2>3. \A h \in cls[kv].pool : h.by = p
      BY <2>2, PoolAfter
    <2> QED BY <1>4, <2>1, <2>3
  <1>5. ASSUME NEW s \in Sess, l # NULL, Holder(p, session[p][s], c, cls[c].generation, l)
        PROVE  l.by = p
    <2>1. Returned(p, c, cls[c].generation, l)
      BY <1>5 DEF Returned
    <2> QED BY <1>2, <1>5, <2>1, HeldOwn
  <1> QED BY <1>3, <1>4, <1>5 DEF Sends

\* What an Action does to the LSIDs of its process.
LEMMA LsidAction ==
    ASSUME ForkInv, TypeOK', NEW p \in Pid, InheritImage(p), OwnImage(p), LsidImage(p), NoSharedLsid,
           NEW by \in Pid, NEW m \in Mgr, Action(p, by, m)
    PROVE  LsidImage(p)' /\ NoSharedLsid'
  <1>1. TypeOK /\ manager[p][m] # NULL /\ manager' = manager /\ phase' = phase
    BY DEF ForkInv, Action
  <1>2. ASSUME NEW old, NEW new, ObjectStepOf(p, by, m, old, new), new # NULL,
               new.created_by_pid = p, new.lsid # NULL,
               old # NULL /\ old.created_by_pid = p /\ old.lsid # NULL => old.lsid.by = p
        PROVE  new.lsid.by = p
    <2>1. CASE ObjectKept(old, new)
      BY <1>2, <2>1 DEF ObjectKept
    <2>2. CASE ObjectNew(p, by, m, new)
      <3>1. /\ Runs(p, by, m)
            /\ new.lsid.by = p \/ new.lsid \in ClientsAfter(p, by, m)[ClientOf(p, m)].pool
        BY <1>2, <2>2 DEF ObjectNew
      <3>2. \A l \in ClientsAfter(p, by, m)[ClientOf(p, m)].pool : l.by = p
        BY <3>1, RunsFresh, PoolAfter
      <3> QED BY <3>1, <3>2
    <2> QED BY <1>2, <2>1, <2>2 DEF ObjectStepOf
  <1>3. OwnLsids(p, session'[p], cursor'[p])
    <2>1. ASSUME NEW s \in Sess, session'[p][s] # NULL, session'[p][s].created_by_pid = p,
                 session'[p][s].lsid # NULL
          PROVE  session'[p][s].lsid.by = p
      <3>1. ObjectStepOf(p, by, m, session[p][s], session'[p][s])
        BY DEF Action
      <3> QED BY <1>2, <2>1, <3>1 DEF LsidImage, OwnLsids
    <2>2. ASSUME NEW k \in Cur, cursor'[p][k] # NULL, cursor'[p][k].created_by_pid = p,
                 cursor'[p][k].lsid # NULL
          PROVE  cursor'[p][k].lsid.by = p
      <3>1. ObjectStepOf(p, by, m, cursor[p][k], cursor'[p][k])
        BY DEF Action
      <3> QED BY <1>2, <2>2, <3>1 DEF LsidImage, OwnLsids
    <2> QED BY <2>1, <2>2 DEF OwnLsids
  <1>4. OwnPools(p, client'[p], pclient'[p])
    <2> SUFFICES ASSUME NEW c \in Client, Fresh(p, client'[p], pclient'[p], c),
                        NEW l \in client'[p][c].pool
                 PROVE  l.by = p
      BY DEF OwnPools
    <2>1. Fresh(p, client[p], pclient[p], c) \/ c \in ToReset(p, by, m)
      BY FreshAfter
    <2> DEFINE cl == ClientsAfter(p, by, m)[c]
    <2>2. l \in cl.pool \/ l.by = p \/ Returned(p, c, cl.generation, l)
      BY DEF Action, ClientStep
    <2>3. l # NULL
      <3>1. client'[p][c] \in ClientRec
        BY DEF TypeOK
      <3>2. l \in Lsid
        BY <3>1 DEF ClientRec
      <3> QED BY <3>2, NullRecordAssumption
    <2>4. \A h \in cl.pool : h.by = p
      BY <2>1, PoolAfter
    <2>5. Returned(p, c, cl.generation, l) => l.by = p
      BY <2>1, <2>3, HeldOwn
    <2> QED BY <2>2, <2>4, <2>5
  <1>5. \A x \in Mgr : manager[p][x] # NULL =>
          /\ manager[p][x].client \in Client
          /\ client'[p][manager[p][x].client].key_vault = client[p][manager[p][x].client].key_vault
    BY <1>1, ActionKeeps, ObjectTypes
  <1>6. VaultManagers(p, manager'[p], client'[p])
    BY <1>1, <1>5 DEF LsidImage, VaultManagers
  <1>7. ASSUME phase[p] = "request"
        PROVE  VaultsFresh(p, manager'[p], client'[p], pclient'[p])
    <2> SUFFICES ASSUME NEW x \in Mgr, manager[p][x] # NULL,
                        client[p][ClientOf(p, x)].key_vault # NULL,
                        Fresh(p, client'[p], pclient'[p], ClientOf(p, x))
                 PROVE  Fresh(p, client'[p], pclient'[p], client[p][ClientOf(p, x)].key_vault)
      BY <1>1, <1>5 DEF VaultsFresh, ClientOf
    <2>1. ClientOf(p, x) \in Client
      BY <1>5 DEF ClientOf
    <2>2. Fresh(p, client[p], pclient[p], ClientOf(p, x)) \/ ClientOf(p, x) \in ToReset(p, by, m)
      BY <2>1, FreshAfter
    <2> QED BY <1>7, <2>2, VaultAfter, FreshAfter
  <1>8. NoSharedLsid'
    <2>1. ASSUME NEW e \in interference', e.what = "lsid"
          PROVE  FALSE
      <3>1. e \notin interference
        BY <2>1 DEF NoSharedLsid, NoEffect
      <3>2. PICK l : Sends(p, by, m, l) /\ e.owner = l.by /\ e.owner # p
        BY <2>1, <3>1 DEF Action
      <3> QED BY <3>2, SendsOwn
    <2> QED BY <2>1 DEF NoSharedLsid, NoEffect
  <1> QED BY <1>1, <1>3, <1>4, <1>6, <1>7, <1>8 DEF LsidImage

\* A Manager that a step keeps, with its client, its key vault client and that
\* client's Manager; and a new Manager of an encrypted client.
SameClient(p, c) == client'[p][c] = client[p][c] /\ pclient'[p][c] = pclient[p][c]

VaultKept(p, x) ==
    LET c == manager[p][x].client
        z == manager[p][x].key_vault_client_manager
    IN  /\ manager'[p][x] = manager[p][x]
        /\ client'[p][c].key_vault = client[p][c].key_vault
        /\ z \in Mgr => manager'[p][z] = manager[p][z]
        /\ phase'[p] = "request" =>
              /\ phase[p] = "request" /\ SameClient(p, c)
              /\ z \in Mgr => SameClient(p, manager[p][z].client)

VaultNew(p, x) ==
    LET z == manager'[p][x].key_vault_client_manager
    IN  /\ manager'[p][x].created_by_pid = p
        /\ z \in Mgr /\ manager'[p][z] # NULL /\ manager'[p][z].created_by_pid = p
        /\ manager'[p][z].client = client'[p][manager'[p][x].client].key_vault
        /\ client'[p][manager'[p][z].client].owner = p

LEMMA LsidKept ==
    ASSUME ForkInv, NEW p \in Pid, LsidImage(p), session'[p] = session[p], cursor'[p] = cursor[p],
           \A c \in Client : \/ client'[p][c].pool = {}
                              \/ /\ client'[p][c].pool = client[p][c].pool
                                 /\ Fresh(p, client'[p], pclient'[p], c)
                                       => Fresh(p, client[p], pclient[p], c),
           \A x \in Mgr : manager'[p][x] # NULL =>
              \/ VaultKept(p, x)
              \/ client'[p][manager'[p][x].client].key_vault = NULL
              \/ VaultNew(p, x)
    PROVE  LsidImage(p)'
  <1>1. OwnLsids(p, session'[p], cursor'[p])
    BY DEF LsidImage
  <1>2. OwnPools(p, client'[p], pclient'[p])
    BY DEF LsidImage, OwnPools
  <1>3. VaultManagers(p, manager'[p], client'[p])
    <2> SUFFICES ASSUME NEW x \in Mgr, manager'[p][x] # NULL,
                        client'[p][manager'[p][x].client].key_vault # NULL
                 PROVE  LET z == manager'[p][x].key_vault_client_manager
                        IN  /\ z \in Mgr /\ manager'[p][z] # NULL
                            /\ manager'[p][z].client = client'[p][manager'[p][x].client].key_vault
                            /\ manager'[p][x].created_by_pid = p <=> manager'[p][z].created_by_pid = p
      BY DEF VaultManagers
    <2>1. CASE VaultKept(p, x)
      BY <2>1 DEF VaultKept, LsidImage, VaultManagers
    <2>2. CASE VaultNew(p, x)
      BY <2>2 DEF VaultNew
    <2> QED BY <2>1, <2>2
  <1>4. ASSUME phase'[p] = "request"
        PROVE  VaultsFresh(p, manager'[p], client'[p], pclient'[p])
    <2> SUFFICES ASSUME NEW x \in Mgr, manager'[p][x] # NULL,
                        client'[p][manager'[p][x].client].key_vault # NULL,
                        Fresh(p, client'[p], pclient'[p], manager'[p][x].client)
                 PROVE  Fresh(p, client'[p], pclient'[p], client'[p][manager'[p][x].client].key_vault)
      BY DEF VaultsFresh
    <2>1. CASE VaultKept(p, x)
      <3> DEFINE c == manager[p][x].client
                 z == manager[p][x].key_vault_client_manager
                 kv == client[p][c].key_vault
      <3>1. /\ phase[p] = "request" /\ manager[p][x] # NULL /\ kv # NULL
            /\ manager'[p][x].client = c /\ SameClient(p, c)
        BY <1>4, <2>1 DEF VaultKept
      <3>2. z \in Mgr /\ manager[p][z].client = kv
        BY <3>1 DEF LsidImage, VaultManagers
      <3>3. SameClient(p, kv)
        BY <1>4, <2>1, <3>2 DEF VaultKept
      <3>4. Fresh(p, client[p], pclient[p], c)
        BY <3>1 DEF SameClient, Fresh
      <3>5. Fresh(p, client[p], pclient[p], kv)
        BY <3>1, <3>4 DEF LsidImage, VaultsFresh
      <3>6. client'[p][manager'[p][x].client].key_vault = kv
        BY <3>1 DEF SameClient
      <3> HIDE DEF kv
      <3>7. Fresh(p, client'[p], pclient'[p], kv)
        BY <3>3, <3>5 DEF SameClient, Fresh
      <3> QED BY <3>6, <3>7
    <2>2. CASE VaultNew(p, x)
      <3> DEFINE kv == client'[p][manager'[p][x].client].key_vault
      <3>1. client'[p][kv].owner = p
        BY <2>2 DEF VaultNew
      <3> HIDE DEF kv
      <3>2. Fresh(p, client'[p], pclient'[p], kv)
        BY <3>1 DEF Fresh
      <3> QED BY <3>2 DEF kv
    <2> QED BY <2>1, <2>2
  <1> QED BY <1>1, <1>2, <1>3, <1>4 DEF LsidImage

LEMMA LsidConstruct ==
    ASSUME "keyvault_inherited" \notin Habits, "keyvault_cached" \notin Habits,
           ForkInv, NEW p \in Pid, InheritImage(p), LsidImage(p), NEW m \in Mgr,
           NEW kv \in Mgr \cup {NULL}, Constructed(p, m, kv)
    PROVE  LsidImage(p)'
  <1>1. TypeOK /\ Registered
    BY DEF ForkInv
  <1>2. /\ UNCHANGED <<phase, session, cursor>> /\ phase[p] = "request"
        /\ manager[p][m] = NULL /\ manager'[p][m].created_by_pid = p
        /\ kv # NULL => kv \in Mgr /\ manager[p][kv] # NULL /\ manager[p][kv].created_by_pid = p
        /\ \A x \in Mgr : x # m => manager'[p][x] = manager[p][x]
    BY DEF Constructed
  <1>3. PICK c \in Client : CachedImage(p, m, c, kv) \/ NewImage(p, m, c, kv)
    BY DEF Constructed
  <1>4. \A d \in Client : client[p][d].st # "none" => SameClient(p, d)
    BY <1>3 DEF CachedImage, NewImage, SameClient
  <1>5. \A x \in Mgr : manager[p][x] # NULL =>
          x # m /\ manager[p][x].client \in Client /\ SameClient(p, manager[p][x].client)
    BY <1>1, <1>2, <1>4, ObjectTypes DEF Registered, ClientOf
  <1>6. \A x \in Mgr, z \in Mgr :
          manager[p][x] # NULL /\ manager[p][x].key_vault_client_manager = z => manager[p][z] # NULL
    BY DEF InheritImage, ManagersInherit
  <1>7. ASSUME NEW x \in Mgr, x # m, manager'[p][x] # NULL
        PROVE  VaultKept(p, x)
    <2>1. manager'[p][x] = manager[p][x] /\ SameClient(p, manager[p][x].client)
      BY <1>2, <1>5, <1>7
    <2> DEFINE z == manager[p][x].key_vault_client_manager
    <2>2. z \in Mgr => manager'[p][z] = manager[p][z] /\ SameClient(p, manager[p][z].client)
      BY <1>2, <1>5, <1>6, <1>7, <2>1
    <2> HIDE DEF z
    <2> QED BY <1>2, <2>1, <2>2 DEF VaultKept, SameClient, z
  <1>8. client'[p][manager'[p][m].client].key_vault = NULL \/ VaultNew(p, m)
    <2>1. CASE CachedImage(p, m, c, kv)
      BY <2>1 DEF CachedImage, KeyVaultClientOf
    <2>2. CASE NewImage(p, m, c, kv)
      <3>1. /\ manager'[p][m].client = c /\ manager'[p][m].key_vault_client_manager = kv
            /\ client'[p][c].key_vault = KeyVaultClientOf(p, kv)
        BY <2>2 DEF NewImage
      <3>2. CASE kv = NULL
        BY <3>1, <3>2 DEF KeyVaultClientOf
      <3>3. CASE kv # NULL
        <4>1. /\ kv \in Mgr /\ manager'[p][kv] = manager[p][kv] /\ manager[p][kv] # NULL
              /\ manager[p][kv].created_by_pid = p /\ SameClient(p, manager[p][kv].client)
          BY <1>2, <1>5, <3>3
        <4>2. client[p][manager[p][kv].client].owner = p
          BY <4>1 DEF InheritImage, ManagersInherit
        <4>3. client'[p][c].key_vault = manager[p][kv].client
          BY <3>1, <3>3 DEF KeyVaultClientOf, ClientOf
        <4> QED BY <1>2, <3>1, <4>1, <4>2, <4>3 DEF VaultNew, SameClient
      <3> QED BY <3>2, <3>3
    <2> QED BY <1>3, <2>1, <2>2
  <1>9. \A d \in Client : \/ client'[p][d].pool = {}
                           \/ /\ client'[p][d].pool = client[p][d].pool
                              /\ Fresh(p, client'[p], pclient'[p], d)
                                    => Fresh(p, client[p], pclient[p], d)
    BY <1>3 DEF CachedImage, NewImage, Fresh
  <1> QED BY <1>2, <1>7, <1>8, <1>9, LsidKept

LEMMA LsidRejected ==
    ASSUME ForkInv, NEW p \in Pid, InheritImage(p), LsidImage(p), NEW o \in Opts,
           ConstructRejected(p, o)
    PROVE  LsidImage(p)'
  <1>1. TypeOK /\ Registered
    BY DEF ForkInv
  <1>2. UNCHANGED <<phase, manager, pclient, session, cursor>> /\ phase[p] = "request"
    BY <1>1, RejectedCases
  <1>3. /\ \A d \in Client : client[p][d].st # "none" => SameClient(p, d)
        /\ \A d \in Client : SameClient(p, d) \/ client'[p][d].pool = {}
    BY <1>1, RejectedCases DEF SameClient
  <1>4. \A x \in Mgr : manager[p][x] # NULL => SameClient(p, manager[p][x].client)
    BY <1>1, <1>3, ObjectTypes DEF Registered, ClientOf
  <1>5. ASSUME NEW x \in Mgr, manager'[p][x] # NULL
        PROVE  VaultKept(p, x)
    <2> DEFINE z == manager[p][x].key_vault_client_manager
    <2>1. z \in Mgr => manager[p][z] # NULL
      BY <1>2, <1>5 DEF InheritImage, ManagersInherit
    <2>2. SameClient(p, manager[p][x].client) /\ (z \in Mgr => SameClient(p, manager[p][z].client))
      BY <1>2, <1>4, <1>5, <2>1
    <2> HIDE DEF z
    <2> QED BY <1>2, <2>2 DEF VaultKept, SameClient, z
  <1>6. \A d \in Client : \/ client'[p][d].pool = {}
                           \/ /\ client'[p][d].pool = client[p][d].pool
                              /\ Fresh(p, client'[p], pclient'[p], d)
                                    => Fresh(p, client[p], pclient[p], d)
    BY <1>3 DEF SameClient, Fresh
  <1> QED BY <1>2, <1>5, <1>6, LsidKept

LEMMA LsidFree ==
    ASSUME ForkInv, NEW p \in Pid, InheritImage(p), LsidImage(p), NEW m \in Mgr, FreeManager(p, m)
    PROVE  LsidImage(p)'
  <1>1. TypeOK /\ Registered
    BY DEF ForkInv
  <1>2. /\ UNCHANGED <<phase, session, cursor>>
        /\ manager[p][m] # NULL /\ manager'[p][m] = NULL /\ ~Referenced(p, m)
        /\ \A x \in Mgr : x # m => manager'[p][x] = manager[p][x]
    BY FreeManagerCases
  <1>3. \A x \in Mgr, z \in Mgr :
          manager[p][x] # NULL /\ manager[p][x].key_vault_client_manager = z =>
             manager[p][z] # NULL /\ z # m
    BY <1>2 DEF InheritImage, ManagersInherit, Referenced
  <1>4. \A x \in Mgr : manager[p][x] # NULL => manager[p][x].client \in Client
    BY <1>1, ObjectTypes
  <1>5. /\ \A x \in Mgr : manager[p][x] # NULL /\ x # m => SameClient(p, manager[p][x].client)
        /\ \A d \in Client : /\ client'[p][d].pool = client[p][d].pool
                             /\ Fresh(p, client'[p], pclient'[p], d)
                                   => Fresh(p, client[p], pclient[p], d)
    <2>1. CASE UNCHANGED <<client, pclient>>
      BY <2>1 DEF SameClient
    <2>2. ASSUME NEW c \in Client, c = ClientOf(p, m), ~manager[p][m].use_persistent_client,
                 DestroyPclient(p, c)
          PROVE  <1>5!1 /\ <1>5!2
      <3>1. /\ \A d \in Client : d # c => SameClient(p, d)
            /\ pclient'[p][c] = NULL /\ client'[p][c].owner = client[p][c].owner
            /\ client'[p][c].pool = client[p][c].pool
        BY <1>1, <2>2, DestroyFacts DEF SameClient
      <3>2. \A x \in Mgr : manager[p][x] # NULL /\ x # m => manager[p][x].client # c
        BY <1>1, <1>2, <2>2 DEF Registered, ClientOf
      <3> QED BY <1>4, <3>1, <3>2 DEF SameClient, Fresh
    <2> QED BY <2>1, <2>2, FreeManagerCases
  <1>6. ASSUME NEW x \in Mgr, manager'[p][x] # NULL
        PROVE  VaultKept(p, x)
    <2> DEFINE z == manager[p][x].key_vault_client_manager
    <2>1. x # m /\ manager'[p][x] = manager[p][x] /\ SameClient(p, manager[p][x].client)
      BY <1>2, <1>5, <1>6
    <2>2. z \in Mgr => manager'[p][z] = manager[p][z] /\ SameClient(p, manager[p][z].client)
      BY <1>2, <1>3, <1>5, <1>6, <2>1
    <2> HIDE DEF z
    <2> QED BY <1>2, <2>1, <2>2 DEF VaultKept, SameClient, z
  <1> QED BY <1>2, <1>5, <1>6, LsidKept

LEMMA LsidShutdown ==
    ASSUME ForkInv, NEW p \in Pid, LsidImage(p), ShutdownStep(p)
    PROVE  LsidImage(p)' /\ \A e \in interference' : e \in interference \/ e.what # "lsid"
  <1>1. TypeOK /\ Registered
    BY DEF ForkInv
  <1>2. UNCHANGED <<manager, session, cursor>>
    BY <1>1, ShutdownCases
  <1>3. /\ phase'[p] = "request" => phase[p] = "idle"
        /\ UNCHANGED <<client, pclient, interference>> \/ \E c \in Client : DestroyPclient(p, c)
    BY <1>1, ShutdownCases DEF PhaseStep, DestroyStep
  <1>4. /\ \A d \in Client : /\ client'[p][d].pool = client[p][d].pool
                             /\ client'[p][d].key_vault = client[p][d].key_vault
                             /\ Fresh(p, client'[p], pclient'[p], d)
                                   => Fresh(p, client[p], pclient[p], d)
        /\ \A e \in interference' : e \in interference \/ e.what # "lsid"
    <2>1. CASE UNCHANGED <<client, pclient, interference>>
      BY <2>1
    <2>2. ASSUME NEW c \in Client, DestroyPclient(p, c)
          PROVE  <1>4!1 /\ <1>4!2
      BY <1>1, <2>2, DestroyFacts DEF Fresh
    <2> QED BY <1>3, <2>1, <2>2
  <1>5. ASSUME NEW x \in Mgr, manager'[p][x] # NULL
        PROVE  VaultKept(p, x)
    <2>1. phase'[p] # "request" /\ manager[p][x].client \in Client
      BY <1>1, <1>2, <1>3, <1>5, ObjectTypes DEF Registered
    <2> QED BY <1>2, <1>4, <2>1 DEF VaultKept
  <1>6. LsidImage(p)'
    BY <1>2, <1>4, <1>5, LsidKept
  <1> QED BY <1>4, <1>6

LEMMA LsidFork ==
    ASSUME ForkInv, BornInv, \A r \in Pid : LsidImage(r), NEW p \in Pid, NEW q \in Pid, Fork(p, q)
    PROVE  \A r \in Pid : LsidImage(r)'
  <1>1. TypeOK /\ Born
    BY DEF ForkInv
  <1>2. /\ \A r \in Pid : LET src == Source(p, q, r)
                           IN  /\ src \in Pid /\ manager'[r] = manager[src] /\ phase'[r] = phase[src]
                               /\ client'[r] = client[src] /\ pclient'[r] = pclient[src]
                               /\ session'[r] = session[src] /\ cursor'[r] = cursor[src]
        /\ phase[q] = "unborn"
    BY <1>1, ForkCases
  <1>3. ASSUME NEW r \in Pid, r # q
        PROVE  LsidImage(r)'
    BY <1>2, <1>3 DEF Source, LsidImage
  <1>4. /\ manager'[q] = manager[p] /\ client'[q] = client[p] /\ pclient'[q] = pclient[p]
        /\ session'[q] = session[p] /\ cursor'[q] = cursor[p]
    BY <1>2 DEF Source
  <1>5. ~Mentioned(manager[p], client[p], server[p], session[p], cursor[p], q)
    BY <1>2 DEF BornInv, MentionedIn
  <1>6. \A c \in Client : ~Fresh(q, client[p], pclient[p], c)
    BY <1>1, <1>2, <1>5 DEF Mentioned, Born, Fresh
  <1>7. OwnLsids(q, session[p], cursor[p])
    BY <1>5 DEF Mentioned, OwnLsids
  <1>8. OwnPools(q, client[p], pclient[p])
    BY <1>6 DEF OwnPools
  <1>9. VaultManagers(q, manager[p], client[p])
    BY <1>5 DEF Mentioned, LsidImage, VaultManagers
  <1>10. VaultsFresh(q, manager[p], client[p], pclient[p])
    BY <1>1, <1>6, ObjectTypes DEF VaultsFresh
  <1>11. LsidImage(q)'
    BY <1>4, <1>7, <1>8, <1>9, <1>10 DEF LsidImage
  <1> QED BY <1>3, <1>11

LEMMA LsidStep ==
    ASSUME "server_before_reset" \notin Habits, "keyvault_inherited" \notin Habits,
           "keyvault_cached" \notin Habits,
           ForkInv, ForkInv', InheritInv, OwnInv, LsidInv, [Next]_vars
    PROVE  LsidInv'
  <1>1. /\ TypeOK /\ TypeOK' /\ BornInv /\ NoSharedLsid
        /\ \A p \in Pid : InheritImage(p) /\ OwnImage(p) /\ LsidImage(p)
    BY DEF ForkInv, InheritInv, OwnInv, LsidInv
  <1>2. CASE UNCHANGED vars
    BY <1>1, <1>2 DEF vars, LsidInv, LsidImage, NoSharedLsid, NoEffect
  <1>3. ASSUME NEW p \in Pid, OthersKept(p),
               \A q \in Pid \ {p} : manager'[q] = manager[q] /\ phase'[q] = phase[q],
               LsidImage(p)', NoSharedLsid'
        PROVE  LsidInv'
    <2>1. ASSUME NEW q \in Pid, q # p
          PROVE  LsidImage(q)'
      <3>1. /\ manager'[q] = manager[q] /\ client'[q] = client[q] /\ pclient'[q] = pclient[q]
            /\ session'[q] = session[q] /\ cursor'[q] = cursor[q] /\ phase'[q] = phase[q]
        BY <1>3, <2>1 DEF OthersKept
      <3> QED BY <1>1, <3>1 DEF LsidImage
    <2> QED BY <1>3, <2>1 DEF LsidInv
  <1>4. ASSUME \A e \in interference' : e \in interference \/ e.what # "lsid"
        PROVE  NoSharedLsid'
    BY <1>1, <1>4 DEF NoSharedLsid, NoEffect
  <1>5. ASSUME NEW p \in Pid, NEW by \in Pid, NEW m \in Mgr, Action(p, by, m)
        PROVE  LsidInv'
    <2>1. LsidImage(p)' /\ NoSharedLsid'
      BY <1>1, <1>5, LsidAction
    <2> QED BY <1>1, <1>3, <1>5, <2>1, OtherImages
  <1>6. ASSUME NEW p \in Pid, NEW o \in Opts, ConstructRejected(p, o)
        PROVE  LsidInv'
    <2>1. LsidImage(p)'
      BY <1>1, <1>6, LsidRejected
    <2>2. NoSharedLsid'
      BY <1>1, <1>4, <1>6, RejectedCases
    <2> QED BY <1>1, <1>3, <1>6, <2>1, <2>2, OtherImages
  <1>7. ASSUME NEW p \in Pid, NEW m \in Mgr, NEW o \in Opts, NEW persistent \in BOOLEAN,
               NEW kv \in Mgr \cup {NULL}, Construct(p, m, o, persistent, kv)
        PROVE  LsidInv'
    <2>1. Constructed(p, m, kv)
      BY <1>1, <1>7, ConstructCases
    <2>2. LsidImage(p)'
      BY <1>1, <2>1, LsidConstruct
    <2>3. NoSharedLsid'
      BY <1>4, <2>1 DEF Constructed
    <2>4. /\ OthersKept(p)
          /\ \A q \in Pid \ {p} : manager'[q] = manager[q] /\ phase'[q] = phase[q]
      BY <1>1, <1>7, OtherImages
    <2> QED BY <1>3, <2>2, <2>3, <2>4
  <1>8. ASSUME NEW p \in Pid, NEW m \in Mgr, FreeManager(p, m)
        PROVE  LsidInv'
    <2>1. LsidImage(p)'
      BY <1>1, <1>8, LsidFree
    <2>2. UNCHANGED interference \/ \E c \in Client : DestroyPclient(p, c)
      BY <1>8, FreeManagerCases
    <2>3. \A e \in interference' : e \in interference \/ e.what # "lsid"
      BY <1>1, <2>2, DestroyFacts
    <2> QED BY <1>1, <1>3, <1>4, <1>8, <2>1, <2>3, OtherImages
  <1>9. ASSUME NEW p \in Pid, ShutdownStep(p)
        PROVE  LsidInv'
    <2>1. LsidImage(p)' /\ NoSharedLsid'
      BY <1>1, <1>4, <1>9, LsidShutdown
    <2> QED BY <1>1, <1>3, <1>9, <2>1, OtherImages
  <1>10. ASSUME NEW p \in Pid, NEW q \in Pid, Fork(p, q)
         PROVE  LsidInv'
    <2>1. \A r \in Pid : LsidImage(r)'
      BY <1>1, <1>10, LsidFork
    <2>2. NoSharedLsid'
      BY <1>1, <1>4, <1>10, ForkCases
    <2> QED BY <2>1, <2>2 DEF LsidInv
  <1> QED BY <1>2, <1>5, <1>6, <1>7, <1>8, <1>9, <1>10, StepCases

\* No process starts a session with an LSID that another process has
\* (Manager::startSession, Server::execute*, mongoc_client_reset), for any
\* number of forks, if no inherited client is reached before it is reset: by a
\* Server obtained too early, or as the key vault client of a new Manager; and
\* if every Manager of an encrypted client refers to its key vault client's.
THEOREM NoLsidIsShared ==
    ASSUME "server_before_reset" \notin Habits, "keyvault_inherited" \notin Habits,
           "keyvault_cached" \notin Habits
    PROVE  Spec => []NoSharedLsid
  <1>1. Init => OwnInv
    BY DEF Init, OwnInv, OwnImage, OwnFresh
  <1>2. Init => LsidInv
    BY NullAssumption DEF Init, LsidInv, LsidImage, NoSharedLsid, NoEffect, OwnLsids, OwnPools,
                          VaultManagers, VaultsFresh
  <1>3. ForkInv /\ InheritInv /\ [Next]_vars => InheritInv'
    BY InheritStep
  <1>4. ForkInv /\ InheritInv /\ OwnInv /\ [Next]_vars => OwnInv'
    BY OwnStep
  <1>5. ForkInv /\ ForkInv' /\ InheritInv /\ OwnInv /\ LsidInv /\ [Next]_vars => LsidInv'
    BY LsidStep
  <1>6. LsidInv => NoSharedLsid
    BY DEF LsidInv
  <1> QED BY <1>1, <1>2, <1>3, <1>4, <1>5, <1>6, InheritInit, Invariant, PTL DEF Spec

================================================================================
