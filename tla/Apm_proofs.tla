------------------------------ MODULE Apm_proofs ------------------------------
(***************************************************************************)
(* Proofs about command monitoring: events reach live subscribers, name a  *)
(* live Manager of their client, miss one only where an exception says so, *)
(* and come in pairs, for any number of Managers, subscribers and clients  *)
(* and any depth of operations that callbacks run inside operations.       *)
(***************************************************************************)
EXTENDS Apm, FiniteSetTheorems, SequenceTheorems, WellFoundedInduction, TLAPS

-------------------------------------------------------------------------------
(* The inductive invariant *)

\* The frame holds the subscribers it has to call and the one it is calling.
Holds(f) == f.todo \subseteq f.held /\ (f.running # NULL => f.running \in f.held)

\* No event of the frame is being dispatched.
Silent(f) ==
    f.running = NULL /\ f.todo = {} /\ f.held = {} /\ f.event = NULL /\ ~f.lost

\* As long as no exception got in the way, who stayed subscribed has heard the
\* start or will, and of a finished command also the end.
Paired(f, exc) ==
    f.quiet =>
      /\ f.stage = "started" => f.stayed \subseteq f.heardStart \cup f.todo
      /\ f.stage = "waiting" /\ ~exc => f.stayed \subseteq f.heardStart
      /\ f.stage = "finished" => /\ f.stayed \subseteq f.heardStart
                                 /\ f.stayed \subseteq f.heardEnd \cup f.todo

\* Who hears of client c's commands, with these registries.
Hearers(ms, cl, g, own, c) == g \cup UNION {own[m] : m \in {x \in Mgr : ms[x] # 0 /\ cl[x] = c}}

\* A frame: the Manager that runs the operation is there, the one its event names
\* has the client of the command, and who stayed subscribed to it is subscribed.
FrameOK(f, ms, cl, g, own, exc) ==
    /\ cl[f.owner] # NULL
    /\ f.event # NULL => cl[f.event] = f.client
    /\ f.stayed \subseteq Hearers(ms, cl, g, own, f.client)
    /\ Holds(f) /\ Paired(f, exc)
    /\ f.stage \in {"idle", "waiting"} => Silent(f)

\* All operations but the innermost wait for a callback to return.
FramesOK(st, ms, cl, g, own, exc) ==
    \A i \in 1..Len(st) : /\ FrameOK(st[i], ms, cl, g, own, exc)
                          /\ i # Len(st) => st[i].running # NULL

StackOK == FramesOK(stack, managers, client, globals, subs, exception)

RegistryOK == /\ \A m \in Mgr : managers[m] # 0 <=> client[m] # NULL
              /\ \A m \in mgrVar : client[m] # NULL

ApmInv == TypeOK /\ RegistryOK /\ StackOK /\ ~orphan

-------------------------------------------------------------------------------
(* The registry *)

LEMMA LeastNatural ==
    ASSUME NEW T \in SUBSET Nat, T # {}
    PROVE  \E n \in T : \A m \in T : n <= m
  <1>1. PICK x \in T : \A y \in T : ~(<<y, x>> \in OpToRel(<, Nat))
    BY WFMin, NatLessThanWellFounded
  <1>2. \A y \in T : ~(y < x)
    BY <1>1 DEF OpToRel
  <1> QED BY <1>2

LEMMA FirstFacts ==
    ASSUME managers \in [Mgr -> 0..Cardinality(Mgr)], NEW ms \in SUBSET Mgr
    PROVE  IF ms = {} THEN First(ms) = NULL ELSE First(ms) \in ms
  <1>1. CASE ms = {}
    BY <1>1 DEF First
  <1>2. CASE ms # {}
    <2> DEFINE T == {managers[m] : m \in ms}
    <2>1. Cardinality(Mgr) \in Nat
      BY ManagerAssumption, FS_CardinalityType
    <2>2. T \in SUBSET Nat /\ T # {}
      BY <1>2, <2>1
    <2> HIDE DEF T
    <2>3. PICK n \in T : \A k \in T : n <= k
      BY <2>2, LeastNatural
    <2>4. \E m \in ms : \A x \in ms : managers[m] <= managers[x]
      BY <2>3 DEF T
    <2>5. First(ms) = CHOOSE m \in ms : \A x \in ms : managers[m] <= managers[x]
      BY <1>2 DEF First
    <2> QED BY <1>2, <2>4, <2>5
  <1> QED BY <1>1, <1>2

LEMMA RegisteredFacts ==
    ASSUME managers \in [Mgr -> 0..Cardinality(Mgr)], NEW m \in Mgr, managers[m] = 0
    PROVE  /\ Registered(m) \in [Mgr -> 0..Cardinality(Mgr)] /\ Registered(m)[m] # 0
           /\ \A x \in Mgr : x # m => Registered(m)[x] = managers[x]
  <1>1. Listed \subseteq Mgr /\ m \notin Listed /\ IsFiniteSet(Mgr)
    BY ManagerAssumption DEF Listed
  <1>2. /\ IsFiniteSet(Listed) /\ Cardinality(Listed) \in Nat
        /\ Cardinality(Listed \cup {m}) = Cardinality(Listed) + 1
    BY <1>1, FS_Subset, FS_CardinalityType, FS_AddElement
  <1>3. Listed \cup {m} \subseteq Mgr
    BY <1>1
  <1>4. Cardinality(Listed \cup {m}) <= Cardinality(Mgr) /\ Cardinality(Mgr) \in Nat
    BY <1>1, <1>3, FS_Subset, FS_CardinalityType
  <1> QED BY <1>2, <1>4 DEF Registered

LEMMA UnregisteredFacts ==
    ASSUME managers \in [Mgr -> 0..Cardinality(Mgr)], NEW live
    PROVE  /\ Unregistered(live) \in [Mgr -> 0..Cardinality(Mgr)]
           /\ \A m \in Mgr : Unregistered(live)[m] # 0 <=> m \in live /\ managers[m] # 0
  <1> DEFINE Before(m) == {x \in Listed \cap live : managers[x] <= managers[m]}
  <1>1. Cardinality(Mgr) \in Nat
    BY ManagerAssumption, FS_CardinalityType
  <1>2. ASSUME NEW m \in Mgr
        PROVE  /\ Cardinality(Before(m)) \in 0..Cardinality(Mgr)
               /\ m \in live => (Cardinality(Before(m)) # 0 <=> managers[m] # 0)
    <2>1. Before(m) \subseteq Mgr
      BY DEF Listed
    <2>2. IsFiniteSet(Before(m)) /\ Cardinality(Before(m)) \in Nat
          /\ Cardinality(Before(m)) <= Cardinality(Mgr)
      BY <2>1, ManagerAssumption, FS_Subset, FS_CardinalityType
    <2>3. Cardinality(Before(m)) # 0 <=> Before(m) # {}
      BY <2>2, FS_EmptySet
    <2>4. m \in live => (Before(m) # {} <=> managers[m] # 0)
      BY <1>1 DEF Listed
    <2> QED BY <1>1, <2>2, <2>3, <2>4
  <1>3. Unregistered(live) = [m \in Mgr |-> IF m \in live THEN Cardinality(Before(m)) ELSE 0]
    BY DEF Unregistered
  <1> HIDE DEF Before
  <1> QED BY <1>1, <1>2, <1>3

-------------------------------------------------------------------------------
(* Managers that hold others as key vaults *)

LEMMA ReachableFacts ==
    ASSUME NEW h \in [Mgr -> Mgr \cup {NULL}], NEW ms \in SUBSET Mgr
    PROVE  /\ ms \subseteq Reachable(h, ms) /\ Reachable(h, ms) \subseteq Mgr
           /\ Closed(h, Reachable(h, ms))
           /\ \A S \in SUBSET Mgr : ms \subseteq S /\ Closed(h, S) => Reachable(h, ms) \subseteq S
  <1>1. ms \subseteq Reachable(h, ms) /\ Reachable(h, ms) \subseteq Mgr
    BY DEF Reachable
  <1>2. \A S \in SUBSET Mgr : ms \subseteq S /\ Closed(h, S) => Reachable(h, ms) \subseteq S
    BY DEF Reachable
  <1>3. ASSUME NEW m \in Reachable(h, ms), h[m] # NULL
        PROVE  h[m] \in Reachable(h, ms)
    <2>1. m \in Mgr /\ h[m] \in Mgr
      BY <1>1, <1>3
    <2>2. ASSUME NEW S \in SUBSET Mgr, ms \subseteq S, Closed(h, S)
          PROVE  h[m] \in S
      <3>1. m \in S
        BY <1>2, <2>2
      <3> QED BY <1>3, <2>2, <3>1 DEF Closed
    <2> QED BY <2>1, <2>2 DEF Reachable
  <1> QED BY <1>1, <1>2, <1>3 DEF Closed

\* What can be reached depends only on what Managers of a closed set hold.
LEMMA SameReachable ==
    ASSUME NEW h \in [Mgr -> Mgr \cup {NULL}], NEW g \in [Mgr -> Mgr \cup {NULL}],
           NEW L \in SUBSET Mgr, Closed(h, L), \A x \in L : g[x] = h[x],
           NEW ms \in SUBSET L
    PROVE  Reachable(g, ms) = Reachable(h, ms) /\ Reachable(h, ms) \subseteq L
  <1>1. Closed(g, L) /\ ms \subseteq Mgr
    BY DEF Closed
  <1>2. Reachable(h, ms) \subseteq L /\ Reachable(g, ms) \subseteq L
    BY <1>1, ReachableFacts
  <1>3. Closed(g, Reachable(h, ms)) /\ Closed(h, Reachable(g, ms))
    <2>1. Closed(h, Reachable(h, ms)) /\ Closed(g, Reachable(g, ms))
      BY <1>1, ReachableFacts
    <2> QED BY <1>2, <2>1 DEF Closed
  <1>4. /\ Reachable(h, ms) \in SUBSET Mgr /\ ms \subseteq Reachable(h, ms)
        /\ Reachable(g, ms) \in SUBSET Mgr /\ ms \subseteq Reachable(g, ms)
    BY <1>1, ReachableFacts
  <1>5. Reachable(g, ms) \subseteq Reachable(h, ms)
    BY <1>1, <1>3, <1>4, ReachableFacts
  <1>6. Reachable(h, ms) \subseteq Reachable(g, ms)
    BY <1>1, <1>3, <1>4, ReachableFacts
  <1> QED BY <1>2, <1>5, <1>6

LEMMA ReferencedFacts ==
    ASSUME holder \in [Mgr -> Mgr \cup {NULL}], NEW v \in SUBSET Mgr, NEW st \in Seq(Frame)
    PROVE  LET live == Referenced(v, st)
           IN /\ live \subseteq Mgr /\ Closed(holder, live) /\ v \subseteq live
              /\ \A i \in 1..Len(st) : /\ st[i].owner \in live
                                       /\ st[i].event # NULL => st[i].event \in live
  <1> DEFINE ms == v \cup {st[i].owner : i \in 1..Len(st)}
                     \cup ({st[i].event : i \in 1..Len(st)} \ {NULL})
  <1>1. \A i \in 1..Len(st) : st[i] \in Frame
    OBVIOUS
  <1>2. \A fr \in Frame : fr.owner \in Mgr /\ fr.event \in Mgr \cup {NULL}
    BY DEF Frame
  <1>3. ms \in SUBSET Mgr
    BY <1>1, <1>2
  <1>4. Referenced(v, st) = Reachable(holder, ms)
    BY DEF Referenced
  <1>5. /\ v \subseteq ms
        /\ \A i \in 1..Len(st) : st[i].owner \in ms /\ (st[i].event # NULL => st[i].event \in ms)
    OBVIOUS
  <1> HIDE DEF ms
  <1>6. /\ ms \subseteq Reachable(holder, ms) /\ Reachable(holder, ms) \subseteq Mgr
        /\ Closed(holder, Reachable(holder, ms))
    BY <1>3, ReachableFacts
  <1> QED BY <1>4, <1>5, <1>6

-------------------------------------------------------------------------------
(* The stack *)

LEMMA FrontFacts ==
    ASSUME NEW S, NEW s \in Seq(S), s # <<>>
    PROVE  /\ Front(s) \in Seq(S) /\ Len(Front(s)) = Len(s) - 1 /\ Len(s) \in Nat \ {0}
           /\ \A i \in 1..(Len(s) - 1) : Front(s)[i] = s[i]
  <1> DEFINE n == Len(s) - 1
  <1>1. n \in Nat /\ n <= Len(s) /\ Len(s) \in Nat \ {0}
    OBVIOUS
  <1>2. Front(s) = SubSeq(s, 1, n)
    BY DEF Front
  <1> HIDE DEF n
  <1>3. SubSeq(s, 1, n) = [i \in 1..n |-> s[i]]
    BY <1>1
  <1>4. \A i \in 1..n : s[i] \in S
    BY <1>1
  <1>5. [i \in 1..n |-> s[i]] \in Seq(S) /\ Len([i \in 1..n |-> s[i]]) = n
    BY <1>1, <1>4, IsASeq
  <1> QED BY <1>1, <1>2, <1>3, <1>5 DEF n

LEMMA WithTopFacts ==
    ASSUME stack \in Seq(Frame), stack # <<>>, NEW f \in Frame
    PROVE  /\ WithTop(f) \in Seq(Frame) /\ Len(WithTop(f)) = Len(stack) /\ Len(stack) \in Nat \ {0}
           /\ WithTop(f)[Len(stack)] = f
           /\ \A i \in 1..Len(stack) : i # Len(stack) => WithTop(f)[i] = stack[i]
           /\ Top \in Frame
  BY DEF WithTop, Top

LEMMA PrunedFacts ==
    ASSUME NEW st \in Seq(Frame), NEW g, NEW own
    PROVE  /\ Pruned(st, g, own) \in Seq(Frame) /\ Len(Pruned(st, g, own)) = Len(st)
           /\ \A i \in 1..Len(st) :
                LET f == st[i]
                    p == Pruned(st, g, own)[i]
                IN /\ p.owner = f.owner /\ p.client = f.client /\ p.lost = f.lost
                   /\ p.event = f.event /\ p.running = f.running
                   /\ p.held = f.held /\ p.todo = f.todo /\ p.stage = f.stage
                   /\ p.heardStart = f.heardStart /\ p.heardEnd = f.heardEnd
                   /\ p.quiet = f.quiet
                   /\ p.stayed = f.stayed \cap Subscribed(g, own, f.client)
  <1> DEFINE P(i) == [st[i] EXCEPT !.stayed = @ \cap Subscribed(g, own, st[i].client)]
  <1>1. Len(st) \in Nat
    OBVIOUS
  <1>2. ASSUME NEW i \in 1..Len(st)
        PROVE  /\ P(i) \in Frame
               /\ LET f == st[i]
                      p == P(i)
                  IN /\ p.owner = f.owner /\ p.client = f.client /\ p.lost = f.lost
                     /\ p.event = f.event /\ p.running = f.running
                     /\ p.held = f.held /\ p.todo = f.todo /\ p.stage = f.stage
                     /\ p.heardStart = f.heardStart /\ p.heardEnd = f.heardEnd
                     /\ p.quiet = f.quiet
                     /\ p.stayed = f.stayed \cap Subscribed(g, own, f.client)
    <2> DEFINE Subs == SUBSET Sub
               Bool == BOOLEAN
               Owner == Mgr \cup {NULL}
               Runner == Sub \cup {NULL}
               left == st[i].stayed \cap Subscribed(g, own, st[i].client)
    <2>0. st[i] \in Frame
      OBVIOUS
    <2>1. /\ Frame = [owner : Mgr, client : Client, stage : Stages, held : Subs, todo : Subs,
                      event : Owner, lost : Bool, running : Runner, heardStart : Subs,
                      heardEnd : Subs, stayed : Subs, quiet : Bool]
          /\ st[i] \in Frame
      BY <2>0 DEF Frame
    <2>2. left \in Subs
      BY <2>1
    <2>3. P(i) = [st[i] EXCEPT !.stayed = left]
      BY <2>1
    <2> HIDE DEF Subs, Bool, Owner, Runner, left, P
    <2>4. /\ P(i) \in Frame
          /\ P(i).owner = st[i].owner /\ P(i).event = st[i].event
          /\ P(i).client = st[i].client /\ P(i).lost = st[i].lost
          /\ P(i).running = st[i].running /\ P(i).held = st[i].held /\ P(i).todo = st[i].todo
          /\ P(i).stage = st[i].stage /\ P(i).heardStart = st[i].heardStart
          /\ P(i).heardEnd = st[i].heardEnd /\ P(i).quiet = st[i].quiet /\ P(i).stayed = left
      BY <2>1, <2>2, <2>3
    <2> QED BY <2>4 DEF left
  <1>3. Pruned(st, g, own) = [i \in 1..Len(st) |-> P(i)]
    BY DEF Pruned
  <1> HIDE DEF P
  <1>4. [i \in 1..Len(st) |-> P(i)] \in Seq(Frame) /\ Len([i \in 1..Len(st) |-> P(i)]) = Len(st)
    BY <1>1, <1>2
  <1> QED BY <1>2, <1>3, <1>4

-------------------------------------------------------------------------------
(* Subscribers and events *)

LEMMA SubscribedFacts ==
    ASSUME NEW g \in SUBSET Sub, NEW own \in [Mgr -> SUBSET Sub], NEW c
    PROVE  Subscribed(g, own, c) \in SUBSET Sub
  BY DEF Subscribed, Listed

\* phongo_apm_command_started and its like, up to the dispatch: a silent frame
\* gets all the subscribers and a live Manager of its client, if there are any.
LEMMA EventFacts ==
    ASSUME TypeOK, RegistryOK, NEW f \in Frame, Silent(f)
    PROVE  LET e == Event(f)
               to == Subscribed(globals, subs, f.client)
           IN /\ e \in Frame /\ e.owner = f.owner /\ e.client = f.client
              /\ e.stage = f.stage /\ e.running = NULL
              /\ e.heardStart = f.heardStart /\ e.heardEnd = f.heardEnd /\ e.stayed = f.stayed
              /\ e.todo \subseteq e.held
              /\ e.event # NULL => client[e.event] = f.client
              /\ e.lost => ~e.quiet /\ \A m \in Mgr : client[m] # f.client
              /\ ~e.lost => e.todo = to
              /\ e.quiet => f.quiet /\ (to # {} => ~exception)
  <1> DEFINE Subs == SUBSET Sub
             Bool == BOOLEAN
             Owner == Mgr \cup {NULL}
             Runner == Sub \cup {NULL}
             to == Subscribed(globals, subs, f.client)
             g == [f EXCEPT !.held = to, !.todo = to]
             own == {x \in Listed : client[x] = f.client}
             m == First(own)
             q == f.quiet /\ ~exception
  <1>1. /\ Frame = [owner : Mgr, client : Client, stage : Stages, held : Subs, todo : Subs,
                    event : Owner, lost : Bool, running : Runner, heardStart : Subs,
                    heardEnd : Subs, stayed : Subs, quiet : Bool]
        /\ NULL \in Owner /\ q \in Bool /\ TRUE \in Bool /\ FALSE \in Bool
        /\ f.lost \in BOOLEAN
    BY DEF Frame
  <1>2. /\ managers \in [Mgr -> 0..Cardinality(Mgr)] /\ globals \in SUBSET Sub
        /\ subs \in [Mgr -> SUBSET Sub]
    BY DEF TypeOK
  <1>3. to \in Subs
    BY <1>2, SubscribedFacts
  <1>4. f.client \in Client /\ f.client # NULL
    BY NullAssumption DEF Frame
  <1>5. own \in SUBSET Mgr
    BY DEF Listed
  <1>6. /\ own = {} => m = NULL /\ \A x \in Mgr : client[x] # f.client
        /\ own # {} => m \in Mgr /\ m # NULL /\ client[m] = f.client
    <2>1. IF own = {} THEN m = NULL ELSE m \in own
      BY <1>2, <1>5, FirstFacts
    <2> HIDE DEF m
    <2>2. ASSUME own = {}, NEW x \in Mgr PROVE client[x] # f.client
      BY <1>4, <2>2 DEF RegistryOK, Listed
    <2> QED BY <1>5, <2>1, <2>2, NullAssumption
  <1>7. ManagerForClient(f.client) = m /\ Snapshot(f) = g
    BY DEF ManagerForClient, Snapshot
  <1>8. f.todo = {} /\ f.held = {} /\ f.event = NULL /\ ~f.lost /\ f.running = NULL
    BY DEF Silent
  <1> HIDE DEF Subs, Bool, Owner, Runner, to, m
  <1>9. /\ g \in Frame /\ g.owner = f.owner /\ g.client = f.client /\ g.stage = f.stage
        /\ g.running = f.running /\ g.lost = f.lost
        /\ g.heardStart = f.heardStart /\ g.heardEnd = f.heardEnd /\ g.stayed = f.stayed
        /\ g.held = to /\ g.todo = to /\ g.quiet = f.quiet
    BY <1>1, <1>3
  <1> HIDE DEF g
  <1>10. CASE to = {}
    <2>1. Event(f) = f
      BY <1>7, <1>9, <1>10 DEF Event
    <2> QED BY <1>8, <1>10, <2>1 DEF to
  <1>11. CASE to # {} /\ own = {}
    <2> DEFINE e == [f EXCEPT !.lost = TRUE, !.quiet = FALSE]
    <2>1. Event(f) = e
      BY <1>6, <1>7, <1>9, <1>11 DEF Event
    <2>2. /\ e \in Frame /\ e.owner = f.owner /\ e.client = f.client /\ e.stage = f.stage
          /\ e.running = f.running /\ e.lost = TRUE /\ e.quiet = FALSE
          /\ e.heardStart = f.heardStart /\ e.heardEnd = f.heardEnd /\ e.stayed = f.stayed
          /\ e.held = f.held /\ e.todo = f.todo /\ e.event = f.event
      BY <1>1
    <2> HIDE DEF e, own
    <2> QED BY <1>6, <1>8, <1>11, <2>1, <2>2
  <1>12. CASE to # {} /\ own # {}
    <2> DEFINE e == [g EXCEPT !.event = m, !.quiet = q]
    <2>1. Event(f) = [g EXCEPT !.event = m, !.quiet = g.quiet /\ ~exception]
      BY <1>6, <1>7, <1>9, <1>12 DEF Event
    <2>2. Event(f) = e
      BY <1>9, <2>1
    <2>3. q => f.quiet /\ ~exception
      OBVIOUS
    <2>4. m \in Owner /\ client[m] = f.client
      BY <1>6, <1>12 DEF Owner
    <2> HIDE DEF q, own
    <2>5. /\ e \in Frame /\ e.owner = g.owner /\ e.client = g.client /\ e.stage = g.stage
          /\ e.running = g.running /\ e.lost = g.lost
          /\ e.heardStart = g.heardStart /\ e.heardEnd = g.heardEnd /\ e.stayed = g.stayed
          /\ e.held = g.held /\ e.todo = g.todo /\ e.quiet = q /\ e.event = m
      BY <1>1, <1>9, <2>4
    <2> HIDE DEF e
    <2> QED BY <1>8, <1>9, <2>2, <2>3, <2>4, <2>5 DEF to
  <1> QED BY <1>10, <1>11, <1>12

-------------------------------------------------------------------------------
(* The steps *)

LEMMA SubscribedIs ==
    ASSUME NEW g, NEW own, NEW c
    PROVE  Subscribed(g, own, c) = Hearers(managers, client, g, own, c)
  BY DEF Subscribed, Hearers, Listed

\* A frame that only forgets subscribers, for new registries g and own.
LEMMA PrunedOK ==
    ASSUME NEW st \in Seq(Frame), NEW g0, NEW own0, NEW g, NEW own, NEW exc,
           FramesOK(st, managers, client, g0, own0, exc)
    PROVE  FramesOK(Pruned(st, g, own), managers, client, g, own, exc)
  <1> DEFINE ps == Pruned(st, g, own)
  <1>1. ps \in Seq(Frame) /\ Len(ps) = Len(st)
    BY PrunedFacts
  <1>2. ASSUME NEW i \in 1..Len(st)
        PROVE  /\ FrameOK(ps[i], managers, client, g, own, exc)
               /\ i # Len(st) => ps[i].running # NULL
    <2> DEFINE f == st[i]
               p == ps[i]
    <2>1. /\ p.owner = f.owner /\ p.client = f.client /\ p.lost = f.lost
          /\ p.event = f.event /\ p.running = f.running
          /\ p.held = f.held /\ p.todo = f.todo /\ p.stage = f.stage
          /\ p.heardStart = f.heardStart /\ p.heardEnd = f.heardEnd
          /\ p.quiet = f.quiet
          /\ p.stayed = f.stayed \cap Subscribed(g, own, f.client)
      BY PrunedFacts
    <2>2. FrameOK(f, managers, client, g0, own0, exc) /\ (i # Len(st) => f.running # NULL)
      BY DEF FramesOK
    <2> HIDE DEF f, p
    <2>3. Holds(p) /\ Paired(p, exc) /\ (p.stage \in {"idle", "waiting"} => Silent(p))
      BY <2>1, <2>2 DEF FrameOK, Holds, Paired, Silent
    <2>4. p.stayed \subseteq Hearers(managers, client, g, own, f.client)
      BY <2>1, SubscribedIs
    <2>5. FrameOK(p, managers, client, g, own, exc)
      BY <2>1, <2>2, <2>3, <2>4 DEF FrameOK
    <2> QED BY <2>1, <2>2, <2>5 DEF f, p
  <1> HIDE DEF ps
  <1>3. FramesOK(ps, managers, client, g, own, exc)
    BY <1>1, <1>2 DEF FramesOK
  <1> QED BY <1>3 DEF ps

LEMMA FrameFacts ==
    ASSUME NEW f \in Frame
    PROVE  /\ f.owner \in Mgr /\ f.owner # NULL /\ f.client \in Client /\ f.client # NULL
           /\ f.event \in Mgr \cup {NULL} /\ f.lost \in BOOLEAN
  BY NullAssumption DEF Frame

\* Subscribing and unsubscribing.
LEMMA AddInv ==
    ASSUME ApmInv, NEW g \in SUBSET Sub, NEW own \in [Mgr -> SUBSET Sub], Add(g, own)
    PROVE  ApmInv'
  <1>1. /\ TypeOK /\ RegistryOK /\ StackOK /\ ~orphan
        /\ globals' = g /\ subs' = own /\ stack' = Pruned(stack, g, own)
        /\ UNCHANGED <<mgrVar, subVar, client, holder, cached, apm, managers, exception, orphan>>
    BY DEF ApmInv, Add
  <1>2. stack \in Seq(Frame)
    BY <1>1 DEF TypeOK
  <1>3. stack' \in Seq(Frame) /\ Len(stack') = Len(stack)
    BY <1>1, <1>2, PrunedFacts
  <1>4. TypeOK' /\ RegistryOK'
    BY <1>1, <1>3 DEF TypeOK, RegistryOK
  <1>5. StackOK'
    BY <1>1, <1>2, PrunedOK DEF StackOK
  <1> QED BY <1>1, <1>4, <1>5 DEF ApmInv

\* Manager::__construct: nobody loses a subscription by it.
LEMMA ConstructInv ==
    ASSUME ApmInv, NEW m \in Mgr, NEW c \in Client, Construct(m, c)
    PROVE  ApmInv'
  <1>1. /\ TypeOK /\ RegistryOK /\ StackOK /\ ~orphan /\ client[m] = NULL
        /\ client' = [client EXCEPT ![m] = c] /\ apm' = apm \cup {c}
        /\ cached' \in {cached, cached \cup {m}}
        /\ \E v \in KeyVaults(c) : holder' = [holder EXCEPT ![m] = KeyVaultHeld(c, v)]
        /\ managers' = Registered(m) /\ mgrVar' = mgrVar \cup {m}
        /\ UNCHANGED <<subVar, globals, subs, stack, exception, orphan>>
    BY DEF ApmInv, Construct, SetCallbacks
  <1>2. /\ managers \in [Mgr -> 0..Cardinality(Mgr)] /\ client \in [Mgr -> Client \cup {NULL}]
        /\ stack \in Seq(Frame) /\ managers[m] = 0 /\ c # NULL
    BY <1>1, NullAssumption DEF TypeOK, RegistryOK
  <1>3. /\ managers' \in [Mgr -> 0..Cardinality(Mgr)] /\ managers'[m] # 0
        /\ \A x \in Mgr : x # m => managers'[x] = managers[x]
    BY <1>1, <1>2, RegisteredFacts
  <1>4. client'[m] = c /\ \A x \in Mgr : x # m => client'[x] = client[x]
    BY <1>1, <1>2
  <1>5. TypeOK'
    <2>1. \A v \in KeyVaults(c) : KeyVaultHeld(c, v) \in Mgr \cup {NULL}
      BY <1>1 DEF TypeOK, KeyVaults, KeyVaultHeld
    <2>2. holder' \in [Mgr -> Mgr \cup {NULL}] /\ cached' \subseteq Mgr
      BY <1>1, <2>1 DEF TypeOK
    <2> QED BY <1>1, <1>2, <1>3, <2>2 DEF TypeOK
  <1>6. RegistryOK'
    BY <1>1, <1>2, <1>3, <1>4 DEF RegistryOK, TypeOK
  <1>7. ASSUME NEW i \in 1..Len(stack)
        PROVE  FrameOK(stack[i], managers', client', globals, subs, exception)
    <2> DEFINE f == stack[i]
    <2>1. FrameOK(f, managers, client, globals, subs, exception) /\ f \in Frame
      BY <1>1, <1>2 DEF StackOK, FramesOK
    <2>2. f.owner \in Mgr /\ f.event \in Mgr \cup {NULL} /\ f.client # NULL
      BY <2>1, FrameFacts
    <2> HIDE DEF f
    <2>3. f.owner # m /\ (f.event # NULL => f.event # m)
      BY <1>1, <2>1, <2>2 DEF FrameOK
    <2>4. client'[f.owner] = client[f.owner] /\ (f.event # NULL => client'[f.event] = client[f.event])
      BY <1>4, <2>2, <2>3
    <2>5. ASSUME NEW x \in Hearers(managers, client, globals, subs, f.client)
          PROVE  x \in Hearers(managers', client', globals, subs, f.client)
      <3>1. CASE x \in globals
        BY <3>1 DEF Hearers
      <3>2. CASE x \notin globals
        <4>1. PICK y \in Mgr : managers[y] # 0 /\ client[y] = f.client /\ x \in subs[y]
          BY <3>2 DEF Hearers
        <4>2. managers'[y] # 0 /\ client'[y] = f.client
          BY <1>2, <1>3, <1>4, <4>1
        <4> QED BY <4>1, <4>2 DEF Hearers
      <3> QED BY <3>1, <3>2
    <2>6. FrameOK(f, managers', client', globals, subs, exception)
      BY <2>1, <2>4, <2>5 DEF FrameOK
    <2> QED BY <2>6 DEF f
  <1>8. StackOK'
    BY <1>1, <1>7 DEF StackOK, FramesOK
  <1> QED BY <1>1, <1>5, <1>6, <1>8 DEF ApmInv

\* Managers are freed: those that the program and the stack st still refer to
\* are not among them.
LEMMA ReleaseInv ==
    ASSUME ApmInv, NEW v \in SUBSET mgrVar, NEW st \in Seq(Frame), Len(st) <= MaxDepth,
           FramesOK(st, managers, client, globals, subs, exception), Release(v, st),
           UNCHANGED <<subVar, globals, exception>>
    PROVE  ApmInv'
  <1> DEFINE live == Referenced(v, st)
             own == [m \in Mgr |-> IF m \in live THEN subs[m] ELSE {}]
             gone == {client[m] : m \in Mgr \ live} \cap Scoped
  <1>1. /\ TypeOK /\ RegistryOK /\ ~orphan
        /\ mgrVar' = v /\ apm' = apm \ gone
        /\ orphan' = (orphan \/ (gone \cap (apm \ gone) # {} /\ globals # {}))
        /\ client' = [m \in Mgr |-> IF m \in live THEN client[m] ELSE NULL]
        /\ holder' = [m \in Mgr |-> IF m \in live THEN holder[m] ELSE NULL]
        /\ cached' = cached \cap live
        /\ managers' = Unregistered(live) /\ subs' = own
        /\ stack' = Pruned(st, globals, own)
        /\ UNCHANGED <<subVar, globals, exception>>
    BY DEF ApmInv, Release, CallbacksAtDestroy
  <1>2. ~orphan' /\ orphan' \in BOOLEAN
    BY <1>1
  <1>3. /\ managers \in [Mgr -> 0..Cardinality(Mgr)] /\ client \in [Mgr -> Client \cup {NULL}]
        /\ subs \in [Mgr -> SUBSET Sub] /\ mgrVar \subseteq Mgr /\ apm \subseteq Client
        /\ holder \in [Mgr -> Mgr \cup {NULL}] /\ cached \subseteq Mgr
    BY <1>1 DEF TypeOK
  <1>4. /\ managers' \in [Mgr -> 0..Cardinality(Mgr)]
        /\ \A m \in Mgr : managers'[m] # 0 <=> m \in live /\ managers[m] # 0
    BY <1>1, <1>3, UnregisteredFacts
  <1>5. /\ v \subseteq live
        /\ \A i \in 1..Len(st) : /\ st[i].owner \in live
                                 /\ st[i].event # NULL => st[i].event \in live
    BY <1>3, ReferencedFacts
  <1> HIDE DEF live
  <1>6. own \in [Mgr -> SUBSET Sub]
    BY <1>3
  <1>7. /\ stack' \in Seq(Frame) /\ Len(stack') = Len(st)
        /\ FramesOK(stack', managers, client, globals, own, exception)
    BY <1>1, PrunedFacts, PrunedOK
  <1>8. TypeOK'
    <2>1. client' \in [Mgr -> Client \cup {NULL}] /\ holder' \in [Mgr -> Mgr \cup {NULL}]
      BY <1>1, <1>3
    <2>2. mgrVar' \subseteq Mgr /\ cached' \subseteq Mgr /\ apm' \subseteq Client
      BY <1>1, <1>3
    <2> QED BY <1>1, <1>2, <1>4, <1>6, <1>7, <2>1, <2>2 DEF TypeOK
  <1>9. RegistryOK'
    BY <1>1, <1>3, <1>4, <1>5 DEF RegistryOK
  <1>10. ASSUME NEW i \in 1..Len(stack')
         PROVE  FrameOK(stack'[i], managers', client', globals, own, exception)
    <2> DEFINE f == stack'[i]
    <2>1. f.owner = st[i].owner /\ f.event = st[i].event /\ f \in Frame /\ i \in 1..Len(st)
      BY <1>1, <1>7, PrunedFacts
    <2>2. FrameOK(f, managers, client, globals, own, exception)
      BY <1>7 DEF FramesOK
    <2> HIDE DEF f, own
    <2>3. /\ f.owner \in Mgr /\ f.event \in Mgr \cup {NULL} /\ f.owner \in live
          /\ f.event # NULL => f.event \in live
      <3>1. f.owner \in Mgr /\ f.event \in Mgr \cup {NULL}
        BY <2>1 DEF Frame
      <3>2. st[i].owner \in live /\ (st[i].event # NULL => st[i].event \in live)
        BY <1>5, <2>1
      <3> QED BY <2>1, <3>1, <3>2
    <2>4. client'[f.owner] = client[f.owner] /\ (f.event # NULL => client'[f.event] = client[f.event])
      BY <1>1, <2>3
    <2>5. ASSUME NEW x \in Hearers(managers, client, globals, own, f.client)
          PROVE  x \in Hearers(managers', client', globals, own, f.client)
      <3>1. CASE x \in globals
        BY <3>1 DEF Hearers
      <3>2. CASE x \notin globals
        <4>1. PICK m \in Mgr : managers[m] # 0 /\ client[m] = f.client /\ x \in own[m]
          BY <3>2 DEF Hearers
        <4>2. m \in live
          BY <4>1 DEF own
        <4>3. managers'[m] # 0 /\ client'[m] = f.client
          BY <1>1, <1>4, <4>1, <4>2
        <4> QED BY <4>1, <4>3 DEF Hearers
      <3> QED BY <3>1, <3>2
    <2>6. FrameOK(f, managers', client', globals, own, exception)
      BY <2>2, <2>4, <2>5 DEF FrameOK
    <2> QED BY <2>6 DEF f
  <1>11. StackOK'
    BY <1>1, <1>7, <1>10 DEF StackOK, FramesOK
  <1> QED BY <1>2, <1>8, <1>9, <1>11 DEF ApmInv

\* A frame that is not waiting for a reply does not mind an exception.
LEMMA OutOfTheWay ==
    ASSUME NEW f, NEW exc, NEW e, f.running # NULL,
           FrameOK(f, managers, client, globals, subs, exc)
    PROVE  FrameOK(f, managers, client, globals, subs, e)
  BY DEF FrameOK, Paired, Silent

\* Everything below the innermost command stays as it is while that goes on.
LEMMA TopInv ==
    ASSUME ApmInv, stack # <<>>, NEW f \in Frame, stack' = WithTop(f), exception' \in BOOLEAN,
           FrameOK(f, managers, client, globals, subs, exception'),
           UNCHANGED <<mgrVar, subVar, client, holder, cached, apm, managers, globals, subs, orphan>>
    PROVE  ApmInv'
  <1>1. TypeOK /\ RegistryOK /\ StackOK /\ ~orphan /\ stack \in Seq(Frame)
    BY DEF ApmInv, TypeOK
  <1>2. /\ stack' \in Seq(Frame) /\ Len(stack') = Len(stack) /\ Len(stack) \in Nat \ {0}
        /\ stack'[Len(stack)] = f
        /\ \A i \in 1..Len(stack) : i # Len(stack) => stack'[i] = stack[i]
    BY <1>1, WithTopFacts
  <1>3. TypeOK' /\ RegistryOK'
    BY <1>1, <1>2 DEF TypeOK, RegistryOK
  <1>4. ASSUME NEW i \in 1..Len(stack), i # Len(stack)
        PROVE  /\ FrameOK(stack'[i], managers, client, globals, subs, exception')
               /\ stack'[i].running # NULL
    <2>1. FrameOK(stack[i], managers, client, globals, subs, exception) /\ stack[i].running # NULL
      BY <1>1, <1>4 DEF StackOK, FramesOK
    <2> QED BY <1>2, <1>4, <2>1, OutOfTheWay
  <1>5. StackOK'
    BY <1>2, <1>4 DEF StackOK, FramesOK
  <1> QED BY <1>1, <1>3, <1>5 DEF ApmInv

\* In user code every command on the stack is in a callback.
LEMMA UserCodeFacts ==
    ASSUME ApmInv, InUserCode
    PROVE  \A i \in 1..Len(stack) : /\ stack[i].running # NULL
                                    /\ FrameOK(stack[i], managers, client, globals, subs, exception)
  <1>1. stack \in Seq(Frame) /\ Len(stack) \in Nat
    BY DEF ApmInv, TypeOK
  <1>2. StackOK
    BY DEF ApmInv
  <1>3. ASSUME NEW i \in 1..Len(stack)
        PROVE  stack[i].running # NULL
    <2>1. CASE i # Len(stack)
      BY <1>2, <2>1 DEF StackOK, FramesOK
    <2>2. CASE i = Len(stack)
      BY <1>1, <2>2 DEF InUserCode, Top
    <2> QED BY <2>1, <2>2
  <1> QED BY <1>2, <1>3 DEF StackOK, FramesOK

\* The innermost frame.
LEMMA TopFacts ==
    ASSUME ApmInv, stack # <<>>
    PROVE  Top \in Frame /\ FrameOK(Top, managers, client, globals, subs, exception)
  BY DEF ApmInv, TypeOK, StackOK, FramesOK, Top

\* An idle frame is in order.
LEMMA IdleFacts ==
    ASSUME NEW m \in Mgr, NEW c \in Client, client[m] # NULL, NEW exc
    PROVE  /\ Idle(m, c) \in Frame /\ Idle(m, c).owner = m /\ Idle(m, c).client = c
           /\ Idle(m, c).stage = "idle" /\ Silent(Idle(m, c)) /\ Idle(m, c).event = NULL
           /\ ~Idle(m, c).lost
           /\ FrameOK(Idle(m, c), managers, client, globals, subs, exc)
  <1>1. Idle(m, c) \in Frame
    BY DEF Idle, Frame, Stages
  <1>2. FrameOK(Idle(m, c), managers, client, globals, subs, exc) /\ Silent(Idle(m, c))
    BY DEF Idle, FrameOK, Silent, Holds, Paired
  <1> QED BY <1>1, <1>2 DEF Idle

\* Operations, those that callbacks begin included: a new innermost frame.
LEMMA ExecuteInv ==
    ASSUME ApmInv, NEW m \in Mgr, Execute(m)
    PROVE  ApmInv'
  <1> DEFINE e == Idle(m, client[m])
  <1>1. /\ TypeOK /\ RegistryOK /\ ~orphan /\ InUserCode /\ m \in mgrVar
        /\ Len(stack) < MaxDepth /\ stack' = Append(stack, e)
        /\ UNCHANGED <<mgrVar, subVar, client, holder, cached, apm, managers, globals,
                       subs, exception, orphan>>
    BY Zenon DEF ApmInv, Execute, UserCode
  <1>2. stack \in Seq(Frame) /\ Len(stack) \in Nat /\ client[m] \in Client /\ client[m] # NULL
    BY <1>1 DEF TypeOK, RegistryOK
  <1>3. e \in Frame /\ FrameOK(e, managers, client, globals, subs, exception)
    BY <1>2, IdleFacts
  <1> HIDE DEF e
  <1>4. /\ stack' \in Seq(Frame) /\ Len(stack') = Len(stack) + 1
        /\ stack'[Len(stack) + 1] = e /\ \A i \in 1..Len(stack) : stack'[i] = stack[i]
    BY <1>1, <1>2, <1>3
  <1>5. TypeOK' /\ RegistryOK'
    <2>1. Len(stack') <= MaxDepth
      BY <1>1, <1>2, <1>4, DepthAssumption
    <2> QED BY <1>1, <1>4, <2>1, Zenon DEF TypeOK, RegistryOK
  <1>6. ASSUME NEW i \in 1..Len(stack)
        PROVE  /\ FrameOK(stack'[i], managers, client, globals, subs, exception)
               /\ stack'[i].running # NULL
    BY <1>1, <1>4, UserCodeFacts
  <1>7. StackOK'
    BY <1>1, <1>2, <1>3, <1>4, <1>6 DEF StackOK, FramesOK
  <1> QED BY <1>1, <1>5, <1>7 DEF ApmInv

\* An event of the innermost operation.  Who stayed subscribed to the command is
\* among its subscribers; if it has any, no exception was pending before, or the
\* command is not quiet.
LEMMA RaiseInv ==
    ASSUME ApmInv, stack # <<>>, NEW f \in Frame, Silent(f), client[f.owner] # NULL,
           f.stage \in {"started", "finished"},
           f.stayed \subseteq Subscribed(globals, subs, f.client),
           f.stage = "finished" /\ f.quiet /\ ~exception => f.stayed \subseteq f.heardStart,
           Raise(f)
    PROVE  ApmInv'
  <1> DEFINE e == Event(f)
             to == Subscribed(globals, subs, f.client)
  <1>1. /\ stack' = WithTop(e) /\ exception' = (exception \/ e.lost)
        /\ UNCHANGED <<mgrVar, subVar, client, holder, cached, apm, managers, globals,
                       subs, orphan>>
    BY DEF Raise
  <1>2. TypeOK /\ RegistryOK /\ exception \in BOOLEAN
    BY DEF ApmInv, TypeOK
  <1>3. /\ e \in Frame /\ e.owner = f.owner /\ e.client = f.client
        /\ e.stage = f.stage /\ e.running = NULL
        /\ e.heardStart = f.heardStart /\ e.heardEnd = f.heardEnd /\ e.stayed = f.stayed
        /\ e.todo \subseteq e.held
        /\ e.event # NULL => client[e.event] = f.client
        /\ e.lost => ~e.quiet
        /\ ~e.lost => e.todo = to
        /\ e.quiet => f.quiet /\ (to # {} => ~exception)
    BY <1>2, EventFacts
  <1>4. to = Hearers(managers, client, globals, subs, f.client)
    BY SubscribedIs
  <1>5. e.lost \in BOOLEAN
    BY <1>3 DEF Frame
  <1> HIDE DEF e, to
  <1>6. Holds(e) /\ Paired(e, exception')
    <2>1. f.stayed \subseteq to
      BY DEF to
    <2>2. CASE e.lost
      BY <1>3, <2>2 DEF Holds, Paired
    <2>3. CASE ~e.lost
      BY <1>1, <1>3, <2>1, <2>3 DEF Holds, Paired
    <2> QED BY <1>5, <2>2, <2>3
  <1>7. f.stayed \subseteq to
    BY DEF to
  <1>8. FrameOK(e, managers, client, globals, subs, exception')
    BY <1>3, <1>4, <1>6, <1>7 DEF FrameOK
  <1>9. exception' \in BOOLEAN
    BY <1>1, <1>2, <1>5
  <1> QED BY <1>1, <1>3, <1>8, <1>9, TopInv

\* A command starts.
LEMMA CommandInv ==
    ASSUME ApmInv, NEW c \in Client, Command(c)
    PROVE  ApmInv'
  <1> DEFINE top == Top
             i == Idle(top.owner, c)
             to == Subscribed(globals, subs, c)
             f == [i EXCEPT !.stage = "started", !.stayed = to]
             Subs == SUBSET Sub
             Bool == BOOLEAN
             Owner == Mgr \cup {NULL}
             Runner == Sub \cup {NULL}
  <1>1. stack # <<>> /\ Raise(f)
    BY Zenon DEF Command
  <1>2. top \in Frame /\ FrameOK(top, managers, client, globals, subs, exception)
    BY <1>1, TopFacts
  <1>3. top.owner \in Mgr /\ client[top.owner] # NULL
    BY <1>2 DEF Frame, FrameOK
  <1>4. i \in Frame /\ i.owner = top.owner /\ i.client = c /\ Silent(i)
    BY <1>3, IdleFacts
  <1>5. /\ Frame = [owner : Mgr, client : Client, stage : Stages, held : Subs, todo : Subs,
                    event : Owner, lost : Bool, running : Runner, heardStart : Subs,
                    heardEnd : Subs, stayed : Subs, quiet : Bool]
        /\ "started" \in Stages
    BY DEF Frame, Stages
  <1>6. to \in Subs
    BY SubscribedFacts DEF ApmInv, TypeOK
  <1> HIDE DEF top, i, to, Subs, Bool, Owner, Runner
  <1>7. /\ f \in Frame /\ f.owner = i.owner /\ f.client = i.client /\ f.stage = "started"
        /\ f.running = i.running /\ f.todo = i.todo /\ f.held = i.held
        /\ f.event = i.event /\ f.lost = i.lost /\ f.stayed = to
    BY <1>4, <1>5, <1>6
  <1> HIDE DEF f
  <1>8. Silent(f)
    BY <1>4, <1>7 DEF Silent
  <1> QED BY <1>1, <1>3, <1>4, <1>7, <1>8, RaiseInv DEF to

\* A subscriber is called.
LEMMA CallInv ==
    ASSUME ApmInv, NEW s \in Sub, Call(s)
    PROVE  ApmInv'
  <1> DEFINE starts == IF Top.stage = "started" THEN Top.heardStart \cup {s} ELSE Top.heardStart
             ends == IF Top.stage = "finished" THEN Top.heardEnd \cup {s} ELSE Top.heardEnd
             left == Top.todo \ {s}
             f == [Top EXCEPT !.todo = left, !.running = s, !.heardStart = starts,
                              !.heardEnd = ends]
             Subs == SUBSET Sub
             Bool == BOOLEAN
             Owner == Mgr \cup {NULL}
             Runner == Sub \cup {NULL}
  <1>1. /\ stack # <<>> /\ Top.running = NULL /\ s \in Top.todo /\ ~exception
        /\ UNCHANGED <<mgrVar, subVar, client, holder, cached, apm, managers, globals, subs, exception, orphan>>
    BY DEF Call
  <1>2. Top \in Frame /\ FrameOK(Top, managers, client, globals, subs, exception)
    BY <1>1, TopFacts
  <1>3. stack' = WithTop(f)
    BY <1>2 DEF Call, Frame
  <1>4. /\ Frame = [owner : Mgr, client : Client, stage : Stages, held : Subs, todo : Subs,
                    event : Owner, lost : Bool, running : Runner, heardStart : Subs,
                    heardEnd : Subs, stayed : Subs, quiet : Bool]
        /\ s \in Runner
    BY DEF Frame
  <1>5. left \in Subs /\ starts \in Subs /\ ends \in Subs
    BY <1>2 DEF Frame
  <1> DEFINE top == Top
  <1>6. /\ top \in Frame /\ f = [top EXCEPT !.todo = left, !.running = s, !.heardStart = starts,
                              !.heardEnd = ends]
    BY <1>2
  <1> HIDE DEF top, left, starts, ends, Subs, Bool, Owner, Runner, f
  <1>7. /\ f \in Frame /\ f.owner = top.owner /\ f.client = top.client /\ f.lost = top.lost /\ f.stage = top.stage /\ f.held = top.held
        /\ f.event = top.event /\ f.stayed = top.stayed /\ f.quiet = top.quiet
        /\ f.todo = left /\ f.running = s /\ f.heardStart = starts /\ f.heardEnd = ends
    BY <1>4, <1>5, <1>6
  <1>8. /\ FrameOK(top, managers, client, globals, subs, exception) /\ s \in top.todo
        /\ top.stage \notin {"idle", "waiting"} /\ left = top.todo \ {s}
        /\ top.stage = "started" => starts = top.heardStart \cup {s}
        /\ top.stage = "finished" => starts = top.heardStart /\ ends = top.heardEnd \cup {s}
    BY <1>1, <1>2 DEF top, left, starts, ends, FrameOK, Silent
  <1>9. Holds(f) /\ Paired(f, exception)
    BY <1>7, <1>8 DEF FrameOK, Holds, Paired
  <1>10. FrameOK(f, managers, client, globals, subs, exception)
    BY <1>7, <1>8, <1>9 DEF FrameOK
  <1>11. exception' \in BOOLEAN
    BY <1>1 DEF ApmInv, TypeOK
  <1> QED BY <1>1, <1>3, <1>7, <1>10, <1>11, TopInv

\* A callback returns.
LEMMA ReturnInv ==
    ASSUME ApmInv, NEW throws \in BOOLEAN, Return(throws)
    PROVE  ApmInv'
  <1> DEFINE q == Top.quiet /\ ~exception'
             f == [Top EXCEPT !.running = NULL, !.quiet = q]
             Subs == SUBSET Sub
             Bool == BOOLEAN
             Owner == Mgr \cup {NULL}
             Runner == Sub \cup {NULL}
  <1>1. /\ stack # <<>> /\ Top.running # NULL /\ exception' = (exception \/ throws)
        /\ UNCHANGED <<mgrVar, subVar, client, holder, cached, apm, managers, globals, subs, orphan>>
    BY DEF Return
  <1>2. Top \in Frame /\ FrameOK(Top, managers, client, globals, subs, exception)
    BY <1>1, TopFacts
  <1>3. stack' = WithTop(f)
    BY <1>2 DEF Return, Frame
  <1>4. /\ Frame = [owner : Mgr, client : Client, stage : Stages, held : Subs, todo : Subs,
                    event : Owner, lost : Bool, running : Runner, heardStart : Subs,
                    heardEnd : Subs, stayed : Subs, quiet : Bool]
        /\ NULL \in Runner /\ q \in Bool
    BY DEF Frame
  <1>5. q => Top.quiet
    OBVIOUS
  <1> DEFINE top == Top
  <1>6. top \in Frame /\ f = [top EXCEPT !.running = NULL, !.quiet = q]
    BY <1>2
  <1> HIDE DEF top, q, Subs, Bool, Owner, Runner, f
  <1>7. /\ f \in Frame /\ f.owner = top.owner /\ f.client = top.client /\ f.lost = top.lost /\ f.stage = top.stage /\ f.held = top.held
        /\ f.event = top.event /\ f.stayed = top.stayed /\ f.quiet = q
        /\ f.todo = top.todo /\ f.running = NULL
        /\ f.heardStart = top.heardStart /\ f.heardEnd = top.heardEnd
    BY <1>4, <1>6
  <1>8. /\ FrameOK(top, managers, client, globals, subs, exception) /\ (q => top.quiet)
        /\ top.stage \notin {"idle", "waiting"}
    BY <1>1, <1>2, <1>5 DEF top, FrameOK, Silent
  <1>9. Holds(f) /\ Paired(f, exception')
    BY <1>7, <1>8 DEF FrameOK, Holds, Paired
  <1>10. FrameOK(f, managers, client, globals, subs, exception')
    BY <1>7, <1>8, <1>9 DEF FrameOK
  <1>11. exception' \in BOOLEAN
    BY <1>1 DEF ApmInv, TypeOK
  <1> QED BY <1>1, <1>3, <1>7, <1>10, <1>11, TopInv

\* The reply arrives, and with it the second event.
LEMMA ReplyInv ==
    ASSUME ApmInv, Reply
    PROVE  ApmInv'
  <1> DEFINE top == Top
             f == [top EXCEPT !.stage = "finished"]
             Subs == SUBSET Sub
             Bool == BOOLEAN
             Owner == Mgr \cup {NULL}
             Runner == Sub \cup {NULL}
  <1>1. stack # <<>> /\ top.stage = "waiting" /\ Raise(f)
    BY Zenon DEF Reply
  <1>2. top \in Frame /\ FrameOK(top, managers, client, globals, subs, exception)
    BY <1>1, TopFacts
  <1>3. /\ Frame = [owner : Mgr, client : Client, stage : Stages, held : Subs, todo : Subs,
                    event : Owner, lost : Bool, running : Runner, heardStart : Subs,
                    heardEnd : Subs, stayed : Subs, quiet : Bool]
        /\ "finished" \in Stages
    BY DEF Frame, Stages
  <1> HIDE DEF top, Subs, Bool, Owner, Runner
  <1>4. /\ f \in Frame /\ f.owner = top.owner /\ f.client = top.client /\ f.lost = top.lost
        /\ f.stage = "finished" /\ f.held = top.held
        /\ f.event = top.event /\ f.stayed = top.stayed /\ f.quiet = top.quiet
        /\ f.todo = top.todo /\ f.running = top.running
        /\ f.heardStart = top.heardStart /\ f.heardEnd = top.heardEnd
    BY <1>2, <1>3
  <1> HIDE DEF f
  <1>5. Silent(f) /\ client[f.owner] # NULL
    BY <1>1, <1>2, <1>4 DEF FrameOK, Silent
  <1>6. f.stayed \subseteq Subscribed(globals, subs, f.client)
    BY <1>2, <1>4, SubscribedIs DEF FrameOK
  <1>7. f.quiet /\ ~exception => f.stayed \subseteq f.heardStart
    BY <1>1, <1>2, <1>4 DEF FrameOK, Paired
  <1> QED BY <1>1, <1>4, <1>5, <1>6, <1>7, RaiseInv

\* The frame of an event that has been dispatched.
LEMMA DispatchedFacts ==
    ASSUME ApmInv, EventDone
    PROVE  LET d == Dispatched(Top)
           IN /\ d \in Frame /\ d.owner = Top.owner /\ d.client = Top.client /\ ~d.lost
              /\ FrameOK(d, managers, client, globals, subs, exception)
  <1> DEFINE top == Top
             f == [top EXCEPT !.held = {}, !.todo = {}, !.event = NULL, !.lost = FALSE,
                              !.stage = "waiting"]
             Subs == SUBSET Sub
             Bool == BOOLEAN
             Owner == Mgr \cup {NULL}
             Runner == Sub \cup {NULL}
  <1>1. stack # <<>> /\ top.running = NULL /\ (top.todo = {} \/ exception)
    BY DEF EventDone
  <1>2. top \in Frame /\ FrameOK(top, managers, client, globals, subs, exception)
    BY <1>1, TopFacts
  <1>3. /\ Frame = [owner : Mgr, client : Client, stage : Stages, held : Subs, todo : Subs,
                    event : Owner, lost : Bool, running : Runner, heardStart : Subs,
                    heardEnd : Subs, stayed : Subs, quiet : Bool]
        /\ "waiting" \in Stages /\ {} \in Subs /\ NULL \in Owner /\ FALSE \in Bool
    BY DEF Frame, Stages
  <1>4. top.owner \in Mgr /\ top.client \in Client /\ client[top.owner] # NULL
    BY <1>2 DEF Frame, FrameOK
  <1>5. Dispatched(Top) = IF top.stage = "started" THEN f ELSE Idle(top.owner, top.client)
    BY DEF Dispatched
  <1> HIDE DEF top, Subs, Bool, Owner, Runner
  <1>6. CASE top.stage = "started"
    <2>1. /\ f \in Frame /\ f.owner = top.owner /\ f.client = top.client /\ f.lost = FALSE
          /\ f.stage = "waiting" /\ f.held = {}
          /\ f.event = NULL /\ f.stayed = top.stayed /\ f.quiet = top.quiet
          /\ f.todo = {} /\ f.running = top.running
          /\ f.heardStart = top.heardStart /\ f.heardEnd = top.heardEnd
      BY <1>2, <1>3
    <2> HIDE DEF f
    <2>2. Holds(f) /\ Paired(f, exception) /\ Silent(f)
      BY <1>1, <1>2, <1>6, <2>1 DEF FrameOK, Holds, Paired, Silent
    <2>3. FrameOK(f, managers, client, globals, subs, exception)
      BY <1>2, <2>1, <2>2 DEF FrameOK
    <2> QED BY <1>5, <1>6, <2>1, <2>3 DEF top
  <1>7. CASE top.stage # "started"
    <2>1. LET d == Idle(top.owner, top.client)
          IN /\ d \in Frame /\ d.owner = top.owner /\ d.client = top.client /\ ~d.lost
             /\ FrameOK(d, managers, client, globals, subs, exception)
      BY <1>4, IdleFacts
    <2> QED BY <1>5, <1>7, <2>1 DEF top
  <1> QED BY <1>6, <1>7

\* The event object goes, and with it perhaps the last reference to a Manager.
LEMMA EventDoneInv ==
    ASSUME ApmInv, EventDone
    PROVE  ApmInv'
  <1> DEFINE d == Dispatched(Top)
             st == WithTop(d)
  <1>1. /\ stack # <<>> /\ Release(mgrVar, st) /\ UNCHANGED <<subVar, globals, exception>>
        /\ mgrVar \in SUBSET mgrVar
    BY Zenon DEF EventDone
  <1>2. /\ stack \in Seq(Frame) /\ Len(stack) \in Nat \ {0} /\ Len(stack) <= MaxDepth
        /\ FramesOK(stack, managers, client, globals, subs, exception)
    BY <1>1 DEF ApmInv, TypeOK, StackOK
  <1>3. d \in Frame /\ FrameOK(d, managers, client, globals, subs, exception)
    BY DispatchedFacts
  <1> HIDE DEF d
  <1>4. /\ st \in Seq(Frame) /\ Len(st) = Len(stack) /\ st[Len(stack)] = d
        /\ \A i \in 1..Len(stack) : i # Len(stack) => st[i] = stack[i]
    BY <1>1, <1>2, <1>3, WithTopFacts
  <1> HIDE DEF st
  <1>5. FramesOK(st, managers, client, globals, subs, exception)
    BY <1>2, <1>3, <1>4 DEF FramesOK
  <1> QED BY <1>1, <1>2, <1>4, <1>5, ReleaseInv

\* An operation returns.
LEMMA ReturnsInv ==
    ASSUME ApmInv, Returns
    PROVE  ApmInv'
  <1> DEFINE st == Front(stack)
  <1>1. /\ stack # <<>> /\ Release(mgrVar, st) /\ UNCHANGED <<subVar, globals, exception>>
        /\ mgrVar \in SUBSET mgrVar
    BY Zenon DEF Returns
  <1>2. /\ stack \in Seq(Frame) /\ Len(stack) \in Nat \ {0} /\ Len(stack) <= MaxDepth
        /\ FramesOK(stack, managers, client, globals, subs, exception)
    BY <1>1 DEF ApmInv, TypeOK, StackOK
  <1>3. /\ st \in Seq(Frame) /\ Len(st) = Len(stack) - 1
        /\ \A i \in 1..(Len(stack) - 1) : st[i] = stack[i]
    BY <1>1, <1>2, FrontFacts
  <1> HIDE DEF st
  <1>4. FramesOK(st, managers, client, globals, subs, exception)
    BY <1>2, <1>3 DEF FramesOK
  <1>5. Len(st) <= MaxDepth
    BY <1>2, <1>3, DepthAssumption
  <1> QED BY <1>1, <1>3, <1>4, <1>5, ReleaseInv

\* The program drops its reference to a Manager.
LEMMA UnsetManagerInv ==
    ASSUME ApmInv, NEW m \in Mgr, UnsetManager(m)
    PROVE  ApmInv'
  <1> DEFINE v == mgrVar \ {m}
  <1>1. /\ Release(v, stack) /\ UNCHANGED <<subVar, globals, exception>> /\ v \in SUBSET mgrVar
    BY DEF UnsetManager
  <1>2. /\ stack \in Seq(Frame) /\ Len(stack) <= MaxDepth
        /\ FramesOK(stack, managers, client, globals, subs, exception)
    BY DEF ApmInv, TypeOK, StackOK
  <1> HIDE DEF v
  <1> QED BY <1>1, <1>2, ReleaseInv

\* The program drops a subscriber, or a callback keeps its event.
LEMMA KeepInv ==
    ASSUME ApmInv, KeepEvent \/ \E s \in Sub : UnsetSubscriber(s)
    PROVE  ApmInv'
  <1>1. TypeOK /\ RegistryOK /\ StackOK /\ ~orphan
    BY DEF ApmInv
  <1>2. /\ UNCHANGED <<client, holder, cached, apm, managers, globals, subs, stack, exception, orphan>>
        /\ subVar' \subseteq subVar
        /\ \/ mgrVar' = mgrVar
           \/ stack # <<>> /\ Top.event # NULL /\ mgrVar' = mgrVar \cup {Top.event}
    BY DEF KeepEvent, UnsetSubscriber
  <1>3. stack # <<>> /\ Top.event # NULL => Top.event \in Mgr /\ client[Top.event] # NULL
    BY TopFacts, FrameFacts DEF FrameOK
  <1>4. TypeOK' /\ RegistryOK'
    BY <1>1, <1>2, <1>3 DEF TypeOK, RegistryOK
  <1>5. StackOK'
    BY <1>1, <1>2 DEF StackOK
  <1> QED BY <1>1, <1>2, <1>4, <1>5 DEF ApmInv

\* User code catches an exception: no command is waiting for its reply.
LEMMA CatchInv ==
    ASSUME ApmInv, Catch
    PROVE  ApmInv'
  <1>1. /\ TypeOK /\ RegistryOK /\ ~orphan /\ InUserCode /\ exception' = FALSE
        /\ UNCHANGED <<mgrVar, subVar, client, holder, cached, apm, managers, globals, subs, stack, orphan>>
    BY DEF ApmInv, Catch
  <1>2. ASSUME NEW i \in 1..Len(stack)
        PROVE  /\ FrameOK(stack[i], managers, client, globals, subs, exception')
               /\ stack[i].running # NULL
    BY <1>1, UserCodeFacts, OutOfTheWay
  <1>3. TypeOK' /\ RegistryOK'
    BY <1>1, Zenon DEF TypeOK, RegistryOK
  <1>4. StackOK'
    BY <1>1, <1>2 DEF StackOK, FramesOK
  <1> QED BY <1>1, <1>3, <1>4 DEF ApmInv

LEMMA InitInv ==
    ASSUME Init
    PROVE  ApmInv
  <1>1. Cardinality(Mgr) \in Nat
    BY ManagerAssumption, FS_CardinalityType
  <1>2. TypeOK
    <2>1. managers \in [Mgr -> 0..Cardinality(Mgr)]
      BY <1>1 DEF Init
    <2>2. stack \in Seq(Frame) /\ Len(stack) <= MaxDepth
      BY DepthAssumption DEF Init
    <2>3. exception \in BOOLEAN /\ orphan \in BOOLEAN
      BY DEF Init
    <2>4. /\ client \in [Mgr -> Client \cup {NULL}] /\ subs \in [Mgr -> SUBSET Sub]
          /\ holder \in [Mgr -> Mgr \cup {NULL}]
      BY DEF Init
    <2>5. cached \subseteq Mgr /\ mgrVar \subseteq Mgr /\ subVar \subseteq Sub /\ apm \subseteq Client /\ globals \subseteq Sub
      BY DEF Init
    <2> QED BY <2>1, <2>2, <2>3, <2>4, <2>5 DEF TypeOK
  <1>3. RegistryOK /\ StackOK /\ ~orphan
    BY DEF Init, RegistryOK, StackOK, FramesOK
  <1> QED BY <1>2, <1>3 DEF ApmInv

LEMMA StepInv ==
    ASSUME ApmInv, [Next]_vars
    PROVE  ApmInv'
  <1>0. /\ globals \in SUBSET Sub /\ subs \in [Mgr -> SUBSET Sub]
    BY DEF ApmInv, TypeOK
  <1>1. ASSUME NEW s \in Sub, AddSubscriber(s) \/ RemoveSubscriber(s)
        PROVE  ApmInv'
    <2>1. globals \cup {s} \in SUBSET Sub /\ globals \ {s} \in SUBSET Sub
      BY <1>0
    <2>2. CASE AddSubscriber(s)
      BY <1>0, <2>1, <2>2, AddInv DEF AddSubscriber
    <2>3. CASE RemoveSubscriber(s)
      BY <1>0, <2>1, <2>3, AddInv DEF RemoveSubscriber
    <2> QED BY <1>1, <2>2, <2>3
  <1>2. ASSUME NEW m \in Mgr, NEW s \in Sub,
               ManagerAddSubscriber(m, s) \/ ManagerRemoveSubscriber(m, s)
        PROVE  ApmInv'
    <2> DEFINE more == [subs EXCEPT ![m] = @ \cup {s}]
               fewer == [subs EXCEPT ![m] = @ \ {s}]
    <2>1. more \in [Mgr -> SUBSET Sub] /\ fewer \in [Mgr -> SUBSET Sub]
      BY <1>0
    <2>2. CASE ManagerAddSubscriber(m, s)
      <3>1. Add(globals, more)
        BY <2>2 DEF ManagerAddSubscriber
      <3> HIDE DEF more
      <3> QED BY <1>0, <2>1, <3>1, AddInv
    <2>3. CASE ManagerRemoveSubscriber(m, s)
      <3>1. Add(globals, fewer)
        BY <2>3 DEF ManagerRemoveSubscriber
      <3> HIDE DEF fewer
      <3> QED BY <1>0, <2>1, <3>1, AddInv
    <2> QED BY <1>2, <2>2, <2>3
  <1>3. CASE \E m \in Mgr : UnsetManager(m)
    BY <1>3, UnsetManagerInv
  <1>4. CASE \E m \in Mgr : Execute(m)
    BY <1>4, ExecuteInv
  <1>5. CASE \E m \in Mgr, c \in Client : Construct(m, c)
    BY <1>5, ConstructInv
  <1>6. CASE \E b \in BOOLEAN : Return(b)
    BY <1>6, ReturnInv, Zenon
  <1>7. CASE KeepEvent \/ \E s \in Sub : UnsetSubscriber(s)
    BY <1>7, KeepInv
  <1>8. CASE Catch
    BY <1>8, CatchInv
  <1>9. CASE \E s \in Sub : Call(s)
    BY <1>9, CallInv
  <1>10. CASE EventDone
    BY <1>10, EventDoneInv
  <1>11. CASE Reply
    BY <1>11, ReplyInv
  <1>13. CASE \E c \in Client : Command(c)
    BY <1>13, CommandInv
  <1>14. CASE Returns
    BY <1>14, ReturnsInv
  <1>12. CASE UNCHANGED vars
    BY <1>12 DEF vars, ApmInv, TypeOK, RegistryOK, StackOK
  <1> QED BY <1>1, <1>2, <1>3, <1>4, <1>5, <1>6, <1>7, <1>8, <1>9, <1>10, <1>11, <1>12, <1>13,
             <1>14, Zenon
          DEF Next, Program, Driver

-------------------------------------------------------------------------------
(* Key vaults *)

\* The client of an operation's last command is that of a Manager that its own
\* holds, directly or through others, unless one of these was constructed over a
\* client that was there already; and so is the cause of every lost event.
Walk(f, h, cl, ch) ==
    /\ \E x \in Reachable(h, {f.owner}) : x \in ch \/ cl[x] = f.client
    /\ f.lost => f.client # cl[f.owner] /\ Reachable(h, {f.owner}) \cap ch # {}

\* A Manager that encrypts holds a Manager of its key vault, or is cached.
HolderOK(h, cl, ch) ==
    \A m \in Mgr :
       /\ h[m] # NULL => cl[m] # NULL /\ cl[h[m]] # NULL
       /\ cl[m] # NULL /\ Vault[cl[m]] # NULL /\ m \notin ch =>
             h[m] # NULL /\ cl[h[m]] = Vault[cl[m]]

WalksOK(st, h, cl, ch) == \A i \in 1..Len(st) : Walk(st[i], h, cl, ch)

VaultInv == /\ ApmInv
            /\ HolderOK(holder, client, cached)
            /\ WalksOK(stack, holder, client, cached)

LEMMA VaultTypes ==
    ASSUME VaultInv
    PROVE  /\ TypeOK /\ RegistryOK /\ StackOK /\ stack \in Seq(Frame)
           /\ holder \in [Mgr -> Mgr \cup {NULL}] /\ client \in [Mgr -> Client \cup {NULL}]
           /\ cached \subseteq Mgr /\ mgrVar \subseteq Mgr
  BY DEF VaultInv, ApmInv, TypeOK

\* A walk depends on the Managers of a closed set only.
LEMMA WalkKept ==
    ASSUME NEW h \in [Mgr -> Mgr \cup {NULL}], NEW g \in [Mgr -> Mgr \cup {NULL}],
           NEW cl, NEW cm, NEW ch, NEW ci,
           NEW L \in SUBSET Mgr, Closed(h, L),
           \A x \in L : g[x] = h[x] /\ cm[x] = cl[x] /\ (x \in ch <=> x \in ci),
           NEW f, NEW e, e.owner = f.owner, e.client = f.client, e.lost = f.lost,
           f.owner \in L, Walk(f, h, cl, ch)
    PROVE  Walk(e, g, cm, ci)
  <1> DEFINE o == f.owner
             R == Reachable(h, {o})
  <1>1. {o} \in SUBSET L
    OBVIOUS
  <1>2. Reachable(g, {o}) = R /\ R \subseteq L
    BY <1>1, SameReachable
  <1>3. PICK x \in R : x \in ch \/ cl[x] = f.client
    BY DEF Walk
  <1>4. x \in ci \/ cm[x] = f.client
    BY <1>2, <1>3
  <1>5. f.lost => f.client # cm[o] /\ R \cap ci # {}
    BY <1>2 DEF Walk
  <1> HIDE DEF R
  <1>6. Reachable(g, {e.owner}) = R
    BY <1>2
  <1> QED BY <1>3, <1>4, <1>5, <1>6 DEF Walk

\* Steps that leave Managers alone, and the owners, clients and lost events of frames.
LEMMA QuietWalks ==
    ASSUME VaultInv, UNCHANGED <<client, holder, cached>>, Len(stack') = Len(stack),
           \A i \in 1..Len(stack) : /\ stack'[i].owner = stack[i].owner
                                    /\ stack'[i].client = stack[i].client
                                    /\ stack'[i].lost = stack[i].lost,
           ApmInv'
    PROVE  VaultInv'
  <1>1. HolderOK(holder', client', cached')
    BY DEF VaultInv
  <1>2. ASSUME NEW i \in 1..Len(stack)
        PROVE  Walk(stack'[i], holder', client', cached')
    BY DEF VaultInv, WalksOK, Walk
  <1> QED BY <1>1, <1>2 DEF VaultInv, WalksOK

\* The same for a step that changes the innermost frame only.
LEMMA TopWalks ==
    ASSUME VaultInv, UNCHANGED <<client, holder, cached>>, stack # <<>>,
           NEW f \in Frame, stack' = WithTop(f), Walk(f, holder, client, cached), ApmInv'
    PROVE  VaultInv'
  <1>1. stack \in Seq(Frame)
    BY VaultTypes
  <1>2. /\ Len(stack') = Len(stack) /\ Len(stack) \in Nat \ {0} /\ stack'[Len(stack)] = f
        /\ \A i \in 1..Len(stack) : i # Len(stack) => stack'[i] = stack[i]
    BY <1>1, WithTopFacts
  <1>3. ASSUME NEW i \in 1..Len(stack)
        PROVE  Walk(stack'[i], holder', client', cached')
    <2>1. CASE i = Len(stack)
      BY <1>2, <2>1
    <2>2. CASE i # Len(stack)
      BY <1>2, <2>2 DEF VaultInv, WalksOK
    <2> QED BY <2>1, <2>2
  <1>4. HolderOK(holder', client', cached')
    BY DEF VaultInv
  <1> QED BY <1>2, <1>3, <1>4 DEF VaultInv, WalksOK

LEMMA AddWalks ==
    ASSUME VaultInv, NEW g, NEW own, Add(g, own), ApmInv'
    PROVE  VaultInv'
  <1>1. stack \in Seq(Frame)
    BY VaultTypes
  <1>2. stack' = Pruned(stack, g, own) /\ UNCHANGED <<client, holder, cached>>
    BY DEF Add
  <1>3. /\ Len(stack') = Len(stack)
        /\ \A i \in 1..Len(stack) : /\ stack'[i].owner = stack[i].owner
                                    /\ stack'[i].client = stack[i].client
                                    /\ stack'[i].lost = stack[i].lost
    BY <1>1, <1>2, PrunedFacts
  <1> QED BY <1>2, <1>3, QuietWalks

\* Nobody that is there holds or reaches the new Manager.
LEMMA ConstructWalks ==
    ASSUME VaultInv, NEW m \in Mgr, NEW c \in Client, Construct(m, c), ApmInv'
    PROVE  VaultInv'
  <1> DEFINE L == {x \in Mgr : client[x] # NULL}
  <1>1. PICK v \in KeyVaults(c) : holder' = [holder EXCEPT ![m] = KeyVaultHeld(c, v)]
    BY DEF Construct
  <1>2. /\ client[m] = NULL /\ client' = [client EXCEPT ![m] = c] /\ stack' = stack
        /\ cached' = IF Found(c) /\ Vault[c] # NULL THEN cached \cup {m} ELSE cached
    BY DEF Construct
  <1>3. /\ holder \in [Mgr -> Mgr \cup {NULL}] /\ client \in [Mgr -> Client \cup {NULL}]
        /\ mgrVar \subseteq Mgr /\ stack \in Seq(Frame) /\ c # NULL
        /\ HolderOK(holder, client, cached)
    BY VaultTypes, NullAssumption DEF VaultInv
  <1>4. /\ client'[m] = c /\ holder'[m] = KeyVaultHeld(c, v)
        /\ \A x \in Mgr \ {m} : client'[x] = client[x] /\ holder'[x] = holder[x]
        /\ \A x \in Mgr \ {m} : x \in cached' <=> x \in cached
    BY <1>1, <1>2, <1>3
  <1>5. holder' \in [Mgr -> Mgr \cup {NULL}]
    <2>1. KeyVaultHeld(c, v) \in Mgr \cup {NULL}
      BY <1>1, <1>3 DEF KeyVaults, KeyVaultHeld
    <2> QED BY <1>1, <1>3, <2>1
  <1>6. /\ KeyVaultHeld(c, v) # NULL =>
             KeyVaultHeld(c, v) \in Mgr /\ client[KeyVaultHeld(c, v)] = Vault[c] /\ Vault[c] # NULL
        /\ Vault[c] # NULL /\ m \notin cached' => KeyVaultHeld(c, v) # NULL
    BY <1>1, <1>2, <1>3, NullAssumption DEF KeyVaults, KeyVaultHeld
  <1>7. ASSUME NEW x \in Mgr
        PROVE  /\ holder'[x] # NULL => client'[x] # NULL /\ client'[holder'[x]] # NULL
               /\ client'[x] # NULL /\ Vault[client'[x]] # NULL /\ x \notin cached' =>
                     holder'[x] # NULL /\ client'[holder'[x]] = Vault[client'[x]]
    <2>1. CASE x = m
      <3> DEFINE y == KeyVaultHeld(c, v)
      <3> HIDE DEF y
      <3>1. y # NULL => y \in Mgr /\ client[y] = Vault[c] /\ Vault[c] # NULL
        BY <1>6 DEF y
      <3>2. y # NULL => client'[y] = Vault[c] /\ Vault[c] # NULL
        BY <1>2, <1>4, <3>1
      <3>3. holder'[x] = y /\ client'[x] = c
        BY <1>4, <2>1 DEF y
      <3>4. Vault[c] # NULL /\ x \notin cached' => y # NULL
        BY <1>6, <2>1 DEF y
      <3> QED BY <1>3, <3>2, <3>3, <3>4
    <2>2. CASE x # m
      <3>1. /\ holder[x] # NULL => client[x] # NULL /\ client[holder[x]] # NULL
            /\ client[x] # NULL /\ Vault[client[x]] # NULL /\ x \notin cached =>
                  holder[x] # NULL /\ client[holder[x]] = Vault[client[x]]
        BY <1>3 DEF HolderOK
      <3>2. holder'[x] = holder[x] /\ client'[x] = client[x] /\ (x \in cached' <=> x \in cached)
        BY <1>4, <2>2
      <3>3. holder[x] # NULL => client'[holder[x]] = client[holder[x]]
        BY <1>2, <1>3, <1>4, <3>1
      <3> QED BY <3>1, <3>2, <3>3
    <2> QED BY <2>1, <2>2
  <1>8. HolderOK(holder', client', cached')
    BY <1>7 DEF HolderOK
  <1>9. /\ L \in SUBSET Mgr /\ Closed(holder, L)
        /\ \A x \in L : /\ holder'[x] = holder[x] /\ client'[x] = client[x]
                        /\ (x \in cached <=> x \in cached')
    BY <1>2, <1>3, <1>4 DEF HolderOK, Closed
  <1>10. ASSUME NEW i \in 1..Len(stack)
         PROVE  Walk(stack'[i], holder', client', cached')
    <2> DEFINE f == stack[i]
    <2>1. f \in Frame /\ Walk(f, holder, client, cached) /\ client[f.owner] # NULL
      BY <1>3 DEF VaultInv, WalksOK, ApmInv, StackOK, FramesOK, FrameOK
    <2>2. f.owner \in L
      BY <2>1, FrameFacts
    <2> HIDE DEF L, f
    <2>3. Walk(f, holder', client', cached')
      BY <1>3, <1>5, <1>9, <2>1, <2>2, WalkKept
    <2> QED BY <1>2, <2>3 DEF f
  <1> QED BY <1>2, <1>8, <1>10 DEF VaultInv, WalksOK

\* What stays when Managers are freed reaches only what stays.
LEMMA ReleaseWalks ==
    ASSUME VaultInv, NEW v \in SUBSET mgrVar, NEW st \in Seq(Frame),
           WalksOK(st, holder, client, cached), Release(v, st), ApmInv'
    PROVE  VaultInv'
  <1> DEFINE live == Referenced(v, st)
  <1>1. /\ client' = [m \in Mgr |-> IF m \in live THEN client[m] ELSE NULL]
        /\ holder' = [m \in Mgr |-> IF m \in live THEN holder[m] ELSE NULL]
        /\ cached' = cached \cap live
        /\ \E own : stack' = Pruned(st, globals, own)
    BY DEF Release
  <1>2. /\ holder \in [Mgr -> Mgr \cup {NULL}] /\ client \in [Mgr -> Client \cup {NULL}]
        /\ mgrVar \subseteq Mgr /\ HolderOK(holder, client, cached)
    BY VaultTypes DEF VaultInv
  <1>3. /\ live \in SUBSET Mgr /\ Closed(holder, live)
        /\ \A i \in 1..Len(st) : st[i].owner \in live
    BY <1>2, ReferencedFacts
  <1> HIDE DEF live
  <1>4. /\ holder' \in [Mgr -> Mgr \cup {NULL}]
        /\ \A x \in live : /\ holder'[x] = holder[x] /\ client'[x] = client[x]
                           /\ (x \in cached <=> x \in cached')
        /\ \A x \in Mgr \ live : holder'[x] = NULL /\ client'[x] = NULL
    BY <1>1, <1>2, <1>3
  <1>5. ASSUME NEW x \in Mgr
        PROVE  /\ holder'[x] # NULL => client'[x] # NULL /\ client'[holder'[x]] # NULL
               /\ client'[x] # NULL /\ Vault[client'[x]] # NULL /\ x \notin cached' =>
                     holder'[x] # NULL /\ client'[holder'[x]] = Vault[client'[x]]
    <2>1. /\ holder[x] # NULL => client[x] # NULL /\ client[holder[x]] # NULL
          /\ client[x] # NULL /\ Vault[client[x]] # NULL /\ x \notin cached =>
                holder[x] # NULL /\ client[holder[x]] = Vault[client[x]]
      BY <1>2 DEF HolderOK
    <2>2. x \in live /\ holder[x] # NULL => holder[x] \in live
      BY <1>3 DEF Closed
    <2>3. x \in live /\ holder[x] # NULL => client'[holder[x]] = client[holder[x]]
      BY <1>4, <2>2
    <2>4. CASE x \in live
      BY <1>4, <2>1, <2>3, <2>4
    <2>5. CASE x \notin live
      BY <1>4, <2>5
    <2> QED BY <2>4, <2>5
  <1>6. HolderOK(holder', client', cached')
    BY <1>5 DEF HolderOK
  <1>7. PICK own : stack' = Pruned(st, globals, own)
    BY <1>1
  <1>8. ASSUME NEW i \in 1..Len(st)
        PROVE  Walk(stack'[i], holder', client', cached')
    <2> DEFINE f == st[i]
               p == stack'[i]
    <2>1. p.owner = f.owner /\ p.client = f.client /\ p.lost = f.lost
      BY <1>7, PrunedFacts
    <2>2. f.owner \in live /\ Walk(f, holder, client, cached)
      BY <1>3 DEF WalksOK
    <2> HIDE DEF f, p
    <2>3. Walk(p, holder', client', cached')
      BY <1>2, <1>3, <1>4, <2>1, <2>2, WalkKept
    <2> QED BY <2>3 DEF p
  <1>9. Len(stack') = Len(st)
    BY <1>7, PrunedFacts
  <1> QED BY <1>6, <1>8, <1>9 DEF VaultInv, WalksOK

\* An operation begins on the client of its Manager.
LEMMA ExecuteWalks ==
    ASSUME VaultInv, NEW m \in Mgr, Execute(m), ApmInv'
    PROVE  VaultInv'
  <1> DEFINE e == Idle(m, client[m])
  <1>1. stack' = Append(stack, e) /\ UNCHANGED <<client, holder, cached>>
    BY DEF Execute
  <1>2. stack \in Seq(Frame) /\ Len(stack) \in Nat /\ holder \in [Mgr -> Mgr \cup {NULL}]
    BY VaultTypes
  <1>3. e.owner = m /\ e.client = client[m] /\ ~e.lost
    BY DEF Idle
  <1> HIDE DEF e
  <1>4. Len(stack') = Len(stack) + 1 /\ stack'[Len(stack) + 1] = e
        /\ \A i \in 1..Len(stack) : stack'[i] = stack[i]
    BY <1>1, <1>2
  <1>5. m \in Reachable(holder, {m})
    BY <1>2, ReachableFacts
  <1>6. Walk(e, holder, client, cached)
    BY <1>3, <1>5 DEF Walk
  <1>7. \A i \in 1..Len(stack) : Walk(stack'[i], holder, client, cached)
    BY <1>4 DEF VaultInv, WalksOK
  <1>8. WalksOK(stack', holder, client, cached)
    BY <1>2, <1>4, <1>6, <1>7 DEF WalksOK
  <1> QED BY <1>1, <1>8 DEF VaultInv

\* An event is lost if its client has no Manager; its operation's own has one.
LEMMA RaiseWalks ==
    ASSUME VaultInv, stack # <<>>, NEW f \in Frame, Silent(f),
           \E x \in Reachable(holder, {f.owner}) : x \in cached \/ client[x] = f.client,
           Raise(f), ApmInv'
    PROVE  VaultInv'
  <1> DEFINE e == Event(f)
  <1>1. stack' = WithTop(e) /\ UNCHANGED <<client, holder, cached>>
    BY DEF Raise
  <1>2. TypeOK /\ RegistryOK /\ holder \in [Mgr -> Mgr \cup {NULL}]
    BY VaultTypes
  <1>3. /\ e \in Frame /\ e.owner = f.owner /\ e.client = f.client
        /\ e.lost => \A m \in Mgr : client[m] # f.client
    BY <1>2, EventFacts
  <1> HIDE DEF e
  <1>4. f.owner \in Mgr
    BY FrameFacts
  <1>5. Reachable(holder, {f.owner}) \subseteq Mgr
    BY <1>2, <1>4, ReachableFacts
  <1>6. Walk(e, holder, client, cached)
    BY <1>3, <1>4, <1>5 DEF Walk
  <1> QED BY <1>1, <1>3, <1>6, TopWalks

\* A command on a key vault: the Manager of the last client holds one of the vault,
\* unless it is cached.
LEMMA CommandWalks ==
    ASSUME VaultInv, NEW c \in Client, Command(c), ApmInv'
    PROVE  VaultInv'
  <1> DEFINE top == Top
             i == Idle(top.owner, c)
             to == Subscribed(globals, subs, c)
             f == [i EXCEPT !.stage = "started", !.stayed = to]
             Subs == SUBSET Sub
             Bool == BOOLEAN
             Owner == Mgr \cup {NULL}
             Runner == Sub \cup {NULL}
             R == Reachable(holder, {top.owner})
  <1>1. /\ stack # <<>> /\ Raise(f)
        /\ c \in {client[top.owner], top.client, Vault[top.client]} \ {NULL}
    BY Zenon DEF Command
  <1>2. /\ top \in Frame /\ client[top.owner] # NULL /\ Walk(top, holder, client, cached)
        /\ top.owner \in Mgr
    <2>1. Len(stack) \in 1..Len(stack) /\ ApmInv
      BY <1>1, VaultTypes DEF VaultInv
    <2>2. top \in Frame /\ client[top.owner] # NULL
      BY <1>1, <2>1, TopFacts DEF FrameOK
    <2> QED BY <2>1, <2>2, FrameFacts DEF VaultInv, WalksOK, Top
  <1>3. /\ globals \in SUBSET Sub /\ subs \in [Mgr -> SUBSET Sub]
        /\ holder \in [Mgr -> Mgr \cup {NULL}] /\ HolderOK(holder, client, cached)
    BY VaultTypes DEF VaultInv, TypeOK
  <1>4. i \in Frame /\ i.owner = top.owner /\ i.client = c /\ Silent(i)
    BY <1>2, IdleFacts
  <1>5. /\ Frame = [owner : Mgr, client : Client, stage : Stages, held : Subs, todo : Subs,
                    event : Owner, lost : Bool, running : Runner, heardStart : Subs,
                    heardEnd : Subs, stayed : Subs, quiet : Bool]
        /\ "started" \in Stages /\ to \in Subs
    BY <1>3, SubscribedFacts DEF Frame, Stages
  <1>6. \E x \in R : x \in cached \/ client[x] = c
    <2>1. top.owner \in R /\ R \subseteq Mgr /\ Closed(holder, R)
      BY <1>2, <1>3, ReachableFacts
    <2>2. PICK x \in R : x \in cached \/ client[x] = top.client
      BY <1>2 DEF Walk
    <2> HIDE DEF R
    <2>3. CASE c = client[top.owner]
      BY <2>1, <2>3
    <2>4. CASE c = top.client
      BY <2>2, <2>4
    <2>5. CASE c = Vault[top.client] /\ x \notin cached
      <3>1. client[x] = top.client /\ x \in Mgr /\ top.client # NULL /\ c # NULL
        BY <1>1, <1>2, <2>1, <2>2, <2>5, FrameFacts
      <3>2. holder[x] # NULL /\ client[holder[x]] = c
        BY <1>3, <2>5, <3>1 DEF HolderOK
      <3>3. holder[x] \in R
        BY <2>1, <2>2, <3>2 DEF Closed
      <3> QED BY <3>2, <3>3
    <2> QED BY <1>1, <2>2, <2>3, <2>4, <2>5
  <1> HIDE DEF i, to, Subs, Bool, Owner, Runner, top
  <1>7. /\ f \in Frame /\ f.owner = i.owner /\ f.client = i.client /\ f.lost = i.lost
        /\ f.held = i.held /\ f.event = i.event /\ f.todo = i.todo /\ f.running = i.running
    BY <1>4, <1>5
  <1> HIDE DEF f
  <1>8. Silent(f)
    BY <1>4, <1>7 DEF Silent
  <1> QED BY <1>1, <1>4, <1>6, <1>7, <1>8, RaiseWalks

LEMMA ReplyWalks ==
    ASSUME VaultInv, Reply, ApmInv'
    PROVE  VaultInv'
  <1> DEFINE top == Top
             f == [top EXCEPT !.stage = "finished"]
             Subs == SUBSET Sub
             Bool == BOOLEAN
             Owner == Mgr \cup {NULL}
             Runner == Sub \cup {NULL}
  <1>1. stack # <<>> /\ top.stage = "waiting" /\ Raise(f)
    BY Zenon DEF Reply
  <1>2. top \in Frame /\ Silent(top) /\ Walk(top, holder, client, cached)
    <2>1. Len(stack) \in 1..Len(stack) /\ ApmInv
      BY <1>1, VaultTypes DEF VaultInv
    <2>2. top \in Frame /\ Silent(top)
      BY <1>1, <2>1, TopFacts DEF FrameOK
    <2> QED BY <2>1, <2>2 DEF VaultInv, WalksOK, Top
  <1>3. /\ Frame = [owner : Mgr, client : Client, stage : Stages, held : Subs, todo : Subs,
                    event : Owner, lost : Bool, running : Runner, heardStart : Subs,
                    heardEnd : Subs, stayed : Subs, quiet : Bool]
        /\ "finished" \in Stages
    BY DEF Frame, Stages
  <1> HIDE DEF top, Subs, Bool, Owner, Runner
  <1>4. /\ f \in Frame /\ f.owner = top.owner /\ f.client = top.client /\ f.lost = top.lost
        /\ f.held = top.held /\ f.event = top.event /\ f.todo = top.todo
        /\ f.running = top.running
    BY <1>2, <1>3
  <1> HIDE DEF f
  <1>5. Silent(f)
    BY <1>2, <1>4 DEF Silent
  <1> QED BY <1>1, <1>2, <1>4, <1>5, RaiseWalks DEF Walk

\* What callbacks change in a frame is not what walks are about.
LEMMA CallbackFrames ==
    ASSUME NEW f \in Frame, NEW t, NEW r, NEW a, NEW b, NEW q
    PROVE  /\ LET e == [f EXCEPT !.todo = t, !.running = r, !.heardStart = a, !.heardEnd = b]
              IN e.owner = f.owner /\ e.client = f.client /\ e.lost = f.lost
           /\ LET e == [f EXCEPT !.running = r, !.quiet = q]
              IN e.owner = f.owner /\ e.client = f.client /\ e.lost = f.lost
  <1> DEFINE Subs == SUBSET Sub
             Bool == BOOLEAN
             Owner == Mgr \cup {NULL}
             Runner == Sub \cup {NULL}
  <1>1. Frame = [owner : Mgr, client : Client, stage : Stages, held : Subs, todo : Subs,
                 event : Owner, lost : Bool, running : Runner, heardStart : Subs,
                 heardEnd : Subs, stayed : Subs, quiet : Bool]
    BY DEF Frame
  <1> HIDE DEF Subs, Bool, Owner, Runner
  <1> QED BY <1>1

\* A subscriber is called, or returns.
LEMMA CallbackWalks ==
    ASSUME VaultInv, (\E s \in Sub : Call(s)) \/ (\E b \in BOOLEAN : Return(b)), ApmInv'
    PROVE  VaultInv'
  <1> DEFINE top == Top
  <1>1. /\ stack # <<>> /\ UNCHANGED <<client, holder, cached>>
        /\ \/ \E s \in Sub : stack' = WithTop([top EXCEPT
                   !.todo = @ \ {s}, !.running = s,
                   !.heardStart = IF top.stage = "started" THEN @ \cup {s} ELSE @,
                   !.heardEnd = IF top.stage = "finished" THEN @ \cup {s} ELSE @])
           \/ stack' = WithTop([top EXCEPT !.running = NULL, !.quiet = @ /\ ~exception'])
    BY Zenon DEF Call, Return
  <1>2. stack \in Seq(Frame) /\ Len(stack) \in Nat \ {0}
    <2>1. stack # <<>>
      BY <1>1
    <2> QED BY <2>1, VaultTypes
  <1>3. top \in Frame /\ top = stack[Len(stack)]
    <2>1. stack[Len(stack)] \in Frame
      BY <1>2
    <2> QED BY <2>1 DEF Top
  <1>4. top.owner = stack[Len(stack)].owner
    BY <1>3
  <1> HIDE DEF top
  <1>5. \E f : /\ stack' = WithTop(f) /\ f.owner = top.owner /\ f.client = top.client
               /\ f.lost = top.lost
    <2>1. ASSUME NEW s \in Sub, stack' = WithTop([top EXCEPT
                   !.todo = @ \ {s}, !.running = s,
                   !.heardStart = IF top.stage = "started" THEN @ \cup {s} ELSE @,
                   !.heardEnd = IF top.stage = "finished" THEN @ \cup {s} ELSE @])
          PROVE  \E f : /\ stack' = WithTop(f) /\ f.owner = top.owner
                        /\ f.client = top.client /\ f.lost = top.lost
      <3> DEFINE t == top.todo \ {s}
                 a == IF top.stage = "started" THEN top.heardStart \cup {s} ELSE top.heardStart
                 b == IF top.stage = "finished" THEN top.heardEnd \cup {s} ELSE top.heardEnd
                 f == [top EXCEPT !.todo = t, !.running = s, !.heardStart = a, !.heardEnd = b]
      <3>1. stack' = WithTop(f)
        BY <2>1, Zenon
      <3> HIDE DEF t, a, b
      <3>2. f.owner = top.owner /\ f.client = top.client /\ f.lost = top.lost
        BY <1>3, CallbackFrames
      <3> QED BY <3>1, <3>2, Zenon
    <2>2. CASE stack' = WithTop([top EXCEPT !.running = NULL, !.quiet = @ /\ ~exception'])
      <3> DEFINE q == top.quiet /\ ~exception'
                 f == [top EXCEPT !.running = NULL, !.quiet = q]
      <3>1. stack' = WithTop(f)
        BY <2>2, Zenon
      <3> HIDE DEF q
      <3>2. f.owner = top.owner /\ f.client = top.client /\ f.lost = top.lost
        BY <1>3, CallbackFrames
      <3> QED BY <3>1, <3>2, Zenon
    <2> QED BY <1>1, <2>1, <2>2
  <1>6. PICK f : /\ stack' = WithTop(f) /\ f.owner = top.owner /\ f.client = top.client
                 /\ f.lost = top.lost
    BY <1>5
  <1>7. /\ Len(stack') = Len(stack) /\ stack'[Len(stack)] = f
        /\ \A i \in 1..Len(stack) : i # Len(stack) => stack'[i] = stack[i]
    BY <1>2, <1>6 DEF WithTop
  <1>8. \A i \in 1..Len(stack) : /\ stack'[i].owner = stack[i].owner
                                 /\ stack'[i].client = stack[i].client
                                 /\ stack'[i].lost = stack[i].lost
    BY <1>3, <1>6, <1>7
  <1> QED BY <1>1, <1>7, <1>8, QuietWalks

LEMMA EventDoneWalks ==
    ASSUME VaultInv, EventDone, ApmInv'
    PROVE  VaultInv'
  <1> DEFINE d == Dispatched(Top)
             st == WithTop(d)
  <1>1. stack # <<>> /\ Release(mgrVar, st) /\ mgrVar \in SUBSET mgrVar
    BY Zenon DEF EventDone
  <1>2. stack \in Seq(Frame) /\ Len(stack) \in Nat \ {0}
    BY <1>1, VaultTypes
  <1>3. d \in Frame /\ d.owner = Top.owner /\ d.client = Top.client /\ ~d.lost
    BY DispatchedFacts DEF VaultInv
  <1> HIDE DEF d
  <1>4. Walk(d, holder, client, cached)
    <2>1. Walk(stack[Len(stack)], holder, client, cached)
      BY <1>2 DEF VaultInv, WalksOK
    <2> QED BY <1>3, <2>1 DEF Walk, Top
  <1>5. /\ st \in Seq(Frame) /\ Len(st) = Len(stack) /\ st[Len(stack)] = d
        /\ \A i \in 1..Len(stack) : i # Len(stack) => st[i] = stack[i]
    BY <1>1, <1>2, <1>3, WithTopFacts
  <1> HIDE DEF st
  <1>6. ASSUME NEW i \in 1..Len(st)
        PROVE  Walk(st[i], holder, client, cached)
    <2>1. CASE i = Len(stack)
      BY <1>4, <1>5, <2>1
    <2>2. CASE i # Len(stack)
      BY <1>5, <2>2 DEF VaultInv, WalksOK
    <2> QED BY <2>1, <2>2
  <1>7. WalksOK(st, holder, client, cached)
    BY <1>6 DEF WalksOK
  <1> QED BY <1>1, <1>5, <1>7, ReleaseWalks

LEMMA ReturnsWalks ==
    ASSUME VaultInv, Returns, ApmInv'
    PROVE  VaultInv'
  <1> DEFINE st == Front(stack)
  <1>1. stack # <<>> /\ Release(mgrVar, st) /\ mgrVar \in SUBSET mgrVar
    BY Zenon DEF Returns
  <1>2. stack \in Seq(Frame) /\ Len(stack) \in Nat \ {0}
    BY <1>1, VaultTypes
  <1>3. /\ st \in Seq(Frame) /\ Len(st) = Len(stack) - 1
        /\ \A i \in 1..(Len(stack) - 1) : st[i] = stack[i]
    BY <1>1, <1>2, FrontFacts
  <1> HIDE DEF st
  <1>4. WalksOK(st, holder, client, cached)
    BY <1>2, <1>3 DEF VaultInv, WalksOK
  <1> QED BY <1>1, <1>3, <1>4, ReleaseWalks

LEMMA UnsetManagerWalks ==
    ASSUME VaultInv, NEW m \in Mgr, UnsetManager(m), ApmInv'
    PROVE  VaultInv'
  <1> DEFINE v == mgrVar \ {m}
  <1>1. Release(v, stack) /\ v \in SUBSET mgrVar
    BY DEF UnsetManager
  <1>2. stack \in Seq(Frame) /\ WalksOK(stack, holder, client, cached)
    BY VaultTypes DEF VaultInv
  <1> HIDE DEF v
  <1> QED BY <1>1, <1>2, ReleaseWalks

LEMMA StepWalks ==
    ASSUME VaultInv, [Next]_vars
    PROVE  VaultInv'
  <1>0. ApmInv'
    BY StepInv DEF VaultInv
  <1>1. CASE \E s \in Sub : AddSubscriber(s) \/ RemoveSubscriber(s)
    BY <1>0, <1>1, AddWalks DEF AddSubscriber, RemoveSubscriber
  <1>2. CASE \E m \in Mgr, s \in Sub : ManagerAddSubscriber(m, s) \/ ManagerRemoveSubscriber(m, s)
    BY <1>0, <1>2, AddWalks DEF ManagerAddSubscriber, ManagerRemoveSubscriber
  <1>3. CASE \E m \in Mgr : UnsetManager(m)
    BY <1>0, <1>3, UnsetManagerWalks
  <1>4. CASE \E m \in Mgr : Execute(m)
    BY <1>0, <1>4, ExecuteWalks
  <1>5. CASE \E m \in Mgr, c \in Client : Construct(m, c)
    BY <1>0, <1>5, ConstructWalks
  <1>6. CASE (\E s \in Sub : Call(s)) \/ (\E b \in BOOLEAN : Return(b))
    BY <1>0, <1>6, CallbackWalks
  <1>7. CASE KeepEvent \/ Catch \/ (\E s \in Sub : UnsetSubscriber(s)) \/ UNCHANGED vars
    <2>1. UNCHANGED <<client, holder, cached, stack>>
      BY <1>7 DEF KeepEvent, Catch, UnsetSubscriber, vars
    <2> QED BY <1>0, <2>1, QuietWalks
  <1>8. CASE EventDone
    BY <1>0, <1>8, EventDoneWalks
  <1>9. CASE Reply
    BY <1>0, <1>9, ReplyWalks
  <1>10. CASE \E c \in Client : Command(c)
    BY <1>0, <1>10, CommandWalks
  <1>11. CASE Returns
    BY <1>0, <1>11, ReturnsWalks
  <1> QED BY <1>1, <1>2, <1>3, <1>4, <1>5, <1>6, <1>7, <1>8, <1>9, <1>10, <1>11, Zenon
          DEF Next, Program, Driver

LEMMA InitWalks ==
    ASSUME Init
    PROVE  VaultInv
  <1>1. ApmInv
    BY InitInv
  <1>2. HolderOK(holder, client, cached)
    BY DEF Init, HolderOK
  <1>3. WalksOK(stack, holder, client, cached)
    BY DEF Init, WalksOK
  <1> QED BY <1>1, <1>2, <1>3 DEF VaultInv

-------------------------------------------------------------------------------
(* Theorems *)

\* The invariant that all of the following rest on: what commands in progress
\* hold, whom they have told and have still to tell, and that the Managers they
\* belong to stay in the registry.
THEOREM Invariant == Spec => []ApmInv
  BY InitInv, StepInv, PTL DEF Spec

\* All values keep their types, the places in the registry of Managers and the
\* frames included.
THEOREM TypeCorrect == Spec => []TypeOK
  <1>1. ApmInv => TypeOK
    BY DEF ApmInv
  <1> QED BY <1>1, Invariant, PTL

\* phongo_apm_dispatch_event never calls a subscriber that has been freed,
\* whatever its callbacks unsubscribe and drop: the frame's own snapshot holds it.
THEOREM SubscribersAreLive == Spec => []SubscribersLive
  <1>1. ASSUME ApmInv
        PROVE  SubscribersLive
    <2>1. ASSUME NEW f \in Frames, NEW s \in f.todo \cup ({f.running} \ {NULL})
          PROVE  s \in f.held
      <3>1. PICK i \in 1..Len(stack) : f = stack[i]
        BY <1>1 DEF Frames, Range, ApmInv, TypeOK
      <3>2. Holds(f)
        BY <1>1, <3>1 DEF ApmInv, StackOK, FramesOK, FrameOK
      <3> QED BY <2>1, <3>2 DEF Holds
    <2> QED BY <2>1 DEF SubscribersLive
  <1> QED BY <1>1, Invariant, PTL

\* The Manager that an event hands to callbacks is alive and registered, and
\* has the client that runs the command, as long as the event is dispatched.
THEOREM EventManagersLive == Spec => []EventManagerLives
  <1>1. ASSUME ApmInv
        PROVE  EventManagerLives
    <2>1. ASSUME NEW f \in Frames, f.event # NULL
          PROVE  /\ client[f.event] # NULL /\ client[f.event] = f.client
                 /\ f.event \in Listed
      <3>1. PICK i \in 1..Len(stack) : f = stack[i]
        BY <1>1 DEF Frames, Range, ApmInv, TypeOK
      <3>2. f \in Frame /\ FrameOK(f, managers, client, globals, subs, exception)
        BY <1>1, <3>1 DEF ApmInv, TypeOK, StackOK, FramesOK
      <3>3. f.event \in Mgr /\ f.client # NULL
        BY <2>1, <3>2, FrameFacts
      <3> QED BY <1>1, <2>1, <3>2, <3>3 DEF ApmInv, RegistryOK, FrameOK, Listed
    <2> QED BY <2>1 DEF EventManagerLives
  <1> QED BY <1>1, Invariant, PTL

\* phongo_apm_copy_manager_for_client fails for commands on a key vault only, of a
\* Manager that reaches one constructed over a client that was there already: all
\* others hold, one by another, the Managers of the clients that run their commands.
THEOREM ManagersAreFound == Spec => []ManagerAlwaysFound
  <1>1. VaultInv => ManagerAlwaysFound
    <2> SUFFICES ASSUME VaultInv PROVE ManagerAlwaysFound
      OBVIOUS
    <2>1. ASSUME NEW f \in Frames
          PROVE  Walk(f, holder, client, cached)
      <3>1. PICK i \in 1..Len(stack) : f = stack[i]
        BY <2>1, VaultTypes DEF Frames, Range
      <3> QED BY <3>1 DEF VaultInv, WalksOK
    <2>2. ~orphan
      BY DEF VaultInv, ApmInv
    <2> QED BY <2>1, <2>2 DEF ManagerAlwaysFound, Walk
  <1> QED BY <1>1, InitWalks, StepWalks, PTL DEF Spec

\* Whoever stays subscribed while a command runs undisturbed hears both of its
\* start and of its end, however deep commands nest.
THEOREM EventsComeInPairs == Spec => []EventsPaired
  <1>1. ASSUME ApmInv
        PROVE  EventsPaired
    <2>1. ASSUME NEW i \in {Len(stack)} \ {0}
          PROVE  Paired(stack[i], exception)
      BY <1>1 DEF ApmInv, TypeOK, StackOK, FramesOK, FrameOK
    <2> QED BY <2>1 DEF EventsPaired, Paired
  <1> QED BY <1>1, Invariant, PTL

================================================================================
