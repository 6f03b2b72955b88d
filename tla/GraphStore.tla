------------------------------ MODULE GraphStore ------------------------------
(* The graph state stores: nodes, edges and events on disk, the copy each      *)
(* process keeps in memory, the seeding of an empty store from the policy      *)
(* file, the usage ledger chain and the events of access conversations, for    *)
(* the three backends (graph_state.py, postgres_state.py,                      *)
(* kogwistar_postgres_state.py).                                               *)
(*                                                                             *)
(* An entity is a node or an edge; its payload is a number.  An operation of   *)
(* several writes is the list of writes it still has to make; each write is a  *)
(* step of its own, and between two of them the process may be lost.  The      *)
(* relational store's own ledger append is one transaction: PostgresStore.     *)
EXTENDS Integers, FiniteSets, Sequences, Functions

CONSTANTS
    Backends,      \* those of "jsonl", "postgres", "kogwistar" considered
    ProcsOf,       \* the processes that share a store of each backend
    GraphKeys,     \* values MODELKEYGUARD_GRAPH_KEY is set to
    SeedSize,      \* entities the policy file gives rise to
    MaxUsage,      \* bound: ledger appends, and the length of the chain
    MaxAccess,     \* bound: access conversation events
    MaxRevises,    \* bound: later changes of a seeded entity
    MaxCrashes,    \* bound: processes lost
    MaxFailures    \* bound: writes that raise

ASSUME BackendsAssumption ==
    /\ Backends \subseteq {"jsonl", "postgres", "kogwistar"}
    /\ DOMAIN ProcsOf = Backends
    /\ \A b \in Backends : ProcsOf[b] # {} /\ IsFiniteSet(ProcsOf[b])
ASSUME BoundsAssumption ==
    /\ {SeedSize, MaxUsage, MaxAccess, MaxRevises, MaxCrashes, MaxFailures} \subseteq Nat
    /\ SeedSize # 0        \* the version of the policy is a node whatever it says

VARIABLES
    backend,       \* the configured backend
    disk,          \* current payload of every entity, Absent if there is none
    events,        \* durable events: kind, number and subject
    lane,          \* kogwistar: the projection of the ledger's head
    eventSeq,      \* kogwistar: the event counter
    revs,          \* kogwistar: revisions, each with the one it supersedes
    current,       \* kogwistar: current revision of every entity, 0 if none
    sealed,        \* the graph keys durable records are sealed with
    torn,          \* jsonl: the last line is incomplete
    up,            \* "down", "seeding" or "serving", per process
    gkey,          \* the graph key of a process
    mem, memEvents,\* entities and number of events in a process' memory
    todo,          \* writes the operation under way still has to make
    lost,          \* history: entities in memory whose write raised
    slipped,       \* history: a kogwistar commit failed after memory was changed
    partly,        \* history: a seeding ended after its first policy entity
    done           \* history: usage, access and revise operations so far, crashes, failures

store == <<disk, events, lane, eventSeq, revs, current, sealed>>
vars == <<backend, store, torn, up, gkey, mem, memEvents, todo, lost, slipped, partly, done>>

Procs == UNION Range(ProcsOf)

Absent == -1
Sentinel == <<"sentinel", 0>>
HeadNode == <<"head", 0>>
Seed(i) == <<"seed", i>>
Usage(n) == <<"usage", n>>
Edge(n) == <<"edge", n>>
Access(n) == <<"access", n>>
Seeds == {Seed(i) : i \in 1..SeedSize}
Entities == {Sentinel, HeadNode} \cup Seeds
            \cup {Usage(n) : n \in 1..MaxUsage} \cup {Edge(n) : n \in 1..MaxUsage}
            \cup {Access(n) : n \in 1..MaxAccess}
Payload == Absent..(MaxUsage + MaxRevises)

\* A write of an operation: an entity, an event, the ledger head's projection,
\* or the reloading of memory that ends a seeding.
Put(e, v) == [op |-> "put", about |-> e, val |-> v]
EventOf(kind, e) == [op |-> "event", about |-> e, val |-> kind]
LaneTo(n) == [op |-> "lane", about |-> HeadNode, val |-> n]
Reload == [op |-> "load", about |-> HeadNode, val |-> 0]

Alone == Cardinality(ProcsOf[backend]) = 1

-------------------------------------------------------------------------------
(* The lists of writes.                                                        *)

\* The policy file's entities, and the event that says they are there.
PolicyGraph == [i \in 1..SeedSize |-> Put(Seed(i), 0)] \o <<EventOf("init", Seed(1))>>

\* from_policy of the three stores: the sentinel unless it is there, then the
\* policy graph; the relational and the kogwistar store load again at the end.
SentinelFirst(m) == IF m[Sentinel] = Absent THEN <<Put(Sentinel, 0)>> ELSE <<>>
SeedJsonl(m) == SentinelFirst(m) \o PolicyGraph
SeedRelational(m) == SentinelFirst(m) \o PolicyGraph \o <<Reload>>
SeedKogwistar(m) == SentinelFirst(m) \o PolicyGraph \o <<Reload>>

SeedWrites(m) ==
    CASE backend = "jsonl" -> SeedJsonl(m)
      [] backend = "postgres" -> SeedRelational(m)
      [] backend = "kogwistar" -> SeedKogwistar(m)

\* Fault: the JSONL head carries no number.
HeadSeq_Restarted(p) == IF backend = "kogwistar" THEN lane ELSE 0

\* The head of the chain: the head node in memory, or the projection on disk.
HeadSeq(p) ==
    IF backend = "kogwistar" THEN lane
    ELSE IF mem[p][HeadNode] = Absent THEN 0 ELSE mem[p][HeadNode]

\* Fault: the head is moved before the entry and its edge are written.
LedgerWrites_HeadFirst(p, pay) ==
    LET n == HeadSeq(p) + 1 IN <<Put(HeadNode, n), LaneTo(n), Put(Usage(n), pay), Put(Edge(n), 0)>>

\* append_usage_ledger_event of the two graph stores.
LedgerWrites(p, pay) ==
    LET n == HeadSeq(p) + 1 IN
    IF backend = "kogwistar"
    THEN <<Put(Usage(n), pay)>>
         \o (IF n = 1 THEN <<Put(HeadNode, 0)>> ELSE <<>>)
         \o <<Put(Edge(n), 0), Put(HeadNode, n), LaneTo(n)>>
    ELSE (IF mem[p][HeadNode] = Absent THEN <<Put(HeadNode, 0)>> ELSE <<>>)
         \o <<Put(Usage(n), pay), Put(Edge(n), 0), Put(HeadNode, n)>>

\* append_access_conversation_event: the node, then the event about it.
AccessWrites(n) == <<Put(Access(n), 0), EventOf("access", Access(n))>>

-------------------------------------------------------------------------------
(* One write.                                                                  *)

\* Kogwistar decides from the process' memory whether anything is to be written.
Unchanged(p, w) == backend = "kogwistar" /\ mem[p][w.about] = w.val

\* Fault: a revision does not look up the one it supersedes.
Superseded_Never(p, e) == 0

\* The revision a new one supersedes: the current one on disk, looked up only
\* for an entity the process knows.
Superseded(p, e) == IF mem[p][e] = Absent THEN 0 ELSE current[e]

\* A revision and, if it supersedes one, a tombstone take a number each.
NextSeq == 1 + Cardinality(revs) + Cardinality({r \in revs : r.prev # 0})

\* Another payload in memory and on disk, under the key of the process.
Stores(p, w) ==
    /\ mem' = [mem EXCEPT ![p][w.about] = w.val]
    /\ lost' = [lost EXCEPT ![p] = @ \ {w.about}]
    /\ disk' = [disk EXCEPT ![w.about] = w.val]
    /\ sealed' = sealed \cup {gkey[p]}
    /\ UNCHANGED <<events, lane, eventSeq, memEvents>>

\* put_node and put_edge of the JSONL and of the relational store overwrite.
PutJsonl(p, w) == backend = "jsonl" /\ Stores(p, w) /\ UNCHANGED <<revs, current>>
PutRelational(p, w) == backend = "postgres" /\ Stores(p, w) /\ UNCHANGED <<revs, current>>

\* Kogwistar appends a revision, which is the current one from now on.
Revises(p, w) ==
    /\ Stores(p, w)
    /\ revs' = revs \cup {[seq |-> NextSeq, of |-> w.about, prev |-> Superseded(p, w.about)]}
    /\ current' = [current EXCEPT ![w.about] = NextSeq]

IsEdge(e) == e[1] = "edge"

\* _append_node_if_updated and _append_edge_if_updated.
PutNode(p, w) ==
    /\ backend = "kogwistar" /\ ~IsEdge(w.about)
    /\ IF Unchanged(p, w) THEN UNCHANGED <<store, mem, memEvents, lost>> ELSE Revises(p, w)
PutEdge(p, w) ==
    /\ backend = "kogwistar" /\ IsEdge(w.about)
    /\ IF Unchanged(p, w) THEN UNCHANGED <<store, mem, memEvents, lost>> ELSE Revises(p, w)

PutEntity(p, w) ==
    PutJsonl(p, w) \/ PutRelational(p, w) \/ PutNode(p, w) \/ PutEdge(p, w)

\* Fault: events are numbered from zero.
EventNumber_Zero(p) == IF backend = "kogwistar" THEN eventSeq ELSE memEvents[p]

\* An event's number: how many events the process knows, or the counter on disk.
EventNumber(p) == 1 + (IF backend = "kogwistar" THEN eventSeq ELSE memEvents[p])
Taken(p, w) == \E e \in events : e.kind = w.val /\ e.num = EventNumber(p)

PutEvent(p, w) ==
    /\ backend = "postgres" => ~Taken(p, w)
    /\ events' = {e \in events : ~(e.kind = w.val /\ e.num = EventNumber(p))}
                 \cup {[kind |-> w.val, num |-> EventNumber(p), about |-> w.about]}
    /\ eventSeq' = IF backend = "kogwistar" THEN eventSeq + 1 ELSE eventSeq
    /\ memEvents' = [memEvents EXCEPT ![p] = @ + 1]
    /\ sealed' = sealed \cup {gkey[p]}
    /\ UNCHANGED <<disk, lane, revs, current, mem, lost>>

PutLane(w) ==
    /\ lane' = w.val
    /\ UNCHANGED <<disk, events, eventSeq, revs, current, sealed, mem, memEvents, lost>>

\* Fault: loading restores nodes only.
Loaded_NodesOnly(p) ==
    /\ mem' = [mem EXCEPT ![p] = [e \in Entities |-> IF IsEdge(e) THEN Absent ELSE disk[e]]]
    /\ memEvents' = [memEvents EXCEPT ![p] = Cardinality(events)]
    /\ lost' = [lost EXCEPT ![p] = {}]
    /\ UNCHANGED store

\* load: what is on disk, if every record opens with this key.
Loaded(p) ==
    /\ mem' = [mem EXCEPT ![p] = disk]
    /\ memEvents' = [memEvents EXCEPT ![p] = Cardinality(events)]
    /\ lost' = [lost EXCEPT ![p] = {}]
    /\ UNCHANGED store

Write(p) ==
    /\ todo[p] # <<>>
    /\ LET w == Head(todo[p]) IN
       \/ w.op = "put" /\ PutEntity(p, w)
       \/ w.op = "event" /\ PutEvent(p, w)
       \/ w.op = "lane" /\ PutLane(w)
       \/ w.op = "load" /\ Loaded(p)
    /\ todo' = [todo EXCEPT ![p] = Tail(@)]
    /\ up' = [up EXCEPT ![p] = IF Tail(todo[p]) = <<>> THEN "serving" ELSE @]
    /\ UNCHANGED <<backend, torn, gkey, slipped, partly, done>>

\* What an operation that ends early leaves: a seeding process does not start.
GivesUp(p) ==
    /\ todo' = [todo EXCEPT ![p] = <<>>]
    /\ up' = [up EXCEPT ![p] = IF @ = "seeding" THEN "down" ELSE @]
    /\ partly' = (partly \/ (up[p] = "seeding" /\ \E s \in Seeds : disk[s] # Absent))

\* A node or edge whose write raises.  The JSONL and relational stores have put
\* it into memory before; kogwistar puts it there inside the unit of work, so
\* only a failing commit leaves it there.
PutFails(p) ==
    /\ todo[p] # <<>> /\ done.fail < MaxFailures
    /\ LET w == Head(todo[p]) IN
       /\ w.op = "put" /\ ~Unchanged(p, w)
       /\ \/ /\ slipped' = (slipped \/ backend = "kogwistar")
             /\ mem' = [mem EXCEPT ![p][w.about] = w.val]
             /\ lost' = [lost EXCEPT ![p] = @ \cup {w.about}]
          \/ backend = "kogwistar" /\ UNCHANGED <<mem, lost, slipped>>
    /\ GivesUp(p)
    /\ done' = [done EXCEPT !.fail = @ + 1]
    /\ UNCHANGED <<backend, store, torn, gkey, memEvents>>

\* An event or projection that is not written, in the relational store also
\* because another process has used the event's number.
EventFails(p) ==
    /\ todo[p] # <<>>
    /\ LET w == Head(todo[p]) IN
       /\ w.op \in {"event", "lane"}
       /\ \/ /\ w.op = "event" /\ backend = "postgres" /\ Taken(p, w)
             /\ UNCHANGED <<memEvents, done>>
          \/ /\ done.fail < MaxFailures
             /\ done' = [done EXCEPT !.fail = @ + 1]
             /\ \/ UNCHANGED memEvents
                \/ /\ w.op = "event" /\ backend = "kogwistar"
                   /\ memEvents' = [memEvents EXCEPT ![p] = @ + 1]
    /\ GivesUp(p)
    /\ UNCHANGED <<backend, store, torn, gkey, mem, lost, slipped>>

-------------------------------------------------------------------------------
(* Processes.                                                                  *)

\* Whether load succeeds: no incomplete line, and every record opens.
Opens(k) == ~torn /\ sealed \subseteq {k}

\* Fault: the sentinel counts as a policy graph.
Existing_Sentinel(m) == {e \in DOMAIN m : m[e] # Absent}

\* from_policy seeds a store that holds no node but the sentinel.
Existing(m) == {e \in DOMAIN m \ {Sentinel} : m[e] # Absent}

Start(p, k) ==
    /\ up[p] = "down" /\ Opens(k)
    /\ Loaded(p)
    /\ gkey' = [gkey EXCEPT ![p] = k]
    /\ IF Existing(disk) # {}
       THEN /\ up' = [up EXCEPT ![p] = "serving"]
            /\ UNCHANGED todo
       ELSE /\ up' = [up EXCEPT ![p] = "seeding"]
            /\ todo' = [todo EXCEPT ![p] = SeedWrites(disk)]
    /\ UNCHANGED <<backend, torn, slipped, partly, done>>

Idle(p) == up[p] = "serving" /\ todo[p] = <<>>

\* A settled request is appended to the ledger.
Ledger(p) ==
    /\ backend # "postgres" /\ Idle(p)
    /\ done.usage < MaxUsage /\ HeadSeq(p) < MaxUsage
    /\ done' = [done EXCEPT !.usage = @ + 1]
    /\ todo' = [todo EXCEPT ![p] = LedgerWrites(p, done.usage + 1)]
    /\ UNCHANGED <<backend, store, torn, up, gkey, mem, memEvents, lost, slipped, partly>>

\* The outcome of a request is recorded.
Conversation(p) ==
    /\ Idle(p) /\ done.access < MaxAccess
    /\ done' = [done EXCEPT !.access = @ + 1]
    /\ todo' = [todo EXCEPT ![p] = AccessWrites(done.access + 1)]
    /\ UNCHANGED <<backend, store, torn, up, gkey, mem, memEvents, lost, slipped, partly>>

\* An administrator's change of an entity that came from the policy file.
Revise(p, s) ==
    /\ Idle(p) /\ done.revise < MaxRevises
    /\ done' = [done EXCEPT !.revise = @ + 1]
    /\ \E v \in {0, done.revise + 1} : todo' = [todo EXCEPT ![p] = <<Put(s, v)>>]
    /\ UNCHANGED <<backend, store, torn, up, gkey, mem, memEvents, lost, slipped, partly>>

\* A process is lost, perhaps in the middle of a line of the JSONL file.
Crash(p) ==
    /\ up[p] # "down" /\ done.crash < MaxCrashes
    /\ done' = [done EXCEPT !.crash = @ + 1]
    /\ torn' \in {torn, backend = "jsonl" /\ todo[p] # <<>>}
    /\ up' = [up EXCEPT ![p] = "down"]
    /\ todo' = [todo EXCEPT ![p] = <<>>]
    /\ partly' = (partly \/ (up[p] = "seeding" /\ \E s \in Seeds : disk[s] # Absent))
    /\ UNCHANGED <<backend, store, gkey, mem, memEvents, lost, slipped>>

-------------------------------------------------------------------------------

Init ==
    /\ backend \in Backends
    /\ disk = [e \in Entities |-> Absent]
    /\ events = {} /\ lane = 0 /\ eventSeq = 0
    /\ revs = {} /\ current = [e \in Entities |-> 0]
    /\ sealed = {} /\ torn = FALSE
    /\ up = [p \in Procs |-> "down"]
    /\ gkey \in [Procs -> GraphKeys] /\ \A p, q \in Procs : gkey[p] = gkey[q]
    /\ mem = [p \in Procs |-> [e \in Entities |-> Absent]]
    /\ memEvents = [p \in Procs |-> 0]
    /\ todo = [p \in Procs |-> <<>>]
    /\ lost = [p \in Procs |-> {}]
    /\ slipped = FALSE /\ partly = FALSE
    /\ done = [usage |-> 0, access |-> 0, revise |-> 0, crash |-> 0, fail |-> 0]

\* Processes that share a store are deployed with one key; a process that has
\* the store for itself may be restarted with another.
MayUse(p, k) == Alone \/ k = gkey[p]

Next ==
    \E p \in ProcsOf[backend] :
        \/ \E k \in GraphKeys : MayUse(p, k) /\ Start(p, k)
        \/ Write(p) \/ PutFails(p) \/ EventFails(p)
        \/ Ledger(p) \/ Conversation(p) \/ Crash(p)
        \/ \E s \in Seeds : Revise(p, s)

Spec == Init /\ [][Next]_vars

-------------------------------------------------------------------------------
(* Properties.                                                                 *)

\* Every variable keeps its type.
TypeOK ==
    /\ backend \in Backends
    /\ disk \in [Entities -> Payload]
    /\ \A e \in events : /\ e.kind \in {"init", "access"} /\ e.num \in Nat \ {0}
                         /\ e.about \in Entities
    /\ lane \in 0..MaxUsage /\ eventSeq \in Nat
    /\ \A r \in revs : r.seq \in Nat \ {0} /\ r.of \in Entities /\ r.prev \in Nat
    /\ current \in [Entities -> Nat]
    /\ sealed \subseteq GraphKeys /\ torn \in BOOLEAN
    /\ up \in [Procs -> {"down", "seeding", "serving"}]
    /\ gkey \in [Procs -> GraphKeys]
    /\ mem \in [Procs -> [Entities -> Payload]]
    /\ memEvents \in [Procs -> Nat]
    /\ lost \in [Procs -> SUBSET Entities]
    /\ slipped \in BOOLEAN /\ partly \in BOOLEAN

\* The end of the durable chain.
ChainHead == IF backend = "kogwistar" THEN lane
             ELSE IF disk[HeadNode] = Absent THEN 0 ELSE disk[HeadNode]

\* The ledger is a linked list without a gap up to its head, wherever a process
\* was lost or a write raised in the middle of an append (README "strict linked
\* list").  Not after a kogwistar commit that failed when memory already had the
\* edge: the next append takes it for unchanged and moves the head past it.
ChainSound ==
    ~slipped => \A n \in 1..ChainHead : disk[Usage(n)] # Absent /\ disk[Edge(n)] # Absent

\* A ledger event the head has reached is never overwritten or lost, though the
\* next append after an interrupted one uses the same number again.
LedgerKept ==
    [][/\ ChainHead' >= ChainHead
       /\ \A n \in 1..ChainHead : disk'[Usage(n)] = disk[Usage(n)]]_vars

\* An event that was written stays, under its number: the numbers the stores
\* derive from memory or a counter never collide with one in use.
EventsKept == [][events \subseteq events']_vars

\* What is recorded is append-only: the ledger and the events.
HistoryKept == LedgerKept /\ EventsKept

\* An event is about a node that is there: the node is written first.
EventsAnchored == \A e \in events : disk[e.about] # Absent

\* No record refers to one that is missing, neither along the ledger nor from
\* an event.
NothingDangles == ChainSound /\ EventsAnchored

\* The store of a serving process holds the whole policy graph, unless a seeding
\* was interrupted in the middle or is going on: one interrupted before its first
\* policy entity is taken up again.
SeededWhole ==
    \A p \in ProcsOf[backend] :
        (up[p] = "serving" /\ ~partly /\ \A q \in ProcsOf[backend] : up[q] # "seeding")
        => \A s \in Seeds : disk[s] # Absent

\* A process that has the store for itself has in memory what is on disk, but
\* for entities whose last write raised.
AcknowledgedIsDurable ==
    Alone => \A p \in ProcsOf[backend] : up[p] # "down" =>
        \A e \in Entities : mem[p][e] # disk[e] => e \in lost[p]

\* Of every entity all revisions but the current one are superseded, each by one
\* other revision of the same entity.
RevisionsLinear ==
    backend = "kogwistar" => \A e \in Entities :
        LET mine == {r \in revs : r.of = e} IN
        /\ Cardinality({r.seq : r \in revs}) = Cardinality(revs)
        /\ \A r, s \in mine : r # s => r.prev # s.prev
        /\ \A r \in mine : r.seq = current[e] \/ \E s \in mine : s.prev = r.seq

===============================================================================
