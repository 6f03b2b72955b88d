---------------------------- MODULE PolicyRevisions ----------------------------
(* Quota policies and prices: append-only revisions in the graph, and the     *)
(* projection of the latest ones that requests are admitted and charged by    *)
(* (registration.py, services/pricing_ops.py, routers/admin_policy.py, the     *)
(* rebuild functions of the stores, core.py _quota_policies).                  *)
(*                                                                             *)
(* A subject's register is of quotas (named limits) or of model prices.  A     *)
(* quota revision is a node, an edge to it, an event and a rebuild of the      *)
(* projection; a price revision is an event and a rebuild.  A value stands     *)
(* for the limits or the price; None is what a revocation leaves.  The         *)
(* handlers have no await between these steps, so in one process another       *)
(* request comes before or after them; but any of them may raise, the process  *)
(* may be lost after any of them, and several processes share the store, each  *)
(* with its own memory of the graph.                                           *)
EXTENDS Integers, FiniteSets, Functions

CONSTANTS
    Registers,     \* those of "quota", "price" considered
    Procs,         \* gateway processes on the store
    Names,         \* quota names, or models
    Values,        \* limits or prices a revision may set
    Based,         \* names the policy file gives a value
    Capped,        \* the store's load reads at most 10000 events (kogwistar)
    MaxRevisions,  \* bound: revisions begun
    MaxTicks,      \* bound: milliseconds that pass
    MaxFailures,   \* bound: steps that raise
    MaxCrashes     \* bound: processes lost

ASSUME RegistersAssumption == Registers \subseteq {"quota", "price"}
ASSUME NamesAssumption == Based \subseteq Names /\ Values \subseteq Nat \ {0}
ASSUME CappedAssumption == Capped \in BOOLEAN
ASSUME ProcsAssumption == IsFiniteSet(Procs) /\ Procs # {}
ASSUME BoundsAssumption == {MaxRevisions, MaxTicks, MaxFailures, MaxCrashes} \subseteq Nat

VARIABLES
    register,      \* what the register holds
    revs,          \* durable revisions: name, millisecond, number, value
    linked,        \* quota: those with a durable HAS_QUOTA_POLICY edge
    proj,          \* the durable projection, Absent or a value for every name
    mem,           \* a process' copy of the revisions and edges
    job,           \* the revision a process is writing, and its next step
    up,            \* whether a process serves
    clock,         \* milliseconds
    begun,         \* revisions begun
    lostSteps,     \* failures and crashes
    acked,         \* history: the last value acknowledged for a name
    cut,           \* history: values of revisions interrupted since
    missed         \* history: names a load has left to an older value, and not
                   \* revised since

vars == <<register, revs, linked, proj, mem, job, up, clock, begun, lostSteps, acked, cut, missed>>

None == 0
Baseline == 99
Vals == Values \cup {None, Baseline}
Absent == <<>>
Idle == [step |-> "idle"]

Steps == IF register = "quota" THEN {"node", "edge", "event", "rebuild"} ELSE {"event", "rebuild"}
First == IF register = "quota" THEN "node" ELSE "event"

\* What follows a step.
After(s) == CASE s = "node" -> "edge" [] s = "edge" -> "event" [] s = "event" -> "rebuild"

-------------------------------------------------------------------------------
(* The projection.                                                             *)

\* (revision_ms, id): a quota's id ends in the millisecond, a price's begins
\* with the event kind, of which PRICING_POLICY_REVOKED sorts first.
Newer(r, s) ==
    \/ r.ms > s.ms
    \/ /\ r.ms = s.ms
       /\ \/ r.val # None /\ s.val = None
          \/ (r.val = None) = (s.val = None) /\ r.num > s.num

\* The revisions of a name a rebuild looks at: of quotas those with an edge.
Revisions(view, n) ==
    {r \in view.revs : r.name = n /\ (register = "quota" => r \in view.linked)}

\* Fault: a rebuild takes any revision that is not revoked.
ValueOf_Active(view, n) ==
    LET mine == {r \in Revisions(view, n) : r.val # None} IN
    IF mine = {} THEN None
    ELSE (CHOOSE r \in mine : \A s \in mine \ {r} : Newer(r, s)).val

\* A name's value: that of its latest revision, the policy file's if it has
\* none.  A policy file's quotas are nodes without a millisecond, and so the
\* oldest of their name; its prices are where a price projection starts from.
ValueOf(view, n) ==
    LET mine == Revisions(view, n) IN
    IF mine = {} THEN IF n \in Based THEN Baseline ELSE None
    ELSE (CHOOSE r \in mine : \A s \in mine \ {r} : Newer(r, s)).val

Rebuilt(view) == [n \in Names |-> ValueOf(view, n)]

\* resolve_price_per_1k_tokens_usd: a projection with no model price at all
\* counts as none, and the policy file's prices apply.
Served(n) ==
    IF register = "price" /\ \A m \in Names : proj[m] = None
    THEN IF n \in Based THEN Baseline ELSE None
    ELSE proj[n]

-------------------------------------------------------------------------------
(* A revision.                                                                 *)

Durable == [revs |-> revs, linked |-> linked]

\* Fault: the millisecond is taken as it is.
FreshMs_Clock(p, n) == clock

\* append_quota_revision counts up from the clock to a node id the process does
\* not know; append_pricing_revision takes the clock.
FreshMs(p, n) ==
    IF register = "price" THEN clock
    ELSE CHOOSE ms \in clock..(clock + Cardinality(mem[p].revs)) :
            /\ \A r \in mem[p].revs : ~(r.name = n /\ r.ms = ms)
            /\ \A earlier \in clock..(ms - 1) :
                   \E r \in mem[p].revs : r.name = n /\ r.ms = earlier

\* A revision that passes its checks, numbered and about to be written.
Begin(p, n, v) ==
    /\ up[p] /\ job[p] = Idle /\ begun < MaxRevisions
    /\ job' = [job EXCEPT ![p] =
                  [step |-> First,
                   rev |-> [name |-> n, ms |-> FreshMs(p, n), num |-> begun + 1, val |-> v]]]
    /\ begun' = begun + 1
    /\ UNCHANGED <<register, revs, linked, proj, mem, up, clock, lostSteps, acked, cut, missed>>

\* The operations of /admin/policy, each also a handler of its own.
UpsertQuota(p, n) == register = "quota" /\ \E v \in Values : Begin(p, n, v)
RevokeQuota(p, n) == register = "quota" /\ Begin(p, n, None)
UpsertPrice(p, n) == register = "price" /\ \E v \in Values : Begin(p, n, v)
RevokePrice(p, n) == register = "price" /\ Begin(p, n, None)

Revise(p, n) ==
    UpsertQuota(p, n) \/ RevokeQuota(p, n) \/ UpsertPrice(p, n) \/ RevokePrice(p, n)

\* put_node and append_event: an id that is there is overwritten.
Stored(set, r) ==
    (IF register = "quota" THEN {s \in set : ~(s.name = r.name /\ s.ms = r.ms)} ELSE set) \cup {r}

\* Fault: the event is appended to the store and not to the process' list.
WriteRevision_Forgotten(p) ==
    /\ job[p].step = First
    /\ revs' = Stored(revs, job[p].rev)
    /\ UNCHANGED <<linked, mem, proj>>

WriteRevision(p) ==
    /\ job[p].step = First
    /\ revs' = Stored(revs, job[p].rev)
    /\ mem' = [mem EXCEPT ![p].revs = Stored(@, job[p].rev)]
    /\ UNCHANGED <<linked, proj>>

WriteEdge(p) ==
    /\ job[p].step = "edge"
    /\ linked' = linked \cup {job[p].rev}
    /\ mem' = [mem EXCEPT ![p].linked = @ \cup {job[p].rev}]
    /\ UNCHANGED <<revs, proj>>

WriteEvent(p) ==
    /\ job[p].step = "event" /\ First # "event"
    /\ UNCHANGED <<revs, linked, mem, proj>>

\* One step of the revision; only the last one ends it, and with it the request.
Step(p) ==
    /\ job[p].step \in {"node", "edge", "event"}
    /\ WriteRevision(p) \/ WriteEdge(p) \/ WriteEvent(p)
    /\ job' = [job EXCEPT ![p].step = After(@)]
    /\ UNCHANGED <<register, up, clock, begun, lostSteps, acked, cut, missed>>

\* rebuild_quota_policy_projection, rebuild_pricing_projection: from the
\* process' memory, replacing whatever is stored.
Rebuild(p) ==
    /\ job[p].step = "rebuild"
    /\ proj' = Rebuilt(mem[p])
    /\ job' = [job EXCEPT ![p] = Idle]
    /\ acked' = [acked EXCEPT ![job[p].rev.name] = job[p].rev.val]
    /\ cut' = [cut EXCEPT ![job[p].rev.name] = {}]
    /\ missed' = missed \ {job[p].rev.name}
    /\ UNCHANGED <<register, revs, linked, mem, up, clock, begun, lostSteps>>

\* The revision under way is left where it is.
CutOff(p) ==
    /\ job' = [job EXCEPT ![p] = Idle]
    /\ cut' = IF job[p] = Idle THEN cut
              ELSE [cut EXCEPT ![job[p].rev.name] = @ \cup {job[p].rev.val}]
    /\ UNCHANGED <<register, revs, linked, proj, clock, begun, acked, missed>>

\* A step raises and has written nothing, neither to the store nor to memory (as
\* in a kogwistar unit of work; GraphStore tells the stores apart): the handler
\* answers an error.
Fails(p) ==
    /\ job[p] # Idle /\ lostSteps.fail < MaxFailures
    /\ lostSteps' = [lostSteps EXCEPT !.fail = @ + 1]
    /\ CutOff(p)
    /\ UNCHANGED <<up, mem>>

-------------------------------------------------------------------------------
(* Requests, processes, time.                                                  *)

\* A request that finds no projection builds it, from the memory of its process.
FirstRead(p) ==
    /\ up[p] /\ job[p] = Idle /\ proj = Absent
    /\ proj' = Rebuilt(mem[p])
    /\ UNCHANGED <<register, revs, linked, mem, job, up, clock, begun, lostSteps, acked, cut, missed>>

\* _quota_policies and load_pricing_projection.
FirstQuota(p) == register = "quota" /\ FirstRead(p)
FirstPrice(p) == register = "price" /\ FirstRead(p)

Crash(p) ==
    /\ up[p] /\ lostSteps.crash < MaxCrashes
    /\ lostSteps' = [lostSteps EXCEPT !.crash = @ + 1]
    /\ up' = [up EXCEPT ![p] = FALSE]
    /\ CutOff(p)
    /\ UNCHANGED mem

\* What a load of the graph may give a process.  Quotas and their edges come
\* from the current-node projections, all of them; prices are events, of which a
\* capped load reads some 10000, in no order and among those of every request.
Loads ==
    IF Capped /\ register = "price"
    THEN {[revs |-> some, linked |-> linked] : some \in SUBSET revs}
    ELSE {Durable}

\* A process starts and loads the graph; the projection it finds it keeps.
Restart(p) ==
    /\ ~up[p]
    /\ up' = [up EXCEPT ![p] = TRUE]
    /\ \E view \in Loads :
          /\ mem' = [mem EXCEPT ![p] = view]
          /\ missed' = missed \cup {n \in Names : ValueOf(view, n) # ValueOf(Durable, n)}
    /\ UNCHANGED <<register, revs, linked, proj, job, clock, begun, lostSteps, acked, cut>>

Tick ==
    /\ clock < MaxTicks
    /\ clock' = clock + 1
    /\ UNCHANGED <<register, revs, linked, proj, mem, job, up, begun, lostSteps, acked, cut, missed>>

Init ==
    /\ register \in Registers
    /\ revs = {} /\ linked = {} /\ proj = Absent
    /\ mem = [p \in Procs |-> [revs |-> {}, linked |-> {}]]
    /\ job = [p \in Procs |-> Idle] /\ up = [p \in Procs |-> TRUE]
    /\ clock = 0 /\ begun = 0
    /\ lostSteps = [fail |-> 0, crash |-> 0]
    /\ acked = [n \in Names |-> IF n \in Based THEN Baseline ELSE None]
    /\ cut = [n \in Names |-> {}] /\ missed = {}

Next ==
    \/ \E p \in Procs :
          \/ \E n \in Names : Revise(p, n)
          \/ Step(p) \/ Rebuild(p) \/ Fails(p)
          \/ FirstQuota(p) \/ FirstPrice(p) \/ Crash(p) \/ Restart(p)
    \/ Tick

Spec == Init /\ [][Next]_vars

-------------------------------------------------------------------------------
(* Properties.                                                                 *)

Revision == [name : Names, ms : Nat, num : Nat \ {0}, val : Values \cup {None}]
View == [revs : SUBSET Revision, linked : SUBSET Revision]

\* Every variable keeps its type.
TypeOK ==
    /\ register \in Registers
    /\ revs \subseteq Revision /\ linked \subseteq Revision
    /\ proj = Absent \/ proj \in [Names -> Vals]
    /\ mem \in [Procs -> View]
    /\ job \in [Procs -> {Idle} \cup [step : Steps, rev : Revision]]
    /\ up \in [Procs -> BOOLEAN]
    /\ clock \in Nat /\ begun \in Nat
    /\ lostSteps \in [fail : Nat, crash : Nat]
    /\ acked \in [Names -> Vals] /\ cut \in [Names -> SUBSET Vals] /\ missed \subseteq Names

Alone == Cardinality(Procs) = 1

\* Two price revisions of a name in one millisecond, of which one revokes: the
\* revocation loses, in whichever order they came.
Tied(n) ==
    /\ register = "price"
    /\ \E r, s \in revs : r.name = n /\ s.name = n /\ r.ms = s.ms
                          /\ r.val = None /\ s.val # None

\* Every price of the policy's models is revoked.
AllRevoked == register = "price" /\ \A m \in Names : proj[m] = None

\* The values a request may be admitted and charged by: the one acknowledged last
\* for a name, or one of a revision that was interrupted since.
Latest(n) == Tied(n) \/ Served(n) \in {acked[n]} \cup cut[n]

\* One process, no revision under way, and not every price revoked.
Settled ==
    Alone /\ proj # Absent /\ (\A p \in Procs : job[p] = Idle) /\ ~AllRevoked

\* A request is admitted and charged by the latest value of a name, whatever
\* revisions of other names, failures and restarts came between (README.md "the
\* graph is the authoritative replay/audit log; the named projection is a
\* rebuildable O(1) view").  It takes that one process changes policies and that
\* a load reads every event, and excepts the two cases named above.
ServedIsLatest == Settled => \A n \in Names : Latest(n)

\* On a store with a capped load a request may be charged by an older price only
\* of a model whose latest revision a load has left out; revising the model
\* again makes it right, and no other model or quota is touched.
ServedUnlessMissed ==
    Settled => \A n \in Names : Latest(n) \/ (register = "price" /\ n \in missed)

\* Revisions are append-only: none is ever overwritten or dropped, also when
\* two of a name are made in one millisecond.
RevisionsKept == [][Alone => revs \subseteq revs' /\ linked \subseteq linked']_vars

===============================================================================
