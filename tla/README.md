# A TLA+ model of the model-key gateway

The repository (`src/modelkeyguard`) is a gateway between agents and model
providers. It holds the provider keys, decides who may use which key, and
keeps every principal, key, user and token within a quota. This directory
holds TLA+ modules for the part of it that is hardest to test, the TLC
configurations that check them, and TLAPS proofs.

## The system

| part | state | operations | hard behaviour |
|---|---|---|---|
| `core.py` `ModelKeyGuard` | the reservation row (one row, all reservations), a usage row per quota lane, a settlement marker row per request | `check`, `reserve_admission`, `update_reservation`, `record_usage` / `settle_reservation` | several processes share the rows; optimistic compare-and-swap with bounded retries; crash between two steps |
| `gateway.py` request lifecycle | idempotency record per key, per-process cache | `process_chat_completion`, the streaming route handler | every way a call can end must end its reservation; cancellation inside an await; exceptions nobody catches |
| `gateway.py` stream relay | queue of 32 chunks, relay task, consumer | `_stream_upstream`, `relay`, `bounded_stream` | client disconnect, drain with timeout, back-pressure, shutdown, a store that raises during the clean-up |
| `reconciliation.py` operator | none of its own; works on the reservation row | `expire_stale_reservations`, `reconcile_with_provider`, `mark_reconciled` | races with the gateway process that still serves the request |
| `postgres_state.py` store | `named_projections`, graph nodes and edges, ledger chain | CAS over several rows, quota counters, ledger append | row locks, absent rows, sequence numbers that are reset |
| `graph_state.py`, `kogwistar_postgres_state.py` stores | event log / external meta store | the same interface | memory of nodes in each process; writes entity by entity; revisions |
| `registration.py`, `services/pricing_ops.py`, `routers/admin_policy.py` | quota and price revisions, projections | revise, revoke, rebuild | one step of several failing; ids made of a millisecond; a rebuild from what a capped load has read |
| `key_manager.py`, `routers/admin_keys.py`, `build_guard` / `rehydrate_runtime_key` | model keys, sealed secrets, the guard's registry in each process | create, rotate, revoke, resolve, rehydrate | one step of several failing; processes that know different things |
| `kogwistar_acl_adapter.py`, `token_auth.py` | ACL records / none | grant, decide, verify | records made again from what the graph kept |
| `reviewer_agent.py`, `governance_runtime.py`, `review_worker.py`, `scripts/usage_*_agent.py` | review checkpoint and run, the worker's checkpoint file, loop health | review window, advance checkpoint, alert, analyse | rows recorded during a review; four writers of one checkpoint; breaker and backoff over restarts |
| other `services/*`, `routers/*` | none, or one row replaced whole | sign-in, pages, history and usage reports | none |
| `providers/*`, `cli.py`, `settings.py`, `graph_tools.py` | none | translation, start-up | none |

A chat request passes `check` (usage against quota), `reserve_admission`
(usage plus other reservations plus the estimate against quota, one entry
added to the reservation row, which names lanes and no period), the provider
call, and `settle_reservation`,
which in one multi-row CAS debits every lane in the period of that
moment, writes the marker and marks the reservation settled; a usage ledger event follows. A stream is opened and
relayed in awaits, and its consumer settles it at the end. The operator is a
process of its own that releases or classifies expired reservations and
settles or releases those whose outcome was uncertain.

`PROJECT.json` lists the hazards found in this code, each at its line.

## Modules

| module | role |
|---|---|
| `SettlementLedger` | what settlement promises: a request is charged in one step, with one cost, at most once, for good |
| `QuotaReservation` | gateway processes, requests, operators and the shared rows, one store access per step |
| `Idempotency` | gateway processes, requests with idempotency keys, and the records of the keys in the store and in each process |
| `StreamRelay` | one stream: relay task, queue, consumer, client, event loop |
| `PostgresStore` | transactions of several connections on rows and a usage lane, one statement per step, with row locks, the advisory lock and deadlock detection |
| `GraphStore` | the three graph stores, one write per step: seeding, ledger and access chains, revisions, loading |
| `PolicyRevisions` | quota and price revisions, their projections, and what is served |
| `KeyLifecycle` | model keys and their secrets in the store, the guards of the processes, what callers may do |
| `UsageReview` | the rows of the gateways, the review checkpoint and its writers, the loops' health |
| `MC*` | small instances for TLC, one module each |
| `*_proofs` | theorems, see below |

The state machines share no variable: each is about rows the others do not
touch. Where one uses another's result, it takes it as an assumption named in
its comments: `QuotaReservation` and `Idempotency` see a compare-and-swap as
one step (`MayMatch`), which is exact as far as `PostgresStore`'s
`SwapReplacesWhatItRead` goes. Two inserts of an absent row can both succeed on
Postgres: `Idempotency` always lets them, since a claim of a new key is such an
insert; in `QuotaReservation`, where only the first settlement of a lane and
period inserts, `PhantomInserts` says whether they do. `QuotaReservation`'s and
`Idempotency`'s stream requests end in the outcomes of `StreamRelay`;
`KeyLifecycle` and `PolicyRevisions` write through the stores of `GraphStore`,
whose put happens, or raises with or without its change in memory.

### QuotaReservation

State. `table` is the reservation row, `quota[<<l, p>>]` the usage row of a
lane for its `p`-th period, `period[l]` the current period of a lane,
`marker[r]` the settlement marker and the usage rows it was written with, each
row with the version its sequence numbers stand for (0: absent). Usage is kept per request (`cost[r]`,
`count[r]`), so that the row's total is their sum (`Used`) and a double debit
can be seen. `ledger[r]` counts ledger events and `known[p]` is what process
`p` has of them in memory. `pc`, `snap`, `tries` and `frame` are the program
counter, what has been read, lost CASes and arguments of whoever runs a store
procedure (a request or an operator). `owner[r]` is the gateway process that
serves `r`.

Steps. Every read of a row and every CAS is an action; what happens in between
(arithmetic, pruning, building the payload) belongs to the step before it.
Each attempt of `reserve_admission` is `ReserveRead`, `ReserveCheck`,
`ReserveSeq` (the second read, for sequence numbers, in
`_cas_reservation_payload`) and `ReserveCas`; `update_reservation` is
`UpdRead`, `UpdSeq`, `UpdCas`; `settle_reservation` is `SettleRead`,
`SettleMarker`, `SettleCas` and `LedgerAppend` or `LedgerLost`. The gateway's
outcome paths call them (`CallUpdate`, `CallSettle`). A gateway process is one
event loop whose store calls are synchronous, and a plain provider call blocks
it: `Free` lets another request of the process move only while all its
requests are in an await. A settlement looks at the clock once, when it starts
(`frame.when`), and stays on the rows of that moment through its retries
(`SettleRows`); admission takes the rows of now (`Now`). A reservation made
before a period ended is held against the next one, and its answer debited to it.

Exceptions. `CallRaises` is what `forward_provider` does not catch (a read that
times out, a connection closed without an answer) and the read of a rejected
stream's error answer: the request ends where it stands. `StoreRaises` is a
store operation of a request that raises, before or after its effect, and the
finalizer a stream never reaches; `RelayRaises` the `on_uncertain` that follows
an exception inside the relay task. `Stuck` is the wait of finding 2.

The operator. `ExpireRead`, `Ask`, `Answer`, `Annotate`, `OpCas`, `OpSeq`. Its
retries write the payload computed before under fresh sequence numbers. A
decision rebuilt by the operator has no user and no token, so when the
reservation entry is gone it settles `BareLanes` only. (`reconcile_once`
opens the plain JSONL store, reconciliation.py:261; the functions it calls take
any store, and the operator here works on the gateway's.)

The store. A CAS is one step. `PhantomInserts` says whether two inserts of one
absent row can both succeed, as under Postgres, where `SELECT ... FOR UPDATE`
locks nothing if the row is absent. With `FALSE` the CAS is exact.

Abstractions. Amounts are small naturals: one dimension stands for the three
(dollars, tokens, requests), which the code checks and debits alike. One
`Lanes` element is a lane and its subject with one kind of period; a lane with
several policies is one whose limit is the smallest. Reads of several usage rows by one
attempt are one step; the CAS compares each version, and admission reads them
inside one synchronous section of the process. `check` may refuse for any
reason, which stands for ACL, key, model and approval checks. Request ids are
fresh, as the code generates them.

### Idempotency

State. `row[k]` is the stored record of key `k` with its version, `cache[w][k]`
what process `w` has of it in memory (`_idempotency_cache`). A record's
`until` names its expiry time by who computed it and when (`<<r, "claim">>`,
`<<r, "outcome">>`); `late` is the set of those that have passed and `overdue`
the requests whose claim expired while they were served. `pending[r]`
are the fields `r` is about to merge into the row, `snap[r]` the row it has
read, `reply[r]` how it was answered and with whose body. `ran` and `rejected`
are history: who was forwarded (or answered by a dry run), and who of them got
a 4xx.

Steps. `Accept` is `_idempotency_read` and the answer from a live record;
`ClaimRead` and `ClaimCas` are the claim; `Denied`, `NotAdmitted`, `DryRun`,
`Forward`, `Answered`, `Unknown`, `Rejected`, `Opened`, `OpenFailed`,
`StreamSettled`, `StreamBroken` are the outcome paths of
`process_chat_completion`, the streaming route handler and `bounded_stream`;
those that record something start `_idempotency_write`, which is `WriteRead`
and `WriteCas`. `Release` is the 4xx path that deletes the row. `Merged` is the
`dict.update` of the write. `Raises` is an exception that leaves the handler (a
read timeout of the plain call is no `URLError`; a store that fails), `Hangs` a
stream stuck as in finding 2: neither records anything. `Abandoned`, `Expire`
and `Crash` are the environment's.

Abstractions. A key stands for its whole scope, a payload for its hash, a body
for the request that produced it. An answer counts as given when its outcome
starts to be written. A store exception in `_idempotency_write` is left out;
the code gives up at once, which is like the last failed CAS.

### StreamRelay

State. `task` is where the relay task is (reading, putting, closing, blocked
on the end marker, done), `cons` where `bounded_stream` is, `queue` the chunks
between them (0: the end marker), `taken` what the client got, `metered` and
`usage` what the upstream reported and what the relay kept of it, `terminal`,
`reservation`, `history`, `idem` and `charges` what is recorded of the stream;
`raised` says that the task ends by an exception, `failures` counts store
operations that raised.

Steps. `Start`, `Read` (with `OnChunk` and `Scan`), `Put`, `PutTimesOut`,
`Eof`, `Broken`, `Close`, `Unblocked` are the task's; `Get`, `Send`, `Detach`,
`Leave`, `Skip`, `Finalize`, `FinalizeRaises` the consumer's, and `Shutdown`,
`TaskCancelled`, `ConsCancelled` the end of the event loop. Every store access
may raise, before or after its write: in `on_chunk` and `on_complete` (then
`OnUncertain` follows, whose own update may raise and end the task by the
exception), and in the settlement, the outcome under the key and the history
(`FinalizeRaises`, with `Settle` the settlement). `Skip` is the `shield(task)`
of gateway.py:1894 that passes the task's exception on, so that what is left of
the generator never runs. A chunk is its number;
its usage is cumulative, as providers report it.

Two things the code reads as if it did but the model shows it does not: the
drain branch is never entered by a disconnect (only by the loop's end), and a
drain that is entered cannot go on reading a response whose iteration was cut,
so that it always ends uncertain.

### PostgresStore

State. `table[k]` is the committed row of key `k` with its sequence number,
`lane` the committed nodes, links and head of one usage lane; `tx[c]` is the
transaction of connection `c`: what it does, at which key, what it has read and
will write. `row[k]` is who holds the lock on `k`. `firsts` are the processes
that found the lane without a head, `doubled` the keys a swap inserted over a
row it had not seen (history).

Steps. One per statement: `Scan` is the `SELECT ... FOR UPDATE` of the next key
in order, `Write` its upsert, `Commit` the end; `TakeAdvisory`, `ReadHead`,
`StoreEvent`, `CommitAppend` are the ledger append. A statement that needs a
lock another holds is not enabled; `Victim` ends a transaction of a circle,
`Break` is a connection that breaks. Under read committed each statement sees
what is committed when it runs.

### GraphStore

State. `disk` is what the store holds of each entity, `events` the durable
events, `revs` and `current` the revisions of the kogwistar store, `lane` and
`eventSeq` its head projection and counter. `mem[p]` is what process `p` has in
memory, `todo[p]` the writes left of what it does. `torn`, `sealed`, `lost`,
`slipped` and `partly` say what went wrong where.

Steps. A ledger event, an access conversation and the seeding are sequences of
writes taken from the code in its order (`LedgerWrites`, `AccessWrites`,
`SeedWrites`); `Write` does one of them the way of the backend: append a line
(`PutJsonl`), replace a row (`PutRelational`), or add a revision and supersede
the one the current projection names (`PutEntity`). `GivesUp` is a write that
raises, `Crash` ends a process, `Start` loads and seeds.

### PolicyRevisions

State. `revs` are the durable revisions, `linked` those with an edge, `proj` the
stored projection, `mem[p]` what a process has of them, `job[p]` the revision it
is writing and its next step, `acked[n]` the value acknowledged last for a
name, `cut[n]` those of revisions interrupted since. `register` is "quota" or
"price": their steps, ids and orders differ (`Steps`, `Newer`), and one
behaviour has one of them. `clock` counts milliseconds. A start loads the graph
(`Restart`, `Loads`): everything, or on a store whose load is `Capped`, as
kogwistar's is at 10000 events of every kind (kogwistar_postgres_state.py:623),
any part of the price events. `missed` (history) are the names such a load has
left to an older value and that have not been revised since.

A step that raises (`Fails`) leaves the memory as it was. The JSONL and the
relational store change memory before the write that raises; the value served
then is one of an interrupted revision, which `cut` allows anyway.

### KeyLifecycle

State. `secrets` and `key` are the nodes in the store and `mem[p]` a process'
copy of them; `guard[p]` is the secret process `p` forwards with, `acl[p]` its
latest ACL record of the key, `asks[p]` whether it asks for approval; `terms`
are those the key was made with, `todo[p]` the writes left of an operation.
`origin` says whether the key comes from the policy file or was made at run
time. A lookup may rehydrate the key from the graph (`Lookup`, `Rehydrated`).
A write that raises may stay in the process' memory (`Remembered`), as it does
on the JSONL and the relational store.
`dead`, `revoked`, `cut`, `anyCut` and `writers` are history.

### UsageReview

State. `mem[g]` are the requests in the memory of gateway `g`, `ckpt` the review
checkpoint, `run` the newest review run with its frozen window (`evidence`, the
requests its status counts, and `shown`, those it names), `fileCkpt` the
worker's file, `loop` and `health` the reviewer loop and its stored health,
`worker` and `admin` the other writers of the checkpoint, `analysed`, `seen` and
`forgot` the analysis loop's newest report and what it remembers. `reviewed`,
`prompted`, `alerted`, `acked` and `cut` are history: who looked at a request,
or why nobody did.

Steps. `Poll`, `StartRun`, `Judge`, `Fail`, `SaveHealth`, `CheckpointRead`,
`CheckpointCas`, `WakeUp` are the reviewer loop's, `PollFails` an error outside
its `try`, which ends it; `WorkerLoad`, `WorkerAlert`, `WorkerReview`,
`WorkerAdvance`, `WorkerSave` the worker's; `Analyse`, `AnalysisSkips`,
`AnalysisRaises`, `AnalysisBlind` the analysis loop's. A request leaves a history
row and, unless it is `Unbilled`, a usage event. A status reads the usage events
behind the checkpoint and the history rows of the active window (`After`); it
fires a trigger (`Fires`) by the number of conversations, by what they cost, or
by a keyword, and names some of its window (`Shown`). A plugin that fires, or
`--force`, starts a round that no trigger would.

Abstractions. A request's number stands for timestamp and request id, whose
order the code compares. Verdicts of rules and of the model are
nondeterministic. Backoff delays are left out, their count is not. Tokens and
dollars are one trigger, one keyword hit is one trigger (the default), and
`Preview` of one stands for ten rows. The active window is limited by records;
its limits by bytes and days are not modelled, and history capture is on.
The worker is given its checkpoint file, and the analysis loop a graph store it
can open; without them neither has a cursor. The analysis loop's own health and
breaker are left out.

## Runs

Every run finishes within three minutes on two workers.

| run | instance | shows |
|---|---|---|
| `oneworker` | 1 process, fair, 3 requests (2 plain, 1 stream), 1 crash, exceptions | holds and charges never exceed the quota beyond billing overruns (`AdmissionBound`); settled requests hold nothing (`ChargedHoldsNothing`); uncertain entries are kept (`UncertainIsKept`); the reservation of a forwarded request ends unless the request crashed, was cancelled or stuck, or raised (`HoldEnds`) |
| `shared` | 2 processes and a third in dry-run mode, 2 requests, 1 crash, exceptions, a period that ends | debits and markers agree in every period (`DebitMatchesMarker`), refused requests are never charged (`RefusedNeverCharged`) |
| `recovery` | 1 process and a fair operator, 1 stream, 2 crashes, cancellations, exceptions, a period that ends | two settlers of one stream: settlement implements `SettlementLedger` (`LedgerSpec`); every hold ends, whoever was lost and whatever raised (`HoldRecovered`) |
| `bound_two_workers` | 2 processes | `AdmissionBound` violated (finding 1) |
| `claims` | 1 process, fair, 3 requests with one key (1 stream, 1 with another payload), 1 crash, 2 expiries, exceptions | one request per key is served at a time (`OneFlightPerProcess`); while no request outlives its claim (`OnTime`), the key runs again only after a record expired (`RunOnce`), replayed bodies are right (`ReplayIsOwn`), live records are changed by their author only (`NewerOutcomeKept`); a claim ends in an outcome or a free key unless its request was denied, lost, cancelled, stuck or raised (`OutcomeRecorded`) |
| `relay` | queue of 2, 5 chunks, 3 store operations that raise, 1 shutdown | no chunk is lost or reordered while the client listens (`NothingDropped`); the charge is of the last usage seen (`ChargedByUsage`); reservation, history, idempotency outcome and charge agree, and the settlement is left out or cut short only after a store operation raised (`OutcomeAgrees`); the generator ends, or is stuck in the one way of finding 2 (`RelayEnds`) |
| `stuck` | queue of 1, 3 chunks | `DetachedIsSettled` violated (finding 2) |
| `postgres` | 3 connections of 2 processes, 2 rows (one also replaced and deleted), 3 transactions | a circle of waiting transactions needs an absent row (`CircleNeedsAbsentRow`); a swap that commits replaced what it read (`SwapReplacesWhatItRead`); the usage lane only grows (`LaneIsAppendOnly`); every transaction ends (`TransactionsEnd`) |
| `graph` | the 3 stores, 2 processes on the relational one, a seed of 2 entities, 1 crash, 1 failure, 2 graph keys | the lane's chain has no gap up to its head and events are about stored nodes (`NothingDangles`), a serving process has the whole policy graph (`SeededWhole`), memory agrees with the store (`AcknowledgedIsDurable`), a revision is superseded once (`RevisionsLinear`), ledger and events only grow (`HistoryKept`) |
| `policy` | 1 process, 3 revisions, 2 names, 2 ticks, 1 failure, 2 crashes, capped loads | the value acknowledged last is served unless a load has left it out (`ServedUnlessMissed`), no revision is lost (`RevisionsKept`) |
| `keys` | 2 processes, 3 secrets, 2 revocations, 1 failure, 1 crash, 3 callers | an active key names an active secret and no other is active (`SecretsFollowKey`), a process can serve with what it has registered (`KeyServes`), nobody learns of a revoked key (`RevokedIsDead`), a key is decided about by its own terms in every process (`TermsHold`) |
| `review` | 1 gateway, fair, 3 requests (1 unbilled, 1 flagged), an active window of 1, thresholds of 2, a sample of 1 and a lookback, breaker after 2, 1 fault besides 2 failures in a row | no request is passed unseen, but for the four ways below (`NothingPassedUnseen`), completed runs move the checkpoint to the end of their window (`RunAdvances`), the breaker opens when it should (`BreakerHonest`), no window is reported twice between two failed status requests (`RememberedOnce`), a backlog that fires a trigger is worked off (`EventuallyReviewed`) |

`TypeOK` is proved for every component's module; `postgres`, `graph` and `review`
check it too.

`NothingPassedUnseen` leaves out what the code leaves out: a request behind the
checkpoint was counted by a status the model judged, or was in a batch of the
worker, or an administrator acknowledged it, or the worker's sample or lookback
cut it, or it was not billed and its history row had left the active window.
That the prompt *named* it is more, and false (see the known limits).
`EventuallyReviewed` is about a loop started with `--advance-checkpoint`, and
about a backlog that fires a trigger: fewer requests than the thresholds wait
for more. It ends with the loop, at the breaker or at an error outside the
`try`.

Bounds. Two requests on a shared lane, one of them on a second lane, are the
fewest for which debits conflict, partial-lane debits show and an overwritten
reservation matters; the third in `oneworker` fills the quota while two others
are in flight. Two attempts per retry loop give one retry and one give-up.
`MaxCrashes` bounds crashes, `MaxFailures` and `MaxFaults` store operations
that raise, in a behaviour; exceptions of `QuotaReservation` and `Idempotency`
need no bound, each ends a request. `LastPeriod` bounds the ends of a lane's
period: one, in `shared` and `recovery`, lets an answer come in the period after
its reservation. `oneworker` has none, to stay small; `AdmissionBound` is proved
for any number. `Costs` contains a value equal to and one above an
estimate, so overruns happen.

In `Idempotency` one key is enough, since no step touches two; three requests
are a first one, a concurrent one that is streamed, and one with another
payload. One process is how the repository runs (gateway.py:1991 starts one
uvicorn process); for several, `OneFlightPerProcess` is proved. `MaxLate` of two
lets the claim of one request and the outcome of another expire, or the claims
of two; the retention time is a day by default.

In `StreamRelay` a queue of two fills, empties and is partly full, and
`MaxChunks` exceeds it by three: one chunk taken, one in the consumer's hands,
one in the task's. Three store operations that raise are one in a callback, one in
the error handler and one in the settlement. `MaxTx` in `PostgresStore` gives each connection a
transaction that another overtakes; two rows are the fewest for a circle.
`MaxUsage` and `MaxAccess` of two in `GraphStore` are a first event of a chain,
which makes the head, and a next one, which moves it; `SeedSize` of two has a
middle to be interrupted in. `MaxTicks` of two in `PolicyRevisions` puts two of
three revisions in one millisecond. Three secrets in `KeyLifecycle` are a
creation and two rotations. In `UsageReview` the active window of one and the
thresholds of two make all three triggers fire alone, and three requests leave
one to be recorded while two are under review; `MaxStreak` of two is the
breaker's limit. The second gateway, `--force` and a loop without
`--advance-checkpoint` are in the theorems only.

`CHECK_DEADLOCK` is off where requests, transactions or operations end and
nothing more happens.

Fairness. `QuotaReservation`'s and `Idempotency`'s `FairSpec` is weak fairness
of each request's own steps: a process keeps executing and every await of a
request ends, because provider calls and drains have timeouts
(`MODELKEYGUARD_PROVIDER_DRAIN_TIMEOUT_SECONDS` and the provider timeout). One
await has no timeout: a client that stays connected and never reads keeps the
relay waiting; `oneworker` and `recovery` assume there is no such client, and
`StreamRelay`'s `FairSpec` is explicit about it: weak fairness of the task's
steps, the consumer's, and the client's (it takes what it is sent, or leaves).
`RecoverySpec` adds that reservations expire and that somebody runs
`reconcile_once` again and again; the module's own `main` runs it once, so
this is an assumption about deployment. In `PostgresStore` a statement that can
run does, and the server resolves a circle (`deadlock_timeout`). In
`UsageReview` the loop keeps running and an administrator who has begun to
advance the checkpoint finishes; nothing is assumed of the worker, the gateways
or the analysis loop.

## Findings

1. `_cas_reservation_payload` (core.py:410-433) reads the sequence numbers
   after the check it should protect. Two processes then admit more than the
   quota although `reserve_admission` says "Atomically reserve". One process is
   protected by `_reservation_lock`.
2. If the queue is full when the upstream ends and the client still listens,
   the relay task awaits `queue.put(None)` (gateway.py:1867). A client that
   leaves at that moment takes nothing more; the task stays in the put, and the
   cleanup of `bounded_stream` (1889-1898) waits for the task. Settlement,
   history and the idempotency outcome, which follow, do not happen until the
   server shuts down; the reservation stays with the operator.

## Known limits

What the models show besides, with what to change in a configuration to see it.

Settlement and idempotency.

- Two settlements can both insert a lane's first usage row
  (postgres_state.py:186-192): `PhantomInserts = TRUE` and `MaxCrashes = 0` in
  `shared` with two workers breaks `DebitMatchesMarker`. The reservation row
  serialises them unless an entry was overwritten through finding 1.
- `has_ledger` (core.py:256-268) looks into process memory: with one worker,
  one operator and `LedgerOnce` as an invariant, a ledger event is appended
  twice when the operator comes between the CAS and the append.
- A plain call keeps its reservation "reserved" during the provider call; after
  a crash the operator releases it as never forwarded (reconciliation.py:149)
  although the docstring says uncertain: `AbandonedCallIsUncertain`, with one
  worker, one operator and one crash.
- Two processes can both insert the row of a free idempotency key:
  `PhantomInserts = TRUE` breaks `SingleFlight`.
- An outcome is merged into whatever the row holds (gateway.py:127): without its
  condition `late' = {}`, `NewerOutcomeKept` fails when a request outlives its
  claim, although a comment says the CAS is there against this.
- A 4xx deletes the row, and the next claim starts its sequence number anew: a
  request that read an expired claim before can then claim the key over a live
  one. `SingleFlight` without `late = {}` shows it, and `RunOnce`.
- A request that the prompt signature check or `guard.check` denies leaves its
  claim (gateway.py:1336); `OutcomeRecorded` exempts it. A released key replays
  200 with no body (gateway.py:1246).
- A drain that succeeded would pass `released = status < 400` (gateway.py:935),
  the reverse of the other callers; it cannot succeed, as said above.

Postgres.

- Rows that do not exist are not locked by the sorted `FOR UPDATE` pass but
  later, by their upsert, so that circles of waiting transactions are possible
  although a docstring says the order is deterministic (postgres_state.py:169).
  The server ends one of them; the caller sees an exception, not `False`.
- `hash()` is salted per process (postgres_state.py:476): two processes take
  different advisory locks for one lane. `LaneIsAppendOnly` is about a lane
  that only one process found empty; a row of the head serialises the others.
- `replace` and `clear` reset sequence numbers, so `SwapReplacesWhatItRead`
  leaves out rows that are cleared (`Cleared`), and rows inserted twice.

Graph stores.

- An interrupted seeding leaves part of the policy graph, which every later
  start takes for all of it (graph_state.py:344). A second relational process
  that starts during the seeding serves that part, and a second seeder stops at
  the primary key of its first event.
- kogwistar_postgres_state.py:855 and :921 change memory inside the unit of
  work, and "unchanged" is decided from memory: after a failed commit an edge
  is never written and the chain's head moves past the gap
  (`AcknowledgedIsDurable` exempts this, `slipped`).
- A torn last line of the JSONL log prevents later starts (`torn`). A stale
  relational process's `append_event` fails at the primary key until it is
  restarted. Two kogwistar processes branch the revisions of a node and put
  from stale memory, so `RevisionsLinear` and `AcknowledgedIsDurable` are about
  one (`Alone`).

Policies and prices.

- With two processes, or the command line beside a gateway, a rebuild from
  stale memory drops or revives revisions: `Procs = {p1, p2}`; the properties
  are about one (`Alone`).
- Two price events of one millisecond are ordered by their ids, in which
  "REVOKED" comes first: a revocation loses (`Tied`, pricing_ops.py:135).
- `dict(active.get("model") or model_table)` (pricing_ops.py:233): revoking the
  last model price brings the policy file's prices back (`AllRevoked`).
- A crash between the edge and the rebuild leaves the projection stale until
  the next change. The price baseline is frozen into the stored projection.
- The command line's `set_quota` overwrites a node in place, which is not
  modelled, nor is a clock that goes back.

Keys.

- A rotation that fails at its last event leaves the process with a retired
  secret until it restarts. Other processes keep a revoked or rotated key until
  they restart. A stale process's rotation writes "active" over a revocation.
- The rotate handler registers the key anew without its approval threshold
  (admin_keys.py:99-113), which is gone in that process until a restart;
  `TermsHold` exempts a process that changed a policy key itself.
- A key of the policy file that is revoked at run time is registered again at
  the next start (gateway.py:183-209). Policy keys of provider
  `sealed_secret_payload` name a secret node that no seeding makes.

Reviews.

- The worker replaces the checkpoint unconditionally (review_worker.py:60): it
  can move it back, and past the rows its sample cut (:38).
- History rows carry whole seconds, usage rows microseconds: a row recorded out
  of order can be below the checkpoint at once. Two gateways' memories do not
  hold each other's rows.
- `status()` outside the `try` ends the loop. A restart does not look at a
  breaker that is open; a success that is lost before its health is saved does
  not reset the count. Failures of every kind count towards it. `2 ** step`
  raises after about a thousand failures. The docs' backoff ends at 300 s, the
  code's goes by 240.
- A failed status request makes the analysis loop forget its cursor and report
  a window again, which docs_governance_runtime.md:102 rules out;
  `NotReprocessed` exempts it.

## Proofs

`QuotaReservation_proofs` proves, for every value of the constants:

| theorem | says | assumes |
|---|---|---|
| `TypeCorrect` | `Spec => []TypeOK` | |
| `RefusedCorrect` | `Spec => []RefusedNeverCharged` | |
| `DebitCorrect` | `Spec => []DebitMatchesMarker` | `~PhantomInserts` |
| `CoherentCorrect` | `Spec => []SnapCoherent` | `~PhantomInserts` |
| `SettlementRefines` | `Spec => LedgerSpec` | `~PhantomInserts` |
| `ChargedCorrect` | `Spec => []ChargedHoldsNothing` | `OneProcess` |
| `UncertainCorrect` | `Spec => UncertainIsKept` | `OneProcess` |
| `AdmissionCorrect` | `Spec => []AdmissionBound` | `OneProcess`, finitely many requests |

`TypeOK` is not inductive alone: that an operator settles a request, at a cost
it can be billed at, is `SettleArgs`. `DebitMatchesMarker` needs to know that a
usage row of the version an actor expects is the very row it read; this is
`SnapCoherent`, which together with the marker's own absent-row comparison
gives the inductive invariant `SettleInv`. Every step is then one of three
(`NextCases`): quiet for the rows and for actors at the CAS, the reading of a
settlement, or its write; only the write changes debits, and it charges one
request that was not settled (`SettleWriteCharges`). The same case split maps
each step to one abstract settlement or a stutter. `RefusedNeverCharged` rests
on `Untouched`: a request not yet admitted is in no row, in nobody else's
reading of the reservation row and is no operator's subject, so nobody can
write or settle it; this holds on either kind of store.

Without the assumption `~PhantomInserts` `DebitMatchesMarker` is false, see the
known limits. It holds of the JSONL store and of Postgres once
the usage rows exist.

`OneProcess` is one gateway process and no operator, as in `oneworker`, on either
kind of store. A synchronous section is entered only when no other one is open
(`OneAtATime`), so what a request has read of the rows is what they hold until it
writes them (`ReadsTrue`). A settlement therefore never gives up, and a request
that is settled or uncertain writes nothing else of itself (`EndsOnce`); a step
changes entries of others only by dropping final ones (`OthersKept`).

For `AdmissionBound` every request weighs on a lane what it was charged, up to its
estimate, and its estimate again while its entry is active (`Weight`). Settling
moves weight from the second part to the first, so only an admission adds any, and
one that has passed its check still fits when it writes (`StillFits`), because
nobody else has written in between. The invariant behind it is that the weights of
a lane stay within its quota (`Bounded`); what an answer cost beyond its estimate
is the overrun the property allows. `Orderly` says which entry and marker a request
has at each of its steps, so that a settlement finds the hold it turns into the
charge. The property is about sums over all requests. The few facts it needs of a
sum (`Total`: that it is bounded and changes with one summand) are proved from the
library's well-foundedness of strict subsets. With several processes the three
statements are false, for the reason of finding 1.

`Idempotency_proofs` proves, for every value of the constants:

| theorem | says | assumes |
|---|---|---|
| `TypeCorrect` | `Spec => []TypeOK` | |
| `FlightCorrect` | `Spec => []SingleFlight` | `~PhantomInserts` |
| `OnceCorrect` | `Spec => []RunOnce` | the same |
| `ReplayCorrect` | `Spec => []ReplayIsOwn` | the same |
| `NewerCorrect` | `Spec => NewerOutcomeKept` | the same |

`TypeOK` needs that an accepted request has a process and that one at the
provider has run (`Accepted`). The invariant behind the others is `KeyInv`: a
row of version 0 is an absent row; a request about to claim has read version 0;
from its claim until its outcome is written the row of its key is that claim,
and so are its memory and its reading; and the row of a request that ran and
was not rejected is forever its own. One row cannot be two requests' own, so
one is served and one runs (`OneHolder`). Steps that leave the rows alone share
`QuietKeeps`; the three that write one (`ClaimCas`, `WriteCas`, `Rejected`)
share `RowStep`. Two facts follow that the code does not state: within the
retention time the write of an outcome never loses its CAS
(`WriteCasSucceeds`), and a claim never replaces another record. Replays need
`ReplayInv` too: every body in the store or in a memory is of a request that
has ended without a rejection, and such requests stay so (`EndedStays`).

All but `TypeOK` speak of a behaviour up to the first expiry (`KeyInvInTime`).
Without that condition, or without `~PhantomInserts`, the statements are false,
see the known limits.

`StreamRelay_proofs` proves, for every length of the response and of the queue:

| theorem | says |
|---|---|
| `TypeCorrect` | `Spec => []TypeOK` |
| `OrderCorrect` | `Spec => []NothingDropped` |
| `ChargeCorrect` | `Spec => []ChargedByUsage` |
| `OutcomeCorrect` | `Spec => []OutcomeAgrees` |

The invariant has three parts beside `TypeOK`. `Ends`: the task's terminal
record is written when it ends, and a client is disconnected exactly when its
generator has left the loop. `InOrder`: what was taken, what is queued and what
the task holds make up what the provider sent, in order, so the next chunk the
generator takes is the next one of the response. `Books`: nothing is charged or
recorded before the generator ends, and a reservation is uncertain as soon as
the task knows the stream is.

`KeyLifecycle_proofs` proves, for any processes, callers, terms and numbers of
secrets, revocations, failures and crashes:

| theorem | says |
|---|---|
| `TypeCorrect` | `Spec => []TypeOK` |
| `RevokedCorrect` | `Spec => []RevokedIsDead` |
| `TermsCorrect` | `Spec => []TermsHold` |
| `SecretsCorrect` | `Spec => []SecretsFollowKey` |
| `ServesCorrect` | `Spec => []KeyServes` |

The difficulty is what a process still has to write, so the invariants speak of
`todo`. `TodoOK` says of which writes it consists and that at most one of them
is of the key; `Gone` that a process which acknowledged a revocation knows the
key as revoked, and that one about to unregister it has revoked it, or will
first, and makes nothing active again; `TermsInv` that every registration
carries the terms of the key's maker. For secrets, `FreshInv` says that the one
a process is about to give to the key is named nowhere else and is, or will
before be, active, and `RetireInv` that one about to be retired is not, or will
before no longer be, the key's; together they keep the named one usable.
`CalmInv` is the other half: as long as one process at most has written and none
was interrupted, every active secret is the key's or about to be given to it or
retired (`Owned`), and a new secret is followed by the key's write and that by
the old one's end (`Followed`). With nothing left to write it is the key's. `ServesInv`, for
`KeyServes`, relates a process' guard to its memory: it knows its key's secret as
usable (`Usable`), what it will give to the key or retire is made before or is
still there (`Planned`), and an older secret in the guard has a registration
still to come (`Current`).

`UsageReview_proofs` proves, for any gateways, rows, sample sizes and numbers of
faults:

| theorem | says |
|---|---|
| `TypeCorrect` | `Spec => []TypeOK` |
| `UnseenCorrect` | `Spec => []NothingPassedUnseen` |
| `AdvancesCorrect` | `Spec => RunAdvances` |
| `BreakerCorrect` | `Spec => []BreakerHonest` |
| `OnceCorrect` | `Spec => NotReprocessed` |

A process' copy of the rows is the first of them, up to the last recorded when it
loaded (`MemInv`), and every cursor is of a recorded row (`CursorInv`), so a row
recorded next is after all of them. Rows at or before the checkpoint, a run's
window or a pending write of the worker were looked at or have a named reason not
to be (`PassInv`, `WorkerInv`). A compare-and-swap of the checkpoint that is going
to succeed moves it forward (`CasInv`), and the count of failures, stored or about
to be, never exceeds those since a success was last saved (`BreakerInv`). That a
window, a finite set of rows, has a last one (`Greatest`) follows from the
library's well-foundedness of strict subsets, since induction over the set is out
of reach. The proof found what a small instance did not: with more than two
faults, a success that is judged but lost before its health is saved leaves the
old count, so `streak` counts from the last saved success.

`PolicyRevisions_proofs` proves, for any names and values, numbers of revisions,
failures and crashes, and passing of time:

| theorem | says |
|---|---|
| `TypeCorrect` | `Spec => []TypeOK`, for any number of processes |
| `KeptCorrect` | `Spec => RevisionsKept` |
| `ServedCorrect` | `Spec => []ServedIsLatest` |

That a rebuild finds a value for every name takes `NumInv`, by which no two
revisions anywhere have one number, and `Newest`: a finite set of such revisions
has a newest one. That `FreshMs` finds a millisecond is a pigeonhole argument
(`RoomLeft`). The other two are about one process (`Alone` in their statements),
and their invariant is `AloneInv`. Quotas may run ahead of the clock, so the next
millisecond is later than all of a name only because they do so without a gap
(`DenseInv`); hence the revision being written is the last of its name
(`PendingInv`) and, once it is visible, the one a rebuild finds (`PendingFound`).
What a rebuild would find is at any time the acknowledged value or one
interrupted since or under way (`TopInv`), and the stored projection is an
earlier such finding that no acknowledgement has outdated (`ProjInv`).

`PostgresStore_proofs` proves, for any connections, processes and keys, whichever
rows are there to begin with, and any number of transactions:

| theorem | says |
|---|---|
| `TypeCorrect` | `Spec => []TypeOK` |
| `CirclesCorrect` | `Spec => []CircleNeedsAbsentRow` |
| `SwapCorrect` | `Spec => SwapReplacesWhatItRead` |
| `LaneCorrect` | `Spec => LaneIsAppendOnly` |

The invariant, `StoreInv`, says of every connection what its transaction has behind
it at each statement (`Shape`), that it holds the lock of each row it has compared or
written and of no other (`Holds`, `Covers`), and that a row it has compared is still
what it read, unless the row was absent (`Coherent`). In a circle of waiting
transactions in which nobody has compared an absent row, each is a swap on its way
through the rows in key order and waits for a key larger than all it holds; the keys
would grow around the circle, and the largest has no successor. An append writes the
place after the head it has read (`AppendOK`), transactions have numbers of their
own (`Apart`), and up to its head the lane has an event at each place (`LaneOK`). That
an append never runs out of places is an injection of places into the numbers of
transactions. The proof needed two things the runs had not shown: a delete that found
no row leaves an inserted one alone, as `DELETE` does (`Written`), and the name of the
lane's head row is no key (`LaneRow \notin Keys`).

`GraphStore_proofs` proves, for any policy file, any processes of the relational
store and any numbers of operations, crashes and failed writes:

| theorem | says |
|---|---|
| `TypeCorrect` | `Spec => []TypeOK` |
| `DanglesCorrect` | `Spec => []NothingDangles` |
| `SeededCorrect` | `Spec => []SeededWhole` |
| `DurableCorrect` | `Spec => []AcknowledgedIsDurable` |
| `RevisionsCorrect` | `Spec => []RevisionsLinear` |
| `HistoryCorrect` | `Spec => HistoryKept` |

All assume `OneWriter`: the JSONL log and the kogwistar store belong to one process
each, as in `graph`. The JSONL file is read once, at the start, and appended to
without a lock; what two kogwistar processes do is among the known limits. The
relational store may have any number.

An operation here is the list of writes it still has to make (`todo`), and it may end
before any of them, so the invariant `GraphInv` speaks of the list. `OrderOK`: an
event's node is on disk or comes before it, and so do the ledger events and edges up
to the number a write moves the head to; a ledger event that is still to be written
has a number beyond the head (`Comes`, `ChainComes`). `MemoryOK`: what a process alone
with its store does not find in memory is not on disk, and its head is at or beyond
the durable one, with all events up to it there. That is what makes an interrupted
append harmless: the next one takes the same number again, and its write is never one
the kogwistar store would take for unchanged (`WriteOK`, `OldOK`). `EventsOK` bounds the
numbers of events by what their next number is taken from. `SeedsOK` says that the
policy graph is begun before anything else is there and whole unless a seeding was
cut short (`UpOK`); `RevsOK` that revisions are numbered upwards and the current one
is the only one of its entity that none supersedes. Every write has one of five
effects (`WriteEffects`), one of which makes none: a put that changes nothing in
memory. It still leaves its entity on disk, unless a commit failed before
(`Lands`, `Sure`).

Only model-checked: the liveness properties (`HoldEnds`, `HoldRecovered`,
`OutcomeRecorded`, `RelayEnds`, `EventuallyReviewed`, `TransactionsEnd`), which are
beyond TLAPS, and `AdmissionBound` violated by two processes, which is the
counterexample of finding 1. Every safety property of a passing run is a theorem.

## Not modelled

Provider adapters, page rendering, mail, command line and settings have no
state of their own. JWT verification, session cookies and encryption are
library calls. The history window is recomputed from the rows at every read.
Registration of principals, users and tokens writes each node once under an id
of its own. Usage resets replace one row in one statement. The quota period
does not roll over in `QuotaReservation`: a reservation's lanes name the period
it was made in, and no row of another one is touched.
