-------------------------- MODULE QuotaReservation --------------------------
(***************************************************************************)
(* Quota admission, reservation and settlement of the model-key gateway    *)
(* (modelkeyguard/core.py, driven by gateway.py), with the reconciliation  *)
(* operator (reconciliation.py), over a store whose rows carry sequence    *)
(* numbers (postgres_state.py).                                            *)
(*                                                                         *)
(* Several gateway processes and operators share one store.  Every store   *)
(* read and every compare-and-swap is a step of its own; between them any  *)
(* other process may act.  Inside one gateway process the code between two *)
(* awaits is synchronous, so at most one request of a process is inside    *)
(* such a section (Free).                                                  *)
(***************************************************************************)
EXTENDS Naturals, FiniteSets, FiniteSetsExt

CONSTANTS
    Workers,          \* gateway processes
    Operators,        \* reconciliation processes
    Requests,         \* admission attempts; every one has a fresh request id
    Lanes,            \* quota addresses (lane, subject, period) with a policy
    LastPeriod,       \* LastPeriod[l], a bound: how often the period of l ends
    LanesOf,          \* LanesOf[r]: the lanes request r is admitted against
    BareLanes,        \* those of them on the principal and on the key
    Limit,            \* Limit[l]: the lane's quota
    Est,              \* Est[r]: the estimate admission reserves
    Streams,          \* requests made with streaming on
    DryWorkers,       \* gateway processes started in dry-run mode
    Costs,            \* the actual costs a provider answer can be billed at
    ReserveAttempts,  \* MODELKEYGUARD_RESERVATION_CAS_RETRIES + 1
    SettleAttempts,   \* MODELKEYGUARD_SETTLEMENT_CAS_RETRIES
    OperatorAttempts, \* CAS attempts of the reconciliation process
    PhantomInserts,   \* TRUE: two inserts of one absent row can both succeed
    NoWorker,         \* the owner of a request not yet accepted
    NoRequest,        \* the subject of an idle operator
    MaxCrashes        \* bound: process crashes in one behaviour

ASSUME ConstantsAssumption ==
    /\ Workers \intersect Operators = {}
    /\ Requests \intersect Operators = {}
    /\ NoWorker \notin Workers \union Operators
    /\ NoRequest \notin Requests
    /\ LanesOf \in [Requests -> SUBSET Lanes]
    /\ BareLanes \in [Requests -> SUBSET Lanes]
    /\ Limit \in [Lanes -> Nat]
    /\ LastPeriod \in [Lanes -> Nat]
    /\ Est \in [Requests -> Nat]
    /\ Streams \subseteq Requests
    /\ DryWorkers \subseteq Workers
    /\ Costs \subseteq Nat
    /\ ReserveAttempts \in Nat \ {0}
    /\ SettleAttempts \in Nat \ {0}
    /\ OperatorAttempts \in Nat \ {0}
    /\ PhantomInserts \in BOOLEAN
    /\ MaxCrashes \in Nat

Actors == Requests \union Operators    \* whoever runs a store procedure

Charges == Costs \union {Est[r] : r \in Requests}    \* what can be settled

VARIABLES
    table,     \* the row holding every reservation, with its version
    quota,     \* quota[<<l, p>>]: the usage row of lane l for its p-th period
    marker,    \* marker[r]: the settlement marker row of request r
    ledger,    \* ledger[r]: usage ledger events appended for r
    expired,   \* reservations whose expires_at has passed
    period,    \* period[l]: the current period of lane l
    owner,     \* owner[r]: the gateway process serving r
    known,     \* known[p]: ledger events in the memory of process p
    pc,        \* pc[a]: what actor a does next
    snap,      \* snap[a]: what a has read from the store
    tries,     \* tries[a]: failed compare-and-swaps of a's current procedure
    frame,     \* frame[a]: arguments of a's current procedure
    sent,      \* requests a call to the provider was started for
    crashes    \* crashes so far

\* A stream is relayed chunk by chunk, except in dry-run mode.
Relayed(r) == r \in Streams /\ owner[r] \notin DryWorkers

storeVars == <<table, quota, marker, ledger>>
vars == <<table, quota, marker, ledger, expired, period, owner, known, pc, snap,
          tries, frame, sent, crashes>>

-----------------------------------------------------------------------------
(* Rows.  Version 0 is an absent row; version n+1 is a row whose stored    *)
(* sequence numbers are n (an insert stores 0).                            *)

States == {"none", "reserved", "forwarding", "streaming", "uncertain",
           "settled", "released"}
Final == {"settled", "released"}

Entry == [state : States, reconciled : BOOLEAN]
NoEntry == [state |-> "none", reconciled |-> FALSE]

EmptyTable == [ver |-> 0, res |-> [r \in Requests |-> NoEntry]]
EmptyLane == [ver |-> 0, cost |-> [r \in Requests |-> 0],
              count |-> [r \in Requests |-> 0]]
NoMarker == [state |-> "absent", cost |-> 0, rows |-> {}]

\* The usage rows there can be; a row of a period is absent until the first
\* settlement in that period.
Rows == UNION {{l} \X (0 .. LastPeriod[l]) : l \in Lanes}

\* The row that the time now addresses.
Now(l) == <<l, period[l]>>

NoSnap == [table |-> EmptyTable, quota |-> [row \in Rows |-> EmptyLane]]
NoFrame == [rid |-> NoRequest, cost |-> 0, when |-> [l \in Lanes |-> 0],
            goal |-> "none", next |-> "done"]

\* Can the comparison of a CAS have seen the version it expects?  SELECT ...
\* FOR UPDATE locks nothing when the row is absent, so a row inserted after
\* that SELECT is overwritten unnoticed.
MayMatch(expected, current) ==
    expected = current \/ (PhantomInserts /\ expected = 0)

-----------------------------------------------------------------------------
(* Quota arithmetic.                                                       *)

Used(row) == MapThenSumSet(LAMBDA r : quota[row].cost[r], Requests)

\* A row that still holds quota: final rows do not, and neither does a
\* "reserved" row past its expiry.
Holds(res, r) ==
    /\ res[r].state \notin Final \union {"none"}
    /\ ~(res[r].state = "reserved" /\ r \in expired)

Held(res, l) ==
    MapThenSumSet(LAMBDA r : Est[r],
                  {r \in Requests : l \in LanesOf[r] /\ Holds(res, r)})

\* Mutant: reservations of others are not counted.
Fits_UsageOnly(r, res) ==
    \A l \in LanesOf[r] : Used(Now(l)) + Est[r] <= Limit[l]

Fits(r, res) ==
    \A l \in LanesOf[r] : Used(Now(l)) + Held(res, l) + Est[r] <= Limit[l]

\* Mutant: uncertain rows are dropped as well.
Prune_Uncertain(res) ==
    [r \in Requests |-> IF res[r].state \in Final \union {"uncertain"}
                        THEN NoEntry ELSE res[r]]

\* reserve_admission drops final rows from the payload it is about to write.
Prune(res) ==
    [r \in Requests |-> IF res[r].state \in Final THEN NoEntry ELSE res[r]]

-----------------------------------------------------------------------------
(* Synchronous sections and procedure frames.                              *)

\* At these points a request waits in an await, or is not being served.
AwaitSteps == {"new", "opening", "opened", "relaying", "eof", "refused",
               "done", "abandoned", "raised", "stuck", "crashed"}

SyncSteps == {"reserve_read", "reserve_check", "reserve_seq", "reserve_cas",
              "admitted", "calling", "upd_read", "upd_seq", "upd_cas",
              "settle_read", "settle_marker", "settle_cas", "ledger", "repair",
              "settled", "unsettled", "unsettled_stream"}

OperatorSteps == {"idle", "asking", "op_cas", "op_seq", "settle_read",
                  "settle_marker", "settle_cas", "ledger", "repair", "settled", "unsettled"}

Steps == AwaitSteps \union SyncSteps \union OperatorSteps

\* The event loop of process w is free to start or resume a request.
Free(w) == \A r \in Requests : owner[r] = w => pc[r] \in AwaitSteps

Process(a) == IF a \in Operators THEN a ELSE owner[a]
Rid(a) == IF a \in Operators THEN frame[a].rid ELSE a

Goto(a, step) == pc' = [pc EXCEPT ![a] = step]

\* What a procedure has read and what it was called with end with it.
Forget(a) == snap' = [snap EXCEPT ![a] = NoSnap]
Return(a) == frame' = [frame EXCEPT ![a] = NoFrame]
Retry(a) == tries' = [tries EXCEPT ![a] = @ + 1]
ResetTries(a) == tries' = [tries EXCEPT ![a] = 0]

\* Start update_reservation(r, goal), then go on at step next.
CallUpdate(r, goal, next) ==
    /\ Goto(r, "upd_read")
    /\ frame' = [frame EXCEPT ![r] = [NoFrame EXCEPT !.goal = goal, !.next = next]]

\* Start settle_reservation at this cost; it looks at the clock once.
CallSettle(a, cost) ==
    /\ Goto(a, "settle_read")
    /\ frame' = [frame EXCEPT ![a].cost = cost, ![a].when = period]
    /\ ResetTries(a)

-----------------------------------------------------------------------------
(* Admission: ModelKeyGuard.check and reserve_admission.                   *)

\* guard.check compares usage alone (not reservations) with the quota; it may
\* also refuse for the key, the model, the ACL or a missing approval.
Check(w, r) ==
    /\ pc[r] = "new"
    /\ Free(w)
    /\ owner' = [owner EXCEPT ![r] = w]
    /\ \/ /\ \A l \in LanesOf[r] : Used(Now(l)) + Est[r] <= Limit[l]
          /\ Goto(r, "reserve_read")
       \/ Goto(r, "refused")
    /\ UNCHANGED <<storeVars, expired, period, known, snap, tries, frame, sent, crashes>>

\* One attempt of reserve_admission reads the reservations ...
ReserveRead(r) ==
    /\ pc[r] = "reserve_read"
    /\ snap' = [snap EXCEPT ![r].table.res = Prune(table.res)]
    /\ Goto(r, "reserve_check")
    /\ UNCHANGED <<storeVars, expired, period, owner, known, tries, frame, sent, crashes>>

\* ... then the usage of every lane, and refuses or adds its own entry ...
ReserveCheck(r) ==
    /\ pc[r] = "reserve_check"
    /\ \/ /\ Fits(r, snap[r].table.res)
          /\ snap' = [snap EXCEPT ![r].table.res[r].state = "reserved"]
          /\ Goto(r, "reserve_seq")
       \/ /\ ~Fits(r, snap[r].table.res)
          /\ Forget(r)
          /\ Goto(r, "refused")
    /\ UNCHANGED <<storeVars, expired, period, owner, known, tries, frame, sent, crashes>>

\* ... and _cas_reservation_payload reads the row again, for its version.
ReserveSeq(r) ==
    /\ pc[r] = "reserve_seq"
    /\ snap' = [snap EXCEPT ![r].table.ver = table.ver]
    /\ Goto(r, "reserve_cas")
    /\ UNCHANGED <<storeVars, expired, period, owner, known, tries, frame, sent, crashes>>

\* Replace the reservation row by a's payload if its version still is the one
\* a expects.
WriteTable(a) ==
    /\ MayMatch(snap[a].table.ver, table.ver)
    /\ table' = [ver |-> snap[a].table.ver + 1, res |-> snap[a].table.res]

\* Mutant: the last attempt replaces the row unconditionally, then refuses.
ReserveCas_Forced(r) ==
    /\ pc[r] = "reserve_cas"
    /\ Forget(r)
    /\ \/ /\ WriteTable(r)
          /\ Goto(r, "admitted")
          /\ ResetTries(r)
       \/ /\ snap[r].table.ver # table.ver
          /\ Goto(r, "refused")
          /\ ResetTries(r)
          /\ table' = [ver |-> table.ver + 1, res |-> snap[r].table.res]
    /\ UNCHANGED <<quota, marker, ledger, expired, period, owner, known, frame, sent, crashes>>

ReserveCas(r) ==
    /\ pc[r] = "reserve_cas"
    /\ Forget(r)
    /\ \/ /\ WriteTable(r)
          /\ Goto(r, "admitted")
          /\ ResetTries(r)
       \/ /\ snap[r].table.ver # table.ver
          /\ IF tries[r] + 1 < ReserveAttempts
             THEN Goto(r, "reserve_read") /\ Retry(r)
             ELSE Goto(r, "refused") /\ ResetTries(r)
          /\ UNCHANGED table
    /\ UNCHANGED <<quota, marker, ledger, expired, period, owner, known, frame, sent, crashes>>

-----------------------------------------------------------------------------
(* update_reservation: read, change the state, CAS once, ignore the result. *)

UpdRead(r) ==
    /\ pc[r] = "upd_read"
    /\ IF table.res[r].state = "none"
       THEN /\ Goto(r, frame[r].next)
            /\ Return(r)
            /\ UNCHANGED snap
       ELSE /\ snap' = [snap EXCEPT ![r].table.res =
                          [table.res EXCEPT ![r].state = frame[r].goal]]
            /\ Goto(r, "upd_seq")
            /\ UNCHANGED frame
    /\ UNCHANGED <<storeVars, expired, period, owner, known, tries, sent, crashes>>

UpdSeq(r) ==
    /\ pc[r] = "upd_seq"
    /\ snap' = [snap EXCEPT ![r].table.ver = table.ver]
    /\ Goto(r, "upd_cas")
    /\ UNCHANGED <<storeVars, expired, period, owner, known, tries, frame, sent, crashes>>

UpdCas(r) ==
    /\ pc[r] = "upd_cas"
    /\ \/ WriteTable(r)
       \/ snap[r].table.ver # table.ver /\ UNCHANGED table
    /\ Forget(r)
    /\ Goto(r, frame[r].next)
    /\ Return(r)
    /\ UNCHANGED <<quota, marker, ledger, expired, period, owner, known, tries, sent, crashes>>

-----------------------------------------------------------------------------
(* settle_reservation, run by a request (record_usage) or an operator.     *)

\* An attempt reads the reservations ...
SettleRead(a) ==
    /\ pc[a] = "settle_read"
    /\ snap' = [snap EXCEPT ![a].table = table]
    /\ Goto(a, "settle_marker")
    /\ UNCHANGED <<storeVars, expired, period, owner, known, tries, frame, sent, crashes>>

\* ... then the marker.  A settled marker ends it: True, after the ledger
\* event if this process does not know of one.  Otherwise the lanes are read
\* (together here; the versions they are read at are compared by the CAS).
SettleMarker(a) ==
    /\ pc[a] = "settle_marker"
    /\ \/ /\ marker[Rid(a)].state = "settled"
          /\ Goto(a, IF Rid(a) \in known[Process(a)] THEN "settled" ELSE "repair")
          /\ Forget(a)
          /\ ResetTries(a)
       \/ /\ marker[Rid(a)].state = "absent"
          /\ snap' = [snap EXCEPT ![a].quota = quota]
          /\ Goto(a, "settle_cas")
          /\ UNCHANGED tries
    /\ UNCHANGED <<storeVars, expired, period, owner, known, frame, sent, crashes>>

\* The lanes of the reservation that was read, or those of the decision; the
\* decision an operator rebuilds has neither user nor token.
SettleLanes(a) ==
    IF snap[a].table.res[Rid(a)].state # "none" \/ a \notin Operators
    THEN LanesOf[Rid(a)] ELSE BareLanes[Rid(a)]

\* A reservation names no period: the rows are those of the time of settling.
SettleRows(a) == {<<l, frame[a].when[l]>> : l \in SettleLanes(a)}

MarkerVersion(r) == IF marker[r].state = "absent" THEN 0 ELSE 1

\* Mutants: nothing is compared, or the lane rows are not.
SettlePasses_Blind(a) == snap[a].table.res[Rid(a)] \in Entry

SettlePasses_NoLanes(a) ==
    /\ snap[a].table.res[Rid(a)].state # "none"
         => MayMatch(snap[a].table.ver, table.ver)
    /\ MayMatch(0, MarkerVersion(Rid(a)))

\* The multi-row CAS can pass: every row can be as a read it ...
SettlePasses(a) ==
    /\ snap[a].table.res[Rid(a)].state # "none"
         => MayMatch(snap[a].table.ver, table.ver)
    /\ \A row \in SettleRows(a) : MayMatch(snap[a].quota[row].ver, quota[row].ver)
    /\ MayMatch(0, MarkerVersion(Rid(a)))

\* ... or it can fail: some row is not.
SettleStale(a) ==
    \/ /\ snap[a].table.res[Rid(a)].state # "none"
       /\ snap[a].table.ver # table.ver
    \/ \E row \in SettleRows(a) : snap[a].quota[row].ver # quota[row].ver
    \/ MarkerVersion(Rid(a)) # 0

Debited(row, r, cost) ==
    [ver |-> row.ver + 1, cost |-> [row.cost EXCEPT ![r] = @ + cost],
     count |-> [row.count EXCEPT ![r] = @ + 1]]

SettleWrite_KeepsHold(a) ==
    /\ SettlePasses(a)
    /\ quota' = [row \in Rows |-> IF row \in SettleRows(a)
                                  THEN Debited(snap[a].quota[row], Rid(a), frame[a].cost)
                                  ELSE quota[row]]
    /\ marker' = [marker EXCEPT ![Rid(a)] =
                    [state |-> "settled", cost |-> frame[a].cost,
                     rows |-> SettleRows(a)]]
    /\ UNCHANGED table

SettleWrite(a) ==
    /\ SettlePasses(a)
    /\ quota' = [row \in Rows |-> IF row \in SettleRows(a)
                                  THEN Debited(snap[a].quota[row], Rid(a), frame[a].cost)
                                  ELSE quota[row]]
    /\ marker' = [marker EXCEPT ![Rid(a)] =
                    [state |-> "settled", cost |-> frame[a].cost,
                     rows |-> SettleRows(a)]]
    /\ table' = IF snap[a].table.res[Rid(a)].state = "none" THEN table
                ELSE [ver |-> snap[a].table.ver + 1,
                      res |-> [snap[a].table.res EXCEPT ![Rid(a)].state = "settled"]]

SettleCas(a) ==
    /\ pc[a] = "settle_cas"
    /\ Forget(a)
    /\ \/ /\ SettleWrite(a)
          /\ Goto(a, "ledger")
          /\ ResetTries(a)
       \/ /\ SettleStale(a)
          /\ IF tries[a] + 1 < SettleAttempts
             THEN Goto(a, "settle_read") /\ Retry(a)
             ELSE Goto(a, "unsettled") /\ ResetTries(a)
          /\ UNCHANGED <<table, quota, marker>>
    /\ UNCHANGED <<ledger, expired, period, owner, known, frame, sent, crashes>>

\* The append reloads the memory of the process from the store.
LedgerAppend(a) ==
    /\ pc[a] \in {"ledger", "repair"}
    /\ ledger' = [ledger EXCEPT ![Rid(a)] = @ + 1]
    /\ known' = [known EXCEPT ![Process(a)] = {r \in Requests : ledger'[r] > 0}]
    /\ Goto(a, "settled")
    /\ UNCHANGED <<table, quota, marker, expired, period, owner, snap, tries, frame, sent, crashes>>

\* After the CAS an exception of the ledger append is swallowed.
LedgerLost(a) ==
    /\ pc[a] = "ledger"
    /\ Goto(a, "settled")
    /\ UNCHANGED <<storeVars, expired, period, owner, known, snap, tries, frame, sent, crashes>>

\* record_usage returned: a stream writes the outcome once more.
Settled(r) ==
    /\ pc[r] = "settled"
    /\ IF Relayed(r) THEN CallUpdate(r, "settled", "done")
                      ELSE Goto(r, "done") /\ Return(r)
    /\ UNCHANGED <<storeVars, expired, period, owner, known, snap, tries, sent, crashes>>

\* Every settlement CAS lost: record_usage marks the reservation uncertain,
\* and so does, once more, the finalizer of a stream.
Unsettled(r) ==
    /\ pc[r] = "unsettled"
    /\ CallUpdate(r, "uncertain",
                  IF Relayed(r) THEN "unsettled_stream" ELSE "done")
    /\ UNCHANGED <<storeVars, expired, period, owner, known, snap, tries, sent, crashes>>

UnsettledStream(r) ==
    /\ pc[r] = "unsettled_stream"
    /\ CallUpdate(r, "uncertain", "done")
    /\ UNCHANGED <<storeVars, expired, period, owner, known, snap, tries, sent, crashes>>

-----------------------------------------------------------------------------
(* What the gateway does with an admitted request.                         *)

\* The provider secret is missing, revoked or expired.
SecretDenied(r) ==
    /\ pc[r] = "admitted"
    /\ CallUpdate(r, "released", "done")
    /\ UNCHANGED <<storeVars, expired, period, owner, known, snap, tries, sent, crashes>>

\* Dry run: nothing is sent and the estimate is settled.
DryRun(r) ==
    /\ pc[r] = "admitted"
    /\ owner[r] \in DryWorkers
    /\ CallSettle(r, Est[r])
    /\ UNCHANGED <<storeVars, expired, period, owner, known, snap, sent, crashes>>

\* A plain call blocks the process; its reservation stays "reserved".
Forward(r) ==
    /\ pc[r] = "admitted"
    /\ owner[r] \notin DryWorkers
    /\ r \notin Streams
    /\ Goto(r, "calling")
    /\ sent' = sent \union {r}
    /\ UNCHANGED <<storeVars, expired, period, owner, known, snap, tries, frame, crashes>>

\* 2xx
Answered(r) ==
    /\ pc[r] = "calling"
    /\ \E c \in Costs : CallSettle(r, c)
    /\ UNCHANGED <<storeVars, expired, period, owner, known, snap, sent, crashes>>

\* 4xx: "released"; 5xx and whatever urllib wraps as URLError: "uncertain".
Rejected(r) ==
    /\ pc[r] = "calling"
    /\ \E goal \in {"released", "uncertain"} : CallUpdate(r, goal, "done")
    /\ UNCHANGED <<storeVars, expired, period, owner, known, snap, tries, sent, crashes>>

\* A stream is marked "forwarding", then opened in an await.
ForwardStream(r) ==
    /\ pc[r] = "admitted"
    /\ Relayed(r)
    /\ CallUpdate(r, "forwarding", "opening")
    /\ UNCHANGED <<storeVars, expired, period, owner, known, snap, tries, sent, crashes>>

Opened(r) ==
    /\ pc[r] = "opening"
    /\ Free(owner[r])
    /\ sent' = sent \union {r}
    /\ \/ Goto(r, "opened") /\ UNCHANGED frame
       \/ \E goal \in {"released", "uncertain"} : CallUpdate(r, goal, "done")
    /\ UNCHANGED <<storeVars, expired, period, owner, known, snap, tries, crashes>>

OpenFailed(r) ==
    /\ pc[r] = "opening"
    /\ Free(owner[r])
    /\ CallUpdate(r, "uncertain", "done")
    /\ UNCHANGED <<storeVars, expired, period, owner, known, snap, tries, sent, crashes>>

\* The handler is cancelled in an await, before bounded_stream has started.
Abandoned(r) ==
    /\ pc[r] \in {"opening", "opened"}
    /\ Goto(r, "abandoned")
    /\ UNCHANGED <<storeVars, expired, period, owner, known, snap, tries, frame, sent, crashes>>

FirstChunk(r) ==
    /\ pc[r] = "opened"
    /\ Free(owner[r])
    /\ CallUpdate(r, "streaming", "relaying")
    /\ UNCHANGED <<storeVars, expired, period, owner, known, snap, tries, sent, crashes>>

\* Mutant: an uncertain end leaves the reservation as it is.
StreamEnd_Forgets(r) ==
    /\ pc[r] \in {"opened", "relaying"}
    /\ Free(owner[r])
    /\ \/ CallUpdate(r, "forwarding", "eof")
       \/ Goto(r, "done") /\ Return(r)
    /\ UNCHANGED <<storeVars, expired, period, owner, known, snap, tries, sent, crashes>>

\* on_complete (back to "forwarding" until settled; a relay task that was
\* itself cancelled and drained the answer says "released") or on_uncertain.
StreamEnd(r) ==
    /\ pc[r] \in {"opened", "relaying"}
    /\ Free(owner[r])
    /\ \/ CallUpdate(r, "forwarding", "eof")
       \/ \E goal \in {"released", "uncertain"} : CallUpdate(r, goal, "done")
    /\ UNCHANGED <<storeVars, expired, period, owner, known, snap, tries, sent, crashes>>

\* What forward_provider does not catch ends the request where it stands: a
\* read that times out, a connection closed without an answer.  So does the
\* read of an opened stream's error answer.
CallRaises(r) ==
    /\ pc[r] \in {"calling", "opening"}
    /\ Free(owner[r]) \/ pc[r] = "calling"
    /\ Goto(r, "raised")
    /\ sent' = sent \union {r}
    /\ UNCHANGED <<storeVars, expired, period, owner, known, snap, tries, frame, crashes>>

\* A store operation raises, before or after its effect, and ends the request;
\* the finalizer of a stream can end that way before its first.
StoreRaises(r) ==
    /\ pc[r] \in SyncSteps \union {"eof"}
    /\ Free(owner[r]) \/ pc[r] # "eof"
    /\ Goto(r, "raised")
    /\ Forget(r)
    /\ Return(r)
    /\ ResetTries(r)
    /\ UNCHANGED <<storeVars, expired, period, owner, known, sent, crashes>>

\* In the relay task on_uncertain follows the exception of on_chunk or
\* on_complete.
RelayRaises(r) ==
    /\ pc[r] \in {"upd_read", "upd_seq", "upd_cas"}
    /\ frame[r].next \in {"relaying", "eof"}
    /\ CallUpdate(r, "uncertain", "done")
    /\ Forget(r)
    /\ UNCHANGED <<storeVars, expired, period, owner, known, tries, sent, crashes>>

\* The relay task and the finalizer wait for each other (StreamRelay, Stuck).
Stuck(r) ==
    /\ pc[r] = "eof"
    /\ Goto(r, "stuck")
    /\ UNCHANGED <<storeVars, expired, period, owner, known, snap, tries, frame, sent, crashes>>

Raises(r) == CallRaises(r) \/ StoreRaises(r) \/ RelayRaises(r)

\* The consumer of the stream settles it after the terminal EOF.
Finalize(r) ==
    /\ pc[r] = "eof"
    /\ Free(owner[r])
    /\ \E c \in Costs : CallSettle(r, c)
    /\ UNCHANGED <<storeVars, expired, period, owner, known, snap, sent, crashes>>

-----------------------------------------------------------------------------
(* The reconciliation operator.                                            *)

\* Mutant: only "reserved" rows are taken for stale.
Stale_Reserved(q) ==
    /\ q \in expired
    /\ table.res[q].state = "reserved"

\* expire_stale_reservations: one read, then one replacement of the row.
Stale(q) ==
    /\ q \in expired
    /\ table.res[q].state \in {"reserved", "forwarding", "streaming"}

ExpireRead(o) ==
    /\ pc[o] = "idle"
    /\ \E q \in Requests : Stale(q)
    /\ snap' = [snap EXCEPT ![o].table =
         [table EXCEPT !.res = [q \in Requests |->
            IF ~Stale(q) THEN table.res[q]
            ELSE [table.res[q] EXCEPT !.state =
                    IF table.res[q].state = "reserved" THEN "released"
                                                       ELSE "uncertain"]]]]
    /\ ResetTries(o)
    /\ Goto(o, "op_cas")
    /\ UNCHANGED <<storeVars, expired, period, owner, known, frame, sent, crashes>>

\* reconcile_with_provider takes a listed uncertain request and asks the
\* registered resolver about it.
Ask(o) ==
    /\ pc[o] = "idle"
    /\ \E r \in Requests :
         /\ table.res[r] = [state |-> "uncertain", reconciled |-> FALSE]
         /\ frame' = [frame EXCEPT ![o].rid = r]
    /\ Goto(o, "asking")
    /\ UNCHANGED <<storeVars, expired, period, owner, known, snap, tries, sent, crashes>>

\* mark_reconciled reads the row anew; only an uncertain entry goes on.
Answer(o) ==
    LET r == frame[o].rid
        Marked(state) == [state |-> state, reconciled |-> TRUE]
    IN  /\ pc[o] = "asking"
        /\ \/ /\ table.res[r].state # "uncertain"
              /\ Goto(o, "idle")
              /\ Return(o)
              /\ UNCHANGED <<snap, tries>>
           \/ /\ table.res[r].state = "uncertain"
              /\ \E outcome \in {"released", "uncertain"} :
                   snap' = [snap EXCEPT ![o].table =
                              [table EXCEPT !.res[r] = Marked(outcome)]]
              /\ ResetTries(o)
              /\ Goto(o, "op_cas")
              /\ UNCHANGED frame
           \/ /\ table.res[r].state = "uncertain"
              /\ \E c \in Costs \union {Est[r]} : CallSettle(o, c)
              /\ UNCHANGED snap
        /\ UNCHANGED <<storeVars, expired, period, owner, known, sent, crashes>>

\* After settlement the row is read again and the entry annotated.
Annotate(o) ==
    /\ pc[o] = "settled"
    /\ snap' = [snap EXCEPT ![o].table =
         [table EXCEPT !.res[frame[o].rid] =
            [state |-> "settled", reconciled |-> TRUE]]]
    /\ ResetTries(o)
    /\ Goto(o, "op_cas")
    /\ UNCHANGED <<storeVars, expired, period, owner, known, frame, sent, crashes>>

SettleGaveUp(o) ==
    /\ pc[o] = "unsettled"
    /\ Goto(o, "idle")
    /\ Return(o)
    /\ UNCHANGED <<storeVars, expired, period, owner, known, snap, tries, sent, crashes>>

\* _replace_reservation: a failed CAS is retried with the payload as it is.
OpCas(o) ==
    /\ pc[o] = "op_cas"
    /\ \/ /\ WriteTable(o)
          /\ Goto(o, "idle")
          /\ Forget(o)
          /\ Return(o)
          /\ ResetTries(o)
       \/ /\ snap[o].table.ver # table.ver
          /\ tries[o] + 1 < OperatorAttempts
          /\ Retry(o)
          /\ Goto(o, "op_seq")
          /\ UNCHANGED <<table, snap, frame>>
       \/ /\ snap[o].table.ver # table.ver
          /\ tries[o] + 1 = OperatorAttempts
          /\ Goto(o, "idle")
          /\ Forget(o)
          /\ Return(o)
          /\ ResetTries(o)
          /\ UNCHANGED table
    /\ UNCHANGED <<quota, marker, ledger, expired, period, owner, known, sent, crashes>>

OpSeq(o) ==
    /\ pc[o] = "op_seq"
    /\ snap' = [snap EXCEPT ![o].table.ver = table.ver]
    /\ Goto(o, "op_cas")
    /\ UNCHANGED <<storeVars, expired, period, owner, known, tries, frame, sent, crashes>>

-----------------------------------------------------------------------------
(* Time and failures.                                                      *)

TtlPasses(r) ==
    /\ r \notin expired
    /\ table.res[r].state \notin Final \union {"none"}
    /\ expired' = expired \union {r}
    /\ UNCHANGED <<storeVars, period, owner, known, pc, snap, tries, frame, sent, crashes>>

\* The clock enters the next period of a lane.
NewPeriod(l) ==
    /\ period[l] < LastPeriod[l]
    /\ period' = [period EXCEPT ![l] = @ + 1]
    /\ UNCHANGED <<storeVars, expired, owner, known, pc, snap, tries, frame, sent, crashes>>

\* A restarted process loads every ledger event there is.
Restart(p) ==
    /\ crashes < MaxCrashes
    /\ crashes' = crashes + 1
    /\ known' = [known EXCEPT ![p] = {r \in Requests : ledger[r] > 0}]
    /\ UNCHANGED <<storeVars, expired, period, owner, sent>>

Ended == {"refused", "done", "abandoned", "raised", "stuck", "crashed"}

Lost(w) == {r \in Requests : owner[r] = w /\ pc[r] \notin Ended}

CrashWorker(w) ==
    /\ Lost(w) # {}
    /\ Restart(w)
    /\ pc' = [a \in Actors |-> IF a \in Lost(w) THEN "crashed" ELSE pc[a]]
    /\ snap' = [a \in Actors |-> IF a \in Lost(w) THEN NoSnap ELSE snap[a]]
    /\ tries' = [a \in Actors |-> IF a \in Lost(w) THEN 0 ELSE tries[a]]
    /\ frame' = [a \in Actors |-> IF a \in Lost(w) THEN NoFrame ELSE frame[a]]

CrashOperator(o) ==
    /\ pc[o] # "idle"
    /\ Restart(o)
    /\ Goto(o, "idle")
    /\ Forget(o)
    /\ Return(o)
    /\ ResetTries(o)

-----------------------------------------------------------------------------
Init ==
    /\ table = EmptyTable
    /\ quota = [row \in Rows |-> EmptyLane]
    /\ marker = [r \in Requests |-> NoMarker]
    /\ ledger = [r \in Requests |-> 0]
    /\ expired = {}
    /\ period = [l \in Lanes |-> 0]
    /\ owner = [r \in Requests |-> NoWorker]
    /\ known = [p \in Workers \union Operators |-> {}]
    /\ pc = [a \in Actors |-> IF a \in Operators THEN "idle" ELSE "new"]
    /\ snap = [a \in Actors |-> NoSnap]
    /\ tries = [a \in Actors |-> 0]
    /\ frame = [a \in Actors |-> NoFrame]
    /\ sent = {}
    /\ crashes = 0

Admission(r) ==
    \/ ReserveRead(r) \/ ReserveCheck(r) \/ ReserveSeq(r) \/ ReserveCas(r)

Update(r) == UpdRead(r) \/ UpdSeq(r) \/ UpdCas(r)

Settlement(a) ==
    \/ SettleRead(a) \/ SettleMarker(a) \/ SettleCas(a)
    \/ LedgerAppend(a) \/ LedgerLost(a)

Gateway(r) ==
    \/ SecretDenied(r) \/ DryRun(r) \/ Forward(r) \/ Answered(r) \/ Rejected(r)
    \/ ForwardStream(r) \/ Opened(r) \/ OpenFailed(r) \/ FirstChunk(r)
    \/ StreamEnd(r) \/ Finalize(r)
    \/ Settled(r) \/ Unsettled(r) \/ UnsettledStream(r)

Request(r) == Admission(r) \/ Update(r) \/ Settlement(r) \/ Gateway(r)

Operator(o) ==
    \/ ExpireRead(o) \/ Ask(o) \/ Answer(o) \/ Annotate(o) \/ SettleGaveUp(o)
    \/ OpCas(o) \/ OpSeq(o) \/ Settlement(o)

Next ==
    \/ \E w \in Workers, r \in Requests : Check(w, r)
    \/ \E r \in Requests : Request(r) \/ Abandoned(r) \/ Raises(r) \/ Stuck(r) \/ TtlPasses(r)
    \/ \E l \in Lanes : NewPeriod(l)
    \/ \E o \in Operators : Operator(o)
    \/ \E w \in Workers : CrashWorker(w)
    \/ \E o \in Operators : CrashOperator(o)

Spec == Init /\ [][Next]_vars

\* A process keeps executing, and every await of a request ends, save one that
\* is stuck: provider calls and drains have timeouts.  Nothing is assumed of
\* operators, of crashes, of exceptions or of clients that go away.
Fairness == \A r \in Requests : WF_vars(Request(r) \/ \E w \in Workers : Check(w, r))

FairSpec == Spec /\ Fairness

\* An operator that runs the reconciliation again and again, while time passes.
RecoverySpec ==
    /\ FairSpec
    /\ \A r \in Requests : WF_vars(TtlPasses(r))
    /\ \A o \in Operators : WF_vars(Operator(o))

-----------------------------------------------------------------------------
(* Properties.                                                             *)

Table == [ver : Nat, res : [Requests -> Entry]]
Clocks == {clock \in [Lanes -> Nat] : \A l \in Lanes : clock[l] <= LastPeriod[l]}
LaneRow == [ver : Nat, cost : [Requests -> Nat], count : [Requests -> Nat]]
Nexts == {"opening", "relaying", "eof", "unsettled_stream", "done"}
Frame == [rid : Requests \union {NoRequest}, cost : Nat, when : Clocks, goal : States,
          next : Nexts]

Marker == [state : {"absent", "settled"}, cost : Nat, rows : SUBSET Rows]
Snap == [table : Table, quota : [Rows -> LaneRow]]

TypeOK ==
    /\ table \in Table
    /\ quota \in [Rows -> LaneRow]
    /\ marker \in [Requests -> Marker]
    /\ ledger \in [Requests -> Nat]
    /\ expired \subseteq Requests
    /\ period \in Clocks
    /\ owner \in [Requests -> Workers \union {NoWorker}]
    /\ known \in [Workers \union Operators -> SUBSET Requests]
    /\ pc \in [Actors -> Steps]
    /\ snap \in [Actors -> Snap]
    /\ tries \in [Actors -> Nat]
    /\ frame \in [Actors -> Frame]
    /\ sent \subseteq Requests
    /\ crashes \in 0 .. MaxCrashes

\* core.py record_usage: "prevents settled-without-debit and partial-lane
\* debit after a worker crash".  A settled request has been debited exactly
\* once, at the marker's cost, on every lane of the marker in the period of its
\* settled_at; any other request, lane or period has been debited nothing.
\* Retries, periods that end, crashes and exceptions between steps, lost
\* reservations and an operator settling the same request change nothing.
DebitMatchesMarker ==
    \A row \in Rows, r \in Requests :
        LET due == marker[r].state = "settled" /\ row \in marker[r].rows
        IN  /\ quota[row].cost[r] = IF due THEN marker[r].cost ELSE 0
            /\ quota[row].count[r] = IF due THEN 1 ELSE 0

\* The compare-and-swap of settle_reservation compares versions only: an actor
\* about to settle never holds a row newer than the stored one, and a row of
\* the same version is the row it read.
SnapCoherent ==
    \A a \in Actors : pc[a] = "settle_cas" =>
        \A row \in Rows :
            /\ snap[a].quota[row].ver <= quota[row].ver
            /\ snap[a].quota[row].ver = quota[row].ver
                 => snap[a].quota[row] = quota[row]

\* Whoever settles does so for a request, at a cost it can be billed at.
ArgsOK(a) ==
    /\ pc[a] \in {"asking", "settle_read", "settle_marker", "settle_cas"}
         => Rid(a) \in Requests
    /\ pc[a] \in {"settle_read", "settle_marker", "settle_cas"}
         => frame[a].cost \in Charges
SettleArgs == \A a \in Actors : ArgsOK(a)

\* REPO_INVARIANTS.md 4: denied calls do not debit quota.  However the
\* processes interleave, a refused request is never settled, has no ledger
\* event and leaves no entry that an operator could settle later.
RefusedNeverCharged ==
    \A r \in Requests :
        pc[r] \in {"new", "refused"} =>
            /\ marker[r].state = "absent"
            /\ ledger[r] = 0
            /\ table.res[r].state = "none"

\* What answers billed above their estimate added to a row.
Overrun(row) ==
    LET over == [r \in Requests |-> IF quota[row].cost[r] > Est[r]
                                    THEN quota[row].cost[r] - Est[r] ELSE 0]
    IN  MapThenSumSet(LAMBDA r : over[r], Requests)

\* reserve_admission: "Atomically reserve estimated quota across every lane".
\* What a lane was charged in its current period and what its reservations hold
\* stay within its quota, save for answers that cost more than was estimated.  A
\* reservation names no period: one made before the period ended counts against
\* the next one.
AdmissionBound ==
    \A l \in Lanes :
        Used(Now(l)) + Held(table.res, l) <= Limit[l] + Overrun(Now(l))

\* Settling turns the hold into the charge: no request counts twice against
\* its lanes, once as usage and once as a reservation.
ChargedHoldsNothing ==
    \A r \in Requests : marker[r].state = "settled" => ~Holds(table.res, r)

\* gateway.py process_chat_completion: "Preserve an explicit uncertain state".  A reservation whose
\* outcome is unknown stays listed as uncertain until it is settled (or, where
\* an operator runs, released by it): no other request's writes drop it.
UncertainIsKept ==
    [][\A r \in Requests :
         table.res[r].state = "uncertain"
            => table'.res[r].state \in {"uncertain", "settled"}]_vars

\* core.py settle_reservation: "repair the append-only ledger exactly once
\* from marker".
LedgerOnce == \A r \in Requests : ledger[r] <= 1

\* reconciliation.py expire_stale_reservations: "Classify abandoned forwarding
\* as uncertain".  A request whose provider call was under way when its worker
\* was lost is not taken for one that never reached the provider.
AbandonedCallIsUncertain ==
    \A r \in Requests :
        (pc[r] = "crashed" /\ r \in sent /\ r \in expired)
            => table.res[r].state # "released"

\* Every reservation of a request that is served to its end is settled,
\* released or marked uncertain: none is left holding quota as "reserved",
\* "forwarding" or "streaming" unless its worker crashed, it was cancelled or
\* stuck, or an exception ended it.
LiveStates == {"reserved", "forwarding", "streaming"}
HoldEnds ==
    \A r \in Requests :
        table.res[r].state \in LiveStates
            ~> \/ table.res[r].state \notin LiveStates
               \/ pc[r] \in {"crashed", "abandoned", "raised", "stuck"}

\* gateway.py:1483, "Timeout/5xx outcome may have reached provider. Preserve an
\* explicit uncertain state": an answered or unanswered call leaves no
\* reservation that looks as if the call had not been made.
TimeoutIsUncertain ==
    \A r \in Requests :
        pc[r] = "raised" /\ r \in sent => table.res[r].state # "reserved"

\* reconciliation.py expire_stale_reservations: where the operator runs again
\* and again, no hold outlives its worker for ever, whether the worker crashed,
\* was cancelled or had its own update overwritten.
HoldRecovered ==
    \A r \in Requests :
        table.res[r].state \in LiveStates ~> table.res[r].state \notin LiveStates

\* Settlement implements its abstract promise.
Ledger == INSTANCE SettlementLedger WITH
    charge <- [row \in Rows |-> quota[row].cost],
    charged <- {r \in Requests : marker[r].state = "settled"},
    Lanes <- Rows,
    Costs <- Charges
LedgerSpec == Ledger!Spec
=============================================================================
