---------------------- MODULE QuotaReservation_proofs ----------------------
(***************************************************************************)
(* Theorems about QuotaReservation for every value of its constants.       *)
(*                                                                         *)
(*   TypeCorrect        Spec => []TypeOK                                   *)
(*   DebitCorrect       Spec => []DebitMatchesMarker                       *)
(*   CoherentCorrect    Spec => []SnapCoherent                             *)
(*   SettlementRefines  Spec => LedgerSpec                                 *)
(*   RefusedCorrect     Spec => []RefusedNeverCharged                      *)
(*   ChargedCorrect     Spec => []ChargedHoldsNothing                      *)
(*   UncertainCorrect   Spec => UncertainIsKept                            *)
(*   AdmissionCorrect   Spec => []AdmissionBound                           *)
(*                                                                         *)
(* The second to the fourth assume ~PhantomInserts, a store that rejects   *)
(* every stale compare; the others hold for either kind of store.  The     *)
(* last three assume OneProcess, one gateway process and no operator, and  *)
(* the last that there are finitely many requests.                         *)
(***************************************************************************)
EXTENDS QuotaReservation, Integers, FiniteSetTheorems, WellFoundedInduction, TLAPS

-----------------------------------------------------------------------------
(* Type correctness.                                                       *)

\* The rows the procedures start from have the types of the store.
LEMMA NoSnapTyped ==
    /\ EmptyTable \in Table
    /\ EmptyLane \in LaneRow
    /\ NoSnap \in Snap
    /\ NoFrame \in Frame
<1>1. NoEntry \in Entry
  BY DEF NoEntry, Entry, States
<1>2. EmptyTable \in Table
  BY <1>1 DEF EmptyTable, Table
<1>3. EmptyLane \in LaneRow
  BY DEF EmptyLane, LaneRow
<1>4. NoSnap \in Snap
  BY <1>2, <1>3 DEF NoSnap, Snap
<1>5. NoFrame \in Frame
  BY ConstantsAssumption DEF NoFrame, Frame, Nexts, States, Clocks
<1> QED BY <1>2, <1>3, <1>4, <1>5

\* The initial state is well typed.
LEMMA TypeInit == Init => TypeOK
<1> SUFFICES ASSUME Init PROVE TypeOK
  OBVIOUS
<1> USE ConstantsAssumption, NoSnapTyped DEF Init
<1>1. table \in Table /\ quota \in [Rows -> LaneRow]
  OBVIOUS
<1>2. marker \in [Requests -> Marker]
  BY DEF NoMarker, Marker
<1>3. /\ ledger \in [Requests -> Nat]
      /\ expired \subseteq Requests
      /\ period \in Clocks
      /\ owner \in [Requests -> Workers \union {NoWorker}]
      /\ known \in [Workers \union Operators -> SUBSET Requests]
  BY DEF Clocks
<1>4. pc \in [Actors -> Steps]
  BY DEF Steps, AwaitSteps, SyncSteps, OperatorSteps
<1>5. /\ snap \in [Actors -> Snap]
      /\ tries \in [Actors -> Nat]
      /\ frame \in [Actors -> Frame]
      /\ sent \subseteq Requests
      /\ crashes \in 0 .. MaxCrashes
  OBVIOUS
<1> QED BY <1>1, <1>2, <1>3, <1>4, <1>5 DEF TypeOK

\* The helpers of the actions keep the variables they assign in their types.
LEMMA GotoTyped ==
    ASSUME TypeOK, NEW a \in Actors, NEW step \in Steps, Goto(a, step)
    PROVE  pc' \in [Actors -> Steps]
BY DEF TypeOK, Goto

\* The small steps that actions are made of keep types: dropping a reading,
LEMMA ForgetTyped ==
    ASSUME TypeOK, NEW a \in Actors, Forget(a)
    PROVE  snap' \in [Actors -> Snap]
BY NoSnapTyped DEF TypeOK, Forget

\* ... leaving a procedure,
LEMMA ReturnTyped ==
    ASSUME TypeOK, NEW a \in Actors, Return(a)
    PROVE  frame' \in [Actors -> Frame]
BY NoSnapTyped DEF TypeOK, Return

\* ... counting a lost compare-and-swap,
LEMMA TriesTyped ==
    ASSUME TypeOK, NEW a \in Actors, Retry(a) \/ ResetTries(a)
    PROVE  tries' \in [Actors -> Nat]
BY DEF TypeOK, Retry, ResetTries

\* ... calling update_reservation,
LEMMA CallUpdateTyped ==
    ASSUME TypeOK, NEW a \in Actors, NEW goal \in States, NEW next \in Nexts,
           CallUpdate(a, goal, next)
    PROVE  pc' \in [Actors -> Steps] /\ frame' \in [Actors -> Frame]
<1>1. "upd_read" \in Steps
  BY DEF Steps, SyncSteps
<1>2. pc' \in [Actors -> Steps]
  BY <1>1, GotoTyped DEF CallUpdate
<1>3. [NoFrame EXCEPT !.goal = goal, !.next = next] \in Frame
  BY NoSnapTyped DEF Frame
<1> QED BY <1>2, <1>3 DEF CallUpdate, TypeOK

\* ... calling settle_reservation,
LEMMA CallSettleTyped ==
    ASSUME TypeOK, NEW a \in Actors, NEW cost \in Nat, CallSettle(a, cost)
    PROVE  /\ pc' \in [Actors -> Steps]
           /\ frame' \in [Actors -> Frame]
           /\ tries' \in [Actors -> Nat]
<1>1. "settle_read" \in Steps
  BY DEF Steps, SyncSteps
<1>2. pc' \in [Actors -> Steps] /\ tries' \in [Actors -> Nat]
  BY <1>1, GotoTyped, TriesTyped DEF CallSettle
<1>3. [frame[a] EXCEPT !.cost = cost, !.when = period] \in Frame
  BY DEF Frame, TypeOK
<1>4. frame' = [frame EXCEPT ![a] = [frame[a] EXCEPT !.cost = cost, !.when = period]]
  BY DEF CallSettle, TypeOK
<1> QED BY <1>2, <1>3, <1>4 DEF TypeOK

\* Reading the reservation row into a typed snapshot.
LEMMA TableReadTyped ==
    ASSUME TypeOK, NEW a \in Actors, NEW t \in Table,
           snap' = [snap EXCEPT ![a].table = t]
    PROVE  snap' \in [Actors -> Snap]
<1>1. [snap[a] EXCEPT !.table = t] \in Snap
  BY DEF TypeOK, Snap
<1>2. snap' = [snap EXCEPT ![a] = [snap[a] EXCEPT !.table = t]]
  BY DEF TypeOK
<1> QED BY <1>1, <1>2 DEF TypeOK

\* ... reading the version of the reservation row,
LEMMA SeqReadTyped ==
    ASSUME TypeOK, NEW a \in Actors,
           snap' = [snap EXCEPT ![a].table.ver = table.ver]
    PROVE  snap' \in [Actors -> Snap]
<1> DEFINE t == [snap[a].table EXCEPT !.ver = table.ver]
<1>1. t \in Table
  BY DEF TypeOK, Snap, Table
<1>2. snap' = [snap EXCEPT ![a].table = t]
  BY DEF TypeOK
<1> QED BY <1>1, <1>2, TableReadTyped

\* ... and replacing that row.
LEMMA WriteTableTyped ==
    ASSUME TypeOK, NEW a \in Actors, WriteTable(a)
    PROVE  table' \in Table
BY DEF TypeOK, WriteTable, Snap, Table

\* A debit keeps a usage row in its type, whatever the request.
LEMMA AddTyped ==
    ASSUME NEW f \in [Requests -> Nat], NEW x, NEW n \in Nat
    PROVE  [f EXCEPT ![x] = @ + n] \in [Requests -> Nat]
<1>1. CASE x \in Requests
  <2>1. f[x] + n \in Nat
    BY <1>1
  <2> QED BY <2>1
<1>2. CASE x \notin Requests
  BY <1>2
<1> QED BY <1>1, <1>2

\* A debited usage row is a usage row.
LEMMA DebitedTyped ==
    ASSUME NEW row \in LaneRow, NEW r, NEW c \in Nat
    PROVE  Debited(row, r, c) \in LaneRow
<1>1. /\ row.cost \in [Requests -> Nat]
      /\ row.count \in [Requests -> Nat]
      /\ row.ver + 1 \in Nat
  BY DEF LaneRow
<1>2. /\ [row.cost EXCEPT ![r] = @ + c] \in [Requests -> Nat]
      /\ [row.count EXCEPT ![r] = @ + 1] \in [Requests -> Nat]
  BY <1>1, AddTyped
<1> QED BY <1>1, <1>2 DEF LaneRow, Debited

\* The row that the clock of a lane names is one of the rows.
LEMMA RowTyped ==
    ASSUME NEW clock \in Clocks, NEW l \in Lanes
    PROVE  <<l, clock[l]>> \in Rows
<1>1. clock[l] \in Nat /\ LastPeriod[l] \in Nat /\ clock[l] <= LastPeriod[l]
  BY ConstantsAssumption DEF Clocks
<1>2. clock[l] \in 0 .. LastPeriod[l]
  BY <1>1
<1> QED BY <1>2 DEF Rows

\* The rows that a settlement debits are rows.
LEMMA SettleRowsTyped ==
    ASSUME TypeOK, NEW a \in Actors, Rid(a) \in Requests
    PROVE  SettleRows(a) \in SUBSET Rows
<1>1. SettleLanes(a) \subseteq Lanes
  BY ConstantsAssumption DEF SettleLanes
<1>2. frame[a].when \in Clocks
  BY DEF TypeOK, Frame
<1> QED BY <1>1, <1>2, RowTyped DEF SettleRows

\* Rows written by a settlement.
LEMMA SettleWriteTyped ==
    ASSUME TypeOK, NEW a \in Actors, SettleWrite(a)
    PROVE  /\ table' \in Table
           /\ quota' \in [Rows -> LaneRow]
           /\ marker' \in [Requests -> Marker]
<1> DEFINE r == Rid(a)
           c == frame[a].cost
<1> USE DEF TypeOK
<1>1. c \in Nat
  BY DEF Frame
<1>2. quota' \in [Rows -> LaneRow]
  <2>1. \A row \in Rows : snap[a].quota[row] \in LaneRow
    BY DEF Snap
  <2> QED BY <1>1, <2>1, DebitedTyped DEF SettleWrite
<1>3. marker' \in [Requests -> Marker]
  <2>1. CASE r \in Requests
    <3>1. SettleRows(a) \in SUBSET Rows
      BY <2>1, SettleRowsTyped
    <3> QED BY <3>1, <1>1 DEF SettleWrite, Marker
  <2>2. CASE r \notin Requests
    BY <2>2 DEF SettleWrite
  <2> QED BY <2>1, <2>2
<1>4. table' \in Table
  <2>1. snap[a].table \in Table
    BY DEF Snap
  <2> DEFINE res == [snap[a].table.res EXCEPT ![r].state = "settled"]
  <2>2. res \in [Requests -> Entry]
    <3>1. ASSUME NEW e \in Entry PROVE [e EXCEPT !.state = "settled"] \in Entry
      BY DEF Entry, States
    <3> QED BY <2>1, <3>1 DEF Table
  <2>3. snap[a].table.ver + 1 \in Nat
    BY <2>1 DEF Table
  <2> HIDE DEF res
  <2>4. [ver |-> snap[a].table.ver + 1, res |-> res] \in Table
    BY <2>2, <2>3 DEF Table
  <2> QED BY <2>4 DEF SettleWrite, res
<1> QED BY <1>2, <1>3, <1>4

\* One lemma per group of actions: every step of the group keeps TypeOK.
LEMMA TypeAdmission ==
    ASSUME TypeOK, NEW r \in Requests, Admission(r) PROVE TypeOK'
<1> USE DEF storeVars
<1>0. r \in Actors
  BY DEF Actors
<1>1. CASE ReserveRead(r)
  <2>1. Prune(table.res) \in [Requests -> Entry]
    BY NoSnapTyped DEF TypeOK, Table, Prune, Entry, NoEntry, States
  <2> DEFINE t == [snap[r].table EXCEPT !.res = Prune(table.res)]
  <2>2. t \in Table
    BY <1>0, <2>1 DEF TypeOK, Snap, Table
  <2>3. snap' = [snap EXCEPT ![r].table = t]
    BY <1>0, <1>1 DEF TypeOK, ReserveRead
  <2>4. snap' \in [Actors -> Snap]
    BY <1>0, <2>2, <2>3, TableReadTyped
  <2>5. pc' \in [Actors -> Steps]
    BY <1>0, <1>1, GotoTyped DEF ReserveRead, Steps, SyncSteps
  <2> QED BY <1>1, <2>4, <2>5 DEF TypeOK, ReserveRead
<1>2. CASE ReserveCheck(r)
  <2>1. snap' \in [Actors -> Snap]
    <3>1. CASE Forget(r)
      BY <1>0, <3>1, ForgetTyped
    <3>2. CASE snap' = [snap EXCEPT ![r].table.res[r].state = "reserved"]
      <4> DEFINE e == [snap[r].table.res[r] EXCEPT !.state = "reserved"]
                 t == [snap[r].table EXCEPT !.res = [@ EXCEPT ![r] = e]]
      <4>1. snap[r].table \in Table
        BY <1>0 DEF TypeOK, Snap
      <4>2. e \in Entry
        BY <4>1 DEF Table, Entry, States
      <4> HIDE DEF e
      <4>3. t \in Table
        BY <4>1, <4>2 DEF Table
      <4>4. snap' = [snap EXCEPT ![r].table = t]
        BY <1>0, <3>2 DEF TypeOK, e
      <4> QED BY <1>0, <4>3, <4>4, TableReadTyped
    <3> QED BY <1>2, <3>1, <3>2 DEF ReserveCheck
  <2>2. pc' \in [Actors -> Steps]
    BY <1>0, <1>2, GotoTyped DEF ReserveCheck, Steps, SyncSteps, AwaitSteps
  <2> QED BY <1>2, <2>1, <2>2 DEF TypeOK, ReserveCheck
<1>3. CASE ReserveSeq(r)
  <2>1. snap' \in [Actors -> Snap]
    BY <1>0, <1>3, SeqReadTyped DEF ReserveSeq
  <2>2. pc' \in [Actors -> Steps]
    BY <1>0, <1>3, GotoTyped DEF ReserveSeq, Steps, SyncSteps
  <2> QED BY <1>3, <2>1, <2>2 DEF TypeOK, ReserveSeq
<1>4. CASE ReserveCas(r)
  <2>1. snap' \in [Actors -> Snap]
    BY <1>0, <1>4, ForgetTyped DEF ReserveCas
  <2>2. pc' \in [Actors -> Steps]
    BY <1>0, <1>4, GotoTyped DEF ReserveCas, Steps, SyncSteps, AwaitSteps
  <2>3. tries' \in [Actors -> Nat]
    BY <1>0, <1>4, TriesTyped DEF ReserveCas
  <2>4. table' \in Table
    BY <1>0, <1>4, WriteTableTyped DEF ReserveCas, TypeOK
  <2> QED BY <1>4, <2>1, <2>2, <2>3, <2>4 DEF TypeOK, ReserveCas
<1> QED BY <1>1, <1>2, <1>3, <1>4 DEF Admission

\* The steps of update_reservation keep types.
LEMMA TypeUpdate ==
    ASSUME TypeOK, NEW r \in Requests, Update(r) PROVE TypeOK'
<1> USE DEF storeVars
<1>0. r \in Actors /\ frame[r] \in Frame /\ frame[r].next \in Steps
  BY DEF Actors, TypeOK, Frame, Nexts, Steps, AwaitSteps, SyncSteps
<1>1. CASE UpdRead(r)
  <2>1. snap' \in [Actors -> Snap]
    <3>1. CASE UNCHANGED snap
      BY <3>1 DEF TypeOK
    <3>2. CASE snap' = [snap EXCEPT ![r].table.res =
                          [table.res EXCEPT ![r].state = frame[r].goal]]
      <4> DEFINE e == [table.res[r] EXCEPT !.state = frame[r].goal]
                 t == [snap[r].table EXCEPT !.res = [table.res EXCEPT ![r] = e]]
      <4>1. snap[r].table \in Table /\ table \in Table
        BY <1>0 DEF TypeOK, Snap
      <4>2. e \in Entry
        BY <1>0, <4>1 DEF Table, Entry, Frame
      <4> HIDE DEF e
      <4>3. t \in Table
        BY <4>1, <4>2 DEF Table
      <4>4. snap' = [snap EXCEPT ![r].table = t]
        BY <1>0, <3>2 DEF TypeOK, e
      <4> QED BY <1>0, <4>3, <4>4, TableReadTyped
    <3> QED BY <1>1, <3>1, <3>2 DEF UpdRead
  <2>2. pc' \in [Actors -> Steps]
    BY <1>0, <1>1, GotoTyped DEF UpdRead, Steps, SyncSteps
  <2>3. frame' \in [Actors -> Frame]
    BY <1>0, <1>1, ReturnTyped DEF UpdRead, TypeOK
  <2> QED BY <1>1, <2>1, <2>2, <2>3 DEF TypeOK, UpdRead
<1>2. CASE UpdSeq(r)
  <2>1. snap' \in [Actors -> Snap]
    BY <1>0, <1>2, SeqReadTyped DEF UpdSeq
  <2>2. pc' \in [Actors -> Steps]
    BY <1>0, <1>2, GotoTyped DEF UpdSeq, Steps, SyncSteps
  <2> QED BY <1>2, <2>1, <2>2 DEF TypeOK, UpdSeq
<1>3. CASE UpdCas(r)
  <2>1. snap' \in [Actors -> Snap] /\ frame' \in [Actors -> Frame]
    BY <1>0, <1>3, ForgetTyped, ReturnTyped DEF UpdCas
  <2>2. pc' \in [Actors -> Steps]
    BY <1>0, <1>3, GotoTyped DEF UpdCas
  <2>3. table' \in Table
    BY <1>0, <1>3, WriteTableTyped DEF UpdCas, TypeOK
  <2> QED BY <1>3, <2>1, <2>2, <2>3 DEF TypeOK, UpdCas
<1> QED BY <1>1, <1>2, <1>3 DEF Update

\* The steps of settle_reservation keep types.
LEMMA TypeSettlement ==
    ASSUME TypeOK, NEW a \in Actors, Settlement(a) PROVE TypeOK'
<1> USE DEF storeVars
<1>1. CASE SettleRead(a)
  <2>1. snap' \in [Actors -> Snap]
    BY <1>1, TableReadTyped DEF SettleRead, TypeOK
  <2>2. pc' \in [Actors -> Steps]
    BY <1>1, GotoTyped DEF SettleRead, Steps, SyncSteps
  <2> QED BY <1>1, <2>1, <2>2 DEF TypeOK, SettleRead
<1>2. CASE SettleMarker(a)
  <2>1. snap' \in [Actors -> Snap]
    <3>1. CASE Forget(a)
      BY <3>1, ForgetTyped
    <3>2. CASE snap' = [snap EXCEPT ![a].quota = quota]
      BY <3>2 DEF TypeOK, Snap
    <3> QED BY <1>2, <3>1, <3>2 DEF SettleMarker
  <2>2. pc' \in [Actors -> Steps]
    BY <1>2, GotoTyped DEF SettleMarker, Steps, SyncSteps
  <2>3. tries' \in [Actors -> Nat]
    BY <1>2, TriesTyped DEF SettleMarker, TypeOK
  <2> QED BY <1>2, <2>1, <2>2, <2>3 DEF TypeOK, SettleMarker
<1>3. CASE SettleCas(a)
  <2>1. snap' \in [Actors -> Snap]
    BY <1>3, ForgetTyped DEF SettleCas
  <2>2. pc' \in [Actors -> Steps]
    BY <1>3, GotoTyped DEF SettleCas, Steps, SyncSteps
  <2>3. tries' \in [Actors -> Nat]
    BY <1>3, TriesTyped DEF SettleCas
  <2>4. /\ table' \in Table
        /\ quota' \in [Rows -> LaneRow]
        /\ marker' \in [Requests -> Marker]
    BY <1>3, SettleWriteTyped DEF SettleCas, TypeOK
  <2> QED BY <1>3, <2>1, <2>2, <2>3, <2>4 DEF TypeOK, SettleCas
<1>4. CASE LedgerAppend(a)
  <2>1. ledger' \in [Requests -> Nat]
    BY <1>4, AddTyped DEF LedgerAppend, TypeOK
  <2>2. known' \in [Workers \union Operators -> SUBSET Requests]
    BY <1>4 DEF LedgerAppend, TypeOK
  <2>3. pc' \in [Actors -> Steps]
    BY <1>4, GotoTyped DEF LedgerAppend, Steps, SyncSteps
  <2> QED BY <1>4, <2>1, <2>2, <2>3 DEF TypeOK, LedgerAppend
<1>5. CASE LedgerLost(a)
  <2>1. pc' \in [Actors -> Steps]
    BY <1>5, GotoTyped DEF LedgerLost, Steps, SyncSteps
  <2> QED BY <1>5, <2>1 DEF TypeOK, LedgerLost
<1> QED BY <1>1, <1>2, <1>3, <1>4, <1>5 DEF Settlement

\* The steps of the gateway between the store procedures keep types.
LEMMA TypeGateway ==
    ASSUME TypeOK, NEW r \in Requests, Gateway(r) \/ Abandoned(r) PROVE TypeOK'
<1> USE DEF storeVars
<1>0. /\ r \in Actors
      /\ Est[r] \in Nat /\ Costs \subseteq Nat
      /\ {"released", "uncertain", "settled", "forwarding", "streaming"} \subseteq States
      /\ {"done", "opening", "relaying", "eof", "unsettled_stream"} \subseteq Nexts
      /\ {"calling", "opened", "abandoned", "done"} \subseteq Steps
  BY ConstantsAssumption DEF Actors, States, Nexts, Steps, AwaitSteps, SyncSteps
<1>1. CASE SecretDenied(r)
  BY <1>0, <1>1, CallUpdateTyped DEF SecretDenied, TypeOK
<1>2. CASE Rejected(r)
  BY <1>0, <1>2, CallUpdateTyped DEF Rejected, TypeOK
<1>3. CASE ForwardStream(r)
  BY <1>0, <1>3, CallUpdateTyped DEF ForwardStream, TypeOK
<1>4. CASE OpenFailed(r)
  BY <1>0, <1>4, CallUpdateTyped DEF OpenFailed, TypeOK
<1>5. CASE FirstChunk(r)
  BY <1>0, <1>5, CallUpdateTyped DEF FirstChunk, TypeOK
<1>6. CASE StreamEnd(r)
  BY <1>0, <1>6, CallUpdateTyped DEF StreamEnd, TypeOK
<1>7. CASE Unsettled(r)
  BY <1>0, <1>7, CallUpdateTyped DEF Unsettled, TypeOK
<1>8. CASE UnsettledStream(r)
  BY <1>0, <1>8, CallUpdateTyped DEF UnsettledStream, TypeOK
<1>9. CASE DryRun(r)
  BY <1>0, <1>9, CallSettleTyped DEF DryRun, TypeOK
<1>10. CASE Answered(r)
  BY <1>0, <1>10, CallSettleTyped DEF Answered, TypeOK
<1>11. CASE Finalize(r)
  BY <1>0, <1>11, CallSettleTyped DEF Finalize, TypeOK
<1>12. CASE Forward(r)
  BY <1>0, <1>12, GotoTyped DEF Forward, TypeOK
<1>13. CASE Abandoned(r)
  BY <1>0, <1>13, GotoTyped DEF Abandoned, TypeOK
<1>14. CASE Opened(r)
  <2>1. pc' \in [Actors -> Steps] /\ frame' \in [Actors -> Frame]
    BY <1>0, <1>14, GotoTyped, CallUpdateTyped DEF Opened, TypeOK
  <2> QED BY <1>14, <2>1 DEF Opened, TypeOK
<1>15. CASE Settled(r)
  <2>1. pc' \in [Actors -> Steps] /\ frame' \in [Actors -> Frame]
    BY <1>0, <1>15, GotoTyped, ReturnTyped, CallUpdateTyped DEF Settled
  <2> QED BY <1>15, <2>1 DEF Settled, TypeOK
<1> QED BY <1>1, <1>2, <1>3, <1>4, <1>5, <1>6, <1>7, <1>8, <1>9, <1>10, <1>11, <1>12, <1>13, <1>14, <1>15
  DEF Gateway

\* A request is broken off by an exception or stuck.
Breaks(r) == Raises(r) \/ Stuck(r)

\* What that does: no row is written, and only a relay task goes on, with
\* on_uncertain.
LEMMA BreakFacts ==
    ASSUME TypeOK, NEW r \in Requests, Breaks(r)
    PROVE  /\ UNCHANGED <<storeVars, expired, period, owner, known, crashes>>
           /\ \A b \in Actors \ {r} : pc'[b] = pc[b] /\ frame'[b] = frame[b] /\ snap'[b] = snap[b]
           /\ snap'[r] \in {snap[r], NoSnap}
           /\ \/ /\ pc[r] \in SyncSteps \union {"opening", "eof"}
                 /\ pc'[r] \in {"raised", "stuck"}
                 /\ pc'[r] = "stuck" => pc[r] = "eof"
                 /\ frame'[r] \in {frame[r], NoFrame}
              \/ /\ pc[r] \in {"upd_read", "upd_seq", "upd_cas"}
                 /\ frame[r].next \in {"relaying", "eof"}
                 /\ pc'[r] = "upd_read"
                 /\ frame'[r] = [NoFrame EXCEPT !.goal = "uncertain", !.next = "done"]
<1>0. r \in Actors /\ pc \in [Actors -> Steps] /\ frame \in [Actors -> Frame]
      /\ snap \in [Actors -> Snap]
  BY DEF Actors, TypeOK
<1> USE <1>0 DEF Goto, Forget, Return, SyncSteps
<1>1. CASE CallRaises(r)
  BY <1>1 DEF CallRaises
<1>2. CASE StoreRaises(r)
  BY <1>2 DEF StoreRaises
<1>3. CASE RelayRaises(r)
  BY <1>3 DEF RelayRaises, CallUpdate
<1>4. CASE Stuck(r)
  BY <1>4 DEF Stuck
<1> QED BY <1>1, <1>2, <1>3, <1>4 DEF Breaks, Raises

\* Such a step keeps types.
LEMMA TypeBreaks ==
    ASSUME TypeOK, NEW r \in Requests, Breaks(r) PROVE TypeOK'
<1> USE DEF storeVars
<1>0. /\ r \in Actors
      /\ "uncertain" \in States /\ "done" \in Nexts /\ {"raised", "stuck"} \subseteq Steps
  BY DEF Actors, States, Nexts, Steps, AwaitSteps
<1>1. CASE CallRaises(r)
  BY <1>0, <1>1, GotoTyped DEF CallRaises, TypeOK
<1>2. CASE StoreRaises(r)
  <2>1. /\ pc' \in [Actors -> Steps] /\ snap' \in [Actors -> Snap]
        /\ tries' \in [Actors -> Nat] /\ frame' \in [Actors -> Frame]
    BY <1>0, <1>2, GotoTyped, ForgetTyped, ReturnTyped, TriesTyped DEF StoreRaises
  <2> QED BY <1>2, <2>1 DEF StoreRaises, TypeOK
<1>3. CASE RelayRaises(r)
  <2>1. /\ pc' \in [Actors -> Steps] /\ frame' \in [Actors -> Frame]
        /\ snap' \in [Actors -> Snap]
    BY <1>0, <1>3, CallUpdateTyped, ForgetTyped DEF RelayRaises
  <2> QED BY <1>3, <2>1 DEF RelayRaises, TypeOK
<1>4. CASE Stuck(r)
  BY <1>0, <1>4, GotoTyped DEF Stuck, TypeOK
<1> QED BY <1>1, <1>2, <1>3, <1>4 DEF Breaks, Raises

\* The operator's steps keep types: it acts on requests only (SettleArgs).
LEMMA TypeOperator ==
    ASSUME TypeOK, SettleArgs, NEW o \in Operators, Operator(o) PROVE TypeOK'
<1> USE DEF storeVars
<1>0. /\ o \in Actors
      /\ {"idle", "asking", "op_cas", "op_seq"} \subseteq Steps
  BY DEF Actors, Steps, OperatorSteps
<1>1. CASE ExpireRead(o)
  <2> DEFINE res == [q \in Requests |->
                       IF ~Stale(q) THEN table.res[q]
                       ELSE [table.res[q] EXCEPT !.state =
                               IF table.res[q].state = "reserved" THEN "released"
                                                                  ELSE "uncertain"]]
  <2>1. ASSUME NEW q \in Requests PROVE res[q] \in Entry
    <3>1. table.res[q] \in Entry
      BY DEF TypeOK, Table
    <3> QED BY <3>1 DEF Entry, States
  <2>2. res \in [Requests -> Entry]
    BY <2>1
  <2> HIDE DEF res
  <2>3. [table EXCEPT !.res = res] \in Table
    BY <2>2 DEF TypeOK, Table
  <2>4. snap' \in [Actors -> Snap]
    BY <1>0, <1>1, <2>3, TableReadTyped DEF ExpireRead, res
  <2>5. pc' \in [Actors -> Steps] /\ tries' \in [Actors -> Nat]
    BY <1>0, <1>1, GotoTyped, TriesTyped DEF ExpireRead
  <2> QED BY <1>1, <2>4, <2>5 DEF ExpireRead, TypeOK
<1>2. CASE Ask(o)
  <2>1. frame' \in [Actors -> Frame]
    BY <1>0, <1>2 DEF Ask, TypeOK, Frame
  <2>2. pc' \in [Actors -> Steps]
    BY <1>0, <1>2, GotoTyped DEF Ask
  <2> QED BY <1>2, <2>1, <2>2 DEF Ask, TypeOK
<1>3. CASE Answer(o)
  <2> DEFINE r == frame[o].rid
  <2>1. snap' \in [Actors -> Snap]
    <3>1. ASSUME NEW outcome \in {"released", "uncertain"},
                 snap' = [snap EXCEPT ![o].table =
                            [table EXCEPT !.res[r] =
                               [state |-> outcome, reconciled |-> TRUE]]]
          PROVE  snap' \in [Actors -> Snap]
      <4> DEFINE e == [state |-> outcome, reconciled |-> TRUE]
                 t == [table EXCEPT !.res[r] = e]
      <4>1. e \in Entry
        BY DEF Entry, States
      <4> HIDE DEF e
      <4>2. t \in Table
        BY <4>1 DEF Table, TypeOK
      <4>3. snap' = [snap EXCEPT ![o].table = t]
        BY <3>1 DEF e
      <4> QED BY <1>0, <4>2, <4>3, TableReadTyped
    <3> QED BY <1>3, <3>1 DEF Answer, TypeOK
  <2>2. r \in Requests /\ Costs \union {Est[r]} \subseteq Nat
    BY <1>0, <1>3, ConstantsAssumption DEF Answer, SettleArgs, ArgsOK, Rid
  <2>3. /\ pc' \in [Actors -> Steps]
        /\ frame' \in [Actors -> Frame]
        /\ tries' \in [Actors -> Nat]
    BY <1>0, <1>3, <2>2, GotoTyped, ReturnTyped, TriesTyped, CallSettleTyped
    DEF Answer, TypeOK
  <2> QED BY <1>3, <2>1, <2>3 DEF Answer, TypeOK
<1>4. CASE Annotate(o)
  <2> DEFINE e == [state |-> "settled", reconciled |-> TRUE]
             t == [table EXCEPT !.res[frame[o].rid] = e]
  <2>1. e \in Entry
    BY DEF Entry, States
  <2> HIDE DEF e
  <2>2. t \in Table
    BY <2>1 DEF Table, TypeOK
  <2>3. snap' = [snap EXCEPT ![o].table = t]
    BY <1>4 DEF Annotate, e
  <2>4. snap' \in [Actors -> Snap]
    BY <1>0, <2>2, <2>3, TableReadTyped
  <2>5. pc' \in [Actors -> Steps] /\ tries' \in [Actors -> Nat]
    BY <1>0, <1>4, GotoTyped, TriesTyped DEF Annotate
  <2> QED BY <1>4, <2>4, <2>5 DEF Annotate, TypeOK
<1>5. CASE SettleGaveUp(o)
  <2>1. pc' \in [Actors -> Steps] /\ frame' \in [Actors -> Frame]
    BY <1>0, <1>5, GotoTyped, ReturnTyped DEF SettleGaveUp
  <2> QED BY <1>5, <2>1 DEF SettleGaveUp, TypeOK
<1>6. CASE OpCas(o)
  <2>1. /\ pc' \in [Actors -> Steps]
        /\ frame' \in [Actors -> Frame]
        /\ snap' \in [Actors -> Snap]
        /\ tries' \in [Actors -> Nat]
    BY <1>0, <1>6, GotoTyped, ReturnTyped, ForgetTyped, TriesTyped DEF OpCas, TypeOK
  <2>2. table' \in Table
    BY <1>0, <1>6, WriteTableTyped DEF OpCas, TypeOK
  <2> QED BY <1>6, <2>1, <2>2 DEF OpCas, TypeOK
<1>7. CASE OpSeq(o)
  <2>1. pc' \in [Actors -> Steps] /\ snap' \in [Actors -> Snap]
    BY <1>0, <1>7, GotoTyped, SeqReadTyped DEF OpSeq
  <2> QED BY <1>7, <2>1 DEF OpSeq, TypeOK
<1>8. CASE Settlement(o)
  BY <1>0, <1>8, TypeSettlement
<1> QED BY <1>1, <1>2, <1>3, <1>4, <1>5, <1>6, <1>7, <1>8 DEF Operator

\* Acceptance, time and crashes keep types.
LEMMA TypeEnvironment ==
    ASSUME TypeOK,
           \/ \E w \in Workers, r \in Requests : Check(w, r)
           \/ \E r \in Requests : TtlPasses(r)
           \/ \E l \in Lanes : NewPeriod(l)
           \/ \E w \in Workers : CrashWorker(w)
           \/ \E o \in Operators : CrashOperator(o)
    PROVE  TypeOK'
<1> USE DEF storeVars
<1>1. ASSUME NEW w \in Workers, NEW r \in Requests, Check(w, r) PROVE TypeOK'
  <2>1. r \in Actors /\ {"reserve_read", "refused"} \subseteq Steps
    BY DEF Actors, Steps, SyncSteps, AwaitSteps
  <2>2. pc' \in [Actors -> Steps]
    BY <1>1, <2>1, GotoTyped DEF Check
  <2> QED BY <1>1, <2>2 DEF Check, TypeOK
<1>2. ASSUME NEW r \in Requests, TtlPasses(r) PROVE TypeOK'
  BY <1>2 DEF TtlPasses, TypeOK
<1>6. ASSUME NEW l \in Lanes, NewPeriod(l) PROVE TypeOK'
  <2>1. period[l] \in Nat /\ LastPeriod[l] \in Nat /\ period[l] < LastPeriod[l]
    BY <1>6, ConstantsAssumption DEF NewPeriod, TypeOK, Clocks
  <2>2. period[l] + 1 \in Nat /\ period[l] + 1 <= LastPeriod[l]
    BY <2>1
  <2>3. period' \in Clocks
    BY <1>6, <2>2 DEF NewPeriod, TypeOK, Clocks
  <2> QED BY <1>6, <2>3 DEF NewPeriod, TypeOK
<1>3. ASSUME NEW p, Restart(p)
      PROVE  /\ known' \in [Workers \union Operators -> SUBSET Requests]
             /\ crashes' \in 0 .. MaxCrashes
  <2>1. known' \in [Workers \union Operators -> SUBSET Requests]
    BY <1>3 DEF Restart, TypeOK
  <2>2. crashes' \in 0 .. MaxCrashes
    BY <1>3, ConstantsAssumption DEF Restart, TypeOK
  <2> QED BY <2>1, <2>2
<1>4. ASSUME NEW w \in Workers, CrashWorker(w) PROVE TypeOK'
  <2>1. "crashed" \in Steps
    BY DEF Steps, AwaitSteps
  <2>2. /\ pc' \in [Actors -> Steps]
        /\ snap' \in [Actors -> Snap]
        /\ tries' \in [Actors -> Nat]
        /\ frame' \in [Actors -> Frame]
    BY <1>4, <2>1, NoSnapTyped DEF CrashWorker, TypeOK
  <2> QED BY <1>3, <1>4, <2>2 DEF CrashWorker, Restart, TypeOK
<1>5. ASSUME NEW o \in Operators, CrashOperator(o) PROVE TypeOK'
  <2>1. o \in Actors /\ "idle" \in Steps
    BY DEF Actors, Steps, OperatorSteps
  <2>2. /\ pc' \in [Actors -> Steps]
        /\ snap' \in [Actors -> Snap]
        /\ tries' \in [Actors -> Nat]
        /\ frame' \in [Actors -> Frame]
    BY <1>5, <2>1, GotoTyped, ForgetTyped, ReturnTyped, TriesTyped DEF CrashOperator
  <2> QED BY <1>3, <1>5, <2>2 DEF CrashOperator, Restart, TypeOK
<1> QED BY <1>1, <1>2, <1>4, <1>5, <1>6

\* TypeOK is inductive relative to SettleArgs.
LEMMA TypeNext == TypeOK /\ SettleArgs /\ [Next]_vars => TypeOK'
<1> SUFFICES ASSUME TypeOK, SettleArgs, [Next]_vars PROVE TypeOK'
  OBVIOUS
<1>1. CASE UNCHANGED vars
  BY <1>1 DEF vars, TypeOK
<1>2. ASSUME NEW r \in Requests, Request(r) \/ Abandoned(r) \/ Breaks(r) PROVE TypeOK'
  <2>1. r \in Actors
    BY DEF Actors
  <2> QED BY <1>2, <2>1, TypeAdmission, TypeUpdate, TypeSettlement, TypeGateway, TypeBreaks
    DEF Request
<1> QED BY <1>1, <1>2, TypeOperator, TypeEnvironment DEF Next, Breaks

-----------------------------------------------------------------------------
(* Settlement is run for a request and at a cost it can be billed at.      *)

\* Nobody settles anything at first.
LEMMA ArgsInit == Init => SettleArgs
BY DEF Init, SettleArgs, ArgsOK, Actors

\* A step of a touches the procedure of no other actor.
Alone(a) ==
    \A b \in Actors \ {a} : pc'[b] = pc[b] /\ frame'[b] = frame[b] /\ snap'[b] = snap[b]

\* A step of a preserves SettleArgs if it leaves a's own arguments fit.
LEMMA ArgsKept ==
    ASSUME SettleArgs, NEW a \in Actors, Alone(a), ArgsOK(a)'
    PROVE  SettleArgs'
BY DEF SettleArgs, ArgsOK, Rid, Alone

\* A step that ends outside settlement keeps SettleArgs ...
LEMMA ArgsLeft ==
    ASSUME SettleArgs, NEW a \in Actors, Alone(a),
           pc'[a] \notin {"asking", "settle_read", "settle_marker", "settle_cas"}
    PROVE  SettleArgs'
BY ArgsKept DEF ArgsOK

\* ... and so does one that goes on with it.
LEMMA ArgsCarried ==
    ASSUME SettleArgs, NEW a \in Actors, Alone(a), frame'[a] = frame[a],
           pc[a] \in {"settle_read", "settle_marker", "settle_cas"}
    PROVE  SettleArgs'
BY ArgsKept DEF SettleArgs, ArgsOK, Rid

\* What each step of a request does to the procedures of the actors.
LEMMA RequestAlone ==
    ASSUME TypeOK, NEW r \in Requests, Request(r) \/ Abandoned(r) \/ Breaks(r)
    PROVE  Alone(r)
<1> USE DEF TypeOK, Alone, Goto, Return, Forget, CallUpdate, CallSettle
<1>1. CASE Admission(r)
  BY <1>1 DEF Admission, ReserveRead, ReserveCheck, ReserveSeq, ReserveCas
<1>2. CASE Update(r)
  BY <1>2 DEF Update, UpdRead, UpdSeq, UpdCas
<1>3. CASE Settlement(r)
  BY <1>3 DEF Settlement, SettleRead, SettleMarker, SettleCas, LedgerAppend, LedgerLost
<1>4. CASE Gateway(r)
  BY <1>4
    DEF Gateway, SecretDenied, DryRun, Forward, Answered, Rejected, ForwardStream,
       Opened, OpenFailed, FirstChunk, StreamEnd, Finalize, Settled, Unsettled,
       UnsettledStream
<1>5. CASE Abandoned(r)
  BY <1>5 DEF Abandoned
<1>6. CASE Breaks(r)
  BY <1>6, BreakFacts DEF Alone
<1> QED BY <1>1, <1>2, <1>3, <1>4, <1>5, <1>6 DEF Request

\* An operator's step touches the procedure of no other actor.
LEMMA OperatorAlone ==
    ASSUME TypeOK, NEW o \in Operators, Operator(o)
    PROVE  Alone(o)
<1> USE DEF TypeOK, Alone, Goto, Return, Forget, CallSettle
<1>1. CASE Settlement(o)
  BY <1>1 DEF Settlement, SettleRead, SettleMarker, SettleCas, LedgerAppend, LedgerLost
<1>2. CASE ~Settlement(o)
  BY <1>2 DEF Operator, ExpireRead, Ask, Answer, Annotate, SettleGaveUp, OpCas, OpSeq
<1> QED BY <1>1, <1>2

\* Inside settle_reservation the arguments do not change.
LEMMA ArgsSettlement ==
    ASSUME TypeOK, SettleArgs, NEW a \in Actors, Alone(a), Settlement(a)
    PROVE  SettleArgs'
<1>1. CASE SettleRead(a) \/ SettleMarker(a) \/ SettleCas(a)
  BY <1>1, ArgsCarried DEF SettleRead, SettleMarker, SettleCas
<1>2. CASE LedgerAppend(a) \/ LedgerLost(a)
  BY <1>2, ArgsLeft DEF LedgerAppend, LedgerLost, Goto, TypeOK
<1> QED BY <1>1, <1>2 DEF Settlement

\* A request settles itself, at a cost it can be billed at.
LEMMA ArgsRequest ==
    ASSUME TypeOK, SettleArgs, NEW r \in Requests, Request(r) \/ Abandoned(r) \/ Breaks(r)
    PROVE  SettleArgs'
<1>0. /\ r \in Actors /\ Alone(r)
      /\ frame[r].next \in Nexts
      /\ Rid(r)' = r /\ Costs \subseteq Charges /\ Est[r] \in Charges
  BY RequestAlone, ConstantsAssumption DEF Actors, Rid, Charges, TypeOK, Frame
<1> USE DEF Goto, TypeOK
<1>1. CASE Admission(r)
  BY <1>0, <1>1, ArgsLeft
    DEF Admission, ReserveRead, ReserveCheck, ReserveSeq, ReserveCas
<1>2. CASE Update(r)
  BY <1>0, <1>2, ArgsLeft DEF Update, UpdRead, UpdSeq, UpdCas, Nexts
<1>3. CASE Settlement(r)
  BY <1>0, <1>3, ArgsSettlement
<1>4. CASE DryRun(r) \/ Answered(r) \/ Finalize(r)
  <2>1. \E c \in Charges : CallSettle(r, c)
    BY <1>0, <1>4 DEF DryRun, Answered, Finalize
  <2>2. ArgsOK(r)'
    BY <1>0, <2>1 DEF ArgsOK, CallSettle
  <2> QED BY <1>0, <2>2, ArgsKept
<1>5. CASE \/ SecretDenied(r) \/ Forward(r) \/ Rejected(r) \/ ForwardStream(r)
           \/ Opened(r) \/ OpenFailed(r) \/ FirstChunk(r) \/ StreamEnd(r)
           \/ Settled(r) \/ Unsettled(r) \/ UnsettledStream(r) \/ Abandoned(r)
  BY <1>0, <1>5, ArgsLeft DEF SecretDenied, Forward, Rejected, ForwardStream, Opened,
     OpenFailed, FirstChunk, StreamEnd, Settled, Unsettled, UnsettledStream, Abandoned,
     CallUpdate
<1>6. CASE Breaks(r)
  BY <1>0, <1>6, BreakFacts, ArgsLeft
<1> QED BY <1>1, <1>2, <1>3, <1>4, <1>5, <1>6 DEF Request, Gateway

\* An operator settles a request it listed, at such a cost.
LEMMA ArgsOperator ==
    ASSUME TypeOK, SettleArgs, NEW o \in Operators, Operator(o)
    PROVE  SettleArgs'
<1>0. o \in Actors /\ Alone(o)
  BY OperatorAlone DEF Actors
<1> USE DEF Goto, TypeOK
<1>1. CASE Settlement(o)
  BY <1>0, <1>1, ArgsSettlement
<1>2. CASE Ask(o)
  <2>1. pc'[o] = "asking" /\ frame'[o].rid \in Requests
    BY <1>0, <1>2 DEF Ask, Frame
  <2> QED BY <1>0, <2>1, ArgsKept DEF ArgsOK, Rid
<1>3. CASE Answer(o)
  <2>1. CASE pc'[o] # "settle_read"
    BY <1>0, <1>3, <2>1, ArgsLeft DEF Answer, CallSettle
  <2>2. CASE pc'[o] = "settle_read"
    <3>1. frame[o].rid \in Requests
      BY <1>0, <1>3 DEF Answer, SettleArgs, ArgsOK, Rid
    <3>2. PICK c \in Costs \union {Est[frame[o].rid]} : CallSettle(o, c)
      BY <1>0, <1>3, <2>2 DEF Answer
    <3>3. frame'[o].rid = frame[o].rid /\ frame'[o].cost = c
      BY <1>0, <3>2 DEF CallSettle, Frame
    <3>4. c \in Charges
      BY <3>1 DEF Charges
    <3> QED BY <1>0, <3>1, <3>3, <3>4, ArgsKept DEF ArgsOK, Rid
  <2> QED BY <2>1, <2>2
<1>4. CASE ExpireRead(o) \/ Annotate(o) \/ SettleGaveUp(o) \/ OpCas(o) \/ OpSeq(o)
  BY <1>0, <1>4, ArgsLeft DEF ExpireRead, Annotate, SettleGaveUp, OpCas, OpSeq
<1> QED BY <1>1, <1>2, <1>3, <1>4 DEF Operator

\* SettleArgs is inductive relative to TypeOK.
LEMMA ArgsNext == TypeOK /\ SettleArgs /\ [Next]_vars => SettleArgs'
<1> SUFFICES ASSUME TypeOK, SettleArgs, [Next]_vars PROVE SettleArgs'
  OBVIOUS
<1> USE DEF TypeOK
<1>1. CASE UNCHANGED vars
  BY <1>1 DEF vars, SettleArgs, ArgsOK, Rid
<1>2. ASSUME NEW w \in Workers, NEW r \in Requests, Check(w, r) PROVE SettleArgs'
  <2>1. r \in Actors /\ Alone(r)
    BY <1>2 DEF Check, Goto, Alone, Actors
  <2> QED BY <1>2, <2>1, ArgsLeft DEF Check, Goto
<1>3. ASSUME NEW r \in Requests, TtlPasses(r) PROVE SettleArgs'
  BY <1>3 DEF TtlPasses, SettleArgs, ArgsOK, Rid
<1>6. ASSUME NEW l \in Lanes, NewPeriod(l) PROVE SettleArgs'
  BY <1>6 DEF NewPeriod, SettleArgs, ArgsOK, Rid
<1>4. ASSUME NEW w \in Workers, CrashWorker(w) PROVE SettleArgs'
  <2>1. ASSUME NEW a \in Actors PROVE ArgsOK(a)'
    <3>1. CASE a \in Lost(w)
      BY <1>4, <3>1 DEF CrashWorker, ArgsOK
    <3>2. CASE a \notin Lost(w)
      BY <1>4, <3>2 DEF CrashWorker, ArgsOK, SettleArgs, Rid
    <3> QED BY <3>1, <3>2
  <2> QED BY <2>1 DEF SettleArgs
<1>5. ASSUME NEW o \in Operators, CrashOperator(o) PROVE SettleArgs'
  <2>1. o \in Actors /\ Alone(o)
    BY <1>5 DEF CrashOperator, Goto, Forget, Return, Alone, Actors
  <2> QED BY <1>5, <2>1, ArgsLeft DEF CrashOperator, Goto
<1> QED BY <1>1, <1>2, <1>3, <1>4, <1>5, <1>6, ArgsRequest, ArgsOperator DEF Next, Breaks

\* Every variable keeps its type in every behaviour, for any number of
\* processes, requests, lanes and attempts.
THEOREM TypeCorrect == Spec => []TypeOK
<1>1. Init => TypeOK /\ SettleArgs
  BY TypeInit, ArgsInit
<1>2. TypeOK /\ SettleArgs /\ [Next]_vars => (TypeOK /\ SettleArgs)'
  BY TypeNext, ArgsNext
<1>3. TypeOK /\ SettleArgs => TypeOK
  OBVIOUS
<1> QED BY <1>1, <1>2, <1>3, PTL DEF Spec

-----------------------------------------------------------------------------
(* Debits and markers.  The store rejects every stale compare: this part   *)
(* assumes that two inserts of one absent row cannot both succeed.         *)

\* The inductive invariant.
SettleInv == TypeOK /\ SettleArgs /\ DebitMatchesMarker /\ SnapCoherent

\* A step that debits nothing and lets no actor reach its settlement CAS.
Quiet ==
    /\ UNCHANGED <<quota, marker>>
    /\ \A b \in Actors : pc'[b] = "settle_cas"
                            => pc[b] = "settle_cas" /\ snap'[b] = snap[b]

\* A step of a that does not end at the settlement CAS and debits nothing is
\* quiet.
LEMMA QuietAlone ==
    ASSUME NEW a \in Actors, Alone(a), pc'[a] # "settle_cas", UNCHANGED <<quota, marker>>
    PROVE  Quiet
BY DEF Quiet, Alone

\* A request's steps outside settlement are quiet.
LEMMA QuietRequest ==
    ASSUME TypeOK, NEW r \in Requests, Alone(r),
           Admission(r) \/ Update(r) \/ Gateway(r) \/ Abandoned(r) \/ Breaks(r)
    PROVE  Quiet
<1>0. r \in Actors /\ frame[r].next \in Nexts
  BY DEF Actors, TypeOK, Frame
<1> USE DEF storeVars, TypeOK, Goto, CallUpdate, CallSettle
<1>1. CASE Admission(r)
  BY <1>0, <1>1, QuietAlone
    DEF Admission, ReserveRead, ReserveCheck, ReserveSeq, ReserveCas
<1>2. CASE Update(r)
  BY <1>0, <1>2, QuietAlone DEF Update, UpdRead, UpdSeq, UpdCas, Nexts
<1>3. CASE Gateway(r)
  BY <1>0, <1>3, QuietAlone
    DEF Gateway, SecretDenied, DryRun, Forward, Answered, Rejected,
     ForwardStream, Opened, OpenFailed, FirstChunk, StreamEnd, Finalize, Settled,
     Unsettled, UnsettledStream
<1>4. CASE Abandoned(r)
  BY <1>0, <1>4, QuietAlone DEF Abandoned
<1>5. CASE Breaks(r)
  BY <1>0, <1>5, BreakFacts, QuietAlone
<1> QED BY <1>1, <1>2, <1>3, <1>4, <1>5

\* So are an operator's,
LEMMA QuietOperator ==
    ASSUME TypeOK, NEW o \in Operators, Alone(o), Operator(o), ~Settlement(o)
    PROVE  Quiet
<1>0. o \in Actors
  BY DEF Actors
<1> QED BY <1>0, QuietAlone
  DEF storeVars, TypeOK, Goto, CallSettle, Operator, ExpireRead,
     Ask, Answer, Annotate, SettleGaveUp, OpCas, OpSeq

\* A settlement step is quiet, reads the lanes, or writes.
SettleWrites(a) == pc[a] = "settle_cas" /\ SettleWrite(a) /\ pc'[a] # "settle_cas"

\* ... the steps of a settlement other than its reading and its write,
LEMMA QuietSettlement ==
    ASSUME TypeOK, NEW a \in Actors, Alone(a), Settlement(a)
    PROVE  Quiet \/ SettleMarker(a) \/ SettleWrites(a)
<1> USE DEF storeVars, TypeOK, Goto
<1>1. CASE SettleRead(a)
  BY <1>1, QuietAlone DEF SettleRead
<1>2. CASE SettleCas(a)
  BY <1>2, QuietAlone DEF SettleCas, SettleWrites
<1>3. CASE LedgerAppend(a) \/ LedgerLost(a)
  BY <1>3, QuietAlone DEF LedgerAppend, LedgerLost
<1> QED BY <1>1, <1>2, <1>3 DEF Settlement

\* ... and acceptance, time and crashes.
LEMMA QuietEnvironment ==
    ASSUME TypeOK,
           \/ UNCHANGED vars
           \/ \E w \in Workers, r \in Requests : Check(w, r)
           \/ \E r \in Requests : TtlPasses(r)
           \/ \E l \in Lanes : NewPeriod(l)
           \/ \E w \in Workers : CrashWorker(w)
           \/ \E o \in Operators : CrashOperator(o)
    PROVE  Quiet
<1> USE DEF storeVars, TypeOK
<1>1. CASE UNCHANGED vars
  BY <1>1 DEF vars, Quiet
<1>2. ASSUME NEW w \in Workers, NEW r \in Requests, Check(w, r) PROVE Quiet
  <2>1. r \in Actors
    BY DEF Actors
  <2> QED BY <1>2, <2>1 DEF Check, Goto, Quiet
<1>3. ASSUME NEW r \in Requests, TtlPasses(r) PROVE Quiet
  BY <1>3 DEF TtlPasses, Quiet
<1>6. ASSUME NEW l \in Lanes, NewPeriod(l) PROVE Quiet
  BY <1>6 DEF NewPeriod, Quiet
<1>4. ASSUME NEW w \in Workers, CrashWorker(w) PROVE Quiet
  BY <1>4 DEF CrashWorker, Restart, Quiet
<1>5. ASSUME NEW o \in Operators, CrashOperator(o) PROVE Quiet
  BY <1>5 DEF CrashOperator, Restart, Goto, Forget, Actors, Quiet
<1> QED BY <1>1, <1>2, <1>3, <1>4, <1>5, <1>6

\* A step is quiet, reads for a settlement, or is a settlement's write.
LEMMA NextCases ==
    ASSUME TypeOK, [Next]_vars
    PROVE  Quiet \/ \E a \in Actors : Alone(a) /\ (SettleMarker(a) \/ SettleWrites(a))
<1>1. ASSUME NEW r \in Requests, Request(r) \/ Abandoned(r) \/ Breaks(r)
      PROVE  Quiet \/ \E a \in Actors : Alone(a) /\ (SettleMarker(a) \/ SettleWrites(a))
  <2>1. r \in Actors /\ Alone(r)
    BY <1>1, RequestAlone DEF Actors
  <2> QED BY <1>1, <2>1, QuietRequest, QuietSettlement DEF Request
<1>2. ASSUME NEW o \in Operators, Operator(o)
      PROVE  Quiet \/ \E a \in Actors : Alone(a) /\ (SettleMarker(a) \/ SettleWrites(a))
  <2>1. o \in Actors /\ Alone(o)
    BY <1>2, OperatorAlone DEF Actors
  <2> QED BY <1>2, <2>1, QuietOperator, QuietSettlement
<1> QED BY <1>1, <1>2, QuietEnvironment DEF Next, Breaks

\* What a settlement CAS that passes does to the store: it charges a request
\* that had not been charged, on the rows L as they are.
Charging(r, c, L) ==
    /\ marker[r].state = "absent"
    /\ quota' = [row \in Rows |-> IF row \in L THEN Debited(quota[row], r, c) ELSE quota[row]]
    /\ marker' = [marker EXCEPT ![r] = [state |-> "settled", cost |-> c, rows |-> L]]

\* A settlement that passes its CAS charges one request that was not settled
\* before, on the rows as they are stored.
LEMMA SettleWriteCharges ==
    ASSUME ~PhantomInserts, SettleInv, NEW a \in Actors, SettleWrites(a)
    PROVE  \E r \in Requests, c \in Charges, L \in SUBSET Rows : Charging(r, c, L)
<1> DEFINE r == Rid(a)
           c == frame[a].cost
           L == SettleRows(a)
<1>1. r \in Requests /\ c \in Charges
  BY DEF SettleInv, SettleArgs, ArgsOK, SettleWrites
<1>2. L \in SUBSET Rows
  BY <1>1, SettleRowsTyped DEF SettleInv
<1>3. marker[r].state = "absent"
  <2>1. MarkerVersion(r) = 0
    BY DEF SettleWrites, SettleWrite, SettlePasses, MayMatch
  <2> QED BY <2>1 DEF MarkerVersion
<1>4. \A row \in L : snap[a].quota[row] = quota[row]
  BY <1>2 DEF SettleWrites, SettleWrite, SettlePasses, MayMatch, SettleInv, SnapCoherent
<1>5. quota' = [row \in Rows |-> IF row \in L THEN Debited(quota[row], r, c) ELSE quota[row]]
  BY <1>4 DEF SettleWrites, SettleWrite
<1>6. marker' = [marker EXCEPT ![r] = [state |-> "settled", cost |-> c, rows |-> L]]
  BY DEF SettleWrites, SettleWrite
<1> HIDE DEF r, c, L
<1> QED BY <1>1, <1>2, <1>3, <1>5, <1>6 DEF Charging

\* Whatever is billed is a natural number.
LEMMA ChargeType == Charges \subseteq Nat
BY ConstantsAssumption DEF Charges

\* Charging an unsettled request keeps debits and markers in agreement.
LEMMA ChargingDebits ==
    ASSUME TypeOK, DebitMatchesMarker, NEW r \in Requests, NEW c \in Charges,
           NEW L \in SUBSET Rows, Charging(r, c, L)
    PROVE  DebitMatchesMarker'
<1> SUFFICES ASSUME NEW row \in Rows, NEW q \in Requests
             PROVE  LET due == marker'[q].state = "settled" /\ row \in marker'[q].rows
                    IN  /\ quota'[row].cost[q] = IF due THEN marker'[q].cost ELSE 0
                        /\ quota'[row].count[q] = IF due THEN 1 ELSE 0
  BY DEF DebitMatchesMarker
<1>0. c \in Nat /\ quota[row] \in LaneRow
  BY ChargeType DEF TypeOK
<1>1. CASE q = r
  <2>1. quota[row].cost[r] = 0 /\ quota[row].count[r] = 0
    BY DEF DebitMatchesMarker, Charging
  <2>2. marker'[r] = [state |-> "settled", cost |-> c, rows |-> L]
    BY DEF Charging, TypeOK
  <2>3. CASE row \in L
    BY <1>0, <1>1, <2>1, <2>2, <2>3 DEF Charging, Debited, LaneRow
  <2>4. CASE row \notin L
    BY <1>0, <1>1, <2>1, <2>2, <2>4 DEF Charging
  <2> QED BY <2>3, <2>4
<1>2. CASE q # r
  <2>1. marker'[q] = marker[q]
    BY <1>2 DEF Charging, TypeOK
  <2>2. quota'[row].cost[q] = quota[row].cost[q] /\ quota'[row].count[q] = quota[row].count[q]
    BY <1>0, <1>2 DEF Charging, Debited, LaneRow
  <2> QED BY <2>1, <2>2 DEF DebitMatchesMarker
<1> QED BY <1>1, <1>2

\* Charging makes the other actors' readings older, never newer.
LEMMA ChargingCoherent ==
    ASSUME TypeOK, SnapCoherent, NEW a \in Actors, Alone(a), pc'[a] # "settle_cas",
           NEW r \in Requests, NEW c \in Charges, NEW L \in SUBSET Rows, Charging(r, c, L)
    PROVE  SnapCoherent'
<1> SUFFICES ASSUME NEW b \in Actors, pc'[b] = "settle_cas", NEW row \in Rows
             PROVE  /\ snap'[b].quota[row].ver <= quota'[row].ver
                    /\ snap'[b].quota[row].ver = quota'[row].ver
                         => snap'[b].quota[row] = quota'[row]
  BY DEF SnapCoherent
<1>1. pc[b] = "settle_cas" /\ snap'[b] = snap[b]
  BY DEF Alone
<1>2. snap[b].quota[row].ver \in Nat /\ quota[row].ver \in Nat
  BY DEF TypeOK, Snap, LaneRow
<1>3. quota'[row] = quota[row] \/ quota'[row].ver = quota[row].ver + 1
  BY DEF Charging, Debited
<1>4. /\ snap[b].quota[row].ver <= quota[row].ver
      /\ snap[b].quota[row].ver = quota[row].ver => snap[b].quota[row] = quota[row]
  BY <1>1 DEF SnapCoherent
<1> QED BY <1>1, <1>2, <1>3, <1>4

\* The inductive invariant holds at first
LEMMA SettleInvInit == Init => SettleInv
<1> SUFFICES ASSUME Init PROVE SettleInv
  OBVIOUS
<1>1. DebitMatchesMarker
  BY DEF Init, DebitMatchesMarker, EmptyLane, NoMarker
<1>2. SnapCoherent
  BY DEF Init, SnapCoherent
<1> QED BY <1>1, <1>2, TypeInit, ArgsInit DEF SettleInv

\* ... and is kept by every step.
LEMMA SettleInvNext ==
    ASSUME ~PhantomInserts
    PROVE  SettleInv /\ [Next]_vars => SettleInv'
<1> SUFFICES ASSUME SettleInv, [Next]_vars PROVE SettleInv'
  OBVIOUS
<1>1. TypeOK' /\ SettleArgs'
  BY TypeNext, ArgsNext DEF SettleInv
<1>2. DebitMatchesMarker' /\ SnapCoherent'
  <2>1. CASE Quiet
    BY <2>1 DEF Quiet, SettleInv, DebitMatchesMarker, SnapCoherent
  <2>2. ASSUME NEW a \in Actors, Alone(a), SettleMarker(a)
        PROVE  DebitMatchesMarker' /\ SnapCoherent'
    <3>1. UNCHANGED <<quota, marker>>
      BY <2>2 DEF SettleMarker, storeVars
    <3>2. pc'[a] = "settle_cas" => snap'[a].quota = quota
      BY <2>2 DEF SettleMarker, SettleInv, TypeOK, Goto, Snap
    <3>3. \A row \in Rows : quota[row].ver \in Nat
      BY DEF SettleInv, TypeOK, LaneRow
    <3> QED BY <2>2, <3>1, <3>2, <3>3
      DEF Alone, SettleInv, DebitMatchesMarker, SnapCoherent
  <2>3. ASSUME NEW a \in Actors, Alone(a), SettleWrites(a)
        PROVE  DebitMatchesMarker' /\ SnapCoherent'
    <3>1. PICK r \in Requests, c \in Charges, L \in SUBSET Rows : Charging(r, c, L)
      BY <2>3, SettleWriteCharges
    <3> QED BY <2>3, <3>1, ChargingDebits, ChargingCoherent DEF SettleInv, SettleWrites
  <2> QED BY <2>1, <2>2, <2>3, NextCases DEF SettleInv
<1> QED BY <1>1, <1>2 DEF SettleInv

\* Where the store rejects every stale compare, a settled request has been
\* debited exactly once, at one cost, on exactly the rows its marker names (its
\* lanes in the periods of settling), and no other request has been debited
\* anywhere, whatever the interleaving of gateway processes, retries, operators,
\* ends of periods, exceptions and crashes.
THEOREM DebitCorrect ==
    ASSUME ~PhantomInserts
    PROVE  Spec => []DebitMatchesMarker
<1>1. Init => SettleInv
  BY SettleInvInit
<1>2. SettleInv /\ [Next]_vars => SettleInv'
  BY SettleInvNext
<1>3. SettleInv => DebitMatchesMarker
  BY DEF SettleInv
<1> QED BY <1>1, <1>2, <1>3, PTL DEF Spec

\* Comparing sequence numbers is comparing rows: no actor about to settle holds
\* a usage row newer than the stored one, or another row of the same version.
THEOREM CoherentCorrect ==
    ASSUME ~PhantomInserts
    PROVE  Spec => []SnapCoherent
<1>1. Init => SettleInv
  BY SettleInvInit
<1>2. SettleInv /\ [Next]_vars => SettleInv'
  BY SettleInvNext
<1>3. SettleInv => SnapCoherent
  BY DEF SettleInv
<1> QED BY <1>1, <1>2, <1>3, PTL DEF Spec

-----------------------------------------------------------------------------
(* Settlement implements SettlementLedger.                                 *)

\* Initial states map to initial states of the abstract ledger,
LEMMA LedgerInit == Init => Ledger!Init
BY DEF Init, Ledger!Init, EmptyLane, NoMarker

\* ... and a step maps to one settlement or to none.
LEMMA LedgerStep ==
    ASSUME ~PhantomInserts, SettleInv, [Next]_vars
    PROVE  [Ledger!Next]_(Ledger!vars)
<1>1. CASE UNCHANGED <<quota, marker>>
  BY <1>1 DEF Ledger!vars
<1>2. ASSUME NEW r \in Requests, NEW c \in Charges, NEW L \in SUBSET Rows, Charging(r, c, L)
      PROVE  Ledger!Next
  <2>1. marker \in [Requests -> Marker] /\ quota \in [Rows -> LaneRow]
    BY DEF SettleInv, TypeOK
  <2>2. {q \in Requests : marker'[q].state = "settled"}
          = {q \in Requests : marker[q].state = "settled"} \union {r}
    BY <1>2, <2>1 DEF Charging
  <2>3. r \notin {q \in Requests : marker[q].state = "settled"}
    BY <1>2 DEF Charging
  <2>4. ASSUME NEW row \in Rows
        PROVE  quota'[row].cost = IF row \in L THEN [quota[row].cost EXCEPT ![r] = c]
                                           ELSE quota[row].cost
    <3>1. quota[row].cost[r] = 0
      BY <1>2 DEF SettleInv, DebitMatchesMarker, Charging
    <3>2. 0 + c = c
      BY ChargeType
    <3>3. quota[row].cost \in [Requests -> Nat]
      BY <2>1 DEF LaneRow
    <3> QED BY <1>2, <3>1, <3>2, <3>3 DEF Charging, Debited
  <2>5. [row \in Rows |-> quota'[row].cost]
          = [row \in Rows |-> IF row \in L
                             THEN [[k \in Rows |-> quota[k].cost][row] EXCEPT ![r] = c]
                             ELSE [k \in Rows |-> quota[k].cost][row]]
    BY <2>4
  <2>6. Ledger!Settle(r, c, L)
    BY <2>2, <2>3, <2>5 DEF Ledger!Settle
  <2> QED BY <2>6 DEF Ledger!Next
<1>3. ASSUME NEW a \in Actors, SettleWrites(a) PROVE Ledger!Next
  BY <1>2, <1>3, SettleWriteCharges
<1>4. ASSUME NEW a \in Actors, SettleMarker(a) PROVE UNCHANGED <<quota, marker>>
  BY <1>4 DEF SettleMarker, storeVars
<1> QED BY <1>1, <1>3, <1>4, NextCases DEF SettleInv, Quiet

\* settle_reservation is atomic, happens at most once per request and is never
\* undone: every behaviour of the processes is one of the abstract ledger.
THEOREM SettlementRefines ==
    ASSUME ~PhantomInserts
    PROVE  Spec => LedgerSpec
<1>1. Init => SettleInv
  BY SettleInvInit
<1>2. SettleInv /\ [Next]_vars => SettleInv'
  BY SettleInvNext
<1>3. SettleInv /\ [Next]_vars => [Ledger!Next]_(Ledger!vars)
  BY LedgerStep
<1> QED BY <1>1, <1>2, <1>3, LedgerInit, PTL DEF Spec, LedgerSpec, Ledger!Spec

-----------------------------------------------------------------------------
(* Refused requests.                                                       *)

\* A request that has not been admitted is known to no row, to no other
\* actor's reading of the reservations and to no operator.
NotAdmitted == {"new", "reserve_read", "reserve_check", "reserve_seq", "reserve_cas",
                "refused"}

Unknown(r) ==
    /\ marker[r].state = "absent"
    /\ ledger[r] = 0
    /\ table.res[r].state = "none"

Untouched ==
    \A r \in Requests : pc[r] \in NotAdmitted =>
        /\ Unknown(r)
        /\ \A b \in Actors \ {r} : snap[b].table.res[r].state = "none"
        /\ \A o \in Operators : frame[o].rid # r

\* A step of a spares the requests that are not admitted.
Spares(a) ==
    \A r \in Requests \ {a} : pc[r] \in NotAdmitted =>
        /\ Unknown(r)'
        /\ snap'[a].table.res[r].state = "none"
        /\ a \in Operators => frame'[a].rid # r

\* A step of a request that stays unadmitted writes nothing.
Harmless(a) ==
    a \in Requests /\ pc'[a] \in NotAdmitted =>
        pc[a] \in NotAdmitted /\ UNCHANGED <<table, marker, ledger>>

\* Untouched is kept by a step that spares the others and, where its own
\* request stays unadmitted, writes nothing.
LEMMA UntouchedKept ==
    ASSUME Untouched, NEW a \in Actors, Alone(a), Spares(a), Harmless(a)
    PROVE  Untouched'
BY ConstantsAssumption DEF Untouched, Unknown, Alone, Spares, Harmless, Actors

\* What Untouched says of the others while a moves.
LEMMA Others ==
    ASSUME Untouched, NEW a \in Actors, NEW r \in Requests \ {a}, pc[r] \in NotAdmitted,
           pc[a] \in {"settle_read", "settle_marker", "settle_cas", "ledger", "repair"}
                      \/ a \in Operators
    PROVE  /\ Unknown(r)
           /\ snap[a].table.res[r].state = "none"
           /\ Rid(a) # r
BY DEF Untouched, Rid, Actors

\* Admission adds nobody else's entry to the reservations it writes back.
LEMMA SparesAdmission ==
    ASSUME TypeOK, Untouched, NEW r \in Requests, Alone(r), Admission(r)
    PROVE  Spares(r) /\ Harmless(r)
<1>0. r \in Actors /\ r \notin Operators
  BY ConstantsAssumption DEF Actors
<1>a. \A q \in Requests \ {r} : pc[q] \in NotAdmitted =>
        Unknown(q) /\ snap[r].table.res[q].state = "none"
  BY <1>0 DEF Untouched
<1>b. snap[r].table \in Table /\ table \in Table
  BY <1>0 DEF TypeOK, Snap
<1> USE DEF storeVars, Goto, Unknown, NotAdmitted
<1>1. CASE ReserveRead(r)
  <2>1. snap'[r].table.res = Prune(table.res)
    BY <1>0, <1>1 DEF ReserveRead, TypeOK, Snap, Table
  <2>2. \A q \in Requests : table.res[q].state = "none" => Prune(table.res)[q].state = "none"
    BY DEF Prune, NoEntry
  <2>3. UNCHANGED <<table, marker, ledger>> /\ pc[r] = "reserve_read"
    BY <1>1 DEF ReserveRead
  <2> QED BY <1>0, <1>a, <2>1, <2>2, <2>3 DEF Spares, Harmless
<1>2. CASE ReserveCheck(r)
  <2>1. \A q \in Requests \ {r} :
          snap'[r].table.res[q].state \in {snap[r].table.res[q].state, "none"}
    <3>1. CASE Forget(r)
      BY <1>0, <3>1 DEF Forget, NoSnap, EmptyTable, NoEntry, TypeOK
    <3>2. CASE snap' = [snap EXCEPT ![r].table.res[r].state = "reserved"]
      <4>1. snap'[r].table.res = [snap[r].table.res EXCEPT ![r] =
                                    [snap[r].table.res[r] EXCEPT !.state = "reserved"]]
        BY <1>0, <1>b, <3>2 DEF TypeOK, Snap, Table
      <4> QED BY <4>1
    <3> QED BY <1>2, <3>1, <3>2 DEF ReserveCheck
  <2>2. UNCHANGED <<table, marker, ledger>> /\ pc[r] = "reserve_check"
    BY <1>2 DEF ReserveCheck
  <2> QED BY <1>0, <1>a, <2>1, <2>2 DEF Spares, Harmless
<1>3. CASE ReserveSeq(r)
  <2>1. snap'[r].table.res = snap[r].table.res
    BY <1>0, <1>b, <1>3 DEF ReserveSeq, TypeOK, Snap, Table
  <2>2. UNCHANGED <<table, marker, ledger>> /\ pc[r] = "reserve_seq"
    BY <1>3 DEF ReserveSeq
  <2> QED BY <1>0, <1>a, <2>1, <2>2 DEF Spares, Harmless
<1>4. CASE ReserveCas(r)
  <2>1. snap'[r].table.res = [q \in Requests |-> NoEntry]
    BY <1>0, <1>4 DEF ReserveCas, Forget, NoSnap, EmptyTable, TypeOK
  <2>2. UNCHANGED <<marker, ledger>> /\ pc[r] = "reserve_cas"
    BY <1>4 DEF ReserveCas
  <2>3. UNCHANGED table \/ (table'.res = snap[r].table.res /\ pc'[r] = "admitted")
    BY <1>0, <1>4 DEF ReserveCas, WriteTable, TypeOK
  <2> QED BY <1>0, <1>a, <2>1, <2>2, <2>3 DEF Spares, Harmless, NoEntry
<1> QED BY <1>1, <1>2, <1>3, <1>4 DEF Admission

\* Nor does update_reservation.
LEMMA SparesUpdate ==
    ASSUME TypeOK, Untouched, NEW r \in Requests, Alone(r), Update(r)
    PROVE  Spares(r) /\ Harmless(r)
<1>0. r \in Actors /\ r \notin Operators /\ frame[r].next \in Nexts
  BY ConstantsAssumption DEF Actors, TypeOK, Frame
<1>a. \A q \in Requests \ {r} : pc[q] \in NotAdmitted =>
        Unknown(q) /\ snap[r].table.res[q].state = "none"
  BY <1>0 DEF Untouched
<1>b. snap[r].table \in Table /\ table \in Table
  BY <1>0 DEF TypeOK, Snap
<1> USE DEF storeVars, Goto, Unknown, NotAdmitted, Nexts
<1>1. CASE UpdRead(r)
  <2>1. \A q \in Requests \ {r} :
          snap'[r].table.res[q].state \in {snap[r].table.res[q].state, table.res[q].state}
    <3>1. CASE snap' = [snap EXCEPT ![r].table.res =
                          [table.res EXCEPT ![r].state = frame[r].goal]]
      <4>1. snap'[r].table.res = [table.res EXCEPT ![r] =
                                    [table.res[r] EXCEPT !.state = frame[r].goal]]
        BY <1>0, <1>b, <3>1 DEF TypeOK, Snap, Table
      <4> QED BY <1>b, <4>1 DEF Table
    <3> QED BY <1>1, <3>1 DEF UpdRead
  <2>2. UNCHANGED <<table, marker, ledger>> /\ pc'[r] \notin NotAdmitted
    BY <1>0, <1>1 DEF UpdRead, TypeOK
  <2> QED BY <1>0, <1>a, <2>1, <2>2 DEF Spares, Harmless
<1>2. CASE UpdSeq(r)
  <2>1. snap'[r].table.res = snap[r].table.res
    BY <1>0, <1>b, <1>2 DEF UpdSeq, TypeOK, Snap, Table
  <2>2. UNCHANGED <<table, marker, ledger>> /\ pc'[r] \notin NotAdmitted
    BY <1>0, <1>2 DEF UpdSeq, TypeOK
  <2> QED BY <1>0, <1>a, <2>1, <2>2 DEF Spares, Harmless
<1>3. CASE UpdCas(r)
  <2>1. snap'[r].table.res = [q \in Requests |-> NoEntry]
    BY <1>0, <1>3 DEF UpdCas, Forget, NoSnap, EmptyTable, TypeOK
  <2>2. UNCHANGED <<marker, ledger>> /\ pc'[r] \notin NotAdmitted
    BY <1>0, <1>3 DEF UpdCas, TypeOK
  <2>3. UNCHANGED table \/ table'.res = snap[r].table.res
    BY <1>0, <1>3 DEF UpdCas, WriteTable, TypeOK
  <2> QED BY <1>0, <1>a, <2>1, <2>2, <2>3 DEF Spares, Harmless, NoEntry
<1> QED BY <1>1, <1>2, <1>3 DEF Update

\* Settlement writes the rows of its own request only.
LEMMA SparesSettlement ==
    ASSUME TypeOK, Untouched, NEW a \in Actors, Alone(a), Settlement(a)
    PROVE  Spares(a) /\ Harmless(a)
<1> USE DEF storeVars, Goto, Unknown, NotAdmitted
<1>0. pc[a] \in {"settle_read", "settle_marker", "settle_cas", "ledger", "repair"}
  BY DEF Settlement, SettleRead, SettleMarker, SettleCas, LedgerAppend, LedgerLost
<1>1. pc'[a] \notin NotAdmitted /\ frame' = frame
  BY
    DEF Settlement, SettleRead, SettleMarker, SettleCas, LedgerAppend, LedgerLost,
       TypeOK
<1>2. SUFFICES ASSUME NEW r \in Requests \ {a}, pc[r] \in NotAdmitted
               PROVE  Unknown(r)' /\ snap'[a].table.res[r].state = "none"
  BY <1>0, <1>1, Others DEF Spares, Harmless, Rid
<1>3. /\ Unknown(r)
      /\ snap[a].table.res[r].state = "none"
      /\ Rid(a) # r
  BY <1>0, <1>2, Others
<1>4. CASE SettleRead(a)
  BY <1>3, <1>4 DEF SettleRead, TypeOK, Snap
<1>5. CASE SettleMarker(a)
  <2>1. UNCHANGED <<table, marker, ledger>>
    BY <1>5 DEF SettleMarker
  <2>2. ASSUME Forget(a) PROVE snap'[a].table.res[r].state = "none"
    BY <2>2 DEF Forget, NoSnap, EmptyTable, NoEntry, TypeOK
  <2>3. ASSUME snap' = [snap EXCEPT ![a].quota = quota]
        PROVE  snap'[a].table.res[r].state = "none"
    <3>1. snap'[a].table = snap[a].table
      BY <2>3 DEF TypeOK, Snap
    <3> QED BY <1>3, <3>1
  <2>4. snap'[a].table.res[r].state = "none"
    BY <1>5, <2>2, <2>3 DEF SettleMarker
  <2> QED BY <1>3, <2>1, <2>4
<1>6. CASE SettleCas(a)
  <2>1. snap'[a].table.res[r].state = "none"
    BY <1>6 DEF SettleCas, Forget, NoSnap, EmptyTable, NoEntry, TypeOK
  <2>2. ledger' = ledger
    BY <1>6 DEF SettleCas
  <2>3. marker'[r].state = "absent"
    BY <1>3, <1>6 DEF SettleCas, SettleWrite, TypeOK
  <2>4. table'.res[r].state = "none"
    <3>1. CASE table' = table
      BY <1>3, <3>1
    <3>2. CASE table' = [ver |-> snap[a].table.ver + 1,
                         res |-> [snap[a].table.res EXCEPT ![Rid(a)].state = "settled"]]
      <4>1. snap[a].table.res \in [Requests -> Entry]
        BY DEF TypeOK, Snap, Table
      <4> DEFINE e == [snap[a].table.res[Rid(a)] EXCEPT !.state = "settled"]
      <4>2. table'.res = [snap[a].table.res EXCEPT ![Rid(a)] = e]
        BY <3>2
      <4> HIDE DEF e
      <4>3. table'.res[r] = snap[a].table.res[r]
        BY <1>2, <1>3, <4>1, <4>2
      <4> QED BY <1>3, <4>3
    <3> QED BY <1>6, <3>1, <3>2 DEF SettleCas, SettleWrite
  <2> QED BY <1>3, <2>1, <2>2, <2>3, <2>4
<1>7. CASE LedgerAppend(a)
  BY <1>3, <1>7 DEF LedgerAppend, TypeOK
<1>8. CASE LedgerLost(a)
  BY <1>3, <1>8 DEF LedgerLost
<1> QED BY <1>4, <1>5, <1>6, <1>7, <1>8 DEF Settlement

\* The gateway's other steps write no row.
LEMMA SparesGateway ==
    ASSUME TypeOK, Untouched, NEW r \in Requests, Alone(r), Gateway(r) \/ Abandoned(r)
    PROVE  Spares(r) /\ Harmless(r)
<1>0. r \in Actors /\ r \notin Operators
  BY ConstantsAssumption DEF Actors
<1>1. UNCHANGED <<table, marker, ledger, snap>> /\ pc'[r] \notin NotAdmitted
  BY <1>0 DEF Gateway, SecretDenied, DryRun, Forward, Answered, Rejected,
     ForwardStream, Opened, OpenFailed, FirstChunk, StreamEnd, Finalize, Settled,
     Unsettled, UnsettledStream, Abandoned, storeVars, Goto, CallUpdate, CallSettle,
     TypeOK, NotAdmitted
<1> QED BY <1>0, <1>1 DEF Spares, Harmless, Untouched, Unknown

\* An exception writes no row.
LEMMA SparesBreaks ==
    ASSUME TypeOK, Untouched, NEW r \in Requests, Alone(r), Breaks(r)
    PROVE  Spares(r) /\ Harmless(r)
<1>0. r \in Actors /\ r \notin Operators
  BY ConstantsAssumption DEF Actors
<1>1. UNCHANGED <<table, marker, ledger>> /\ pc'[r] \notin NotAdmitted
  BY BreakFacts DEF storeVars, NotAdmitted
<1>2. \A q \in Requests : snap[r].table.res[q].state = "none" => snap'[r].table.res[q].state = "none"
  BY BreakFacts DEF NoSnap, EmptyTable, NoEntry
<1> QED BY <1>0, <1>1, <1>2 DEF Spares, Harmless, Untouched, Unknown

\* An operator acts only on entries it has read, and refused requests have none.
LEMMA SparesOperator ==
    ASSUME TypeOK, Untouched, NEW o \in Operators, Alone(o), Operator(o), ~Settlement(o)
    PROVE  Spares(o) /\ Harmless(o)
<1>0. o \in Actors /\ o \notin Requests
  BY ConstantsAssumption DEF Actors
<1>1. SUFFICES ASSUME NEW r \in Requests, pc[r] \in NotAdmitted
               PROVE  /\ Unknown(r)'
                      /\ snap'[o].table.res[r].state = "none"
                      /\ frame'[o].rid # r
  BY <1>0 DEF Spares, Harmless
<1>2. /\ Unknown(r)
      /\ snap[o].table.res[r].state = "none"
      /\ frame[o].rid # r
  BY <1>0, <1>1, Others DEF Rid
<1> USE DEF storeVars, Unknown
<1>3. /\ snap[o].table \in Table /\ table \in Table
      /\ NoFrame.rid # r
      /\ NoSnap.table.res[r].state = "none"
  BY <1>0, ConstantsAssumption DEF TypeOK, Snap, NoFrame, NoSnap, EmptyTable, NoEntry
<1>4. CASE ExpireRead(o)
  <2>1. ~Stale(r)
    BY <1>2 DEF Stale
  <2>2. snap'[o].table.res[r] = table.res[r]
    BY <1>0, <1>3, <1>4, <2>1 DEF ExpireRead, TypeOK, Snap, Table
  <2> QED BY <1>2, <1>4, <2>2 DEF ExpireRead
<1>5. CASE Ask(o)
  BY <1>0, <1>2, <1>5 DEF Ask, TypeOK, Frame
<1>6. CASE Answer(o)
  <2>1. frame'[o].rid \in {frame[o].rid, NoFrame.rid}
    BY <1>0, <1>6 DEF Answer, Return, CallSettle, TypeOK, Frame
  <2>2. snap' = snap \/ \E e \in [state : {"released", "uncertain"}, reconciled : BOOLEAN] :
          snap' = [snap EXCEPT ![o].table = [table EXCEPT !.res[frame[o].rid] = e]]
    BY <1>6 DEF Answer
  <2>3. snap'[o].table.res[r].state = "none"
    BY <1>0, <1>2, <1>3, <2>2 DEF TypeOK, Snap, Table
  <2> QED BY <1>2, <1>3, <1>6, <2>1, <2>3 DEF Answer
<1>7. CASE Annotate(o)
  <2>1. snap'[o].table.res[r] = table.res[r]
    BY <1>0, <1>2, <1>3, <1>7 DEF Annotate, TypeOK, Snap, Table
  <2> QED BY <1>2, <1>7, <2>1 DEF Annotate
<1>8. CASE SettleGaveUp(o)
  BY <1>0, <1>2, <1>3, <1>8 DEF SettleGaveUp, Return, TypeOK
<1>9. CASE OpCas(o)
  <2>1. snap'[o].table.res[r].state = "none" /\ frame'[o].rid # r
    BY <1>0, <1>2, <1>3, <1>9 DEF OpCas, Forget, Return, TypeOK
  <2>2. table'.res[r].state = "none"
    BY <1>2, <1>9 DEF OpCas, WriteTable
  <2> QED BY <1>2, <1>9, <2>1, <2>2 DEF OpCas
<1>10. CASE OpSeq(o)
  <2>1. snap'[o].table.res = snap[o].table.res
    BY <1>0, <1>3, <1>10 DEF OpSeq, TypeOK, Snap, Table
  <2> QED BY <1>2, <1>10, <2>1 DEF OpSeq
<1> QED BY <1>4, <1>5, <1>6, <1>7, <1>8, <1>9, <1>10 DEF Operator

\* Untouched holds at first
LEMMA UntouchedInit == Init => Untouched
BY ConstantsAssumption
  DEF Init, Untouched, Unknown, NotAdmitted, NoMarker, EmptyTable, NoEntry, NoSnap,
     NoFrame, Actors

\* ... and is kept by every step.
LEMMA UntouchedNext == TypeOK /\ Untouched /\ [Next]_vars => Untouched'
<1> SUFFICES ASSUME TypeOK, Untouched, [Next]_vars PROVE Untouched'
  OBVIOUS
<1>1. CASE UNCHANGED vars
  BY <1>1 DEF vars, Untouched, Unknown
<1>2. ASSUME NEW r \in Requests, Request(r) \/ Abandoned(r) \/ Breaks(r) PROVE Untouched'
  <2>1. r \in Actors /\ Alone(r)
    BY <1>2, RequestAlone DEF Actors
  <2> QED BY <1>2, <2>1, UntouchedKept, SparesAdmission, SparesUpdate, SparesSettlement,
             SparesGateway, SparesBreaks DEF Request
<1>3. ASSUME NEW o \in Operators, Operator(o) PROVE Untouched'
  <2>1. o \in Actors /\ Alone(o)
    BY <1>3, OperatorAlone DEF Actors
  <2> QED BY <1>3, <2>1, UntouchedKept, SparesSettlement, SparesOperator
<1> USE DEF storeVars
<1>4. ASSUME NEW w \in Workers, NEW r \in Requests, Check(w, r) PROVE Untouched'
  <2>1. \A q \in Requests : pc'[q] \in NotAdmitted => pc[q] \in NotAdmitted
    BY <1>4 DEF Check, Goto, TypeOK, NotAdmitted, Actors
  <2> QED BY <1>4, <2>1 DEF Check, Untouched, Unknown
<1>5. ASSUME NEW r \in Requests, TtlPasses(r) PROVE Untouched'
  BY <1>5 DEF TtlPasses, Untouched, Unknown
<1>8. ASSUME NEW l \in Lanes, NewPeriod(l) PROVE Untouched'
  BY <1>8 DEF NewPeriod, Untouched, Unknown
<1>6. ASSUME NEW w \in Workers, CrashWorker(w) PROVE Untouched'
  <2>1. UNCHANGED storeVars
    BY <1>6 DEF CrashWorker, Restart
  <2>2. \A q \in Requests : pc'[q] \in NotAdmitted => pc[q] \in NotAdmitted
    BY <1>6 DEF CrashWorker, NotAdmitted, Actors
  <2>3. \A b \in Actors, q \in Requests :
          snap[b].table.res[q].state = "none" => snap'[b].table.res[q].state = "none"
    BY <1>6 DEF CrashWorker, NoSnap, EmptyTable, NoEntry
  <2>4. \A o \in Operators : frame'[o] = frame[o]
    BY <1>6, ConstantsAssumption DEF CrashWorker, Lost, Actors
  <2> QED BY <2>1, <2>2, <2>3, <2>4 DEF Untouched, Unknown
<1>7. ASSUME NEW o \in Operators, CrashOperator(o) PROVE Untouched'
  <2>1. o \in Actors /\ o \notin Requests /\ Alone(o)
    BY <1>7, ConstantsAssumption DEF CrashOperator, Goto, Forget, Return, Alone, Actors
  <2>2. Spares(o) /\ Harmless(o)
    <3>1. /\ UNCHANGED storeVars
          /\ snap'[o] = NoSnap /\ frame'[o] = NoFrame
      BY <1>7, <2>1 DEF CrashOperator, Restart, Forget, Return, TypeOK
    <3> QED BY <2>1, <3>1, ConstantsAssumption
        DEF Spares, Harmless, Untouched, Unknown, NoSnap, NoFrame, EmptyTable, NoEntry
  <2> QED BY <2>1, <2>2, UntouchedKept
<1> QED BY <1>1, <1>2, <1>3, <1>4, <1>5, <1>6, <1>7, <1>8 DEF Next, Breaks

\* Denied calls do not debit quota: a refused request is in no row, however
\* the processes interleave, crash, retry and reconcile, and even where the
\* store lets two inserts of one row pass.
THEOREM RefusedCorrect == Spec => []RefusedNeverCharged
<1>1. Init => TypeOK /\ SettleArgs /\ Untouched
  BY TypeInit, ArgsInit, UntouchedInit
<1>2. TypeOK /\ SettleArgs /\ Untouched /\ [Next]_vars => (TypeOK /\ SettleArgs /\ Untouched)'
  BY TypeNext, ArgsNext, UntouchedNext
<1>3. Untouched => RefusedNeverCharged
  BY DEF Untouched, Unknown, NotAdmitted, RefusedNeverCharged
<1> QED BY <1>1, <1>2, <1>3, PTL DEF Spec

\* One gateway process and no operator.
OneProcess == Operators = {} /\ \A v, w \in Workers : v = w

-----------------------------------------------------------------------------
(* One gateway process and no operator: the invariant.                     *)

\* Only a request that is served has a process.
Owned == \A r \in Requests : owner[r] = NoWorker <=> pc[r] = "new"

\* The process runs one synchronous section at a time.
OneAtATime == \A q, r \in Requests : pc[q] \in SyncSteps /\ pc[r] \in SyncSteps => q = r

\* What r has read of the rows is what they hold.
ReadsTrue(r) ==
    /\ pc[r] \in {"reserve_check", "reserve_seq", "reserve_cas"} =>
          \A q \in Requests \ {r} : snap[r].table.res[q] = Prune(table.res)[q]
    /\ pc[r] \in {"reserve_seq", "reserve_cas"} => snap[r].table.res[r].state = "reserved"
    /\ pc[r] \in {"upd_seq", "upd_cas"} =>
          /\ \A q \in Requests \ {r} : snap[r].table.res[q] = table.res[q]
          /\ snap[r].table.res[r].state = frame[r].goal
    /\ pc[r] \in {"settle_marker", "settle_cas"} => snap[r].table = table
    /\ pc[r] = "settle_cas" => snap[r].quota = quota /\ marker[r].state = "absent"

Updating == {"upd_read", "upd_seq", "upd_cas"}

\* A settlement never gives up, and a request does nothing after it is uncertain
\* or settled.
EndsOnce(r) ==
    /\ pc[r] \notin {"unsettled", "unsettled_stream"} /\ frame[r].next # "unsettled_stream"
    /\ frame[r].goal \in {"uncertain", "settled"} => frame[r].next = "done"
    /\ table.res[r].state = "uncertain" => pc[r] \in {"done", "crashed"}
    /\ marker[r].state = "settled" =>
          /\ table.res[r].state \in {"none", "settled"}
          /\ pc[r] \in {"ledger", "settled", "done", "crashed", "raised"} \union Updating
          /\ pc[r] \in Updating => frame[r].goal = "settled"

OneInv == Owned /\ OneAtATime /\ \A r \in Requests : ReadsTrue(r) /\ EndsOnce(r)

\* What a step of r does to the entries of the other requests.
OthersKept(r) ==
    \A q \in Requests \ {r} :
        /\ marker'[q] = marker[q]
        /\ \/ table'.res[q].state = table.res[q].state
           \/ table.res[q].state \in Final /\ table'.res[q].state = "none"

\* A step in a synchronous section, or one that leaves the rows as they are and
\* enters such a section only if nobody is in one.
InTurn(r) ==
    \/ pc[r] \in SyncSteps
    \/ /\ UNCHANGED <<table, quota, marker>>
       /\ pc'[r] \in SyncSteps => \A q \in Requests : pc[q] \notin SyncSteps

\* The invariant is kept by a step of r that keeps r's own part.
LEMMA OneKept ==
    ASSUME OneInv, NEW r \in Requests, Alone(r), Owned', OthersKept(r), InTurn(r),
           ReadsTrue(r)', EndsOnce(r)'
    PROVE  OneInv'
<1>1. \A q \in Requests \ {r} : pc'[q] = pc[q] /\ frame'[q] = frame[q] /\ snap'[q] = snap[q]
  BY DEF Alone, Actors
<1>2. OneAtATime'
  BY <1>1 DEF OneInv, OneAtATime, InTurn
<1>3. ASSUME NEW q \in Requests \ {r}
      PROVE  ReadsTrue(q)'
  <2>1. CASE pc[r] \in SyncSteps
    <3>1. pc[q] \notin SyncSteps
      BY <2>1 DEF OneInv, OneAtATime
    <3> QED
      BY <1>1, <3>1 DEF ReadsTrue, SyncSteps
  <2>2. CASE UNCHANGED <<table, quota, marker>>
    BY <1>1, <2>2 DEF OneInv, ReadsTrue
  <2> QED
    BY <2>1, <2>2 DEF InTurn
<1>4. ASSUME NEW q \in Requests \ {r}
      PROVE  EndsOnce(q)'
  <2>1. EndsOnce(q)
    BY DEF OneInv
  <2>2. /\ marker'[q] = marker[q]
        /\ table'.res[q].state = "uncertain" => table.res[q].state = "uncertain"
        /\ table.res[q].state \in {"none", "settled"} => table'.res[q].state \in {"none", "settled"}
    BY DEF OthersKept
  <2> QED
    BY <1>1, <2>1, <2>2 DEF EndsOnce
<1> QED
  BY <1>2, <1>3, <1>4 DEF OneInv

\* While nobody is in a synchronous section another one can be entered.
LEMMA FreeFacts ==
    ASSUME TypeOK, OneProcess, OneInv, NEW w \in Workers, Free(w), NEW q \in Requests
    PROVE  pc[q] \notin SyncSteps
<1>1. pc[q] \in AwaitSteps
  BY ConstantsAssumption DEF OneProcess, OneInv, Owned, Free, AwaitSteps, TypeOK
<1> QED
  BY <1>1 DEF AwaitSteps, SyncSteps

\* Admission writes the entries it has read, without the final ones.
LEMMA OneAdmission ==
    ASSUME TypeOK, Untouched, OneProcess, OneInv, NEW r \in Requests, Admission(r)
    PROVE  OthersKept(r) /\ InTurn(r) /\ ReadsTrue(r)' /\ EndsOnce(r)'
<1>1. r \in Actors /\ snap[r] \in Snap /\ snap[r].table \in Table /\ table \in Table
  BY DEF Actors, TypeOK, Snap
<1>2. pc[r] \in {"reserve_read", "reserve_check", "reserve_seq", "reserve_cas"}
  BY DEF Admission, ReserveRead, ReserveCheck, ReserveSeq, ReserveCas
<1>3. /\ marker[r].state = "absent" /\ UNCHANGED <<quota, marker, frame>>
      /\ table.res[r].state = "none" /\ pc[r] \in SyncSteps
      /\ frame[r].next # "unsettled_stream"
      /\ frame[r].goal \in {"uncertain", "settled"} => frame[r].next = "done"
  BY <1>2 DEF Admission, ReserveRead, ReserveCheck, ReserveSeq, ReserveCas, storeVars,
              Untouched, Unknown, NotAdmitted, SyncSteps, OneInv, EndsOnce
<1>4. CASE ReserveRead(r)
  <2>1. snap'[r].table.res = Prune(table.res) /\ pc'[r] = "reserve_check" /\ UNCHANGED table
    BY <1>1, <1>4 DEF ReserveRead, Goto, TypeOK, Snap, Table, storeVars
  <2> QED
    BY <1>3, <2>1 DEF OthersKept, InTurn, ReadsTrue, EndsOnce
<1>5. CASE ReserveCheck(r)
  <2>1. UNCHANGED table /\ pc'[r] \in {"reserve_seq", "refused"}
    BY <1>1, <1>5 DEF ReserveCheck, Goto, TypeOK, storeVars
  <2>2. ASSUME pc'[r] = "reserve_seq"
        PROVE  snap'[r].table.res =
                  [snap[r].table.res EXCEPT ![r] = [snap[r].table.res[r] EXCEPT !.state = "reserved"]]
    <3>1. snap' = [snap EXCEPT ![r].table.res[r].state = "reserved"]
      BY <1>1, <1>5, <2>2 DEF ReserveCheck, Goto, TypeOK
    <3> QED
      BY <1>1, <3>1 DEF TypeOK, Snap, Table
  <2>3. \A q \in Requests \ {r} : snap[r].table.res[q] = Prune(table.res)[q]
    BY <1>5 DEF ReserveCheck, OneInv, ReadsTrue
  <2>4. pc'[r] = "reserve_seq" => /\ \A q \in Requests \ {r} : snap'[r].table.res[q] = snap[r].table.res[q]
                                  /\ snap'[r].table.res[r].state = "reserved"
    BY <1>1, <2>2 DEF Table, Entry
  <2> QED
    BY <1>3, <2>1, <2>3, <2>4 DEF OthersKept, InTurn, ReadsTrue, EndsOnce
<1>6. CASE ReserveSeq(r)
  <2>1. /\ snap'[r].table.res = snap[r].table.res /\ pc'[r] = "reserve_cas" /\ UNCHANGED table
        /\ pc[r] = "reserve_seq"
    BY <1>1, <1>6 DEF ReserveSeq, Goto, TypeOK, Snap, Table, storeVars
  <2> QED
    BY <1>3, <2>1 DEF OthersKept, InTurn, ReadsTrue, EndsOnce, OneInv
<1>7. CASE ReserveCas(r)
  <2>1. pc[r] = "reserve_cas" /\ pc'[r] \in {"admitted", "reserve_read", "refused"}
    BY <1>1, <1>7 DEF ReserveCas, Goto, TypeOK
  <2>2. UNCHANGED table \/ table'.res = snap[r].table.res
    BY <1>7 DEF ReserveCas, WriteTable
  <2>3. /\ \A q \in Requests \ {r} : snap[r].table.res[q] = Prune(table.res)[q]
        /\ snap[r].table.res[r].state = "reserved"
    BY <2>1 DEF OneInv, ReadsTrue
  <2>4. \A q \in Requests : \/ Prune(table.res)[q].state = table.res[q].state
                            \/ table.res[q].state \in Final /\ Prune(table.res)[q].state = "none"
    BY DEF Prune, NoEntry
  <2>5. OthersKept(r)
    BY <1>3, <2>2, <2>3, <2>4 DEF OthersKept
  <2> QED
    BY <1>3, <2>1, <2>2, <2>3, <2>5 DEF InTurn, ReadsTrue, EndsOnce
<1> QED
  BY <1>4, <1>5, <1>6, <1>7 DEF Admission

\* update_reservation writes the entries it has read, and its own goal.
LEMMA OneUpdate ==
    ASSUME TypeOK, OneProcess, OneInv, NEW r \in Requests, Update(r)
    PROVE  OthersKept(r) /\ InTurn(r) /\ ReadsTrue(r)' /\ EndsOnce(r)'
<1>1. r \in Actors /\ snap[r] \in Snap /\ snap[r].table \in Table /\ table \in Table
      /\ frame[r] \in Frame
  BY DEF Actors, TypeOK, Snap
<1>2. /\ pc[r] \in Updating /\ UNCHANGED <<quota, marker>> /\ pc[r] \in SyncSteps
      /\ EndsOnce(r)
  BY DEF Update, UpdRead, UpdSeq, UpdCas, Updating, SyncSteps, storeVars, OneInv
<1>3. frame[r].next \in {"opening", "relaying", "eof", "done"}
  BY <1>1, <1>2 DEF Frame, Nexts, EndsOnce
<1>4. ASSUME frame'[r] = NoFrame, pc'[r] = frame[r].next,
             \/ UNCHANGED table
             \/ table'.res[r].state = frame[r].goal
      PROVE  ReadsTrue(r)' /\ EndsOnce(r)'
  <2>1. ReadsTrue(r)'
    BY <1>3, <1>4 DEF ReadsTrue
  <2>2. marker[r].state = "settled" => frame[r].goal = "settled" /\ frame[r].next = "done"
    BY <1>2 DEF EndsOnce
  <2>3. ~(table.res[r].state = "uncertain")
    BY <1>2 DEF EndsOnce, Updating
  <2>4. table'.res[r].state = "uncertain" => frame[r].next = "done"
    BY <1>2, <1>4, <2>3 DEF EndsOnce
  <2>5. marker'[r].state = "settled" => table'.res[r].state \in {"none", "settled"} /\ pc'[r] = "done"
    BY <1>2, <1>4, <2>2 DEF EndsOnce
  <2>6. /\ pc'[r] \in {"opening", "relaying", "eof", "done"} /\ frame'[r].next = "done"
        /\ table'.res[r].state = "uncertain" => pc'[r] = "done"
    BY <1>3, <1>4, <2>4 DEF NoFrame
  <2>7. pc'[r] \notin {"unsettled", "unsettled_stream"} /\ pc'[r] \notin Updating
    BY <2>6 DEF Updating
  <2> QED
    BY <2>1, <2>5, <2>6, <2>7 DEF EndsOnce
<1>5. CASE UpdRead(r)
  <2>1. CASE table.res[r].state = "none"
    <3>1. frame'[r] = NoFrame /\ pc'[r] = frame[r].next /\ UNCHANGED table
      BY <1>1, <1>5, <2>1 DEF UpdRead, Goto, Return, TypeOK, storeVars
    <3> QED
      BY <1>2, <1>4, <3>1 DEF OthersKept, InTurn
  <2>2. CASE table.res[r].state # "none"
    <3>1. /\ snap'[r].table.res = [table.res EXCEPT ![r] = [table.res[r] EXCEPT !.state = frame[r].goal]]
          /\ pc'[r] = "upd_seq" /\ UNCHANGED <<table, frame>>
      <4>1. /\ snap' = [snap EXCEPT ![r].table.res =
                          [table.res EXCEPT ![r].state = frame[r].goal]]
            /\ pc' = [pc EXCEPT ![r] = "upd_seq"] /\ UNCHANGED <<table, frame>>
        BY <1>5, <2>2 DEF UpdRead, Goto, storeVars
      <4>2. snap'[r].table.res = [table.res EXCEPT ![r].state = frame[r].goal]
        BY <1>1, <4>1 DEF TypeOK, Snap, Table
      <4>3. pc'[r] = "upd_seq"
        BY <1>1, <4>1 DEF TypeOK
      <4> QED
        BY <4>1, <4>2, <4>3
    <3>2. /\ \A q \in Requests \ {r} : snap'[r].table.res[q] = table.res[q]
          /\ snap'[r].table.res[r].state = frame[r].goal
      BY <1>1, <3>1 DEF Table, Entry
    <3> QED
      BY <1>2, <3>1, <3>2 DEF OthersKept, InTurn, ReadsTrue, EndsOnce, Updating
  <2> QED
    BY <2>1, <2>2
<1>6. CASE UpdSeq(r)
  <2>1. /\ snap'[r].table.res = snap[r].table.res /\ pc'[r] = "upd_cas" /\ pc[r] = "upd_seq"
        /\ UNCHANGED <<table, frame>>
    BY <1>1, <1>6 DEF UpdSeq, Goto, TypeOK, Snap, Table, storeVars
  <2>2. /\ \A q \in Requests \ {r} : snap[r].table.res[q] = table.res[q]
        /\ snap[r].table.res[r].state = frame[r].goal
    BY <2>1 DEF OneInv, ReadsTrue
  <2> QED
    BY <1>2, <2>1, <2>2 DEF OthersKept, InTurn, ReadsTrue, EndsOnce, Updating
<1>7. CASE UpdCas(r)
  <2>1. frame'[r] = NoFrame /\ pc'[r] = frame[r].next /\ pc[r] = "upd_cas"
    BY <1>1, <1>7 DEF UpdCas, Goto, Return, TypeOK
  <2>2. UNCHANGED table \/ table'.res = snap[r].table.res
    BY <1>7 DEF UpdCas, WriteTable
  <2>3. /\ \A q \in Requests \ {r} : snap[r].table.res[q] = table.res[q]
        /\ snap[r].table.res[r].state = frame[r].goal
    BY <2>1 DEF OneInv, ReadsTrue
  <2> QED
    BY <1>2, <1>4, <2>1, <2>2, <2>3 DEF OthersKept, InTurn
<1> QED
  BY <1>5, <1>6, <1>7 DEF Update

\* A settlement finds the rows as it has read them.
LEMMA OneSettlement ==
    ASSUME TypeOK, OneProcess, OneInv, NEW r \in Requests, Settlement(r)
    PROVE  OthersKept(r) /\ InTurn(r) /\ ReadsTrue(r)' /\ EndsOnce(r)'
<1>1. /\ r \in Actors /\ r \notin Operators /\ Rid(r) = r
      /\ snap[r] \in Snap /\ snap[r].table \in Table /\ table \in Table
      /\ EndsOnce(r) /\ ReadsTrue(r)
  BY DEF Actors, TypeOK, Snap, Rid, OneProcess, OneInv
<1>2. /\ pc[r] \in {"settle_read", "settle_marker", "settle_cas", "ledger", "repair"}
      /\ UNCHANGED frame
  BY DEF Settlement, SettleRead, SettleMarker, SettleCas, LedgerAppend, LedgerLost
<1>3. /\ pc[r] \in SyncSteps /\ table.res[r].state # "uncertain"
      /\ marker[r].state = "settled" => pc[r] = "ledger"
  BY <1>1, <1>2 DEF SyncSteps, EndsOnce, Updating
<1>4. CASE SettleRead(r)
  <2>1. UNCHANGED <<table, quota, marker>> /\ pc[r] = "settle_read" /\ pc'[r] = "settle_marker"
    BY <1>1, <1>4 DEF SettleRead, Goto, TypeOK, storeVars
  <2>2. snap'[r].table = table
    BY <1>1, <1>4 DEF SettleRead, TypeOK, Snap
  <2> QED
    BY <1>1, <1>2, <1>3, <2>1, <2>2 DEF OthersKept, InTurn, ReadsTrue, EndsOnce
<1>5. CASE SettleMarker(r)
  <2>1. UNCHANGED <<table, quota, marker>> /\ pc[r] = "settle_marker"
    BY <1>5 DEF SettleMarker, storeVars
  <2>2. /\ marker[r].state = "absent" /\ snap' = [snap EXCEPT ![r].quota = quota]
        /\ Goto(r, "settle_cas")
    BY <1>1, <1>3, <1>5, <2>1 DEF SettleMarker
  <2>3. pc'[r] = "settle_cas" /\ snap'[r].quota = quota /\ snap'[r].table = snap[r].table
    BY <1>1, <2>2 DEF Goto, TypeOK, Snap
  <2> QED
    BY <1>1, <1>2, <1>3, <2>1, <2>2, <2>3 DEF OthersKept, InTurn, ReadsTrue, EndsOnce
<1>6. CASE SettleCas(r)
  <2>1. pc[r] = "settle_cas"
    BY <1>6 DEF SettleCas
  <2>2. snap[r].table = table /\ snap[r].quota = quota /\ marker[r].state = "absent"
    BY <1>1, <2>1 DEF ReadsTrue
  <2>3. ~SettleStale(r)
    BY <1>1, <2>2 DEF SettleStale, MarkerVersion
  <2>4. SettleWrite(r) /\ pc'[r] = "ledger"
    BY <1>1, <1>6, <2>3 DEF SettleCas, Goto, TypeOK
  <2>5. marker' = [marker EXCEPT ![r] = [state |-> "settled", cost |-> frame[r].cost,
                                         rows |-> SettleRows(r)]]
    BY <1>1, <2>4 DEF SettleWrite
  <2>6. \A q \in Requests \ {r} : marker'[q] = marker[q]
    BY <2>5 DEF TypeOK
  <2>7. /\ \A q \in Requests \ {r} : table'.res[q] = table.res[q]
        /\ table'.res[r].state \in {"none", "settled"}
    <3>1. CASE table.res[r].state = "none"
      BY <1>1, <2>2, <2>4, <3>1 DEF SettleWrite
    <3>2. CASE table.res[r].state # "none"
      <4> DEFINE e == [table.res[r] EXCEPT !.state = "settled"]
      <4>1. table'.res = [table.res EXCEPT ![r] = e]
        BY <1>1, <2>2, <2>4, <3>2 DEF SettleWrite
      <4>2. e.state = "settled"
        BY <1>1 DEF Table, Entry
      <4> HIDE DEF e
      <4> QED
        BY <1>1, <4>1, <4>2 DEF Table
    <3> QED
      BY <3>1, <3>2
  <2> QED
    BY <1>1, <1>2, <1>3, <2>4, <2>6, <2>7 DEF OthersKept, InTurn, ReadsTrue, EndsOnce, Updating
<1>7. CASE LedgerAppend(r) \/ LedgerLost(r)
  <2>1. UNCHANGED <<table, quota, marker>> /\ pc'[r] = "settled"
    BY <1>1, <1>7 DEF LedgerAppend, LedgerLost, Goto, TypeOK, storeVars
  <2> QED
    BY <1>1, <1>2, <1>3, <2>1 DEF OthersKept, InTurn, ReadsTrue, EndsOnce, Updating
<1> QED
  BY <1>4, <1>5, <1>6, <1>7 DEF Settlement

\* How the gateway goes on with a request.
LEMMA GatewayFacts ==
    ASSUME TypeOK, OneProcess, OneInv, NEW r \in Requests, Gateway(r) \/ Abandoned(r)
    PROVE  /\ UNCHANGED <<table, quota, marker, owner>>
           /\ pc[r] \in {"admitted", "calling", "opening", "opened", "relaying", "eof", "settled"}
           /\ pc[r] \notin SyncSteps => pc'[r] = "abandoned" \/ Free(owner[r])
           /\ \/ /\ pc'[r] = "upd_read"
                 /\ <<frame'[r].goal, frame'[r].next>> \in
                       {<<"released", "done">>, <<"uncertain", "done">>, <<"settled", "done">>,
                        <<"forwarding", "opening">>, <<"streaming", "relaying">>,
                        <<"forwarding", "eof">>}
                 /\ pc[r] = "settled" => frame'[r].goal = "settled"
              \/ /\ pc'[r] \in {"settle_read", "calling", "opened", "abandoned"}
                 /\ frame'[r].goal = frame[r].goal /\ frame'[r].next = frame[r].next
                 /\ pc[r] # "settled"
              \/ pc'[r] = "done" /\ frame'[r] = NoFrame
<1>1. r \in Actors /\ frame[r] \in Frame /\ pc \in [Actors -> Steps] /\ frame \in [Actors -> Frame]
  BY DEF Actors, TypeOK
<1>2. pc[r] \notin {"unsettled", "unsettled_stream"}
  BY DEF OneInv, EndsOnce
<1>3. ASSUME NEW goal, NEW next, CallUpdate(r, goal, next)
      PROVE  pc'[r] = "upd_read" /\ frame'[r].goal = goal /\ frame'[r].next = next
  BY <1>1, <1>3 DEF CallUpdate, Goto, NoFrame
<1>4. ASSUME NEW c, CallSettle(r, c)
      PROVE  /\ pc'[r] = "settle_read"
             /\ frame'[r].goal = frame[r].goal /\ frame'[r].next = frame[r].next
  BY <1>1, <1>4 DEF CallSettle, Goto, Frame
<1>5. ASSUME NEW s, Goto(r, s)
      PROVE  pc'[r] = s
  BY <1>1, <1>5 DEF Goto
<1>6. UNCHANGED <<table, quota, marker, owner>>
  BY DEF Gateway, Abandoned, SecretDenied, DryRun, Forward, Answered, Rejected, ForwardStream,
         Opened, OpenFailed, FirstChunk, StreamEnd, Finalize, Settled, Unsettled,
         UnsettledStream, storeVars
<1> USE DEF SyncSteps
<1>7. CASE SecretDenied(r) \/ Rejected(r) \/ ForwardStream(r)
  BY <1>3, <1>6, <1>7 DEF SecretDenied, Rejected, ForwardStream
<1>8. CASE DryRun(r) \/ Answered(r) \/ Finalize(r)
  BY <1>4, <1>6, <1>8 DEF DryRun, Answered, Finalize
<1>9. CASE Forward(r) \/ Abandoned(r)
  BY <1>5, <1>6, <1>9 DEF Forward, Abandoned
<1>10. CASE OpenFailed(r) \/ FirstChunk(r) \/ StreamEnd(r)
  BY <1>3, <1>6, <1>10 DEF OpenFailed, FirstChunk, StreamEnd
<1>11. CASE Opened(r)
  BY <1>3, <1>5, <1>6, <1>11 DEF Opened
<1>12. CASE Settled(r)
  <2>1. Return(r) => frame'[r] = NoFrame
    BY <1>1 DEF Return
  <2> QED
    BY <1>3, <1>5, <1>6, <1>12, <2>1 DEF Settled
<1> QED
  BY <1>2, <1>7, <1>8, <1>9, <1>10, <1>11, <1>12
     DEF Gateway, Unsettled, UnsettledStream

\* What the gateway does between the procedures reads and writes no row.
LEMMA OneGateway ==
    ASSUME TypeOK, OneProcess, OneInv, NEW r \in Requests, Gateway(r) \/ Abandoned(r)
    PROVE  OthersKept(r) /\ InTurn(r) /\ ReadsTrue(r)' /\ EndsOnce(r)'
<1>1. UNCHANGED <<table, quota, marker, owner>> /\ EndsOnce(r)
  BY GatewayFacts DEF OneInv
<1>2. pc[r] \in {"admitted", "calling", "opening", "opened", "relaying", "eof", "settled"}
  BY GatewayFacts
<1>3. OthersKept(r)
  BY <1>1 DEF OthersKept
<1>4. InTurn(r)
  <2>1. CASE pc[r] \notin SyncSteps /\ pc'[r] \in SyncSteps
    <3>1. Free(owner[r])
      BY <2>1, GatewayFacts DEF SyncSteps
    <3>2. owner[r] \in Workers
      BY <1>2 DEF OneInv, Owned, TypeOK
    <3> QED
      BY <1>1, <3>1, <3>2, FreeFacts DEF InTurn
  <2> QED
    BY <1>1, <2>1 DEF InTurn
<1>5. ReadsTrue(r)'
  BY GatewayFacts DEF ReadsTrue
<1>6. /\ table.res[r].state # "uncertain"
      /\ marker[r].state = "settled" => pc[r] = "settled" /\ table.res[r].state \in {"none", "settled"}
  BY <1>1, <1>2 DEF EndsOnce, Updating
<1>7. EndsOnce(r)'
  <2>1. CASE pc'[r] = "upd_read"
    BY <1>1, <1>6, <2>1, GatewayFacts DEF EndsOnce, Updating
  <2>2. CASE pc'[r] \in {"settle_read", "calling", "opened", "abandoned"}
    BY <1>1, <1>6, <2>2, GatewayFacts DEF EndsOnce, Updating
  <2>3. CASE pc'[r] = "done"
    BY <1>1, <1>6, <2>3, GatewayFacts DEF EndsOnce, Updating, NoFrame
  <2> QED
    BY <2>1, <2>2, <2>3, GatewayFacts
<1> QED
  BY <1>3, <1>4, <1>5, <1>7

\* Nor does an exception, which ends the section it comes from or starts
\* on_uncertain in it.
LEMMA OneBreaks ==
    ASSUME TypeOK, OneProcess, OneInv, NEW r \in Requests, Breaks(r)
    PROVE  OthersKept(r) /\ InTurn(r) /\ ReadsTrue(r)' /\ EndsOnce(r)'
<1>1. UNCHANGED <<table, quota, marker>> /\ EndsOnce(r)
  BY BreakFacts DEF OneInv, storeVars
<1>2. OthersKept(r) /\ InTurn(r)
  BY <1>1, BreakFacts DEF OthersKept, InTurn, SyncSteps
<1>3. ReadsTrue(r)'
  BY BreakFacts DEF ReadsTrue
<1>4. CASE pc'[r] \in {"raised", "stuck"} /\ frame'[r] \in {frame[r], NoFrame}
  <2>1. pc[r] \in SyncSteps \union {"opening", "eof"}
    BY <1>4, BreakFacts
  <2>2. table.res[r].state # "uncertain"
    BY <1>1, <2>1 DEF EndsOnce, SyncSteps
  <2>3. marker[r].state = "settled" => pc'[r] = "raised"
    BY <1>1, <1>4, BreakFacts DEF EndsOnce, Updating
  <2>4. frame'[r].next # "unsettled_stream"
        /\ (frame'[r].goal \in {"uncertain", "settled"} => frame'[r].next = "done")
    <3>1. CASE frame'[r] = frame[r]
      BY <1>1, <3>1 DEF EndsOnce
    <3>2. CASE frame'[r] = NoFrame
      BY <3>2 DEF NoFrame
    <3> QED BY <1>4, <3>1, <3>2
  <2>5. marker[r].state = "settled" => table.res[r].state \in {"none", "settled"}
    BY <1>1 DEF EndsOnce
  <2>6. EndsOnce(r)'
    <3>1. table'.res[r].state # "uncertain" /\ marker'[r] = marker[r] /\ table' = table
      BY <1>1, <2>2
    <3>2. pc'[r] \notin {"unsettled", "unsettled_stream"} /\ pc'[r] \notin Updating
      BY <1>4 DEF Updating
    <3> QED BY <2>3, <2>4, <2>5, <3>1, <3>2 DEF EndsOnce
  <2> QED BY <1>2, <1>3, <2>6
<1>5. CASE /\ pc[r] \in Updating /\ frame[r].next \in {"relaying", "eof"}
           /\ pc'[r] = "upd_read"
           /\ frame'[r] = [NoFrame EXCEPT !.goal = "uncertain", !.next = "done"]
  <2>1. frame'[r].goal = "uncertain" /\ frame'[r].next = "done"
    BY <1>5 DEF NoFrame
  <2>2. table.res[r].state # "uncertain" /\ marker[r].state # "settled"
    BY <1>1, <1>5 DEF EndsOnce, Updating
  <2>3. table' = table /\ marker' = marker
    BY <1>1
  <2>4. EndsOnce(r)'
    BY <1>5, <2>1, <2>2, <2>3 DEF EndsOnce
  <2> QED BY <1>2, <1>3, <2>4
<1> QED BY <1>2, <1>3, <1>4, <1>5, BreakFacts DEF Updating

\* Every step of a request.
LEMMA OneRequest ==
    ASSUME TypeOK, Untouched, OneProcess, OneInv, NEW r \in Requests,
           Request(r) \/ Abandoned(r) \/ Breaks(r)
    PROVE  OneInv' /\ OthersKept(r) /\ pc[r] \notin {"done", "crashed", "raised"}
<1>1. Alone(r)
  BY RequestAlone
<1>2. OthersKept(r) /\ InTurn(r) /\ ReadsTrue(r)' /\ EndsOnce(r)'
  BY OneAdmission, OneUpdate, OneSettlement, OneGateway, OneBreaks DEF Request
<1>3. UNCHANGED owner /\ pc[r] \notin {"new", "done", "crashed", "raised"} /\ pc'[r] # "new"
  <2>1. r \in Actors /\ pc \in [Actors -> Steps] /\ frame[r].next # "new"
    BY DEF Actors, TypeOK, Frame, Nexts
  <2>2. CASE Admission(r)
    BY <2>1, <2>2 DEF Admission, ReserveRead, ReserveCheck, ReserveSeq, ReserveCas, Goto
  <2>3. CASE Update(r)
    BY <2>1, <2>3 DEF Update, UpdRead, UpdSeq, UpdCas, Goto
  <2>4. CASE Settlement(r)
    BY <2>1, <2>4 DEF Settlement, SettleRead, SettleMarker, SettleCas, LedgerAppend,
                      LedgerLost, Goto
  <2>5. CASE Gateway(r) \/ Abandoned(r)
    BY <2>5, GatewayFacts
  <2>6. CASE Breaks(r)
    BY <2>6, BreakFacts DEF SyncSteps
  <2> QED
    BY <2>2, <2>3, <2>4, <2>5, <2>6 DEF Request
<1>4. Owned'
  BY <1>1, <1>3 DEF Owned, OneInv, Alone, Actors
<1> QED
  BY <1>1, <1>2, <1>3, <1>4, OneKept

\* Nobody is in a section to begin with ...
LEMMA OneInit == Init => OneInv
<1> SUFFICES ASSUME Init, NEW r \in Requests
             PROVE  /\ pc[r] = "new" /\ owner[r] = NoWorker /\ frame[r] = NoFrame
                    /\ table.res[r].state = "none" /\ marker[r].state = "absent"
  BY DEF OneInv, Owned, OneAtATime, ReadsTrue, EndsOnce, SyncSteps, NoFrame
<1> QED
  BY ConstantsAssumption DEF Init, Actors, EmptyTable, NoEntry, NoMarker

\* A request is accepted while the process is free.
LEMMA OneCheck ==
    ASSUME TypeOK, Untouched, OneProcess, OneInv, NEW w \in Workers, NEW r \in Requests, Check(w, r)
    PROVE  OneInv'
<1>1. /\ UNCHANGED <<table, quota, marker, snap, frame>> /\ pc[r] = "new" /\ Free(w)
      /\ pc'[r] \in {"reserve_read", "refused"} /\ owner'[r] = w
      /\ \A q \in Requests \ {r} : owner'[q] = owner[q]
      /\ Alone(r)
  BY DEF Check, Goto, TypeOK, Actors, Alone, storeVars
<1>2. Owned'
  BY <1>1, ConstantsAssumption DEF Owned, OneInv, Alone, Actors
<1>3. OthersKept(r) /\ InTurn(r)
  BY <1>1, FreeFacts DEF OthersKept, InTurn
<1>4. ReadsTrue(r)'
  BY <1>1 DEF ReadsTrue
<1>5. EndsOnce(r)'
  BY <1>1 DEF OneInv, EndsOnce, Updating
<1> QED
  BY <1>1, <1>2, <1>3, <1>4, <1>5, OneKept

\* A crash ends every section and leaves the rows as they are.
LEMMA OneCrash ==
    ASSUME TypeOK, OneProcess, OneInv, NEW w \in Workers, CrashWorker(w)
    PROVE  OneInv'
<1>1. /\ UNCHANGED <<table, quota, marker, owner>>
      /\ \A q \in Requests : \/ pc'[q] = "crashed" /\ frame'[q] = NoFrame /\ pc[q] # "new"
                             \/ pc'[q] = pc[q] /\ frame'[q] = frame[q] /\ snap'[q] = snap[q]
  <2>1. \A q \in Requests : q \in Lost(w) => pc[q] # "new"
    BY ConstantsAssumption DEF Lost, OneInv, Owned
  <2> QED
    BY <2>1 DEF CrashWorker, Restart, storeVars, Actors
<1>2. Owned'
  BY <1>1 DEF OneInv, Owned
<1>3. OneAtATime'
  BY <1>1 DEF OneInv, OneAtATime, SyncSteps
<1>4. ASSUME NEW q \in Requests
      PROVE  ReadsTrue(q)' /\ EndsOnce(q)'
  <2>1. CASE pc'[q] = "crashed" /\ frame'[q] = NoFrame
    BY <1>1, <2>1 DEF OneInv, ReadsTrue, EndsOnce, Updating, NoFrame
  <2>2. CASE pc'[q] = pc[q] /\ frame'[q] = frame[q] /\ snap'[q] = snap[q]
    BY <1>1, <2>2 DEF OneInv, ReadsTrue, EndsOnce
  <2> QED
    BY <1>1, <2>1, <2>2
<1> QED
  BY <1>2, <1>3, <1>4 DEF OneInv

\* ... and every step keeps the invariant.
LEMMA OneNext == TypeOK /\ Untouched /\ OneProcess /\ OneInv /\ [Next]_vars => OneInv'
<1> SUFFICES ASSUME TypeOK, Untouched, OneProcess, OneInv, [Next]_vars
             PROVE  OneInv'
  OBVIOUS
<1>1. CASE UNCHANGED vars \/ (\E r \in Requests : TtlPasses(r)) \/ \E l \in Lanes : NewPeriod(l)
  <2>1. UNCHANGED <<table, quota, marker, owner, pc, frame, snap>>
    BY <1>1 DEF vars, TtlPasses, NewPeriod, storeVars
  <2> QED
    BY <2>1 DEF OneInv, Owned, OneAtATime, ReadsTrue, EndsOnce
<1> QED
  BY <1>1, OneRequest, OneCheck, OneCrash DEF Next, OneProcess, Breaks

-----------------------------------------------------------------------------
(* The theorems.                                                           *)

\* One process reads true.
LEMMA OneCorrect ==
    ASSUME OneProcess
    PROVE  Spec => [](TypeOK /\ Untouched /\ OneInv)
<1>1. Init => TypeOK /\ SettleArgs /\ Untouched /\ OneInv
  BY TypeInit, ArgsInit, UntouchedInit, OneInit
<1>2. TypeOK /\ SettleArgs /\ Untouched /\ OneInv /\ [Next]_vars
      => (TypeOK /\ SettleArgs /\ Untouched /\ OneInv)'
  BY OneProcess, TypeNext, ArgsNext, UntouchedNext, OneNext
<1> QED
  BY <1>1, <1>2, PTL DEF Spec

\* No request counts twice against its lanes, once as usage and once as a
\* reservation: settling turns the hold into the charge.
THEOREM ChargedCorrect ==
    ASSUME OneProcess
    PROVE  Spec => []ChargedHoldsNothing
<1>1. OneInv => ChargedHoldsNothing
  BY DEF OneInv, EndsOnce, ChargedHoldsNothing, Holds, Final
<1> QED
  BY <1>1, OneCorrect, PTL

\* A reservation whose outcome is unknown stays listed as uncertain: neither
\* its own request nor another one drops or changes it.
THEOREM UncertainCorrect ==
    ASSUME OneProcess
    PROVE  Spec => UncertainIsKept
<1>1. ASSUME TypeOK, Untouched, OneInv, [Next]_vars, NEW r \in Requests,
             table.res[r].state = "uncertain"
      PROVE  table'.res[r].state \in {"uncertain", "settled"}
  <2>1. ASSUME NEW q \in Requests, Request(q) \/ Abandoned(q) \/ Breaks(q)
        PROVE  table'.res[r].state = "uncertain"
    <3>1. OthersKept(q) /\ pc[q] \notin {"done", "crashed", "raised"}
      BY <1>1, <2>1, OneRequest
    <3>2. q # r
      BY <1>1, <3>1 DEF OneInv, EndsOnce
    <3> QED
      BY <1>1, <3>1, <3>2 DEF OthersKept, Final
  <2>2. ASSUME NEW w \in Workers, NEW q \in Requests, Check(w, q)
        PROVE  UNCHANGED table
    BY <2>2 DEF Check, storeVars
  <2>3. ASSUME NEW w \in Workers, CrashWorker(w)
        PROVE  UNCHANGED table
    BY <2>3 DEF CrashWorker, Restart, storeVars
  <2>4. CASE UNCHANGED vars \/ (\E q \in Requests : TtlPasses(q)) \/ \E l \in Lanes : NewPeriod(l)
    BY <1>1, <2>4 DEF vars, TtlPasses, NewPeriod, storeVars
  <2> QED
    BY <1>1, <2>1, <2>2, <2>3, <2>4 DEF Next, OneProcess, Breaks
<1>2. TypeOK /\ Untouched /\ OneInv /\ [Next]_vars
      => [\A r \in Requests : table.res[r].state = "uncertain"
             => table'.res[r].state \in {"uncertain", "settled"}]_vars
  BY <1>1
<1> QED
  BY <1>2, OneCorrect, PTL DEF Spec, UncertainIsKept

-----------------------------------------------------------------------------
(* Sums over finite sets: MapThenSumSet, one element at a time.            *)

Less == {ss \in Nat \X Nat : ss[1] < ss[2]}

\* Every set of numbers that is not empty has a least element.
LEMMA LeastNumber ==
    ASSUME NEW T, T \subseteq Nat, T # {}
    PROVE  \E m \in T : \A n \in T : m <= n
<1>1. IsWellFoundedOn(Less, Nat)
  BY NatLessThanWellFounded DEF OpToRel, Less
<1>2. PICK m \in T : \A n \in T : <<n, m>> \notin Less
  BY <1>1, WFMin
<1>3. \A n \in T : ~ n < m
  BY <1>2 DEF Less
<1> QED
  BY <1>3

\* A set of numbers with 0 and every successor has all of them.
LEMMA Induction ==
    ASSUME NEW P, 0 \in P, \A n \in Nat : n \in P => n + 1 \in P
    PROVE  Nat \subseteq P
<1> SUFFICES ASSUME Nat \ P # {} PROVE FALSE
  OBVIOUS
<1>1. PICK m \in Nat \ P : \A n \in Nat \ P : m <= n
  BY LeastNumber
<1>2. m - 1 \in Nat /\ m - 1 \in P
  BY <1>1
<1> QED
  BY <1>1, <1>2

\* The sum of f over S, as the model takes it.
Total(f, S) == MapThenSumSet(LAMBDA x : f[x], S)

\* The element a sum takes next.
Some(s) == CHOOSE x \in s : TRUE

\* g sums f over every subset of S.
Sums(g, f, S) ==
    g = [s \in SUBSET S |-> IF s = {} THEN 0 ELSE f[Some(s)] + g[s \ {Some(s)}]]

\* Taking an element leaves a smaller part.
LEMMA SomeFacts ==
    ASSUME NEW S, IsFiniteSet(S), NEW s \in SUBSET S, s # {}
    PROVE  /\ Some(s) \in s /\ s \ {Some(s)} \in SUBSET S
           /\ Cardinality(s) \in Nat /\ Cardinality(s \ {Some(s)}) = Cardinality(s) - 1
<1>1. Some(s) \in s
  BY DEF Some
<1> QED
  BY <1>1, FS_Subset, FS_RemoveElement, FS_CardinalityType

\* There is such a function for every finite set.
LEMMA SumsExist ==
    ASSUME NEW f, NEW S, IsFiniteSet(S), \A x \in S : f[x] \in Int
    PROVE  \E g \in [SUBSET S -> Int] : Sums(g, f, S)
<1> DEFINE Sum(g, s) == IF s = {} THEN 0 ELSE f[Some(s)] + g[s \ {Some(s)}]
           Good(g, n) == \A s \in SUBSET S : Cardinality(s) <= n => g[s] = Sum(g, s)
           Upto == {n \in Nat : \E g \in [SUBSET S -> Int] : Good(g, n)}
<1>1. \A s \in SUBSET S : Cardinality(s) \in Nat /\ (Cardinality(s) = 0 <=> s = {})
  BY FS_Subset, FS_CardinalityType, FS_EmptySet
<1>2. 0 \in Upto
  <2> DEFINE g == [s \in SUBSET S |-> 0]
  <2>1. g \in [SUBSET S -> Int]
    OBVIOUS
  <2>2. Good(g, 0)
    BY <1>1
  <2> HIDE DEF Good, g
  <2> QED
    BY <2>1, <2>2
<1>3. ASSUME NEW n \in Nat, n \in Upto
      PROVE  n + 1 \in Upto
  <2>1. PICK g \in [SUBSET S -> Int] : Good(g, n)
    BY <1>3
  <2> DEFINE h == [s \in SUBSET S |-> Sum(g, s)]
  <2>2. ASSUME NEW s \in SUBSET S PROVE Sum(g, s) \in Int
    <3>1. CASE s = {}
      BY <3>1
    <3>2. CASE s # {}
      <4>1. Some(s) \in S /\ s \ {Some(s)} \in SUBSET S
        BY <3>2, SomeFacts
      <4> QED
        BY <3>2, <4>1
    <3> QED
      BY <3>1, <3>2
  <2>3. h \in [SUBSET S -> Int]
    BY <2>2
  <2>4. ASSUME NEW s \in SUBSET S, Cardinality(s) <= n + 1
        PROVE  h[s] = Sum(h, s)
    <3>1. CASE s = {}
      BY <3>1
    <3>2. CASE s # {}
      <4> DEFINE t == s \ {Some(s)}
      <4>1. t \in SUBSET S /\ Cardinality(t) <= n
        BY <2>4, <3>2, SomeFacts
      <4>2. h[t] = g[t]
        BY <2>1, <4>1
      <4> QED
        BY <3>2, <4>2
    <3> QED
      BY <3>1, <3>2
  <2>5. Good(h, n + 1)
    BY <2>4
  <2> HIDE DEF Good, h
  <2> QED
    BY <2>3, <2>5
<1>4. Cardinality(S) \in Upto
  <2> HIDE DEF Upto
  <2> QED
    BY <1>2, <1>3, Induction, FS_CardinalityType
<1>5. PICK g \in [SUBSET S -> Int] : Good(g, Cardinality(S))
  BY <1>4
<1>6. \A s \in SUBSET S : Cardinality(s) <= Cardinality(S)
  BY FS_Subset
<1>7. \A s \in SUBSET S : g[s] = Sum(g, s)
  BY <1>5, <1>6
<1> QED
  BY <1>7 DEF Sums

\* A set of subsets of S that has a set whenever it has the set without any one
\* of its elements has S.
LEMMA SubsetInduction ==
    ASSUME NEW S, IsFiniteSet(S), NEW P,
           \A T \in SUBSET S : (\A x \in T : T \ {x} \in P) => T \in P
    PROVE  \A T \in SUBSET S : T \in P
<1> DEFINE Upto == {n \in Nat : \A T \in SUBSET S : Cardinality(T) = n => T \in P}
<1>1. \A T \in SUBSET S : IsFiniteSet(T) /\ Cardinality(T) \in Nat /\ (Cardinality(T) = 0 => T = {})
  BY FS_Subset, FS_CardinalityType, FS_EmptySet
<1>2. 0 \in Upto
  BY <1>1
<1>3. ASSUME NEW n \in Nat, n \in Upto
      PROVE  n + 1 \in Upto
  <2>1. ASSUME NEW T \in SUBSET S, Cardinality(T) = n + 1
        PROVE  \A x \in T : T \ {x} \in P
    <3>1. \A x \in T : T \ {x} \in SUBSET S /\ Cardinality(T \ {x}) = n
      BY <1>1, <2>1, FS_RemoveElement
    <3> QED
      BY <1>3, <3>1
  <2> QED
    BY <2>1
<1>4. Nat \subseteq Upto
  <2> HIDE DEF Upto
  <2> QED
    BY <1>2, <1>3, Induction
<1> QED
  BY <1>1, <1>4

\* It is unique, whatever the set it was made for.
LEMMA SumsAgree ==
    ASSUME NEW f, NEW S, IsFiniteSet(S), NEW T \in SUBSET S,
           NEW g, Sums(g, f, S), NEW h, Sums(h, f, T)
    PROVE  \A s \in SUBSET T : g[s] = h[s]
<1> DEFINE P == {s \in SUBSET T : g[s] = h[s]}
<1>1. ASSUME NEW s \in SUBSET T, \A x \in s : s \ {x} \in P
      PROVE  s \in P
  <2>1. CASE s = {}
    BY <2>1 DEF Sums
  <2>2. CASE s # {}
    <3>1. Some(s) \in s
      BY <2>2 DEF Some
    <3>2. g[s \ {Some(s)}] = h[s \ {Some(s)}]
      BY <1>1, <3>1
    <3> QED
      BY <2>2, <3>2 DEF Sums
  <2> QED
    BY <2>1, <2>2
<1>2. IsFiniteSet(T)
  BY FS_Subset
<1> HIDE DEF P
<1>3. \A s \in SUBSET T : s \in P
  BY <1>1, <1>2, SubsetInduction
<1> QED
  BY <1>3 DEF P

\* The sum of the model is such a g.
LEMMA TotalOf ==
    ASSUME NEW f, NEW S, IsFiniteSet(S), \A x \in S : f[x] \in Int
    PROVE  \E g \in [SUBSET S -> Int] : Sums(g, f, S) /\ Total(f, S) = g[S]
<1>1. \E g : Sums(g, f, S)
  BY SumsExist
<1> DEFINE it == CHOOSE g : Sums(g, f, S)
<1>2. Sums(it, f, S)
  BY <1>1
<1>3. Total(f, S) = it[S]
  BY DEF Total, MapThenSumSet, MapThenFoldSet, Sums, Some
<1>4. PICK g \in [SUBSET S -> Int] : Sums(g, f, S)
  BY SumsExist
<1>5. \A s \in SUBSET S : g[s] = it[s]
  BY <1>2, <1>4, SumsAgree
<1> QED
  BY <1>3, <1>4, <1>5

\* A sum without terms, and what taking the next element leaves.
LEMMA TotalSteps ==
    ASSUME NEW f, NEW S, IsFiniteSet(S), \A x \in S : f[x] \in Int
    PROVE  /\ Total(f, S) \in Int
           /\ S = {} => Total(f, S) = 0
           /\ S # {} => Total(f, S) = f[Some(S)] + Total(f, S \ {Some(S)})
<1>1. PICK g \in [SUBSET S -> Int] : Sums(g, f, S) /\ Total(f, S) = g[S]
  BY TotalOf
<1>2. ASSUME S # {}
      PROVE  Total(f, S) = f[Some(S)] + Total(f, S \ {Some(S)})
  <2> DEFINE T == S \ {Some(S)}
  <2>1. Some(S) \in S /\ T \in SUBSET S /\ IsFiniteSet(T)
    BY <1>2, SomeFacts, FS_Subset
  <2>2. PICK h \in [SUBSET T -> Int] : Sums(h, f, T) /\ Total(f, T) = h[T]
    BY <2>1, TotalOf
  <2>3. g[T] = h[T]
    BY <1>1, <2>1, <2>2, SumsAgree
  <2>4. g[S] = f[Some(S)] + g[T]
    BY <1>1, <1>2 DEF Sums
  <2> QED
    BY <1>1, <2>2, <2>3, <2>4
<1> QED
  BY <1>1, <1>2 DEF Sums

\* Any element can be taken first.
LEMMA TotalSplit ==
    ASSUME NEW f, NEW S, IsFiniteSet(S), \A x \in S : f[x] \in Int, NEW e \in S
    PROVE  Total(f, S) = f[e] + Total(f, S \ {e})
<1> DEFINE P == {T \in SUBSET S : \A x \in T : Total(f, T) = f[x] + Total(f, T \ {x})}
<1>1. \A T \in SUBSET S : IsFiniteSet(T)
  BY FS_Subset
<1>2. ASSUME NEW T \in SUBSET S, \A x \in T : T \ {x} \in P, NEW x \in T
      PROVE  Total(f, T) = f[x] + Total(f, T \ {x})
  <2> DEFINE c == Some(T)
             u == Total(f, T \ {c, x})
  <2>1. c \in T /\ Total(f, T) = f[c] + Total(f, T \ {c})
    BY <1>1, TotalSteps DEF Some
  <2>2. CASE c = x
    BY <2>1, <2>2
  <2>3. CASE c # x
    <3>1. (T \ {c}) \ {x} = T \ {c, x} /\ (T \ {x}) \ {c} = T \ {c, x}
      OBVIOUS
    <3>2. T \ {c} \in P /\ T \ {x} \in P /\ x \in T \ {c} /\ c \in T \ {x}
      BY <1>2, <2>1, <2>3
    <3>3. Total(f, T \ {c}) = f[x] + u /\ Total(f, T \ {x}) = f[c] + u
      BY <3>1, <3>2
    <3>4. u \in Int /\ f[x] \in Int /\ f[c] \in Int
      <4>1. T \ {c, x} \in SUBSET S
        OBVIOUS
      <4> QED
        BY <1>1, <2>1, <4>1, TotalSteps
    <3> HIDE DEF c, u
    <3> QED
      BY <2>1, <3>3, <3>4
  <2> QED
    BY <2>2, <2>3
<1>3. \A T \in SUBSET S : (\A x \in T : T \ {x} \in P) => T \in P
  BY <1>2
<1> HIDE DEF P
<1>4. \A T \in SUBSET S : T \in P
  BY <1>3, SubsetInduction
<1> QED
  BY <1>4 DEF P

\* What is known of the sums over the parts of S.
LEMMA TotalFacts ==
    ASSUME NEW f, NEW S, IsFiniteSet(S), \A x \in S : f[x] \in Int, NEW T \in SUBSET S
    PROVE  /\ Total(f, T) \in Int
           /\ T = {} => Total(f, T) = 0
           /\ \A x \in T : Total(f, T) = f[x] + Total(f, T \ {x})
<1>1. IsFiniteSet(T) /\ \A x \in T : f[x] \in Int
  BY FS_Subset
<1>2. Total(f, T) \in Int /\ (T = {} => Total(f, T) = 0)
  BY <1>1, TotalSteps
<1>3. \A x \in T : Total(f, T) = f[x] + Total(f, T \ {x})
  BY <1>1, TotalSplit
<1> QED
  BY <1>2, <1>3

\* A sum grows with its terms; equal terms have equal sums.
LEMMA TotalMonotonic ==
    ASSUME NEW S, IsFiniteSet(S), NEW f, NEW g,
           \A x \in S : f[x] \in Int /\ g[x] \in Int /\ f[x] <= g[x]
    PROVE  Total(f, S) <= Total(g, S)
<1> DEFINE P == {T \in SUBSET S : Total(f, T) <= Total(g, T)}
<1>1. ASSUME NEW T \in SUBSET S
      PROVE  /\ Total(f, T) \in Int /\ Total(g, T) \in Int
             /\ T = {} => Total(f, T) = 0 /\ Total(g, T) = 0
             /\ \A x \in T : /\ Total(f, T) = f[x] + Total(f, T \ {x})
                             /\ Total(g, T) = g[x] + Total(g, T \ {x})
  <2> HIDE DEF P
  <2>1. (\A x \in S : f[x] \in Int) /\ (\A x \in S : g[x] \in Int)
    OBVIOUS
  <2>2. /\ Total(f, T) \in Int
        /\ T = {} => Total(f, T) = 0
        /\ \A x \in T : Total(f, T) = f[x] + Total(f, T \ {x})
    BY <2>1, TotalFacts
  <2>3. /\ Total(g, T) \in Int
        /\ T = {} => Total(g, T) = 0
        /\ \A x \in T : Total(g, T) = g[x] + Total(g, T \ {x})
    BY <2>1, TotalFacts
  <2> QED
    BY <2>2, <2>3
<1>2. ASSUME NEW T \in SUBSET S, \A x \in T : T \ {x} \in P
      PROVE  T \in P
  <2>1. CASE T = {}
    BY <1>1, <2>1
  <2>2. CASE T # {}
    <3>1. PICK x \in T : TRUE
      BY <2>2
    <3> DEFINE U == T \ {x}
    <3>2. Total(f, U) <= Total(g, U) /\ Total(f, U) \in Int /\ Total(g, U) \in Int
      BY <1>1, <1>2
    <3>3. Total(f, T) = f[x] + Total(f, U) /\ Total(g, T) = g[x] + Total(g, U)
      BY <1>1
    <3> HIDE DEF U
    <3>4. Total(f, T) <= Total(g, T)
      BY <3>2, <3>3
    <3> QED
      BY <3>4
  <2> QED
    BY <2>1, <2>2
<1> HIDE DEF P
<1>3. \A T \in SUBSET S : T \in P
  BY <1>2, SubsetInduction
<1> QED
  BY <1>3 DEF P

\* The sum of sums, and the sum over a part.
LEMMA TotalPlus ==
    ASSUME NEW S, IsFiniteSet(S), NEW f, NEW g, NEW h,
           \A x \in S : f[x] \in Int /\ g[x] \in Int /\ h[x] = f[x] + g[x]
    PROVE  Total(h, S) = Total(f, S) + Total(g, S)
<1> DEFINE P == {T \in SUBSET S : Total(h, T) = Total(f, T) + Total(g, T)}
<1>1. ASSUME NEW T \in SUBSET S
      PROVE  /\ Total(f, T) \in Int /\ Total(g, T) \in Int
             /\ T = {} => Total(f, T) = 0 /\ Total(g, T) = 0 /\ Total(h, T) = 0
             /\ \A x \in T : /\ Total(f, T) = f[x] + Total(f, T \ {x})
                             /\ Total(g, T) = g[x] + Total(g, T \ {x})
                             /\ Total(h, T) = h[x] + Total(h, T \ {x})
  <2>1. \A x \in S : h[x] \in Int
    OBVIOUS
  <2> QED
    BY <2>1, TotalFacts
<1>2. ASSUME NEW T \in SUBSET S, \A x \in T : T \ {x} \in P
      PROVE  T \in P
  <2>1. CASE T = {}
    BY <1>1, <2>1
  <2>2. CASE T # {}
    <3>1. PICK x \in T : TRUE
      BY <2>2
    <3> DEFINE U == T \ {x}
    <3>2. Total(h, U) = Total(f, U) + Total(g, U) /\ Total(f, U) \in Int /\ Total(g, U) \in Int
      BY <1>1, <1>2
    <3>3. /\ Total(f, T) = f[x] + Total(f, U) /\ Total(g, T) = g[x] + Total(g, U)
          /\ Total(h, T) = h[x] + Total(h, U)
      BY <1>1
    <3> HIDE DEF U
    <3>4. Total(h, T) = Total(f, T) + Total(g, T)
      BY <3>2, <3>3
    <3> QED
      BY <3>4
  <2> QED
    BY <2>1, <2>2
<1> HIDE DEF P
<1>3. \A T \in SUBSET S : T \in P
  BY <1>2, SubsetInduction
<1> QED
  BY <1>3 DEF P

\* The sum over a part is that of a function which is 0 elsewhere.
LEMMA TotalPart ==
    ASSUME NEW S, IsFiniteSet(S), NEW R \in SUBSET S, NEW f, NEW g,
           \A x \in S : f[x] \in Int /\ g[x] = IF x \in R THEN f[x] ELSE 0
    PROVE  Total(g, S) = Total(f, R)
<1> DEFINE P == {T \in SUBSET S : Total(g, T) = Total(f, T \cap R)}
<1>1. ASSUME NEW T \in SUBSET S
      PROVE  /\ Total(f, T \cap R) \in Int
             /\ T = {} => Total(g, T) = 0 /\ Total(f, T \cap R) = 0
             /\ \A x \in T : Total(g, T) = g[x] + Total(g, T \ {x})
             /\ \A x \in T \cap R : Total(f, T \cap R) = f[x] + Total(f, (T \ {x}) \cap R)
  <2>1. \A x \in S : g[x] \in Int
    OBVIOUS
  <2>2. T \cap R \in SUBSET S /\ (T = {} => T \cap R = {})
    OBVIOUS
  <2>3. \A x \in T \cap R : (T \ {x}) \cap R = (T \cap R) \ {x}
    OBVIOUS
  <2>4. /\ Total(f, T \cap R) \in Int
        /\ T \cap R = {} => Total(f, T \cap R) = 0
        /\ \A x \in T \cap R : Total(f, T \cap R) = f[x] + Total(f, (T \cap R) \ {x})
    BY <2>2, TotalFacts
  <2>5. /\ T = {} => Total(g, T) = 0
        /\ \A x \in T : Total(g, T) = g[x] + Total(g, T \ {x})
    BY <2>1, TotalFacts
  <2> QED
    BY <2>2, <2>3, <2>4, <2>5
<1>2. ASSUME NEW T \in SUBSET S, \A x \in T : T \ {x} \in P
      PROVE  T \in P
  <2>1. CASE T = {}
    BY <1>1, <2>1
  <2>2. CASE T # {}
    <3>1. PICK x \in T : TRUE
      BY <2>2
    <3>2. Total(g, T) = g[x] + Total(f, (T \ {x}) \cap R) /\ Total(f, (T \ {x}) \cap R) \in Int
      BY <1>1, <1>2
    <3>3. CASE x \in R
      BY <1>1, <3>2, <3>3
    <3>4. CASE x \notin R
      <4>1. T \cap R = (T \ {x}) \cap R /\ g[x] = 0
        BY <3>4
      <4>2. Total(g, T) = 0 + Total(f, T \cap R) /\ Total(f, T \cap R) \in Int
        BY <1>1, <3>2, <4>1
      <4> QED
        BY <4>2
    <3> QED
      BY <3>3, <3>4
  <2> QED
    BY <2>1, <2>2
<1> HIDE DEF P
<1>3. \A T \in SUBSET S : T \in P
  BY <1>2, SubsetInduction
<1>4. S \cap R = R
  OBVIOUS
<1> QED
  BY <1>3, <1>4 DEF P

-----------------------------------------------------------------------------
(* Periods: nothing is debited to a period that has not begun.             *)

Past ==
    /\ \A a \in Actors, l \in Lanes : frame[a].when[l] <= period[l]
    /\ \A row \in Rows, r \in Requests :
          quota[row].cost[r] # 0 => row[2] <= period[row[1]]

\* A procedure keeps its time of settling, forgets it or looks at the clock.
Clocked == \A a \in Actors : frame'[a].when \in {frame[a].when, NoFrame.when, period}

\* So does every step of a request ...
LEMMA ClockedRequest ==
    ASSUME TypeOK, NEW r \in Requests, Request(r) \/ Abandoned(r) \/ Breaks(r)
    PROVE  Clocked /\ period' = period
<1>1. r \in Actors /\ frame \in [Actors -> Frame] /\ Alone(r)
  BY RequestAlone DEF Actors, TypeOK
<1>2. SUFFICES frame'[r].when \in {frame[r].when, NoFrame.when, period} /\ period' = period
  BY <1>1 DEF Clocked, Alone
<1>3. ASSUME NEW goal, NEW next, CallUpdate(r, goal, next)
      PROVE  frame'[r].when = NoFrame.when
  BY <1>1, <1>3 DEF CallUpdate, NoFrame
<1>4. ASSUME NEW c, CallSettle(r, c)
      PROVE  frame'[r].when = period
  BY <1>1, <1>4 DEF CallSettle, Frame
<1>5. Return(r) => frame'[r].when = NoFrame.when
  BY <1>1 DEF Return
<1>6. CASE Admission(r) \/ Settlement(r)
  BY <1>6 DEF Admission, ReserveRead, ReserveCheck, ReserveSeq, ReserveCas,
     Settlement, SettleRead, SettleMarker, SettleCas, LedgerAppend, LedgerLost
<1>7. CASE Update(r)
  BY <1>5, <1>7 DEF Update, UpdRead, UpdSeq, UpdCas
<1>8. CASE Breaks(r)
  BY <1>8, BreakFacts DEF NoFrame
<1>9. CASE Gateway(r) \/ Abandoned(r)
  BY <1>3, <1>4, <1>5, <1>9
    DEF Gateway, Abandoned, SecretDenied, DryRun, Forward, Answered, Rejected,
        ForwardStream, Opened, OpenFailed, FirstChunk, StreamEnd, Finalize, Settled,
        Unsettled, UnsettledStream
<1> QED BY <1>6, <1>7, <1>8, <1>9 DEF Request

\* ... or of an operator.
LEMMA ClockedOperator ==
    ASSUME TypeOK, NEW o \in Operators, Operator(o)
    PROVE  Clocked /\ period' = period
<1>1. o \in Actors /\ frame \in [Actors -> Frame] /\ Alone(o)
  BY OperatorAlone DEF Actors, TypeOK
<1>2. SUFFICES frame'[o].when \in {frame[o].when, NoFrame.when, period} /\ period' = period
  BY <1>1 DEF Clocked, Alone
<1>3. ASSUME NEW c, CallSettle(o, c)
      PROVE  frame'[o].when = period
  BY <1>1, <1>3 DEF CallSettle, Frame
<1>4. Return(o) => frame'[o].when = NoFrame.when
  BY <1>1 DEF Return
<1>5. CASE Settlement(o)
  BY <1>5 DEF Settlement, SettleRead, SettleMarker, SettleCas, LedgerAppend, LedgerLost
<1>6. CASE Ask(o)
  BY <1>1, <1>6 DEF Ask, Frame
<1>7. CASE Answer(o)
  BY <1>3, <1>4, <1>7 DEF Answer
<1>8. CASE ExpireRead(o) \/ Annotate(o) \/ SettleGaveUp(o) \/ OpCas(o) \/ OpSeq(o)
  BY <1>4, <1>8 DEF ExpireRead, Annotate, SettleGaveUp, OpCas, OpSeq
<1> QED BY <1>5, <1>6, <1>7, <1>8 DEF Operator

\* Every step does so, and no clock is ever put back.
LEMMA ClockedNext ==
    ASSUME TypeOK, [Next]_vars
    PROVE  Clocked /\ \A l \in Lanes : period[l] <= period'[l]
<1>1. \A l \in Lanes : period[l] \in Nat
  BY DEF TypeOK, Clocks
<1>2. ASSUME NEW l \in Lanes, NewPeriod(l)
      PROVE  Clocked /\ \A k \in Lanes : period[k] <= period'[k]
  <2>1. \A k \in Lanes : period'[k] \in {period[k], period[k] + 1}
    BY <1>2 DEF NewPeriod, TypeOK, Clocks
  <2> QED BY <1>1, <1>2, <2>1 DEF NewPeriod, Clocked
<1>3. ASSUME NEW w \in Workers, CrashWorker(w)
      PROVE  Clocked /\ period' = period
  BY <1>3 DEF CrashWorker, Restart, Clocked
<1>4. ASSUME NEW o \in Operators, CrashOperator(o)
      PROVE  Clocked /\ period' = period
  BY <1>4 DEF CrashOperator, Restart, Return, Clocked, TypeOK
<1>5. ASSUME \/ UNCHANGED vars
             \/ \E w \in Workers, r \in Requests : Check(w, r)
             \/ \E r \in Requests : TtlPasses(r)
      PROVE  Clocked /\ period' = period
  BY <1>5 DEF vars, Check, TtlPasses, Clocked
<1>6. period' = period => \A l \in Lanes : period[l] <= period'[l]
  BY <1>1
<1> QED BY <1>2, <1>3, <1>4, <1>5, <1>6, ClockedRequest, ClockedOperator DEF Next, Breaks

\* Nothing is debited at first
LEMMA PastInit == Init => Past
BY DEF Init, Past, NoFrame, EmptyLane, Actors

\* ... nor, later, in the future.
LEMMA PastNext ==
    ASSUME TypeOK, TypeOK', SettleArgs, Past, [Next]_vars
    PROVE  Past'
<1>1. \A l \in Lanes : /\ period[l] \in Nat /\ period'[l] \in Nat
                        /\ period[l] <= period'[l]
  BY ClockedNext DEF TypeOK, Clocks
<1>2. ASSUME NEW a \in Actors, NEW l \in Lanes
      PROVE  frame'[a].when[l] <= period'[l]
  <2>1. frame'[a].when \in {frame[a].when, NoFrame.when, period}
    BY ClockedNext DEF Clocked
  <2>2. frame[a].when[l] \in Nat /\ frame[a].when[l] <= period[l] /\ NoFrame.when[l] = 0
    BY DEF Past, TypeOK, Frame, Clocks, NoFrame
  <2>3. frame'[a].when[l] \in Nat /\ frame'[a].when[l] <= period[l]
    BY <1>1, <2>1, <2>2
  <2> QED BY <1>1, <2>3
<1>3. ASSUME NEW row \in Rows, NEW r \in Requests, quota'[row].cost[r] # 0
      PROVE  row[2] <= period'[row[1]]
  <2>1. row[1] \in Lanes /\ row[2] \in Nat
    BY DEF Rows
  <2>2. row[2] <= period[row[1]]
    <3>1. CASE quota'[row] = quota[row]
      BY <1>3, <3>1 DEF Past
    <3>2. ASSUME NEW a \in Actors, SettleWrites(a), quota'[row] # quota[row]
          PROVE  row[2] <= period[row[1]]
      <4>1. row \in SettleRows(a)
        BY <3>2 DEF SettleWrites, SettleWrite
      <4>2. SettleLanes(a) \subseteq Lanes
        BY <3>2, ConstantsAssumption DEF SettleLanes, SettleWrites, SettleArgs, ArgsOK
      <4>3. PICK l \in Lanes : row = <<l, frame[a].when[l]>>
        BY <4>1, <4>2 DEF SettleRows
      <4> QED BY <4>3 DEF Past
    <3>3. ASSUME NEW a \in Actors, SettleMarker(a)
          PROVE  quota'[row] = quota[row]
      BY <3>3 DEF SettleMarker, storeVars
    <3>4. Quiet => quota'[row] = quota[row]
      BY DEF Quiet
    <3> QED BY <3>1, <3>2, <3>3, <3>4, NextCases
  <2> QED BY <1>1, <2>1, <2>2
<1> QED BY <1>2, <1>3 DEF Past

-----------------------------------------------------------------------------
(* The admission bound: one process never admits more than the quota.      *)

\* The usage row of the current period.
Billed(l) == quota[Now(l)]

\* What r counts against lane l: what it was charged in the period, up to its
\* estimate, and its estimate while its entry may hold quota.  An entry holds
\* no longer once it is "reserved" and expired; that matters only after a crash
\* or an exception, since while its request is served it may still be set to
\* "forwarding".
Active(r) ==
    /\ table.res[r].state \notin Final \union {"none"}
    /\ ~(table.res[r].state = "reserved" /\ r \in expired /\ pc[r] \in {"crashed", "raised"})
Weight(l) ==
    [r \in Requests |->
        (IF Billed(l).cost[r] > Est[r] THEN Est[r] ELSE Billed(l).cost[r])
        + (IF l \in LanesOf[r] /\ Active(r) THEN Est[r] ELSE 0)]

Bounded == \A l \in Lanes : Total(Weight(l), Requests) <= Limit[l]

\* Between its check and its write, an admission still fits.
StillFits(r) ==
    pc[r] \in {"reserve_seq", "reserve_cas"} =>
        \A l \in LanesOf[r] : Total(Weight(l), Requests) + Est[r] <= Limit[l]

\* Where a request that is not settled has an entry that counts.
Live == {"admitted", "calling", "settle_read", "settle_marker", "settle_cas",
         "opening", "opened", "relaying", "eof"} \union Updating

\* A request is charged by its settlement alone, has an entry until then,
\* leaves "reserved" before it is awaited, and writes the version it has read.
Orderly(r) ==
    /\ pc[r] \in AwaitSteps \union SyncSteps
    /\ marker[r].state = "absent" => \A row \in Rows : quota[row].cost[r] = 0
    /\ marker[r].state = "absent" /\ pc[r] \in Live =>
          table.res[r].state \notin Final \union {"none"}
    /\ pc[r] \in {"ledger", "repair", "settled"} => marker[r].state = "settled"
    /\ table.res[r].state = "reserved" /\ pc[r] \in AwaitSteps
          => pc[r] \in {"crashed", "raised"}
    /\ pc[r] \in Updating =>
          /\ frame[r].goal \in {"released", "uncertain", "settled", "forwarding", "streaming"}
          /\ frame[r].next # "done" => frame[r].goal \in {"forwarding", "streaming"}
    /\ pc[r] \in {"reserve_cas", "upd_cas"} => snap[r].table.ver = table.ver

BoundInv == Bounded /\ \A r \in Requests : StillFits(r) /\ Orderly(r)

\* The weights are numbers, and so is their sum.
LEMMA WeightTyped ==
    ASSUME TypeOK, NEW l \in Lanes
    PROVE  /\ Now(l) \in Rows
           /\ \A r \in Requests :
                 /\ Billed(l).cost[r] \in Nat /\ Est[r] \in Nat
                 /\ Weight(l)[r] \in Nat
<1>0. Now(l) \in Rows
  BY RowTyped DEF TypeOK, Now
<1>1. \A r \in Requests : Billed(l).cost[r] \in Nat /\ Est[r] \in Nat
  BY <1>0, ConstantsAssumption DEF TypeOK, LaneRow, Billed
<1> QED
  BY <1>0, <1>1 DEF Weight

\* ... and so are those of the next state.
LEMMA WeightTypedNext ==
    ASSUME TypeOK', NEW l \in Lanes
    PROVE  /\ Now(l)' \in Rows
           /\ \A r \in Requests :
                 /\ Billed(l)'.cost[r] \in Nat /\ Est[r] \in Nat
                 /\ Weight(l)'[r] \in Nat
<1>0. Now(l)' \in Rows
  BY RowTyped DEF TypeOK, Now
<1>1. \A r \in Requests : Billed(l)'.cost[r] \in Nat /\ Est[r] \in Nat
  BY <1>0, ConstantsAssumption DEF TypeOK, LaneRow, Billed
<1> QED
  BY <1>0, <1>1 DEF Weight

\* In the same period, what a request was billed changes with its rows only.
LEMMA BilledKept ==
    ASSUME TypeOK, period' = period, NEW q \in Requests,
           \A row \in Rows : quota'[row].cost[q] = quota[row].cost[q]
    PROVE  \A l \in Lanes : Billed(l)'.cost[q] = Billed(l).cost[q]
BY WeightTyped DEF Billed, Now

\* Both sums are numbers that can be compared with the limit.
LEMMA TotalTyped ==
    ASSUME IsFiniteSet(Requests), TypeOK, TypeOK', NEW l \in Lanes
    PROVE  /\ Total(Weight(l), Requests) \in Int /\ Total(Weight(l)', Requests) \in Int
           /\ Limit[l] \in Int
<1> DEFINE w == Weight(l)
           v == Weight(l)'
<1>1. \A q \in Requests : w[q] \in Int /\ v[q] \in Int
  BY WeightTyped, WeightTypedNext
<1> HIDE DEF w, v
<1>2. Total(w, Requests) \in Int /\ Total(v, Requests) \in Int
  BY <1>1, TotalSteps
<1> QED
  BY <1>2, ConstantsAssumption DEF w, v

\* A request weighs no more if it is charged as before, or nothing, and starts
\* no hold.
LEMMA WeightFalls ==
    ASSUME TypeOK, NEW q \in Requests, NEW l \in Lanes,
           Billed(l)'.cost[q] \in {Billed(l).cost[q], 0}, Active(q)' => Active(q)
    PROVE  Weight(l)'[q] <= Weight(l)[q]
<1>1. /\ Billed(l).cost[q] \in Nat /\ Est[q] \in Nat
      /\ Weight(l)[q] = (IF Billed(l).cost[q] > Est[q] THEN Est[q] ELSE Billed(l).cost[q])
                        + (IF l \in LanesOf[q] /\ Active(q) THEN Est[q] ELSE 0)
      /\ Weight(l)'[q] = (IF Billed(l)'.cost[q] > Est[q] THEN Est[q] ELSE Billed(l)'.cost[q])
                         + (IF l \in LanesOf[q] /\ Active(q)' THEN Est[q] ELSE 0)
  BY WeightTyped DEF Weight
<1> QED
  BY <1>1

\* If no request weighs more than before, nor do they together.
LEMMA TotalFalls ==
    ASSUME IsFiniteSet(Requests), TypeOK, TypeOK', NEW l \in Lanes,
           \A q \in Requests : Weight(l)'[q] <= Weight(l)[q]
    PROVE  Total(Weight(l)', Requests) <= Total(Weight(l), Requests)
<1> DEFINE w == Weight(l)
           v == Weight(l)'
<1>1. \A q \in Requests : w[q] \in Int /\ v[q] \in Int /\ v[q] <= w[q]
  BY WeightTyped, WeightTypedNext
<1> HIDE DEF w, v
<1>2. Total(v, Requests) <= Total(w, Requests)
  BY <1>1, TotalMonotonic
<1> QED
  BY <1>2 DEF w, v

\* One request may start to weigh e where it weighed nothing.
LEMMA TotalGrows ==
    ASSUME IsFiniteSet(Requests), TypeOK, TypeOK', NEW l \in Lanes, NEW r \in Requests,
           \A q \in Requests \ {r} : Weight(l)'[q] <= Weight(l)[q],
           NEW e \in Nat, Weight(l)'[r] <= e
    PROVE  Total(Weight(l)', Requests) <= Total(Weight(l), Requests) + e
<1> DEFINE w == Weight(l)
           v == Weight(l)'
           R == Requests \ {r}
<1>1. \A q \in Requests : w[q] \in Nat /\ v[q] \in Nat
  BY WeightTyped, WeightTypedNext
<1>2. v[r] <= e /\ \A q \in R : v[q] <= w[q]
  OBVIOUS
<1>3. IsFiniteSet(R) /\ \A q \in R : w[q] \in Int /\ v[q] \in Int
  BY <1>1, FS_Subset
<1> HIDE DEF w, v
<1>4. Total(w, Requests) = w[r] + Total(w, R) /\ Total(v, Requests) = v[r] + Total(v, R)
  BY <1>1, TotalSplit
<1>5. Total(v, R) <= Total(w, R)
  BY <1>1, <1>2, <1>3, TotalMonotonic
<1>6. Total(v, R) \in Int /\ Total(w, R) \in Int
  BY <1>1, <1>3, TotalSteps
<1> HIDE DEF R
<1>7. Total(v, Requests) <= Total(w, Requests) + e
  BY <1>1, <1>2, <1>4, <1>5, <1>6
<1> QED
  BY <1>7 DEF w, v

\* The other requests weigh no more after a step of r.
LEMMA OthersFall ==
    ASSUME TypeOK, NEW r \in Requests, Alone(r), OthersKept(r), expired \subseteq expired',
           NEW q \in Requests \ {r}, NEW l \in Lanes, Billed(l)'.cost[q] = Billed(l).cost[q]
    PROVE  Weight(l)'[q] <= Weight(l)[q]
<1>1. pc'[q] = pc[q]
  BY DEF Alone, Actors
<1>2. Active(q)' => Active(q)
  BY <1>1 DEF Active, OthersKept
<1> QED
  BY <1>2, WeightFalls

\* The bound is kept by a step of r that keeps it and r's own part.
LEMMA BoundKept ==
    ASSUME IsFiniteSet(Requests), TypeOK, TypeOK', OneInv, BoundInv,
           NEW r \in Requests, Alone(r), OthersKept(r), InTurn(r),
           pc[r] \notin {"crashed", "raised"},
           expired \subseteq expired', period' = period,
           \A q \in Requests \ {r} : \A row \in Rows : quota'[row].cost[q] = quota[row].cost[q],
           Bounded', StillFits(r)', Orderly(r)'
    PROVE  BoundInv'
<1>1. \A q \in Requests \ {r} : pc'[q] = pc[q] /\ frame'[q] = frame[q] /\ snap'[q] = snap[q]
  BY DEF Alone, Actors
<1>2. ASSUME NEW q \in Requests \ {r}, pc[q] \in SyncSteps
      PROVE  UNCHANGED <<table, quota, marker>>
  BY <1>2 DEF InTurn, OneInv, OneAtATime
<1>3. ASSUME NEW q \in Requests \ {r}
      PROVE  StillFits(q)'
  <2> SUFFICES ASSUME pc[q] \in {"reserve_seq", "reserve_cas"}, NEW l \in LanesOf[q]
               PROVE  Total(Weight(l)', Requests) + Est[q] <= Limit[l]
    BY <1>1 DEF StillFits
  <2>1. UNCHANGED <<table, quota, marker>> /\ l \in Lanes /\ Est[q] \in Nat
    BY <1>2, ConstantsAssumption DEF SyncSteps
  <2>2. Active(r)' => Active(r)
    BY <2>1 DEF Active
  <2>3. \A p \in Requests : Weight(l)'[p] <= Weight(l)[p]
    BY <2>1, <2>2, BilledKept, WeightFalls, OthersFall
  <2>4. Total(Weight(l)', Requests) <= Total(Weight(l), Requests)
    BY <2>1, <2>3, TotalFalls
  <2>5. Total(Weight(l), Requests) + Est[q] <= Limit[l]
    BY DEF BoundInv, StillFits
  <2> QED
    BY <2>1, <2>4, <2>5, TotalTyped
<1>4. ASSUME NEW q \in Requests \ {r}
      PROVE  Orderly(q)'
  <2>1. Orderly(q)
    BY DEF BoundInv
  <2>2. /\ marker'[q] = marker[q] /\ \A row \in Rows : quota'[row].cost[q] = quota[row].cost[q]
        /\ \/ table'.res[q].state = table.res[q].state
           \/ table.res[q].state \in Final /\ table'.res[q].state = "none"
    BY DEF OthersKept
  <2>3. pc[q] \in {"reserve_cas", "upd_cas"} => UNCHANGED table
    BY <1>2 DEF SyncSteps
  <2> QED
    BY <1>1, <2>1, <2>2, <2>3 DEF Orderly
<1> QED
  BY <1>3, <1>4 DEF BoundInv

\* The bound is kept by a step of r that neither charges r nor adds an entry.
LEMMA BoundedKept ==
    ASSUME IsFiniteSet(Requests), TypeOK, TypeOK', BoundInv, NEW r \in Requests, Alone(r),
           OthersKept(r), expired \subseteq expired', period' = period,
           \A q \in Requests : \A row \in Rows : quota'[row].cost[q] = quota[row].cost[q],
           Active(r)' => Active(r)
    PROVE  /\ Bounded'
           /\ \A l \in Lanes : Total(Weight(l)', Requests) <= Total(Weight(l), Requests)
<1>1. ASSUME NEW l \in Lanes
      PROVE  Total(Weight(l)', Requests) <= Total(Weight(l), Requests)
  <2>1. \A q \in Requests : Weight(l)'[q] <= Weight(l)[q]
    BY BilledKept, WeightFalls, OthersFall
  <2> QED
    BY <2>1, TotalFalls
<1>2. ASSUME NEW l \in Lanes
      PROVE  Total(Weight(l)', Requests) <= Limit[l]
  <2>1. Total(Weight(l), Requests) <= Limit[l]
    BY DEF BoundInv, Bounded
  <2> QED
    BY <1>1, <2>1, TotalTyped
<1> QED
  BY <1>1, <1>2 DEF Bounded

\* An admission that fits what it has read fits what is stored: whatever else
\* counts against its lanes, it has read.
LEMMA FitsBound ==
    ASSUME IsFiniteSet(Requests), TypeOK, OneInv, BoundInv, NEW r \in Requests,
           pc[r] = "reserve_check", table.res[r].state = "none",
           Fits(r, snap[r].table.res), NEW l \in LanesOf[r]
    PROVE  Total(Weight(l), Requests) + Est[r] <= Limit[l]
<1> DEFINE res == snap[r].table.res
           H == {q \in Requests : l \in LanesOf[q] /\ Holds(res, q)}
           cost == Billed(l).cost
           hold == [q \in Requests |-> IF q \in H THEN Est[q] ELSE 0]
           both == [q \in Requests |-> cost[q] + hold[q]]
           w == Weight(l)
<1>1. l \in Lanes /\ \A q \in Requests : cost[q] \in Nat /\ Est[q] \in Nat /\ w[q] \in Nat
  BY WeightTyped, ConstantsAssumption
<1>2. ASSUME NEW q \in Requests, l \in LanesOf[q], Active(q)
      PROVE  q \in H
  <2>1. q # r /\ table.res[q].state \notin Final \union {"none"}
    BY <1>2 DEF Active
  <2>2. res[q] = table.res[q]
    BY <2>1 DEF OneInv, ReadsTrue, Prune
  <2>3. pc[q] \notin SyncSteps
    BY <2>1 DEF OneInv, OneAtATime, SyncSteps
  <2>4. table.res[q].state = "reserved" => pc[q] \in {"crashed", "raised"}
    BY <2>3 DEF BoundInv, Orderly
  <2> QED
    BY <1>2, <2>1, <2>2, <2>4 DEF Active, Holds
<1>3. \A q \in Requests : w[q] <= both[q]
  <2> SUFFICES ASSUME NEW q \in Requests PROVE w[q] <= both[q]
    OBVIOUS
  <2>1. w[q] = (IF cost[q] > Est[q] THEN Est[q] ELSE cost[q])
               + (IF l \in LanesOf[q] /\ Active(q) THEN Est[q] ELSE 0)
    BY DEF Weight
  <2>2. both[q] = cost[q] + (IF q \in H THEN Est[q] ELSE 0)
    OBVIOUS
  <2> HIDE DEF w, both, cost, H
  <2> QED
    BY <1>1, <1>2, <2>1, <2>2
<1>4. Used(Now(l)) = Total(cost, Requests) /\ Held(res, l) = Total(Est, H)
  BY DEF Used, Held, Total, Billed
<1>5. Used(Now(l)) + Held(res, l) + Est[r] <= Limit[l]
  BY DEF Fits
<1>6. \A q \in Requests : /\ cost[q] \in Int /\ Est[q] \in Int /\ w[q] \in Int
                          /\ hold[q] = (IF q \in H THEN Est[q] ELSE 0) /\ hold[q] \in Int
                          /\ both[q] = cost[q] + hold[q] /\ both[q] \in Int
  BY <1>1
<1>7. H \in SUBSET Requests /\ Est[r] \in Nat /\ Limit[l] \in Nat
  BY <1>1, ConstantsAssumption
<1> HIDE DEF res, H, cost, hold, both, w
<1>8. Total(hold, Requests) = Total(Est, H)
  BY <1>6, <1>7, TotalPart
<1>9. Total(both, Requests) = Total(cost, Requests) + Total(hold, Requests)
  BY <1>6, TotalPlus
<1>10. Total(w, Requests) <= Total(both, Requests)
  BY <1>3, <1>6, TotalMonotonic
<1>11. Total(w, Requests) \in Int /\ Total(cost, Requests) \in Int /\ Total(hold, Requests) \in Int
  BY <1>6, TotalSteps
<1>12. Total(w, Requests) + Est[r] <= Limit[l]
  BY <1>4, <1>5, <1>7, <1>8, <1>9, <1>10, <1>11
<1> QED
  BY <1>12 DEF w

\* Admission: the write is what starts to weigh, and it still fits.
LEMMA BoundAdmission ==
    ASSUME IsFiniteSet(Requests), TypeOK, TypeOK', Untouched, OneProcess, OneInv, BoundInv,
           NEW r \in Requests, Admission(r)
    PROVE  /\ expired' = expired /\ period' = period /\ quota' = quota
           /\ Bounded' /\ StillFits(r)' /\ Orderly(r)'
<1>1. r \in Actors /\ snap[r] \in Snap /\ snap[r].table \in Table /\ table \in Table
  BY DEF Actors, TypeOK, Snap
<1>2. pc[r] \in {"reserve_read", "reserve_check", "reserve_seq", "reserve_cas"}
  BY DEF Admission, ReserveRead, ReserveCheck, ReserveSeq, ReserveCas
<1>3. /\ marker[r].state = "absent" /\ UNCHANGED <<quota, marker, expired, period, frame>>
      /\ table.res[r].state = "none" /\ Orderly(r) /\ StillFits(r)
  BY <1>2 DEF Admission, ReserveRead, ReserveCheck, ReserveSeq, ReserveCas, storeVars,
              Untouched, Unknown, NotAdmitted, BoundInv
<1>4. Alone(r) /\ OthersKept(r)
  BY RequestAlone, OneAdmission DEF Request
<1>5. ASSUME UNCHANGED table
      PROVE  /\ Bounded'
             /\ \A l \in Lanes : Total(Weight(l)', Requests) <= Total(Weight(l), Requests)
  <2>1. Active(r)' => Active(r)
    BY <1>3, <1>5 DEF Active
  <2> QED
    BY <1>3, <1>4, <2>1, BoundedKept
<1>6. CASE ReserveRead(r)
  <2>1. pc'[r] = "reserve_check" /\ UNCHANGED table
    BY <1>1, <1>6 DEF ReserveRead, Goto, TypeOK, storeVars
  <2> QED
    BY <1>3, <1>5, <2>1 DEF StillFits, Orderly, Live, Updating, AwaitSteps, SyncSteps
<1>7. CASE ReserveCheck(r)
  <2>1. UNCHANGED table /\ pc[r] = "reserve_check" /\ pc'[r] \in {"reserve_seq", "refused"}
    BY <1>1, <1>7 DEF ReserveCheck, Goto, TypeOK, storeVars
  <2>2. pc'[r] = "reserve_seq" => Fits(r, snap[r].table.res)
    BY <1>1, <1>7 DEF ReserveCheck, Goto, TypeOK
  <2>3. StillFits(r)'
    <3> SUFFICES ASSUME pc'[r] = "reserve_seq", NEW l \in LanesOf[r]
                 PROVE  Total(Weight(l)', Requests) + Est[r] <= Limit[l]
      BY <2>1 DEF StillFits
    <3>1. Total(Weight(l), Requests) + Est[r] <= Limit[l]
      BY <1>3, <2>1, <2>2, FitsBound
    <3>2. l \in Lanes /\ Est[r] \in Nat
      BY ConstantsAssumption
    <3>3. Total(Weight(l)', Requests) <= Total(Weight(l), Requests)
      BY <1>5, <2>1, <3>2
    <3> QED
      BY <3>1, <3>2, <3>3, TotalTyped
  <2> QED
    BY <1>3, <1>5, <2>1, <2>3 DEF Orderly, Live, Updating, AwaitSteps, SyncSteps
<1>8. CASE ReserveSeq(r)
  <2>1. /\ UNCHANGED table /\ pc[r] = "reserve_seq" /\ pc'[r] = "reserve_cas"
        /\ snap'[r].table.ver = table.ver
    BY <1>1, <1>8 DEF ReserveSeq, Goto, TypeOK, Snap, Table, storeVars
  <2>2. StillFits(r)'
    <3> SUFFICES ASSUME NEW l \in LanesOf[r]
                 PROVE  Total(Weight(l)', Requests) + Est[r] <= Limit[l]
      BY DEF StillFits
    <3>1. Total(Weight(l), Requests) + Est[r] <= Limit[l]
      BY <1>3, <2>1 DEF StillFits
    <3>2. l \in Lanes /\ Est[r] \in Nat
      BY ConstantsAssumption
    <3>3. Total(Weight(l)', Requests) <= Total(Weight(l), Requests)
      BY <1>5, <2>1, <3>2
    <3> QED
      BY <3>1, <3>2, <3>3, TotalTyped
  <2> QED
    BY <1>3, <1>5, <2>1, <2>2 DEF Orderly, Live, Updating, AwaitSteps, SyncSteps
<1>9. CASE ReserveCas(r)
  <2>1. pc[r] = "reserve_cas" /\ pc'[r] \in {"admitted", "reserve_read", "refused"}
    BY <1>1, <1>9 DEF ReserveCas, Goto, TypeOK
  <2>2. CASE UNCHANGED table /\ pc'[r] # "admitted"
    BY <1>3, <1>5, <2>1, <2>2 DEF StillFits, Orderly, Live, Updating, AwaitSteps, SyncSteps
  <2>3. CASE WriteTable(r) /\ pc'[r] = "admitted"
    <3>1. table'.res[r].state = "reserved"
      BY <2>1, <2>3 DEF WriteTable, OneInv, ReadsTrue
    <3>2. Orderly(r)'
      BY <1>3, <2>3, <3>1 DEF Orderly, Live, Updating, AwaitSteps, SyncSteps, Final
    <3>3. ASSUME NEW l \in Lanes
          PROVE  Total(Weight(l)', Requests) <= Limit[l]
      <4>1. \A q \in Requests \ {r} : Weight(l)'[q] <= Weight(l)[q]
        BY <1>3, <1>4, BilledKept, OthersFall
      <4>2. Billed(l)'.cost[r] = 0 /\ Est[r] \in Nat
        BY <1>3, WeightTyped, ConstantsAssumption DEF Orderly, Billed, Now
      <4>3. CASE l \in LanesOf[r]
        <5>1. Weight(l)'[r] <= Est[r]
          BY <4>2 DEF Weight
        <5>2. Total(Weight(l)', Requests) <= Total(Weight(l), Requests) + Est[r]
          BY <4>1, <4>2, <5>1, TotalGrows
        <5>3. Total(Weight(l), Requests) + Est[r] <= Limit[l]
          BY <1>3, <2>1, <4>3 DEF StillFits
        <5> QED
          BY <4>2, <5>2, <5>3, TotalTyped
      <4>4. CASE l \notin LanesOf[r]
        <5>1. Weight(l)'[r] <= 0
          BY <4>2, <4>4 DEF Weight
        <5>2. Total(Weight(l)', Requests) <= Total(Weight(l), Requests) + 0
          BY <4>1, <5>1, TotalGrows
        <5>3. Total(Weight(l), Requests) <= Limit[l]
          BY DEF BoundInv, Bounded
        <5> QED
          BY <5>2, <5>3, TotalTyped
      <4> QED
        BY <4>3, <4>4
    <3>4. Bounded'
      BY <3>3 DEF Bounded
    <3> QED
      BY <1>3, <2>3, <3>2, <3>4 DEF StillFits
  <2> QED
    BY <1>1, <1>9, <2>2, <2>3 DEF ReserveCas, Goto, TypeOK
<1> QED
  BY <1>6, <1>7, <1>8, <1>9 DEF Admission

\* An update changes the state of an entry that counts already.
LEMMA BoundUpdate ==
    ASSUME IsFiniteSet(Requests), TypeOK, TypeOK', OneProcess, OneInv, BoundInv,
           NEW r \in Requests, Update(r)
    PROVE  /\ expired' = expired /\ period' = period /\ quota' = quota
           /\ Bounded' /\ StillFits(r)' /\ Orderly(r)'
<1>1. r \in Actors /\ snap[r] \in Snap /\ snap[r].table \in Table /\ table \in Table
      /\ frame[r] \in Frame
  BY DEF Actors, TypeOK, Snap
<1>2. /\ pc[r] \in Updating /\ UNCHANGED <<quota, marker, expired, period>>
      /\ EndsOnce(r) /\ ReadsTrue(r) /\ Orderly(r) /\ pc[r] \notin {"crashed", "raised"}
  BY DEF Update, UpdRead, UpdSeq, UpdCas, Updating, storeVars, OneInv, BoundInv
<1>3. /\ frame[r].next \in {"opening", "relaying", "eof", "done"}
      /\ frame[r].goal \notin {"none", "reserved"}
      /\ frame[r].goal \in Final => frame[r].next = "done"
      /\ marker[r].state = "settled" => frame[r].goal = "settled"
      /\ marker[r].state = "absent" => table.res[r].state \notin Final \union {"none"}
      /\ marker[r].state \in {"absent", "settled"}
  BY <1>1, <1>2 DEF Frame, Nexts, EndsOnce, Orderly, Live, Updating, Final, TypeOK, Marker
<1>4. Alone(r) /\ OthersKept(r)
  BY RequestAlone, OneUpdate DEF Request
<1>5. ASSUME UNCHANGED table \/ table'.res[r].state = frame[r].goal
      PROVE  Bounded'
  <2>1. Active(r)' => Active(r)
    BY <1>2, <1>3, <1>5 DEF Active, Final
  <2> QED
    BY <1>2, <1>4, <2>1, BoundedKept
<1>6. ASSUME pc'[r] = frame[r].next, table'.res[r].state # "reserved",
             marker[r].state = "absent" /\ frame[r].next # "done" =>
                table'.res[r].state \notin Final \union {"none"}
      PROVE  StillFits(r)' /\ Orderly(r)'
  <2>1. pc'[r] \in {"opening", "relaying", "eof", "done"}
    BY <1>3, <1>6
  <2>2. StillFits(r)'
    BY <2>1 DEF StillFits
  <2>3. pc'[r] \in AwaitSteps \union SyncSteps /\ pc'[r] \notin Updating
    BY <2>1 DEF AwaitSteps, Updating
  <2>4. marker[r].state = "absent" /\ pc'[r] \in Live =>
            table'.res[r].state \notin Final \union {"none"}
    BY <1>6, <2>1 DEF Live, Updating
  <2>5. \A row \in Rows : quota'[row].cost[r] = quota[row].cost[r]
    BY <1>2
  <2> QED
    BY <1>2, <1>6, <2>1, <2>2, <2>3, <2>4, <2>5 DEF Orderly
<1>7. CASE UpdRead(r)
  <2>1. CASE table.res[r].state = "none"
    <3>1. pc'[r] = frame[r].next /\ UNCHANGED table
      BY <1>1, <1>7, <2>1 DEF UpdRead, Goto, TypeOK, storeVars
    <3> QED
      BY <1>2, <1>3, <1>5, <1>6, <2>1, <3>1
  <2>2. CASE table.res[r].state # "none"
    <3>1. pc'[r] = "upd_seq" /\ UNCHANGED <<table, frame>>
      BY <1>1, <1>7, <2>2 DEF UpdRead, Goto, TypeOK, storeVars
    <3>2. Orderly(r)'
      BY <1>2, <3>1 DEF Orderly, Live, Updating, AwaitSteps, SyncSteps
    <3> QED
      BY <1>2, <1>5, <3>1, <3>2 DEF StillFits
  <2> QED
    BY <2>1, <2>2
<1>8. CASE UpdSeq(r)
  <2>1. pc'[r] = "upd_cas" /\ snap'[r].table.ver = table.ver /\ UNCHANGED <<table, frame>>
    BY <1>1, <1>8 DEF UpdSeq, Goto, TypeOK, Snap, Table, storeVars
  <2>2. Orderly(r)'
    BY <1>2, <2>1 DEF Orderly, Live, Updating, AwaitSteps, SyncSteps
  <2> QED
    BY <1>2, <1>5, <2>1, <2>2 DEF StillFits
<1>9. CASE UpdCas(r)
  <2>1. pc'[r] = frame[r].next /\ pc[r] = "upd_cas"
    BY <1>1, <1>9 DEF UpdCas, Goto, TypeOK
  <2>2. snap[r].table.ver = table.ver /\ snap[r].table.res[r].state = frame[r].goal
    BY <1>2, <2>1 DEF Orderly, ReadsTrue
  <2>3. table'.res[r].state = frame[r].goal
    BY <1>9, <2>2 DEF UpdCas, WriteTable
  <2> QED
    BY <1>2, <1>3, <1>5, <1>6, <2>1, <2>3
<1> QED
  BY <1>7, <1>8, <1>9 DEF Update

\* A settlement turns the hold into a charge that weighs no more.
LEMMA BoundSettlement ==
    ASSUME IsFiniteSet(Requests), TypeOK, TypeOK', OneProcess, OneInv, BoundInv,
           NEW r \in Requests, Settlement(r)
    PROVE  /\ expired' = expired /\ period' = period
           /\ \A q \in Requests \ {r} : \A row \in Rows : quota'[row].cost[q] = quota[row].cost[q]
           /\ Bounded' /\ StillFits(r)' /\ Orderly(r)'
<1>1. /\ r \in Actors /\ r \notin Operators /\ Rid(r) = r /\ snap[r] \in Snap
      /\ EndsOnce(r) /\ ReadsTrue(r) /\ Orderly(r) /\ LanesOf[r] \subseteq Lanes
  BY ConstantsAssumption DEF Actors, TypeOK, Rid, OneProcess, OneInv, BoundInv
<1>2. /\ pc[r] \in {"settle_read", "settle_marker", "settle_cas", "ledger", "repair"}
      /\ UNCHANGED <<expired, period, frame>>
  BY DEF Settlement, SettleRead, SettleMarker, SettleCas, LedgerAppend, LedgerLost
<1>3. Alone(r) /\ OthersKept(r)
  BY RequestAlone, OneSettlement DEF Request
<1>4. ASSUME UNCHANGED <<table, quota>>
      PROVE  Bounded'
  <2>1. Active(r)' => Active(r)
    BY <1>2, <1>4 DEF Active
  <2> QED
    BY <1>2, <1>3, <1>4, <2>1, BoundedKept
<1>5. CASE SettleRead(r) \/ SettleMarker(r)
  <2>1. /\ UNCHANGED <<table, quota, marker>>
        /\ pc'[r] \in {"settle_marker", "settle_cas"}
    <3>1. CASE SettleRead(r)
      BY <1>1, <3>1 DEF SettleRead, Goto, TypeOK, storeVars
    <3>2. CASE SettleMarker(r)
      <4>1. marker[r].state # "settled" /\ UNCHANGED storeVars
        BY <1>1, <3>2 DEF SettleMarker, EndsOnce, Updating
      <4> QED
        BY <1>1, <3>2, <4>1 DEF SettleMarker, Goto, TypeOK, storeVars
    <3> QED
      BY <1>5, <3>1, <3>2
  <2>2. Orderly(r)'
    BY <1>1, <1>2, <2>1 DEF Orderly, Live, Updating, AwaitSteps, SyncSteps, EndsOnce
  <2> QED
    BY <1>2, <1>4, <2>1, <2>2 DEF StillFits
<1>6. CASE SettleCas(r)
  <2>1. pc[r] = "settle_cas"
    BY <1>6 DEF SettleCas
  <2>2. /\ snap[r].table = table /\ snap[r].quota = quota /\ marker[r].state = "absent"
        /\ table.res[r].state \notin Final \union {"none"}
    BY <1>1, <2>1 DEF ReadsTrue, Orderly, Live
  <2>3. ~SettleStale(r)
    BY <1>1, <2>2 DEF SettleStale, MarkerVersion
  <2>4. SettleWrite(r) /\ pc'[r] = "ledger"
    BY <1>1, <1>6, <2>3 DEF SettleCas, Goto, TypeOK
  <2>5. SettleLanes(r) = LanesOf[r] /\ frame[r].cost \in Nat
    BY <1>1 DEF SettleLanes, TypeOK, Frame
  <2>6. ASSUME NEW row \in Rows
        PROVE  /\ \A q \in Requests \ {r} : quota'[row].cost[q] = quota[row].cost[q]
               /\ row \notin SettleRows(r) => quota'[row] = quota[row]
    <3>1. CASE row \in SettleRows(r)
      <4>1. quota'[row] = Debited(quota[row], r, frame[r].cost)
        BY <1>1, <2>2, <2>4, <3>1 DEF SettleWrite
      <4>2. quota'[row].cost = [quota[row].cost EXCEPT ![r] = @ + frame[r].cost]
        BY <4>1 DEF Debited
      <4> QED
        BY <3>1, <4>2 DEF TypeOK, LaneRow
    <3>2. CASE row \notin SettleRows(r)
      BY <1>1, <2>4, <3>2 DEF SettleWrite
    <3> QED
      BY <3>1, <3>2
  <2>12. ASSUME NEW l \in Lanes
         PROVE  /\ \A q \in Requests \ {r} : Billed(l)'.cost[q] = Billed(l).cost[q]
                /\ l \notin LanesOf[r] => Billed(l)' = Billed(l)
    <3>1. Now(l) \in Rows /\ Now(l)' = Now(l)
      BY <1>2, WeightTyped DEF Now
    <3>2. l \notin LanesOf[r] => Now(l) \notin SettleRows(r)
      BY <2>5 DEF Now, SettleRows
    <3> QED
      BY <2>6, <3>1, <3>2 DEF Billed
  <2>7. marker'[r].state = "settled"
    BY <1>1, <2>4 DEF SettleWrite, TypeOK
  <2>8. table'.res[r].state = "settled"
    <3>1. table' = [ver |-> table.ver + 1, res |-> [table.res EXCEPT ![r].state = "settled"]]
      BY <1>1, <2>2, <2>4 DEF SettleWrite
    <3> QED
      BY <3>1 DEF TypeOK, Table, Entry
  <2>9. ASSUME NEW l \in Lanes
        PROVE  Weight(l)'[r] <= Weight(l)[r]
    <3>1. ~Active(r)' /\ Active(r)
      BY <2>1, <2>2, <2>8 DEF Active, Final
    <3>2. /\ Billed(l).cost[r] = 0 /\ Est[r] \in Nat
          /\ Billed(l)'.cost[r] \in Nat
      BY <1>1, <2>2, WeightTyped, WeightTypedNext DEF Orderly, Billed
    <3>3. Weight(l)'[r] = IF Billed(l)'.cost[r] > Est[r] THEN Est[r] ELSE Billed(l)'.cost[r]
      BY <3>1, <3>2 DEF Weight
    <3>4. Weight(l)[r] = IF l \in LanesOf[r] THEN Est[r] ELSE 0
      BY <3>1, <3>2 DEF Weight
    <3> QED
      BY <2>12, <3>2, <3>3, <3>4
  <2>10. ASSUME NEW l \in Lanes
         PROVE  Total(Weight(l)', Requests) <= Limit[l]
    <3>1. \A q \in Requests : Weight(l)'[q] <= Weight(l)[q]
      BY <1>2, <1>3, <2>12, <2>9, OthersFall
    <3>2. Total(Weight(l)', Requests) <= Total(Weight(l), Requests)
      BY <3>1, TotalFalls
    <3>3. Total(Weight(l), Requests) <= Limit[l]
      BY DEF BoundInv, Bounded
    <3> QED
      BY <3>2, <3>3, TotalTyped
  <2>11. Orderly(r)'
    BY <2>4, <2>7, <2>8 DEF Orderly, Live, Updating, AwaitSteps, SyncSteps
  <2> QED
    BY <1>2, <2>4, <2>6, <2>10, <2>11 DEF Bounded, StillFits
<1>7. CASE LedgerAppend(r) \/ LedgerLost(r)
  <2>1. UNCHANGED <<table, quota, marker>> /\ pc'[r] = "settled"
    BY <1>1, <1>7 DEF LedgerAppend, LedgerLost, Goto, TypeOK, storeVars
  <2>2. pc[r] \in {"ledger", "repair"}
    BY <1>7 DEF LedgerAppend, LedgerLost
  <2>3. Orderly(r)'
    BY <1>1, <1>2, <2>1, <2>2 DEF Orderly, Live, Updating, AwaitSteps, SyncSteps
  <2> QED
    BY <1>2, <1>4, <2>1, <2>3 DEF StillFits
<1> QED
  BY <1>5, <1>6, <1>7 DEF Settlement

\* Nothing the gateway does between the store procedures changes what counts.
LEMMA BoundGateway ==
    ASSUME IsFiniteSet(Requests), TypeOK, TypeOK', OneProcess, OneInv, BoundInv,
           NEW r \in Requests, Gateway(r) \/ Abandoned(r)
    PROVE  /\ expired' = expired /\ period' = period /\ quota' = quota
           /\ Bounded' /\ StillFits(r)' /\ Orderly(r)'
<1>1. r \in Actors /\ EndsOnce(r) /\ Orderly(r)
  BY DEF Actors, OneInv, BoundInv
<1>2. UNCHANGED <<table, quota, marker, expired, period>>
  <2>1. UNCHANGED <<expired, period>>
    BY DEF Gateway, Abandoned, SecretDenied, DryRun, Forward, Answered, Rejected,
           ForwardStream, Opened, OpenFailed, FirstChunk, StreamEnd, Finalize, Settled,
           Unsettled, UnsettledStream
  <2> QED
    BY <2>1, GatewayFacts
<1>3. pc[r] \in {"admitted", "calling", "opening", "opened", "relaying", "eof", "settled"}
  BY GatewayFacts
<1>4. Alone(r) /\ OthersKept(r)
  BY RequestAlone, OneGateway DEF Request
<1>5. Bounded'
  <2>1. Active(r)' => Active(r)
    BY <1>2, <1>3 DEF Active
  <2> QED
    BY <1>2, <1>4, <2>1, BoundedKept
<1>6. pc'[r] \in {"opened", "abandoned"} => pc[r] \in {"opening", "opened"}
  <2>1. ASSUME NEW goal, NEW next, CallUpdate(r, goal, next)
        PROVE  pc'[r] = "upd_read"
    BY <1>1, <2>1 DEF CallUpdate, Goto, TypeOK
  <2>2. ASSUME NEW c, CallSettle(r, c)
        PROVE  pc'[r] = "settle_read"
    BY <1>1, <2>2 DEF CallSettle, Goto, TypeOK
  <2>3. ASSUME NEW s, Goto(r, s)
        PROVE  pc'[r] = s
    BY <1>1, <2>3 DEF Goto, TypeOK
  <2>4. CASE Opened(r) \/ Abandoned(r)
    BY <2>4 DEF Opened, Abandoned
  <2>5. CASE Gateway(r) /\ ~Opened(r)
    BY <2>1, <2>2, <2>3, <2>5
       DEF Gateway, SecretDenied, DryRun, Forward, Answered, Rejected, ForwardStream,
           OpenFailed, FirstChunk, StreamEnd, Finalize, Settled, Unsettled, UnsettledStream
  <2> QED
    BY <2>4, <2>5
<1>7. /\ marker[r].state = "settled" => pc[r] = "settled" /\ table.res[r].state \in {"none", "settled"}
      /\ pc[r] = "settled" => marker[r].state = "settled"
      /\ marker[r].state = "absent" => table.res[r].state \notin Final \union {"none"}
      /\ pc[r] \in {"opening", "opened"} => table.res[r].state # "reserved"
  BY <1>1, <1>3 DEF EndsOnce, Orderly, Live, Updating, AwaitSteps
<1>8. StillFits(r)'
  BY GatewayFacts DEF StillFits
<1>9. \A row \in Rows : quota'[row].cost[r] = quota[row].cost[r]
  BY <1>2
<1>10. Orderly(r)'
  <2>1. CASE pc'[r] = "upd_read"
    <3>1. /\ frame'[r].goal \in {"released", "uncertain", "settled", "forwarding", "streaming"}
          /\ frame'[r].next # "done" => frame'[r].goal \in {"forwarding", "streaming"}
      BY <2>1, GatewayFacts
    <3> QED
      BY <1>1, <1>2, <1>7, <1>9, <2>1, <3>1 DEF Orderly, AwaitSteps, SyncSteps
  <2>2. CASE pc'[r] \in {"settle_read", "calling", "opened", "abandoned"}
    BY <1>1, <1>2, <1>6, <1>7, <1>9, <2>2 DEF Orderly, AwaitSteps, SyncSteps, Updating
  <2>3. CASE pc'[r] = "done"
    <3>1. pc[r] = "settled"
      <4>1. ASSUME NEW goal, NEW next, CallUpdate(r, goal, next)
            PROVE  pc'[r] = "upd_read"
        BY <1>1, <4>1 DEF CallUpdate, Goto, TypeOK
      <4>2. ASSUME NEW c, CallSettle(r, c)
            PROVE  pc'[r] = "settle_read"
        BY <1>1, <4>2 DEF CallSettle, Goto, TypeOK
      <4>3. ASSUME NEW s, Goto(r, s)
            PROVE  pc'[r] = s
        BY <1>1, <4>3 DEF Goto, TypeOK
      <4> QED
        BY <2>3, <4>1, <4>2, <4>3
           DEF Gateway, Abandoned, SecretDenied, DryRun, Forward, Answered, Rejected,
               ForwardStream, Opened, OpenFailed, FirstChunk, StreamEnd, Finalize, Settled,
               Unsettled, UnsettledStream
    <3> QED
      BY <1>1, <1>2, <1>7, <1>9, <2>3, <3>1 DEF Orderly, AwaitSteps, Updating, Live
  <2> QED
    BY <2>1, <2>2, <2>3, GatewayFacts
<1> QED
  BY <1>2, <1>5, <1>8, <1>10

\* Nor does an exception, or a relay that is stuck.
LEMMA BoundBreaks ==
    ASSUME IsFiniteSet(Requests), TypeOK, TypeOK', OneProcess, OneInv, BoundInv,
           NEW r \in Requests, Breaks(r)
    PROVE  /\ expired' = expired /\ period' = period /\ quota' = quota
           /\ Bounded' /\ StillFits(r)' /\ Orderly(r)'
<1>1. Orderly(r) /\ UNCHANGED <<table, quota, marker, expired, period>>
  BY BreakFacts DEF BoundInv, storeVars
<1>2. Alone(r) /\ OthersKept(r)
  BY RequestAlone, OneBreaks
<1>3. Active(r)' => Active(r)
  BY <1>1, BreakFacts DEF Active, SyncSteps
<1>4. Bounded'
  BY <1>1, <1>2, <1>3, BoundedKept
<1>5. StillFits(r)'
  BY BreakFacts DEF StillFits
<1>6. Orderly(r)'
  <2>1. CASE pc'[r] \in {"raised", "stuck"}
    <3>1. pc'[r] = "stuck" => table.res[r].state # "reserved"
      BY <1>1, <2>1, BreakFacts DEF Orderly, AwaitSteps
    <3> QED
      BY <1>1, <2>1, <3>1 DEF Orderly, AwaitSteps, Live, Updating
  <2>2. CASE pc'[r] = "upd_read"
    <3>1. pc[r] \in Updating /\ frame'[r].goal = "uncertain" /\ frame'[r].next = "done"
      BY <2>2, BreakFacts DEF Updating, NoFrame
    <3> QED
      BY <1>1, <2>2, <3>1 DEF Orderly, AwaitSteps, SyncSteps, Live, Updating
  <2> QED
    BY <2>1, <2>2, BreakFacts
<1> QED
  BY <1>1, <1>4, <1>5, <1>6

\* Every step of a request keeps the bound.
LEMMA BoundRequest ==
    ASSUME IsFiniteSet(Requests), TypeOK, TypeOK', Untouched, OneProcess, OneInv, BoundInv,
           NEW r \in Requests, Request(r) \/ Abandoned(r) \/ Breaks(r)
    PROVE  BoundInv'
<1>1. Alone(r) /\ OthersKept(r) /\ InTurn(r) /\ pc[r] \notin {"crashed", "raised"}
  BY RequestAlone, OneRequest, OneAdmission, OneUpdate, OneSettlement, OneGateway, OneBreaks
     DEF Request
<1>2. /\ expired' = expired /\ period' = period
      /\ \A q \in Requests \ {r} : \A row \in Rows : quota'[row].cost[q] = quota[row].cost[q]
      /\ Bounded' /\ StillFits(r)' /\ Orderly(r)'
  BY BoundAdmission, BoundUpdate, BoundSettlement, BoundGateway, BoundBreaks DEF Request
<1> QED
  BY <1>1, <1>2, BoundKept

\* Accepting a request changes nothing that counts.
LEMMA BoundCheck ==
    ASSUME IsFiniteSet(Requests), TypeOK, TypeOK', OneProcess, OneInv, BoundInv,
           NEW w \in Workers, NEW r \in Requests, Check(w, r)
    PROVE  BoundInv'
<1>1. /\ UNCHANGED <<table, quota, marker, expired, period, snap, frame>> /\ pc[r] = "new" /\ Free(w)
      /\ pc'[r] \in {"reserve_read", "refused"}
      /\ Alone(r)
  BY DEF Check, Goto, TypeOK, Actors, Alone, storeVars
<1>2. OthersKept(r) /\ InTurn(r)
  BY <1>1, FreeFacts DEF OthersKept, InTurn
<1>3. Active(r)' => Active(r)
  BY <1>1 DEF Active
<1>4. Bounded'
  BY <1>1, <1>2, <1>3, BoundedKept
<1>5. StillFits(r)' /\ Orderly(r)'
  BY <1>1 DEF BoundInv, StillFits, Orderly, Live, Updating, AwaitSteps, SyncSteps
<1> QED
  BY <1>1, <1>2, <1>4, <1>5, BoundKept

\* Time that passes, a period that ends, or the process that crashes, only ends
\* holds and charges.
LEMMA BoundEnvironment ==
    ASSUME IsFiniteSet(Requests), TypeOK, TypeOK', Past, BoundInv,
           \/ UNCHANGED vars
           \/ \E r \in Requests : TtlPasses(r)
           \/ \E l \in Lanes : NewPeriod(l)
           \/ \E w \in Workers : CrashWorker(w)
    PROVE  BoundInv'
<1>1. /\ UNCHANGED <<table, quota, marker>> /\ expired \subseteq expired'
      /\ \A q \in Requests : \/ pc'[q] = "crashed"
                             \/ pc'[q] = pc[q] /\ frame'[q] = frame[q] /\ snap'[q] = snap[q]
  BY DEF vars, TtlPasses, NewPeriod, CrashWorker, Restart, storeVars, Actors
<1>6. ASSUME NEW l \in Lanes, NEW q \in Requests
      PROVE  Billed(l)'.cost[q] \in {Billed(l).cost[q], 0}
  <2>1. CASE period' = period
    BY <1>1, <2>1 DEF Billed, Now
  <2>2. ASSUME NEW k \in Lanes, NewPeriod(k)
        PROVE  Billed(l)'.cost[q] \in {Billed(l).cost[q], 0}
    <3>1. CASE k # l
      BY <1>1, <2>2, <3>1 DEF NewPeriod, Billed, Now, TypeOK, Clocks
    <3>2. CASE k = l
      <4>1. period[l] \in Nat /\ Now(l)' = <<l, period[l] + 1>> /\ Now(l)' \in Rows
        BY <2>2, <3>2, WeightTypedNext DEF NewPeriod, Now, TypeOK, Clocks
      <4>2. ~(period[l] + 1 <= period[l])
        BY <4>1
      <4>3. quota[Now(l)'].cost[q] = 0
        BY <4>1, <4>2 DEF Past
      <4> QED
        BY <1>1, <4>3 DEF Billed
    <3> QED
      BY <3>1, <3>2
  <2>3. UNCHANGED period \/ \E k \in Lanes : NewPeriod(k)
    BY DEF vars, TtlPasses, CrashWorker, Restart
  <2> QED
    BY <2>1, <2>2, <2>3
<1>2. ASSUME NEW l \in Lanes
      PROVE  Total(Weight(l)', Requests) <= Total(Weight(l), Requests)
  <2>1. \A q \in Requests : Active(q)' => Active(q)
    BY <1>1 DEF Active
  <2>2. \A q \in Requests : Weight(l)'[q] <= Weight(l)[q]
    BY <1>6, <2>1, WeightFalls
  <2> QED
    BY <2>2, TotalFalls
<1>3. Bounded'
  <2> SUFFICES ASSUME NEW l \in Lanes PROVE Total(Weight(l)', Requests) <= Limit[l]
    BY DEF Bounded
  <2>1. Total(Weight(l), Requests) <= Limit[l]
    BY DEF BoundInv, Bounded
  <2> QED
    BY <1>2, <2>1, TotalTyped
<1>4. ASSUME NEW q \in Requests
      PROVE  StillFits(q)'
  <2> SUFFICES ASSUME pc'[q] \in {"reserve_seq", "reserve_cas"}, NEW l \in LanesOf[q]
               PROVE  Total(Weight(l)', Requests) + Est[q] <= Limit[l]
    BY DEF StillFits
  <2>1. l \in Lanes /\ Est[q] \in Nat
    BY ConstantsAssumption
  <2>2. Total(Weight(l), Requests) + Est[q] <= Limit[l]
    BY <1>1 DEF BoundInv, StillFits
  <2> QED
    BY <1>2, <2>1, <2>2, TotalTyped
<1>5. ASSUME NEW q \in Requests
      PROVE  Orderly(q)'
  BY <1>1 DEF BoundInv, Orderly, Live, Updating, AwaitSteps
<1> QED
  BY <1>3, <1>4, <1>5 DEF BoundInv

\* Nothing counts to begin with ...
LEMMA BoundInit ==
    ASSUME IsFiniteSet(Requests), Init
    PROVE  BoundInv
<1>1. ASSUME NEW r \in Requests
      PROVE  /\ pc[r] = "new" /\ table.res[r].state = "none"
             /\ \A row \in Rows : quota[row].cost[r] = 0
  BY <1>1, ConstantsAssumption DEF Init, Actors, EmptyTable, NoEntry, EmptyLane
<1>4. TypeOK
  BY TypeInit
<1>2. \A r \in Requests : StillFits(r) /\ Orderly(r)
  BY <1>1 DEF StillFits, Orderly, Live, Updating, AwaitSteps
<1>3. ASSUME NEW l \in Lanes
      PROVE  Total(Weight(l), Requests) <= Limit[l]
  <2> DEFINE w == Weight(l)
             none == {r \in Requests : FALSE}
  <2>1. \A r \in Requests : Est[r] \in Nat
    BY ConstantsAssumption
  <2>2. \A r \in Requests : w[r] = 0
    BY <1>1, <1>3, <1>4, <2>1, WeightTyped DEF Weight, Active, Billed
  <2>3. none \in SUBSET Requests /\ none = {} /\ IsFiniteSet(none) /\ Limit[l] \in Nat
    BY <1>3, FS_EmptySet, ConstantsAssumption
  <2> HIDE DEF w
  <2>4. Total(w, Requests) = Total(w, none)
    BY <2>2, <2>3, TotalPart
  <2>5. Total(w, none) = 0
    BY <2>3, TotalSteps
  <2> QED
    BY <2>3, <2>4, <2>5 DEF w
<1> QED
  BY <1>2, <1>3 DEF BoundInv, Bounded

\* ... and every step keeps the bound.
LEMMA BoundNext ==
    ASSUME IsFiniteSet(Requests), TypeOK, TypeOK', Untouched, Past, OneProcess, OneInv,
           BoundInv, [Next]_vars
    PROVE  BoundInv'
BY BoundRequest, BoundCheck, BoundEnvironment DEF Next, OneProcess, Breaks

\* What counts is what was charged up to the estimates, and what is held.
LEMMA BoundImplies ==
    ASSUME IsFiniteSet(Requests), TypeOK, Bounded
    PROVE  AdmissionBound
<1> SUFFICES ASSUME NEW l \in Lanes
             PROVE  Used(Now(l)) + Held(table.res, l) <= Limit[l] + Overrun(Now(l))
  BY DEF AdmissionBound
<1> DEFINE H == {q \in Requests : l \in LanesOf[q] /\ Holds(table.res, q)}
           cost == Billed(l).cost
           hold == [q \in Requests |-> IF q \in H THEN Est[q] ELSE 0]
           over == [r \in Requests |-> IF Billed(l).cost[r] > Est[r]
                                       THEN Billed(l).cost[r] - Est[r] ELSE 0]
           both == [q \in Requests |-> cost[q] + hold[q]]
           w == Weight(l)
           limit == [q \in Requests |-> w[q] + over[q]]
<1>1. \A q \in Requests : cost[q] \in Nat /\ Est[q] \in Nat /\ w[q] \in Nat
  BY WeightTyped
<1>2. \A q \in Requests : hold[q] \in Int /\ over[q] \in Int
  BY <1>1
<1>3. ASSUME NEW q \in Requests
      PROVE  both[q] <= limit[q]
  <2>1. q \in H => l \in LanesOf[q] /\ Active(q)
    BY DEF Holds, Active
  <2>2. w[q] = (IF cost[q] > Est[q] THEN Est[q] ELSE cost[q])
               + (IF l \in LanesOf[q] /\ Active(q) THEN Est[q] ELSE 0)
    BY DEF Weight
  <2>3. both[q] = cost[q] + (IF q \in H THEN Est[q] ELSE 0)
    OBVIOUS
  <2>4. limit[q] = w[q] + (IF cost[q] > Est[q] THEN cost[q] - Est[q] ELSE 0)
    OBVIOUS
  <2> HIDE DEF w, both, cost, H, limit
  <2> QED
    BY <1>1, <2>1, <2>2, <2>3, <2>4
<1>4. /\ Used(Now(l)) = Total(cost, Requests) /\ Held(table.res, l) = Total(Est, H)
      /\ Overrun(Now(l)) = Total(over, Requests)
  BY DEF Used, Held, Overrun, Total, Billed
<1>5. Total(w, Requests) <= Limit[l] /\ Limit[l] \in Nat /\ H \in SUBSET Requests
  BY ConstantsAssumption DEF Bounded
<1>6. \A q \in Requests : /\ cost[q] \in Int /\ Est[q] \in Int /\ w[q] \in Int
                          /\ hold[q] = (IF q \in H THEN Est[q] ELSE 0)
                          /\ both[q] = cost[q] + hold[q] /\ both[q] \in Int
                          /\ limit[q] = w[q] + over[q] /\ limit[q] \in Int
  BY <1>1, <1>2
<1> HIDE DEF H, cost, hold, over, both, w, limit
<1>7. Total(hold, Requests) = Total(Est, H)
  BY <1>5, <1>6, TotalPart
<1>8. /\ Total(both, Requests) = Total(cost, Requests) + Total(hold, Requests)
      /\ Total(limit, Requests) = Total(w, Requests) + Total(over, Requests)
  BY <1>2, <1>6, TotalPlus
<1>9. Total(both, Requests) <= Total(limit, Requests)
  BY <1>3, <1>6, TotalMonotonic
<1>10. /\ Total(w, Requests) \in Int /\ Total(over, Requests) \in Int
       /\ Total(cost, Requests) \in Int /\ Total(hold, Requests) \in Int
  BY <1>2, <1>6, TotalSteps
<1> QED
  BY <1>4, <1>5, <1>7, <1>8, <1>9, <1>10

\* What a lane was charged and what its reservations hold stay within its quota,
\* save for answers that cost more than was estimated: no interleaving of the
\* requests of one process, no crash, exception, expiry, end of a period or lost
\* write admits more.
THEOREM AdmissionCorrect ==
    ASSUME OneProcess, IsFiniteSet(Requests)
    PROVE  Spec => []AdmissionBound
<1>1. Init => TypeOK /\ SettleArgs /\ Untouched /\ Past /\ OneInv /\ BoundInv
  BY IsFiniteSet(Requests), TypeInit, ArgsInit, UntouchedInit, PastInit, OneInit, BoundInit
<1>2. TypeOK /\ SettleArgs /\ Untouched /\ Past /\ OneInv /\ BoundInv /\ [Next]_vars
      => (TypeOK /\ SettleArgs /\ Untouched /\ Past /\ OneInv /\ BoundInv)'
  <2>1. TypeOK /\ SettleArgs /\ Untouched /\ Past /\ OneInv /\ [Next]_vars
        => (TypeOK /\ SettleArgs /\ Untouched /\ Past /\ OneInv)'
    BY OneProcess, TypeNext, ArgsNext, UntouchedNext, PastNext, OneNext
  <2> QED
    BY <2>1, OneProcess, IsFiniteSet(Requests), BoundNext
<1>3. TypeOK /\ BoundInv => AdmissionBound
  BY IsFiniteSet(Requests), BoundImplies DEF BoundInv
<1> QED
  BY <1>1, <1>2, <1>3, PTL DEF Spec

=============================================================================
