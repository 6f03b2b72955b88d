------------------------ MODULE Idempotency_proofs ------------------------
(***************************************************************************)
(* Theorems about Idempotency for every value of its constants.            *)
(*                                                                         *)
(*   TypeCorrect     Spec => []TypeOK                                      *)
(*   FlightCorrect   Spec => []OneFlightPerProcess                         *)
(*   OnceCorrect     OneGateway: Spec => []RunOnce                         *)
(*   ReplayCorrect   OneGateway: Spec => []ReplayIsOwn                     *)
(*   NewerCorrect    OneGateway: Spec => NewerOutcomeKept                  *)
(*                                                                         *)
(* The first two hold for any number of processes; with more than one, two *)
(* inserts of one absent row can both succeed, and the others are false.   *)
(***************************************************************************)
EXTENDS Idempotency, FiniteSetTheorems, TLAPS

-----------------------------------------------------------------------------
(* Type correctness.                                                       *)

\* What TypeOK needs to be inductive: whoever was accepted has a process, and
\* a request at the provider has run.
Accepted ==
    \A r \in Requests :
        /\ pc[r] # "new" => owner[r] \in Workers
        /\ pc[r] \in {"calling", "opening", "relaying"} => r \in ran

TypeInv == TypeOK /\ Accepted

\* The absent record is a record.
LEMMA NoRecordTyped == NoRecord \in Records /\ Absent \in Row
BY DEF NoRecord, Absent, Records, Row, RecordStates

\* A claim is a record.
LEMMA ClaimTyped == ASSUME NEW r \in Requests PROVE Claim(r) \in Records
BY IdempotencyAssumption DEF Claim, NoRecord, Records, RecordStates

\* Merging two records gives a record.
LEMMA MergedTyped ==
    ASSUME NEW old \in Records, NEW new \in Records
    PROVE  Merged(old, new) \in Records
BY DEF Merged, Records

\* The fields of an outcome are a record.
LEMMA FieldsTyped ==
    ASSUME TypeInv, NEW r \in Requests, pc[r] # "new",
           NEW state \in RecordStates
    PROVE  /\ PlainFields(r, state) \in Records
           /\ [PlainFields(r, state) EXCEPT !.body = r] \in Records
           /\ [StreamFields(r, state) EXCEPT !.replayable = FALSE] \in Records
           /\ [StreamFields(r, state) EXCEPT !.body = r] \in Records
<1>1. cache[owner[r]][KeyOf[r]] \in Records
  BY IdempotencyAssumption DEF TypeInv, TypeOK, Accepted
<1>2. PlainFields(r, state) \in Records
  BY <1>1 DEF PlainFields, Records
<1>3. StreamFields(r, state) \in Records
  BY NoRecordTyped DEF StreamFields, Records
<1>4. [PlainFields(r, state) EXCEPT !.body = r] \in Records
  BY <1>2 DEF Records
<1>5. [StreamFields(r, state) EXCEPT !.replayable = FALSE] \in Records
  BY <1>3 DEF Records
<1>6. [StreamFields(r, state) EXCEPT !.body = r] \in Records
  BY <1>3 DEF Records
<1> QED BY <1>2, <1>4, <1>5, <1>6

\* A step that starts to record typed fields keeps types.
LEMMA RecordTyped ==
    ASSUME TypeInv, NEW r \in Requests, NEW fields \in Records,
           NEW kind \in Kinds, pc[r] # "new", Record(r, fields, kind),
           UNCHANGED <<row, cache, late, overdue, owner, snap, tries, rejected, crashes>>,
           ran' = ran \/ ran' = ran \union {r}
    PROVE  TypeInv'
BY DEF TypeInv, TypeOK, Accepted, Record, Goto, Reply, AwaitSteps, SyncSteps

\* A move that changes no record keeps types.
LEMMA MoveTyped ==
    ASSUME TypeInv, NEW r \in Requests, NEW step \in AwaitSteps \union SyncSteps,
           Goto(r, step), pc[r] # "new",
           ran' = ran \/ ran' = ran \union {r},
           step \in {"calling", "opening", "relaying"} => r \in ran',
           reply' \in [Requests -> [kind : Kinds, body : Requests \union {NoRequest}]],
           snap' \in [Requests -> Row],
           UNCHANGED <<row, cache, late, overdue, owner, pending, tries, rejected, crashes>>
    PROVE  TypeInv'
BY DEF TypeInv, TypeOK, Accepted, Goto

\* An answer has a type.
LEMMA ReplyTyped ==
    ASSUME TypeOK, NEW r \in Requests, NEW kind \in Kinds,
           NEW body \in Requests \union {NoRequest}, Reply(r, kind, body)
    PROVE  reply' \in [Requests -> [kind : Kinds, body : Requests \union {NoRequest}]]
BY DEF TypeOK, Reply

\* So has the answer a record gives.
LEMMA AnswerTyped ==
    ASSUME TypeOK, NEW r \in Requests, NEW rec \in Records, Answer(r, rec)
    PROVE  reply' \in [Requests -> [kind : Kinds, body : Requests \union {NoRequest}]]
<1>1. \E kind \in Kinds, body \in Requests \union {NoRequest} : Reply(r, kind, body)
  BY DEF Answer, Records, Kinds
<1> QED BY <1>1, ReplyTyped

\* Keeping a record in memory keeps types,
LEMMA CachePutTyped ==
    ASSUME TypeOK, NEW w, NEW k, NEW rec \in Records,
           cache' = [cache EXCEPT ![w][k] = rec]
    PROVE  cache' \in [Workers -> [Keys -> Records]]
BY DEF TypeOK

\* ... in the store.
LEMMA RowPutTyped ==
    ASSUME TypeOK, NEW k, NEW ver \in Nat, NEW rec \in Records,
           row' = [row EXCEPT ![k] = [ver |-> ver + 1, rec |-> rec]]
    PROVE  row' \in [Keys -> Row]
<1>1. [ver |-> ver + 1, rec |-> rec] \in Row
  BY DEF Row
<1> QED BY <1>1 DEF TypeOK

\* The initial state is well typed.
LEMMA TypeInit == Init => TypeInv
<1> SUFFICES ASSUME Init PROVE TypeInv
  OBVIOUS
<1>1. TypeOK
  BY IdempotencyAssumption, NoRecordTyped DEF Init, TypeOK, AwaitSteps, Kinds
<1>2. Accepted
  BY DEF Init, Accepted
<1> QED BY <1>1, <1>2 DEF TypeInv

\* Each step keeps types: looking the key up,
LEMMA AcceptTyped ==
    ASSUME TypeInv, NEW w \in Workers, NEW r \in Requests, Accept(w, r)
    PROVE  TypeInv'
<1> DEFINE k == KeyOf[r]
           known == IF Live(cache[w][k]) THEN cache[w][k] ELSE row[k].rec
<1>1. known \in Records
  BY IdempotencyAssumption DEF TypeInv, TypeOK, Row
<1>2. /\ owner' = [owner EXCEPT ![r] = w]
      /\ UNCHANGED <<row, late, overdue, snap, pending, tries, ran, rejected, crashes>>
  BY DEF Accept
<1>3. CASE Live(known) /\ Remember(r, known) /\ Answer(r, known) /\ Goto(r, "done")
  <2>1. reply' \in [Requests -> [kind : Kinds, body : Requests \union {NoRequest}]]
    BY <1>1, <1>3, AnswerTyped DEF TypeInv
  <2>2. cache' \in [Workers -> [Keys -> Records]]
    <3> HIDE DEF known
    <3> QED BY <1>1, <1>2, <1>3 DEF TypeInv, TypeOK, Remember
  <2> QED BY <1>2, <1>3, <2>1, <2>2
          DEF TypeInv, TypeOK, Accepted, Goto, AwaitSteps
<1>4. CASE Goto(r, "claim_read") /\ UNCHANGED <<cache, reply>>
  BY <1>2, <1>4 DEF TypeInv, TypeOK, Accepted, Goto, SyncSteps
<1> QED BY <1>3, <1>4 DEF Accept

\* ... reading the row for a claim,
LEMMA ClaimReadTyped ==
    ASSUME TypeInv, NEW r \in Requests, ClaimRead(r)
    PROVE  TypeInv'
<1>1. row[KeyOf[r]] \in Row
  BY IdempotencyAssumption DEF TypeInv, TypeOK
<1>2. snap' \in [Requests -> Row]
  BY <1>1 DEF ClaimRead, TypeInv, TypeOK
<1>3. reply' \in [Requests -> [kind : Kinds, body : Requests \union {NoRequest}]]
  BY ReplyTyped DEF ClaimRead, TypeInv, TypeOK, Kinds
<1>4. Goto(r, "done") \/ Goto(r, "claim_cas")
  BY DEF ClaimRead
<1> QED BY <1>2, <1>3, <1>4, MoveTyped DEF ClaimRead, AwaitSteps, SyncSteps

\* ... claiming,
LEMMA ClaimCasTyped ==
    ASSUME TypeInv, NEW r \in Requests, ClaimCas(r)
    PROVE  TypeInv'
<1>1. snap' \in [Requests -> Row]
  BY NoRecordTyped DEF ClaimCas, TypeInv, TypeOK
<1>2. reply' \in [Requests -> [kind : Kinds, body : Requests \union {NoRequest}]]
  BY ReplyTyped DEF ClaimCas, TypeInv, TypeOK, Kinds
<1>3. Claim(r) \in Records /\ snap[r].ver \in Nat
  BY ClaimTyped DEF TypeInv, TypeOK, Row
<1>4. row' \in [Keys -> Row]
  BY <1>3, RowPutTyped DEF ClaimCas, TypeInv, TypeOK
<1>5. cache' \in [Workers -> [Keys -> Records]]
  BY <1>3, CachePutTyped DEF ClaimCas, TypeInv, TypeOK
<1>6. pc[r] # "new" /\ (Goto(r, "done") \/ Goto(r, "serving"))
  BY DEF ClaimCas
<1> QED BY <1>1, <1>2, <1>4, <1>5, <1>6
        DEF ClaimCas, Goto, TypeInv, TypeOK, Accepted, AwaitSteps, SyncSteps

\* ... reading the row for an outcome,
LEMMA WriteReadTyped ==
    ASSUME TypeInv, NEW r \in Requests, WriteRead(r)
    PROVE  TypeInv'
<1>1. row[KeyOf[r]] \in Row
  BY IdempotencyAssumption DEF TypeInv, TypeOK
<1>2. snap' \in [Requests -> Row]
  BY <1>1 DEF WriteRead, TypeInv, TypeOK
<1>3. reply' \in [Requests -> [kind : Kinds, body : Requests \union {NoRequest}]]
  BY DEF WriteRead, TypeInv, TypeOK
<1> QED BY <1>2, <1>3, MoveTyped DEF WriteRead, SyncSteps

\* ... writing the outcome,
LEMMA WriteCasTyped ==
    ASSUME TypeInv, NEW r \in Requests, WriteCas(r)
    PROVE  TypeInv'
<1> DEFINE merged == Merged(snap[r].rec, pending[r])
<1>1. merged \in Records /\ pending[r] \in Records /\ snap[r].ver \in Nat
  BY MergedTyped DEF TypeInv, TypeOK, Row
<1>2. [merged EXCEPT !.body = pending[r].body] \in Records
  <2> HIDE DEF merged
  <2> QED BY <1>1 DEF Records
<1>3. snap' \in [Requests -> Row]
  BY NoRecordTyped DEF WriteCas, TypeInv, TypeOK
<1>4. row' \in [Keys -> Row]
  BY <1>1, RowPutTyped DEF WriteCas, TypeInv, TypeOK
<1>5. cache' \in [Workers -> [Keys -> Records]]
  BY <1>2, CachePutTyped DEF WriteCas, TypeInv, TypeOK
<1>6. pending' \in [Requests -> Records]
  BY NoRecordTyped DEF WriteCas, TypeInv, TypeOK
<1>7. tries' \in [Requests -> Nat]
  BY DEF WriteCas, TypeInv, TypeOK
<1>8. pc[r] # "new" /\ (Goto(r, "done") \/ Goto(r, "write_read"))
  BY DEF WriteCas
<1> QED BY <1>3, <1>4, <1>5, <1>6, <1>7, <1>8
        DEF WriteCas, Goto, TypeInv, TypeOK, Accepted, AwaitSteps, SyncSteps

\* ... freeing the key,
LEMMA RejectedTyped ==
    ASSUME TypeInv, NEW r \in Requests, Rejected(r)
    PROVE  TypeInv'
<1>1. row' \in [Keys -> Row] /\ cache' \in [Workers -> [Keys -> Records]]
  BY NoRecordTyped DEF Rejected, Release, TypeInv, TypeOK
<1>2. reply' \in [Requests -> [kind : Kinds, body : Requests \union {NoRequest}]]
  BY ReplyTyped DEF Rejected, Release, TypeInv, Kinds
<1>3. r \in ran /\ pc[r] # "new"
  BY DEF Rejected, TypeInv, Accepted
<1> QED BY <1>1, <1>2, <1>3
        DEF Rejected, Release, Goto, TypeInv, TypeOK, Accepted, AwaitSteps

\* The steps that start to record an outcome.
Outcomes(r) ==
    \/ NotAdmitted(r) \/ DryRun(r) \/ Answered(r) \/ Unknown(r)
    \/ OpenFailed(r) \/ StreamSettled(r) \/ StreamBroken(r)

\* The steps that only move a request on.
Moves(r) ==
    \/ Denied(r) \/ Forward(r) \/ Opened(r)
    \/ Abandoned(r) \/ Raises(r) \/ Hangs(r)

\* ... starting to record an outcome,
LEMMA OutcomesTyped ==
    ASSUME TypeInv, NEW r \in Requests, Outcomes(r)
    PROVE  TypeInv'
<1>1. /\ pc[r] # "new"
      /\ \E fields \in Records, kind \in Kinds : Record(r, fields, kind)
      /\ UNCHANGED <<row, cache, late, overdue, owner, snap, tries, rejected, crashes>>
      /\ ran' = ran \/ ran' = ran \union {r}
  <2>1. CASE NotAdmitted(r)
    BY <2>1, FieldsTyped DEF NotAdmitted, Kinds, RecordStates
  <2>2. CASE DryRun(r)
    BY <2>2, FieldsTyped DEF DryRun, Kinds, RecordStates
  <2>3. CASE Answered(r)
    BY <2>3, FieldsTyped DEF Answered, Kinds, RecordStates
  <2>4. CASE Unknown(r)
    BY <2>4, FieldsTyped DEF Unknown, Kinds, RecordStates
  <2>5. CASE OpenFailed(r)
    BY <2>5, FieldsTyped DEF OpenFailed, Kinds, RecordStates
  <2>6. CASE StreamSettled(r)
    BY <2>6, FieldsTyped DEF StreamSettled, Kinds, RecordStates
  <2>7. CASE StreamBroken(r)
    BY <2>7, FieldsTyped DEF StreamBroken, Kinds, RecordStates
  <2> QED BY <2>1, <2>2, <2>3, <2>4, <2>5, <2>6, <2>7 DEF Outcomes
<1> QED BY <1>1, RecordTyped

\* ... moving on,
LEMMA MovesTyped ==
    ASSUME TypeInv, NEW r \in Requests, Moves(r)
    PROVE  TypeInv'
<1> USE DEF AwaitSteps, SyncSteps
<1>1. CASE Denied(r)
  <2>1. reply' \in [Requests -> [kind : Kinds, body : Requests \union {NoRequest}]]
    BY <1>1, ReplyTyped DEF Denied, TypeInv, Kinds
  <2> QED BY <1>1, <2>1, MoveTyped DEF Denied, TypeInv, TypeOK
<1>2. CASE Forward(r)
  BY <1>2, MoveTyped DEF Forward, TypeInv, TypeOK
<1>3. CASE Opened(r)
  BY <1>3, MoveTyped DEF Opened, TypeInv, TypeOK, Accepted
<1>4. CASE Abandoned(r)
  BY <1>4, MoveTyped DEF Abandoned, TypeInv, TypeOK
<1>5. CASE Raises(r)
  BY <1>5, MoveTyped DEF Raises, TypeInv, TypeOK
<1>6. CASE Hangs(r)
  BY <1>6, MoveTyped DEF Hangs, TypeInv, TypeOK
<1> QED BY <1>1, <1>2, <1>3, <1>4, <1>5, <1>6 DEF Moves

\* ... the passing of an expiry time,
LEMMA ExpireTyped ==
    ASSUME TypeInv, NEW t \in Times, Expire(t)
    PROVE  TypeInv'
BY DEF TypeInv, TypeOK, Accepted, Expire

\* ... and a crash.
LEMMA CrashTyped ==
    ASSUME TypeInv, NEW w \in Workers, Crash(w)
    PROVE  TypeInv'
BY NoRecordTyped DEF TypeInv, TypeOK, Accepted, Crash, Lost, AwaitSteps

\* Every step is one of these.
LEMMA NextCases ==
    ASSUME Next
    PROVE  \/ \E w \in Workers, r \in Requests : Accept(w, r)
           \/ \E r \in Requests :
                \/ ClaimRead(r) \/ ClaimCas(r) \/ WriteRead(r) \/ WriteCas(r)
                \/ Rejected(r) \/ Outcomes(r) \/ Moves(r)
           \/ \E t \in Times : Expire(t)
           \/ \E w \in Workers : Crash(w)
BY DEF Next, Step, Serve, Outcomes, Moves

\* TypeInv is inductive.
LEMMA TypeStep == TypeInv /\ [Next]_vars => TypeInv'
<1> SUFFICES ASSUME TypeInv, [Next]_vars PROVE TypeInv'
  OBVIOUS
<1>1. CASE UNCHANGED vars
  BY <1>1 DEF vars, TypeInv, TypeOK, Accepted
<1>2. CASE Next
  BY <1>2, NextCases, AcceptTyped, ClaimReadTyped, ClaimCasTyped, WriteReadTyped,
     WriteCasTyped, RejectedTyped, OutcomesTyped, MovesTyped, ExpireTyped, CrashTyped
<1> QED BY <1>1, <1>2

\* The variables of the model keep their types.
THEOREM TypeCorrect == Spec => []TypeOK
<1>1. TypeInv => TypeOK
  BY DEF TypeInv
<1> QED BY <1>1, TypeInit, TypeStep, PTL DEF Spec

-----------------------------------------------------------------------------
(* One request per key and process.                                        *)

\* Between two awaits a process serves one request.
OneSync ==
    \A r, q \in Requests :
        owner[r] = owner[q] /\ pc[r] \in SyncSteps /\ pc[q] \in SyncSteps => r = q

\* A request that has not claimed yet has computed no expiry time.
NoTimesYet ==
    \A r \in Requests :
        pc[r] \in {"new", "claim_read", "claim_cas"} =>
            \A kind \in {"claim", "outcome"} : <<r, kind>> \notin late

\* The claim of a request in service lives in the memory of its process, and
\* nothing lives there for a request that is about to claim.
MemoryHeld ==
    \A r \in Requests :
        /\ pc[r] \in Serving =>
               cache[owner[r]][KeyOf[r]] = Claim(r) /\ <<r, "claim">> \notin late
        /\ pc[r] \in {"claim_read", "claim_cas"} => ~Live(cache[owner[r]][KeyOf[r]])

ProcInv == TypeInv /\ OneSync /\ NoTimesYet /\ (OnTime => MemoryHeld)

\* Author and state of a claim.
LEMMA ClaimFields ==
    ASSUME NEW r
    PROVE  /\ Claim(r).state = "forwarding"
           /\ Author(Claim(r)) = r
           /\ Claim(r).until = <<r, "claim">>
           /\ Claim(r).payload = PayloadOf[r]
           /\ Claim(r).body = NoRequest
           /\ Claim(r).replayable = TRUE
BY DEF Claim, NoRecord, Author

\* A claim lives until its time has passed.
LEMMA ClaimLives ==
    ASSUME NEW r, <<r, "claim">> \notin late
    PROVE  Live(Claim(r))
BY DEF Live, Claim, NoRecord

\* The claims of two requests differ.
LEMMA ClaimsDiffer ==
    ASSUME NEW r, NEW q, Claim(r) = Claim(q)
    PROVE  r = q
<1>1. Author(Claim(r)) = r
  BY ClaimFields
<1>2. Author(Claim(q)) = q
  BY ClaimFields
<1> QED BY <1>1, <1>2

\* The memory of a process holds one claim of a key.
LEMMA OneServing ==
    ASSUME ProcInv, OnTime, NEW r \in Requests, NEW q \in Requests,
           KeyOf[r] = KeyOf[q], owner[r] = owner[q],
           pc[r] \in Serving, pc[q] \in Serving
    PROVE  r = q
<1>1. Claim(r) = Claim(q)
  BY DEF ProcInv, MemoryHeld
<1> QED BY <1>1, ClaimsDiffer

\* The state a request is in when nothing of it changes.
Same(q) ==
    pc'[q] = pc[q] /\ owner'[q] = owner[q] /\ snap'[q] = snap[q] /\ pending'[q] = pending[q]

\* Of one process only the request that moves is between two awaits.
LEMMA MoverAlone ==
    ASSUME ProcInv, NEW r \in Requests, NEW q \in Requests \ {r},
           owner[q] = owner[r], pc[r] \in SyncSteps \/ Free(owner[r])
    PROVE  pc[q] \notin SyncSteps
<1>1. AwaitSteps \intersect SyncSteps = {}
  BY DEF AwaitSteps, SyncSteps
<1> QED BY <1>1 DEF ProcInv, OneSync, Free

\* A step of one request r that changes, of all memories, at most the record of
\* r's key in the process of r.
LEMMA ProcStep ==
    ASSUME ProcInv, TypeInv', NEW r \in Requests, NEW w \in Workers, owner'[r] = w,
           UNCHANGED <<late, overdue>>,
           \A q \in Requests \ {r} : pc'[q] = pc[q] /\ owner'[q] = owner[q],
           \A q \in Requests \ {r} :
             owner[q] = w /\ pc'[r] \in SyncSteps => pc[q] \notin SyncSteps,
           \A v \in Workers, k \in Keys :
             v # w \/ k # KeyOf[r] => cache'[v][k] = cache[v][k],
           pc'[r] # "new",
           pc'[r] \in {"claim_read", "claim_cas"} =>
             pc[r] \in {"new", "claim_read", "claim_cas"},
           OnTime => \A q \in Requests \ {r} :
             owner[q] = w /\ KeyOf[q] = KeyOf[r] =>
               /\ pc[q] \in Serving => cache'[w][KeyOf[q]] = cache[w][KeyOf[q]]
               /\ pc[q] \in {"claim_read", "claim_cas"} => ~Live(cache'[w][KeyOf[q]]),
           OnTime /\ pc'[r] \in Serving =>
             cache'[w][KeyOf[r]] = Claim(r) /\ <<r, "claim">> \notin late,
           OnTime /\ pc'[r] \in {"claim_read", "claim_cas"} => ~Live(cache'[w][KeyOf[r]])
    PROVE  ProcInv'
<1>1. OneSync'
  BY DEF ProcInv, OneSync
<1>2. NoTimesYet'
  BY DEF ProcInv, NoTimesYet
<1>3. ASSUME OnTime PROVE MemoryHeld'
  <2> SUFFICES ASSUME NEW q \in Requests
               PROVE  /\ pc'[q] \in Serving =>
                             cache'[owner'[q]][KeyOf[q]] = Claim(q) /\ <<q, "claim">> \notin late
                      /\ pc'[q] \in {"claim_read", "claim_cas"} =>
                             ~Live(cache'[owner'[q]][KeyOf[q]])
    BY DEF MemoryHeld, Live, Claim
  <2>1. CASE q = r
    BY <1>3, <2>1
  <2>2. CASE q # r
    <3>1. pc'[q] = pc[q] /\ owner'[q] = owner[q] /\ KeyOf[q] \in Keys
      BY <2>2, IdempotencyAssumption
    <3>2. pc[q] \in Serving \union {"claim_read", "claim_cas"} => owner[q] \in Workers
      BY DEF ProcInv, TypeInv, Accepted, Serving
    <3>3. /\ pc[q] \in Serving => cache[owner[q]][KeyOf[q]] = Claim(q) /\ <<q, "claim">> \notin late
          /\ pc[q] \in {"claim_read", "claim_cas"} => ~Live(cache[owner[q]][KeyOf[q]])
      BY <1>3 DEF ProcInv, MemoryHeld
    <3>4. CASE owner[q] = w /\ KeyOf[q] = KeyOf[r]
      BY <1>3, <2>2, <3>1, <3>3, <3>4
    <3>5. CASE owner[q] # w \/ KeyOf[q] # KeyOf[r]
      <4>1. pc[q] \in Serving \union {"claim_read", "claim_cas"} =>
              cache'[owner[q]][KeyOf[q]] = cache[owner[q]][KeyOf[q]]
        BY <3>1, <3>2, <3>5
      <4> QED BY <3>1, <3>3, <4>1
    <3> QED BY <3>4, <3>5
  <2> QED BY <2>1, <2>2
<1> QED BY <1>1, <1>2, <1>3 DEF ProcInv, OnTime

\* Initially nothing is claimed.
LEMMA ProcInit == Init => ProcInv
<1> SUFFICES ASSUME Init PROVE ProcInv
  OBVIOUS
<1>1. OneSync
  BY DEF Init, OneSync, SyncSteps
<1>2. NoTimesYet /\ MemoryHeld
  BY DEF Init, NoTimesYet, MemoryHeld, Serving
<1> QED BY <1>1, <1>2, TypeInit DEF ProcInv

\* Looking a key up leaves the claims in memory alone.
LEMMA AcceptProc ==
    ASSUME ProcInv, TypeInv', NEW w \in Workers, NEW r \in Requests, Accept(w, r)
    PROVE  ProcInv'
<1> DEFINE k == KeyOf[r]
           known == IF Live(cache[w][k]) THEN cache[w][k] ELSE row[k].rec
<1>1. /\ UNCHANGED <<row, late, overdue, snap, pending, ran, rejected>>
      /\ pc[r] = "new" /\ owner'[r] = w
      /\ pc'[r] \in {"done", "claim_read"}
      /\ \A q \in Requests \ {r} : pc'[q] = pc[q] /\ owner'[q] = owner[q]
  BY DEF Accept, Goto, ProcInv, TypeInv, TypeOK
<1>2. \A q \in Requests \ {r} : owner[q] = w => pc[q] \notin SyncSteps
  BY DEF Accept, Free, AwaitSteps, SyncSteps
<1>3. cache' = cache \/ cache' = [cache EXCEPT ![w][k] = known]
  BY DEF Accept, Remember, ProcInv, TypeInv, TypeOK
<1>4. Live(cache[w][k]) => cache' = cache
  <2>1. [cache EXCEPT ![w][k] = cache[w][k]] = cache
    BY IdempotencyAssumption DEF ProcInv, TypeInv, TypeOK
  <2> QED BY <1>3, <2>1
<1>5. pc'[r] = "claim_read" => cache' = cache /\ ~Live(cache[w][k])
  BY DEF Accept, Goto, ProcInv, TypeInv, TypeOK
<1>6. \A v \in Workers, j \in Keys : v # w \/ j # k => cache'[v][j] = cache[v][j]
  <2> HIDE DEF known
  <2> QED BY <1>3, IdempotencyAssumption DEF ProcInv, TypeInv, TypeOK
<1>7. ASSUME OnTime, NEW q \in Requests \ {r}, owner[q] = w, KeyOf[q] = k
      PROVE  /\ pc[q] \in Serving => cache'[w][KeyOf[q]] = cache[w][KeyOf[q]]
             /\ pc[q] \in {"claim_read", "claim_cas"} => ~Live(cache'[w][KeyOf[q]])
  <2>1. pc[q] \in Serving => Live(cache[w][k])
    <3>1. pc[q] \in Serving => cache[w][k] = Claim(q) /\ <<q, "claim">> \notin late
      BY <1>7 DEF ProcInv, MemoryHeld
    <3> QED BY <3>1, ClaimLives
  <2>2. pc[q] \notin {"claim_read", "claim_cas"}
    BY <1>2, <1>7 DEF SyncSteps
  <2> QED BY <1>4, <1>7, <2>1, <2>2
<1>8. pc'[r] \notin Serving
  BY <1>1 DEF Serving
<1>9. pc'[r] # "new"
  BY <1>1
<1>10. pc'[r] \in {"claim_read", "claim_cas"} => pc'[r] = "claim_read"
  BY <1>1
<1>11. pc'[r] \in {"claim_read", "claim_cas"} => ~Live(cache'[w][KeyOf[r]])
  BY <1>5, <1>10
<1> HIDE DEF known
<1> QED BY <1>1, <1>2, <1>6, <1>7, <1>8, <1>9, <1>11, ProcStep

\* A step that leaves the memories alone and starts nothing.
LEMMA StillProc ==
    ASSUME ProcInv, TypeInv', NEW r \in Requests, pc[r] # "new",
           UNCHANGED <<cache, late, overdue, owner>>,
           \A q \in Requests \ {r} : pc'[q] = pc[q],
           pc[r] \in SyncSteps \/ Free(owner[r]) \/ pc'[r] \notin SyncSteps,
           pc'[r] # "new",
           pc'[r] \in Serving => pc[r] \in Serving,
           pc'[r] \in {"claim_read", "claim_cas"} => pc[r] \in {"claim_read", "claim_cas"}
    PROVE  ProcInv'
<1>1. owner[r] \in Workers
  BY DEF ProcInv, TypeInv, Accepted
<1>2. \A q \in Requests \ {r} :
        owner[q] = owner[r] /\ pc'[r] \in SyncSteps => pc[q] \notin SyncSteps
  BY MoverAlone
<1>3. ASSUME OnTime
      PROVE  /\ pc'[r] \in Serving =>
                    cache[owner[r]][KeyOf[r]] = Claim(r) /\ <<r, "claim">> \notin late
             /\ pc'[r] \in {"claim_read", "claim_cas"} => ~Live(cache[owner[r]][KeyOf[r]])
             /\ \A q \in Requests \ {r} : owner[q] = owner[r] /\ KeyOf[q] = KeyOf[r] =>
                  (pc[q] \in {"claim_read", "claim_cas"} => ~Live(cache[owner[r]][KeyOf[q]]))
  BY <1>3 DEF ProcInv, MemoryHeld
<1> QED BY <1>1, <1>2, <1>3, ProcStep

\* Reading the row.
LEMMA ReadsProc ==
    ASSUME ProcInv, TypeInv', NEW r \in Requests, ClaimRead(r) \/ WriteRead(r)
    PROVE  ProcInv'
<1>1. /\ UNCHANGED <<cache, late, overdue, owner>>
      /\ pc[r] \in {"claim_read", "write_read"}
      /\ pc'[r] \in {"done", "claim_cas", "write_cas"}
      /\ pc'[r] = "write_cas" => pc[r] = "write_read"
      /\ pc'[r] = "claim_cas" => pc[r] = "claim_read"
      /\ \A q \in Requests \ {r} : pc'[q] = pc[q]
  BY DEF ClaimRead, WriteRead, Goto, ProcInv, TypeInv, TypeOK
<1>2. /\ pc[r] # "new" /\ pc[r] \in SyncSteps /\ pc'[r] # "new"
      /\ pc'[r] \in Serving => pc[r] \in Serving
      /\ pc'[r] \in {"claim_read", "claim_cas"} => pc[r] \in {"claim_read", "claim_cas"}
  BY <1>1 DEF SyncSteps, Serving
<1> QED BY <1>1, <1>2, StillProc

\* Starting to record an outcome, and moving on.
LEMMA OutcomesProc ==
    ASSUME ProcInv, TypeInv', NEW r \in Requests, Outcomes(r) \/ Moves(r)
    PROVE  ProcInv'
<1>1. /\ UNCHANGED <<cache, late, overdue, owner>>
      /\ pc[r] \in Serving
      /\ \A q \in Requests \ {r} : pc'[q] = pc[q]
  BY DEF Outcomes, NotAdmitted, DryRun, Answered, Unknown, OpenFailed, StreamSettled,
         StreamBroken, Record, Goto, Moves, Denied, Forward, Opened, Abandoned, Raises, Hangs,
         Serving, ProcInv, TypeInv, TypeOK
<1>2. pc'[r] \in Serving \union {"done", "abandoned", "raised", "stuck"}
  BY DEF Outcomes, NotAdmitted, DryRun, Answered, Unknown, OpenFailed, StreamSettled,
         StreamBroken, Record, Goto, Moves, Denied, Forward, Opened, Abandoned, Raises, Hangs,
         Serving, ProcInv, TypeInv, TypeOK
<1>3. pc[r] \in SyncSteps \/ Free(owner[r]) \/ pc'[r] \notin SyncSteps
  BY DEF Outcomes, NotAdmitted, DryRun, Answered, Unknown, OpenFailed, StreamSettled,
         StreamBroken, Record, Goto, Moves, Denied, Forward, Opened, Abandoned, Raises, Hangs,
         SyncSteps, ProcInv, TypeInv, TypeOK
<1>4. /\ pc[r] # "new" /\ pc'[r] # "new"
      /\ pc'[r] \in Serving => pc[r] \in Serving
      /\ pc'[r] \notin {"claim_read", "claim_cas"}
  BY <1>1, <1>2 DEF Serving
<1> QED BY <1>1, <1>3, <1>4, StillProc

\* A step of r that puts a record into the memory of its process.
LEMMA PutProc ==
    ASSUME ProcInv, TypeInv', NEW r \in Requests, NEW rec,
           pc[r] \in SyncSteps \/ Free(owner[r]),
           pc[r] \in Serving \union {"claim_cas"},
           cache' = [cache EXCEPT ![owner[r]][KeyOf[r]] = rec],
           UNCHANGED <<late, overdue, owner>>,
           \/ pc' = [pc EXCEPT ![r] = "serving"] /\ pc[r] = "claim_cas" /\ rec = Claim(r)
           \/ pc' = [pc EXCEPT ![r] = "done"] /\ pc[r] \in Serving
    PROVE  ProcInv'
<1> DEFINE w == owner[r]
<1>1. w \in Workers /\ KeyOf[r] \in Keys
  BY IdempotencyAssumption DEF ProcInv, TypeInv, Accepted, Serving
<1>2. /\ cache'[w][KeyOf[r]] = rec
      /\ \A v \in Workers, k \in Keys :
           v # w \/ k # KeyOf[r] => cache'[v][k] = cache[v][k]
  BY <1>1 DEF ProcInv, TypeInv, TypeOK
<1>3. /\ \A q \in Requests \ {r} : pc'[q] = pc[q]
      /\ \/ pc'[r] = "serving" /\ pc[r] = "claim_cas" /\ rec = Claim(r)
         \/ pc'[r] = "done" /\ pc[r] \in Serving
  BY DEF ProcInv, TypeInv, TypeOK
<1>4. \A q \in Requests \ {r} : owner[q] = w => pc[q] \notin SyncSteps
  BY MoverAlone
<1>5. ASSUME OnTime, NEW q \in Requests \ {r}, owner[q] = w, KeyOf[q] = KeyOf[r]
      PROVE  pc[q] \notin Serving /\ pc[q] \notin {"claim_read", "claim_cas"}
  <2>1. pc[q] \notin {"claim_read", "claim_cas"}
    BY <1>4, <1>5 DEF SyncSteps
  <2>2. CASE pc[r] \in Serving
    BY <1>5, <2>1, <2>2, OneServing
  <2>3. CASE pc[r] = "claim_cas"
    <3>1. ~Live(cache[w][KeyOf[r]])
      BY <1>5, <2>3 DEF ProcInv, MemoryHeld
    <3>2. pc[q] \in Serving => Live(cache[w][KeyOf[r]])
      <4>1. pc[q] \in Serving =>
              cache[w][KeyOf[r]] = Claim(q) /\ <<q, "claim">> \notin late
        BY <1>5 DEF ProcInv, MemoryHeld
      <4> QED BY <4>1, ClaimLives
    <3> QED BY <2>1, <3>1, <3>2
  <2> QED BY <2>2, <2>3
<1>6. pc[r] = "claim_cas" => <<r, "claim">> \notin late
  BY DEF ProcInv, NoTimesYet
<1>7. /\ pc'[r] # "new" /\ pc'[r] \notin {"claim_read", "claim_cas"}
      /\ pc'[r] \in Serving => rec = Claim(r) /\ <<r, "claim">> \notin late
  BY <1>3, <1>6 DEF Serving
<1> QED BY <1>1, <1>2, <1>3, <1>4, <1>5, <1>7, ProcStep

\* Claiming, writing an outcome and freeing a key.
LEMMA PutsProc ==
    ASSUME ProcInv, TypeInv', NEW r \in Requests,
           ClaimCas(r) \/ WriteCas(r) \/ Rejected(r)
    PROVE  ProcInv'
<1>1. CASE ClaimCas(r)
  <2>1. CASE /\ cache' = [cache EXCEPT ![owner[r]][KeyOf[r]] = Claim(r)]
             /\ Goto(r, "serving")
    <3>1. /\ pc[r] = "claim_cas" /\ pc' = [pc EXCEPT ![r] = "serving"]
          /\ UNCHANGED <<late, overdue, owner>>
      BY <1>1, <2>1 DEF ClaimCas, Goto
    <3>2. pc[r] \in SyncSteps /\ pc[r] \in Serving \union {"claim_cas"}
      BY <3>1 DEF SyncSteps
    <3> DEFINE rec == Claim(r)
    <3>3. cache' = [cache EXCEPT ![owner[r]][KeyOf[r]] = rec] /\ rec = Claim(r)
      BY <2>1
    <3> HIDE DEF rec
    <3> QED BY <3>1, <3>2, <3>3, PutProc
  <2>2. CASE Goto(r, "done") /\ UNCHANGED cache
    <3>1. pc'[r] = "done" /\ \A q \in Requests \ {r} : pc'[q] = pc[q]
      BY <2>2 DEF Goto, ProcInv, TypeInv, TypeOK
    <3> QED BY <1>1, <2>2, <3>1, StillProc DEF ClaimCas, SyncSteps, Serving
  <2> QED BY <1>1, <2>1, <2>2 DEF ClaimCas
<1>2. CASE WriteCas(r)
  <2> DEFINE merged == [Merged(snap[r].rec, pending[r]) EXCEPT !.body = pending[r].body]
  <2>1. CASE /\ cache' = [cache EXCEPT ![owner[r]][KeyOf[r]] = merged]
             /\ Goto(r, "done")
    <3> HIDE DEF merged
    <3> QED BY <1>2, <2>1, PutProc DEF WriteCas, Goto, SyncSteps, Serving
  <2>2. CASE (Goto(r, "done") \/ Goto(r, "write_read")) /\ UNCHANGED cache
    <3>1. /\ pc'[r] \in {"done", "write_read"}
          /\ \A q \in Requests \ {r} : pc'[q] = pc[q]
      BY <2>2 DEF Goto, ProcInv, TypeInv, TypeOK
    <3>2. /\ pc[r] = "write_cas"
          /\ UNCHANGED <<late, overdue, owner>>
      BY <1>2 DEF WriteCas
    <3>3. /\ pc[r] \in SyncSteps /\ pc[r] \in Serving
          /\ pc'[r] \notin {"claim_read", "claim_cas", "new"}
      BY <3>1, <3>2 DEF SyncSteps, Serving
    <3> QED BY <2>2, <3>1, <3>2, <3>3, StillProc
  <2> QED BY <1>2, <2>1, <2>2 DEF WriteCas
<1>3. CASE Rejected(r)
  BY <1>3, PutProc DEF Rejected, Release, Goto, SyncSteps, Serving
<1> QED BY <1>1, <1>2, <1>3

\* An expiry makes the requests in service overdue, or is none of theirs.
LEMMA ExpireProc ==
    ASSUME ProcInv, TypeInv', NEW t \in Times, Expire(t)
    PROVE  ProcInv'
<1>1. /\ UNCHANGED <<row, cache, owner, pc>> /\ late' = late \union {t}
      /\ pc[t[1]] \notin {"new", "claim_read", "claim_cas"}
      /\ overdue' = overdue \union {r \in Requests : t = <<r, "claim">> /\ pc[r] \in Serving}
  BY DEF Expire
<1>2. OneSync' /\ NoTimesYet'
  BY <1>1 DEF ProcInv, OneSync, NoTimesYet
<1>3. ASSUME OnTime' PROVE MemoryHeld'
  <2>1. OnTime /\ \A r \in Requests : pc[r] \in Serving => t # <<r, "claim">>
    BY <1>1, <1>3 DEF OnTime
  <2>2. \A rec : ~Live(rec) => ~Live(rec)'
    BY <1>1 DEF Live
  <2>3. MemoryHeld
    BY <2>1 DEF ProcInv
  <2> SUFFICES ASSUME NEW r \in Requests
               PROVE  /\ pc[r] \in Serving =>
                             cache[owner[r]][KeyOf[r]] = Claim(r) /\ <<r, "claim">> \notin late'
                      /\ pc[r] \in {"claim_read", "claim_cas"} =>
                             ~Live(cache[owner[r]][KeyOf[r]])'
    BY <1>1 DEF MemoryHeld, Claim
  <2> QED BY <1>1, <2>1, <2>2, <2>3 DEF MemoryHeld, Live
<1> QED BY <1>2, <1>3 DEF ProcInv

\* A crash only takes requests out of service.
LEMMA CrashProc ==
    ASSUME ProcInv, TypeInv', NEW w \in Workers, Crash(w)
    PROVE  ProcInv'
<1>1. /\ UNCHANGED <<row, late, overdue, owner>>
      /\ cache' = [cache EXCEPT ![w] = [k \in Keys |-> NoRecord]]
      /\ \A q \in Requests : pc'[q] = pc[q] \/ pc'[q] = "crashed"
      /\ \A q \in Requests : owner[q] = w => pc'[q] \notin Serving \union {"claim_read", "claim_cas"}
  BY DEF Crash, Lost, Serving
<1>2. OneSync' /\ NoTimesYet'
  BY <1>1 DEF ProcInv, OneSync, NoTimesYet, SyncSteps
<1>3. ASSUME OnTime' PROVE MemoryHeld'
  <2>1. MemoryHeld
    BY <1>1, <1>3 DEF ProcInv, OnTime
  <2>2. ASSUME NEW q \in Requests, pc'[q] \in Serving \union {"claim_read", "claim_cas"}
        PROVE  pc[q] = pc'[q] /\ cache'[owner[q]][KeyOf[q]] = cache[owner[q]][KeyOf[q]]
    <3>1. pc[q] = pc'[q] /\ owner[q] # w
      BY <1>1, <2>2 DEF Serving
    <3>2. owner[q] \in Workers
      BY <2>2, <3>1 DEF ProcInv, TypeInv, Accepted, Serving
    <3> QED BY <1>1, <3>1, <3>2 DEF ProcInv, TypeInv, TypeOK
  <2> SUFFICES ASSUME NEW q \in Requests
               PROVE  /\ pc'[q] \in Serving =>
                             cache'[owner[q]][KeyOf[q]] = Claim(q) /\ <<q, "claim">> \notin late
                      /\ pc'[q] \in {"claim_read", "claim_cas"} =>
                             ~Live(cache'[owner[q]][KeyOf[q]])
    <3>1. \A rec : Live(rec)' <=> Live(rec)
      BY <1>1 DEF Live
    <3> QED BY <1>1, <3>1 DEF MemoryHeld, Live, Claim
  <2> QED BY <2>1, <2>2 DEF MemoryHeld
<1> QED BY <1>2, <1>3 DEF ProcInv

\* ProcInv is inductive.
LEMMA ProcInvStep == ProcInv /\ [Next]_vars => ProcInv'
<1> SUFFICES ASSUME ProcInv, [Next]_vars PROVE ProcInv'
  OBVIOUS
<1>1. TypeInv'
  BY TypeStep DEF ProcInv
<1>2. CASE UNCHANGED vars
  BY <1>1, <1>2 DEF vars, ProcInv, OneSync, NoTimesYet, OnTime, MemoryHeld, Live, Claim
<1>3. CASE Next
  BY <1>1, <1>3, NextCases, AcceptProc, ReadsProc, OutcomesProc, PutsProc, ExpireProc,
     CrashProc
<1> QED BY <1>2, <1>3

\* A process never serves two requests with one key at a time, whatever the other
\* processes do to the row and however many of them hold a claim.
THEOREM FlightCorrect == Spec => []OneFlightPerProcess
<1>1. ProcInv => OneFlightPerProcess
  BY OneServing DEF OneFlightPerProcess
<1> QED BY <1>1, ProcInit, ProcInvStep, PTL DEF Spec

-----------------------------------------------------------------------------
(* One gateway process: one request per key.                               *)

\* The deployment of the repository: gateway.py:1991 starts one process.
OneGateway == \A v, w \in Workers : v = w

\* The row a compare-and-swap is about to replace is the one it has read, and a
\* claim is about to replace a record that lives no more.
FreshRead ==
    \A r \in Requests :
        /\ pc[r] \in {"claim_cas", "write_cas"} => snap[r] = row[KeyOf[r]]
        /\ pc[r] = "claim_cas" => ~Live(row[KeyOf[r]].rec)

\* While a request is being served, its key's row is its claim.
RowHeld == \A r \in Requests : pc[r] \in Serving => row[KeyOf[r]].rec = Claim(r)

\* The fields a request may write.
Outcome(r, fields) ==
    /\ fields.state # "absent"
    /\ Author(fields) = r
    /\ fields.payload \in {NoPayload, PayloadOf[r]}
    /\ fields.body \in {NoRequest, r}

OutcomeReady ==
    \A r \in Requests :
        pc[r] \in {"write_read", "write_cas"} =>
            Outcome(r, pending[r]) /\ (pending[r].body = r => r \in ran)

\* The record of a key stays that of the request that ran until it expires.
OutcomeStays ==
    /\ \A r \in rejected : pc[r] = "done"
    /\ \A r \in ran \ rejected :
         \/ Expired(r)
         \/ row[KeyOf[r]].rec.state # "absent" /\ Author(row[KeyOf[r]].rec) = r

KeyInv ==
    /\ ProcInv /\ OnTime
    /\ FreshRead /\ RowHeld /\ OutcomeReady /\ OutcomeStays

\* A request that is being served, or whose outcome has not expired.
Holds(r) == pc[r] \in Serving \/ (r \in ran \ rejected /\ ~Expired(r))

\* The row of a request being served is its own, and lives.
LEMMA ServingHolds ==
    ASSUME KeyInv, NEW r \in Requests, pc[r] \in Serving
    PROVE  /\ row[KeyOf[r]].rec = Claim(r)
           /\ row[KeyOf[r]].rec.state # "absent"
           /\ Author(row[KeyOf[r]].rec) = r
           /\ Live(row[KeyOf[r]].rec)
<1>1. row[KeyOf[r]].rec = Claim(r) /\ <<r, "claim">> \notin late
  BY DEF KeyInv, RowHeld, ProcInv, MemoryHeld
<1> QED BY <1>1, ClaimFields, ClaimLives

\* Two requests with one key do not both hold its row.
LEMMA OneHolder ==
    ASSUME KeyInv, NEW r \in Requests, NEW q \in Requests, KeyOf[r] = KeyOf[q],
           Holds(r), Holds(q)
    PROVE  r = q
<1>1. Author(row[KeyOf[r]].rec) = r
  BY ServingHolds DEF KeyInv, OutcomeStays, Holds
<1>2. Author(row[KeyOf[q]].rec) = q
  BY ServingHolds DEF KeyInv, OutcomeStays, Holds
<1> QED BY <1>1, <1>2

\* In one process only the request that moves is between two awaits.
LEMMA OnlyMover ==
    ASSUME OneGateway, ProcInv, NEW r \in Requests, pc[r] # "new",
           pc[r] \in SyncSteps \/ Free(owner[r]), NEW q \in Requests \ {r}
    PROVE  pc[q] \notin SyncSteps
<1>1. pc[q] \in SyncSteps => owner[q] = owner[r]
  BY DEF OneGateway, ProcInv, TypeInv, Accepted, SyncSteps
<1> QED BY <1>1, MoverAlone

\* Initially no key is claimed.
LEMMA KeyInit == Init => KeyInv
<1> SUFFICES ASSUME Init PROVE KeyInv
  OBVIOUS
<1>1. \A r \in Requests : pc[r] = "new"
  BY DEF Init
<1> QED BY <1>1, ProcInit
        DEF Init, KeyInv, OnTime, FreshRead, RowHeld, OutcomeReady, OutcomeStays, Serving

\* A step that writes no row, serves nobody new and forwards nobody new.
LEMMA QuietKeeps ==
    ASSUME KeyInv, ProcInv', UNCHANGED <<row, late, overdue, rejected>>,
           \A r \in ran' : r \in ran \/ pc[r] \in Serving,
           \A r \in Requests :
             /\ pc'[r] \in Serving => pc[r] \in Serving
             /\ pc'[r] \in {"claim_cas", "write_cas"} => snap'[r] = row[KeyOf[r]]
             /\ pc'[r] = "claim_cas" => ~Live(row[KeyOf[r]].rec)
             /\ pc[r] = "done" => pc'[r] = "done",
           \A r \in Requests : pc'[r] \in {"write_read", "write_cas"} =>
             Outcome(r, pending'[r]) /\ (pending'[r].body = r => r \in ran')
    PROVE  KeyInv'
<1>1. OnTime' /\ FreshRead'
  BY DEF KeyInv, OnTime, FreshRead, Live
<1>2. RowHeld'
  BY DEF KeyInv, RowHeld, Claim
<1>3. OutcomeReady'
  BY DEF OutcomeReady, Outcome, Author
<1>4. OutcomeStays'
  <2>1. \A r \in rejected' : pc'[r] = "done"
    BY DEF KeyInv, ProcInv, OutcomeStays, TypeInv, TypeOK
  <2>2. ASSUME NEW r \in ran' \ rejected'
        PROVE  \/ Expired(r)
               \/ row[KeyOf[r]].rec.state # "absent" /\ Author(row[KeyOf[r]].rec) = r
    <3>1. CASE r \in ran
      BY <2>2, <3>1 DEF KeyInv, OutcomeStays
    <3>2. CASE pc[r] \in Serving
      <4>1. r \in Requests
        BY <2>2 DEF ProcInv, TypeInv, TypeOK
      <4> QED BY <3>2, <4>1, ServingHolds
    <3> QED BY <3>1, <3>2, <2>2
  <2> QED BY <2>1, <2>2 DEF OutcomeStays, Expired, Author
<1> QED BY <1>1, <1>2, <1>3, <1>4 DEF KeyInv

\* What the quiet conditions ask of the requests that do not move.
LEMMA OthersQuiet ==
    ASSUME KeyInv, NEW q \in Requests, pc'[q] = pc[q], snap'[q] = snap[q]
    PROVE  /\ pc'[q] \in {"claim_cas", "write_cas"} => snap'[q] = row[KeyOf[q]]
           /\ pc'[q] = "claim_cas" => ~Live(row[KeyOf[q]].rec)
BY DEF KeyInv, FreshRead

\* The fields others are about to write stay theirs.
LEMMA OthersReady ==
    ASSUME KeyInv, NEW q \in Requests, pc'[q] \in {"write_read", "write_cas"},
           pc[q] \in {"write_read", "write_cas"}, pending'[q] = pending[q],
           ran \subseteq ran'
    PROVE  Outcome(q, pending'[q]) /\ (pending'[q].body = q => q \in ran')
BY DEF KeyInv, OutcomeReady

\* Looking a key up changes no row.
LEMMA AcceptKeeps ==
    ASSUME KeyInv, ProcInv', NEW w \in Workers, NEW r \in Requests, Accept(w, r)
    PROVE  KeyInv'
<1>1. /\ UNCHANGED <<row, late, overdue, snap, pending, ran, rejected>>
      /\ pc[r] = "new"
      /\ pc'[r] \in {"done", "claim_read"}
      /\ \A q \in Requests \ {r} : pc'[q] = pc[q]
  BY DEF Accept, Goto, KeyInv, ProcInv, TypeInv, TypeOK
<1>2. \A q \in Requests :
        /\ pc'[q] \in Serving => pc[q] \in Serving
        /\ pc'[q] \in {"claim_cas", "write_cas"} => snap'[q] = row[KeyOf[q]]
        /\ pc'[q] = "claim_cas" => ~Live(row[KeyOf[q]].rec)
        /\ pc[q] = "done" => pc'[q] = "done"
  BY <1>1, OthersQuiet DEF Serving
<1>3. \A q \in Requests : pc'[q] \in {"write_read", "write_cas"} =>
        Outcome(q, pending'[q]) /\ (pending'[q].body = q => q \in ran')
  BY <1>1, OthersReady
<1> QED BY <1>1, <1>2, <1>3, QuietKeeps

\* Reading the row before a claim or an outcome.
LEMMA ReadsKeep ==
    ASSUME KeyInv, ProcInv', NEW r \in Requests, ClaimRead(r) \/ WriteRead(r)
    PROVE  KeyInv'
<1>1. /\ UNCHANGED <<row, late, overdue, pending, ran, rejected>>
      /\ pc[r] \in {"claim_read", "write_read"}
      /\ \/ pc'[r] = "done"
         \/ pc'[r] = "claim_cas" /\ snap'[r] = row[KeyOf[r]] /\ ~Live(row[KeyOf[r]].rec)
         \/ pc[r] = "write_read" /\ pc'[r] = "write_cas" /\ snap'[r] = row[KeyOf[r]]
      /\ \A q \in Requests \ {r} : pc'[q] = pc[q] /\ snap'[q] = snap[q]
  BY DEF ClaimRead, WriteRead, Goto, KeyInv, ProcInv, TypeInv, TypeOK
<1>2. \A q \in Requests :
        /\ pc'[q] \in Serving => pc[q] \in Serving
        /\ pc'[q] \in {"claim_cas", "write_cas"} => snap'[q] = row[KeyOf[q]]
        /\ pc'[q] = "claim_cas" => ~Live(row[KeyOf[q]].rec)
        /\ pc[q] = "done" => pc'[q] = "done"
  BY <1>1, OthersQuiet DEF Serving
<1>3. \A q \in Requests : pc'[q] \in {"write_read", "write_cas"} =>
        Outcome(q, pending'[q]) /\ (pending'[q].body = q => q \in ran')
  BY <1>1, OthersReady
<1> QED BY <1>1, <1>2, <1>3, QuietKeeps

\* Moving a request on without recording anything.
LEMMA MovesKeep ==
    ASSUME KeyInv, ProcInv', NEW r \in Requests, Moves(r)
    PROVE  KeyInv'
<1>1. /\ UNCHANGED <<row, late, overdue, snap, pending, rejected>>
      /\ pc[r] \in Serving
      /\ pc'[r] \in {"calling", "opening", "relaying", "done", "abandoned", "raised", "stuck"}
      /\ ran \subseteq ran' /\ ran' \subseteq ran \union {r}
      /\ \A q \in Requests \ {r} : pc'[q] = pc[q]
  BY DEF Moves, Denied, Forward, Opened, Abandoned, Raises, Hangs, Goto, Serving, KeyInv,
         ProcInv, TypeInv, TypeOK
<1>2. \A q \in Requests :
        /\ pc'[q] \in Serving => pc[q] \in Serving
        /\ pc'[q] \in {"claim_cas", "write_cas"} => snap'[q] = row[KeyOf[q]]
        /\ pc'[q] = "claim_cas" => ~Live(row[KeyOf[q]].rec)
        /\ pc[q] = "done" => pc'[q] = "done"
  BY <1>1, OthersQuiet DEF Serving
<1>3. \A q \in Requests : pc'[q] \in {"write_read", "write_cas"} =>
        Outcome(q, pending'[q]) /\ (pending'[q].body = q => q \in ran')
  BY <1>1, OthersReady
<1> QED BY <1>1, <1>2, <1>3, QuietKeeps

\* A crash only takes requests out of service.
LEMMA CrashKeeps ==
    ASSUME KeyInv, ProcInv', NEW w \in Workers, Crash(w)
    PROVE  KeyInv'
<1>1. /\ UNCHANGED <<row, late, overdue, ran, rejected>>
      /\ \A q \in Lost(w) : pc'[q] = "crashed" /\ pc[q] # "done"
      /\ \A q \in Requests \ Lost(w) :
           pc'[q] = pc[q] /\ snap'[q] = snap[q] /\ pending'[q] = pending[q]
  BY DEF Crash, Lost
<1>2. \A q \in Requests :
        /\ pc'[q] \in Serving => pc[q] \in Serving
        /\ pc'[q] \in {"claim_cas", "write_cas"} => snap'[q] = row[KeyOf[q]]
        /\ pc'[q] = "claim_cas" => ~Live(row[KeyOf[q]].rec)
        /\ pc[q] = "done" => pc'[q] = "done"
  BY <1>1, OthersQuiet DEF Serving
<1>3. \A q \in Requests : pc'[q] \in {"write_read", "write_cas"} =>
        Outcome(q, pending'[q]) /\ (pending'[q].body = q => q \in ran')
  BY <1>1, OthersReady
<1> QED BY <1>1, <1>2, <1>3, QuietKeeps

\* An expiry that makes nobody overdue frees the row of an ended request only.
LEMMA ExpireKeeps ==
    ASSUME KeyInv, ProcInv', NEW t \in Times, Expire(t), OnTime'
    PROVE  KeyInv'
<1>1. UNCHANGED <<row, pc, snap, pending, ran, rejected>> /\ late \subseteq late'
  BY DEF Expire
<1>2. FreshRead' /\ RowHeld' /\ OutcomeReady'
  BY <1>1 DEF KeyInv, FreshRead, RowHeld, OutcomeReady, Outcome, Author, Live, Claim
<1>3. OutcomeStays'
  BY <1>1 DEF KeyInv, OutcomeStays, Expired, Author
<1> QED BY <1>2, <1>3 DEF KeyInv

\* Starting to record an outcome: the fields are the request's own.
LEMMA OutcomesKeep ==
    ASSUME KeyInv, ProcInv', NEW r \in Requests, Outcomes(r)
    PROVE  KeyInv'
<1>1. /\ UNCHANGED <<row, cache, late, overdue, owner, snap, rejected>>
      /\ pc[r] \in Serving /\ pc'[r] = "write_read"
      /\ ran \subseteq ran' /\ ran' \subseteq ran \union {r}
      /\ \A q \in Requests \ {r} : pc'[q] = pc[q] /\ pending'[q] = pending[q]
  BY DEF Outcomes, NotAdmitted, DryRun, Answered, Unknown, OpenFailed, StreamSettled,
         StreamBroken, Record, Goto, Serving, KeyInv, ProcInv, TypeInv, TypeOK
<1>2. Outcome(r, pending'[r]) /\ (pending'[r].body = r => r \in ran')
  <2> DEFINE Ends == RecordStates \ {"absent"}
  <2>1. {"settled", "uncertain", "released"} \subseteq Ends
    BY DEF RecordStates
  <2>2. pc[r] \in {"calling", "opening", "relaying"} => r \in ran'
    BY <1>1 DEF KeyInv, ProcInv, TypeInv, Accepted
  <2>3. ASSUME NEW state \in Ends, pc[r] \in {"serving", "calling"}
        PROVE  /\ Outcome(r, PlainFields(r, state))
               /\ PlainFields(r, state).body # r
               /\ Outcome(r, [PlainFields(r, state) EXCEPT !.body = r])
    <3>1. cache[owner[r]][KeyOf[r]] = Claim(r)
      BY <2>3 DEF KeyInv, ProcInv, MemoryHeld, Serving
    <3> QED BY <3>1, IdempotencyAssumption
            DEF Outcome, PlainFields, Claim, NoRecord, Author
  <2>4. ASSUME NEW state \in Ends
        PROVE  /\ Outcome(r, [StreamFields(r, state) EXCEPT !.replayable = FALSE])
               /\ [StreamFields(r, state) EXCEPT !.replayable = FALSE].body # r
               /\ Outcome(r, [StreamFields(r, state) EXCEPT !.body = r])
    BY IdempotencyAssumption DEF Outcome, StreamFields, NoRecord, Author
  <2>5. ASSUME NEW fields, NEW kind, Record(r, fields, kind), Outcome(r, fields),
               fields.body # r \/ r \in ran'
        PROVE  Outcome(r, pending'[r]) /\ (pending'[r].body = r => r \in ran')
    <3>1. pending'[r] = fields
      BY <2>5 DEF Record, KeyInv, ProcInv, TypeInv, TypeOK
    <3> QED BY <2>5, <3>1
  <2> HIDE DEF Ends
  <2>6. CASE NotAdmitted(r)
    BY <2>1, <2>3, <2>5, <2>6 DEF NotAdmitted
  <2>7. CASE DryRun(r)
    <3>1. r \in ran'
      BY <2>7 DEF DryRun
    <3> QED BY <2>1, <2>3, <2>5, <2>7, <3>1 DEF DryRun
  <2>8. CASE Answered(r)
    BY <2>1, <2>2, <2>3, <2>5, <2>8 DEF Answered
  <2>9. CASE Unknown(r)
    BY <2>1, <2>3, <2>5, <2>9 DEF Unknown
  <2>10. CASE OpenFailed(r)
    BY <2>1, <2>4, <2>5, <2>10 DEF OpenFailed
  <2>11. CASE StreamSettled(r)
    BY <2>1, <2>4, <2>5, <2>11 DEF StreamSettled
  <2>12. CASE StreamBroken(r)
    BY <2>1, <2>2, <2>4, <2>5, <2>12 DEF StreamBroken
  <2> QED BY <2>6, <2>7, <2>8, <2>9, <2>10, <2>11, <2>12 DEF Outcomes
<1>3. \A q \in Requests :
        /\ pc'[q] \in Serving => pc[q] \in Serving
        /\ pc'[q] \in {"claim_cas", "write_cas"} => snap'[q] = row[KeyOf[q]]
        /\ pc'[q] = "claim_cas" => ~Live(row[KeyOf[q]].rec)
        /\ pc[q] = "done" => pc'[q] = "done"
  BY <1>1, OthersQuiet DEF Serving
<1>4. \A q \in Requests : pc'[q] \in {"write_read", "write_cas"} =>
        Outcome(q, pending'[q]) /\ (pending'[q].body = q => q \in ran')
  BY <1>1, <1>2, OthersReady
<1> QED BY <1>1, <1>3, <1>4, QuietKeeps

\* A step of r that replaces the row of its key, which nobody else holds.
LEMMA RowStep ==
    ASSUME KeyInv, ProcInv', NEW r \in Requests, NEW new,
           row' = [row EXCEPT ![KeyOf[r]] = new],
           UNCHANGED <<late, overdue, ran>>,
           \A q \in Requests \ {r} :
             /\ pc'[q] = pc[q] /\ snap'[q] = snap[q] /\ pending'[q] = pending[q]
             /\ pc[q] \notin SyncSteps
             /\ Holds(q) => KeyOf[q] # KeyOf[r],
           rejected \subseteq rejected', rejected' \subseteq rejected \union {r},
           pc'[r] \in {"serving", "done"}, pc[r] # "done",
           r \in rejected' => pc'[r] = "done",
           pc'[r] = "serving" => new.rec = Claim(r),
           r \in ran \ rejected' => new.rec.state # "absent" /\ Author(new.rec) = r
    PROVE  KeyInv'
<1> DEFINE k == KeyOf[r]
<1>1. /\ k \in Keys /\ row'[k] = new
      /\ \A j \in Keys \ {k} : row'[j] = row[j]
  BY IdempotencyAssumption DEF KeyInv, ProcInv, TypeInv, TypeOK
<1>2. OnTime' /\ FreshRead' /\ OutcomeReady'
  BY DEF KeyInv, OnTime, FreshRead, OutcomeReady, SyncSteps
<1>3. RowHeld'
  <2>1. ASSUME NEW q \in Requests \ {r}, pc'[q] \in Serving
        PROVE  row'[KeyOf[q]].rec = Claim(q)
    <3>1. pc[q] \in Serving /\ KeyOf[q] \in Keys \ {k}
      BY <2>1, IdempotencyAssumption DEF Holds
    <3> QED BY <1>1, <3>1 DEF KeyInv, RowHeld
  <2>2. /\ pc'[r] \in Serving => pc'[r] = "serving"
        /\ pc'[r] = "serving" => row'[KeyOf[r]].rec = Claim(r)
    BY <1>1 DEF Serving
  <2> QED BY <2>1, <2>2 DEF RowHeld, Claim
<1>4. OutcomeStays'
  <2>1. \A q \in rejected' : pc'[q] = "done"
    BY DEF KeyInv, ProcInv, OutcomeStays, TypeInv, TypeOK
  <2>2. ASSUME NEW q \in ran' \ rejected', ~Expired(q)
        PROVE  row'[KeyOf[q]].rec.state # "absent" /\ Author(row'[KeyOf[q]].rec) = q
    <3>1. q \in Requests /\ q \in ran \ rejected
      BY <2>2 DEF KeyInv, ProcInv, TypeInv, TypeOK
    <3>2. CASE q = r
      BY <1>1, <2>2, <3>2
    <3>3. CASE q # r
      <4>1. row'[KeyOf[q]] = row[KeyOf[q]]
        BY <1>1, <2>2, <3>1, <3>3, IdempotencyAssumption DEF Holds
      <4> QED BY <2>2, <3>1, <4>1 DEF KeyInv, OutcomeStays
    <3> QED BY <3>2, <3>3
  <2> QED BY <2>1, <2>2 DEF OutcomeStays, Expired, Author
<1> QED BY <1>2, <1>3, <1>4 DEF KeyInv

\* In one process a claim replaces a record that lives no more, of a request that
\* has expired or was rejected.
LEMMA ClaimCasKeeps ==
    ASSUME OneGateway, KeyInv, ProcInv', NEW r \in Requests, ClaimCas(r)
    PROVE  KeyInv'
<1> DEFINE new == [ver |-> snap[r].ver + 1, rec |-> Claim(r)]
<1>1. /\ UNCHANGED <<late, overdue, pending, ran, rejected>>
      /\ pc[r] = "claim_cas" /\ ~Live(row[KeyOf[r]].rec) /\ KeyOf[r] \in Keys
      /\ \A q \in Requests \ {r} : pc'[q] = pc[q] /\ snap'[q] = snap[q]
  BY IdempotencyAssumption DEF ClaimCas, Goto, KeyInv, FreshRead, ProcInv, TypeInv, TypeOK
<1>2. \A q \in Requests \ {r} : pc[q] \notin SyncSteps
  BY <1>1, OnlyMover DEF KeyInv, SyncSteps
<1>3. CASE /\ row' = [row EXCEPT ![KeyOf[r]] = new]
           /\ Goto(r, "serving")
  <2>1. ASSUME NEW q \in Requests, Holds(q)
        PROVE  KeyOf[q] # KeyOf[r]
    <3>1. CASE pc[q] \in Serving
      BY <1>1, <3>1, ServingHolds
    <3>2. CASE q \in ran \ rejected /\ ~Expired(q)
      <4>1. row[KeyOf[q]].rec.state # "absent" /\ Author(row[KeyOf[q]].rec) = q
        BY <3>2 DEF KeyInv, OutcomeStays
      <4>2. row[KeyOf[q]].rec \in Records
        BY IdempotencyAssumption DEF KeyInv, ProcInv, TypeInv, TypeOK, Row
      <4>3. row[KeyOf[q]].rec.until \in {<<q, "claim">>, <<q, "outcome">>}
        BY <4>1, <4>2 DEF Records, Author
      <4>4. Live(row[KeyOf[q]].rec)
        BY <3>2, <4>1, <4>3 DEF Live, Expired
      <4> QED BY <1>1, <4>4
    <3> QED BY <2>1, <3>1, <3>2 DEF Holds
  <2>2. new.rec = Claim(r)
    OBVIOUS
  <2>3. pc'[r] = "serving" /\ r \notin rejected
    BY <1>1, <1>3 DEF Goto, KeyInv, OutcomeStays, ProcInv, TypeInv, TypeOK
  <2> HIDE DEF new
  <2> QED BY <1>1, <1>2, <1>3, <2>1, <2>2, <2>3, ClaimFields, RowStep
<1>4. CASE Goto(r, "done") /\ UNCHANGED row
  <2>1. \A q \in Requests :
          /\ pc'[q] \in Serving => pc[q] \in Serving
          /\ pc'[q] \in {"claim_cas", "write_cas"} => snap'[q] = row[KeyOf[q]]
          /\ pc'[q] = "claim_cas" => ~Live(row[KeyOf[q]].rec)
          /\ pc[q] = "done" => pc'[q] = "done"
    BY <1>1, <1>4, OthersQuiet DEF Serving, Goto, KeyInv, ProcInv, TypeInv, TypeOK
  <2>2. \A q \in Requests : pc'[q] \in {"write_read", "write_cas"} =>
          Outcome(q, pending'[q]) /\ (pending'[q].body = q => q \in ran')
    BY <1>1, <1>4, OthersReady DEF Goto, KeyInv, ProcInv, TypeInv, TypeOK
  <2> QED BY <1>1, <1>4, <2>1, <2>2, QuietKeeps
<1> QED BY <1>3, <1>4 DEF ClaimCas

\* The outcome of a request replaces its own claim.
LEMMA WriteCasSucceeds ==
    ASSUME KeyInv, NEW r \in Requests, WriteCas(r)
    PROVE  LET merged == Merged(row[KeyOf[r]].rec, pending[r]) IN
           /\ row' = [row EXCEPT ![KeyOf[r]] =
                          [ver |-> row[KeyOf[r]].ver + 1, rec |-> merged]]
           /\ cache' = [cache EXCEPT ![owner[r]][KeyOf[r]] =
                          [merged EXCEPT !.body = pending[r].body]]
           /\ pc' = [pc EXCEPT ![r] = "done"]
<1>1. snap[r] = row[KeyOf[r]]
  BY DEF WriteCas, KeyInv, FreshRead
<1> QED BY <1>1 DEF WriteCas, Goto

\* So the row of its key becomes its own outcome.
LEMMA WriteCasKeeps ==
    ASSUME OneGateway, KeyInv, ProcInv', NEW r \in Requests, WriteCas(r)
    PROVE  KeyInv'
<1> DEFINE merged == Merged(row[KeyOf[r]].rec, pending[r])
           new == [ver |-> row[KeyOf[r]].ver + 1, rec |-> merged]
<1>1. /\ UNCHANGED <<late, overdue, ran, rejected>>
      /\ pc[r] = "write_cas" /\ pc'[r] = "done"
      /\ \A q \in Requests \ {r} :
           pc'[q] = pc[q] /\ snap'[q] = snap[q] /\ pending'[q] = pending[q]
  <2>1. pc' = [pc EXCEPT ![r] = "done"]
    BY WriteCasSucceeds
  <2> QED BY <2>1 DEF WriteCas, KeyInv, ProcInv, TypeInv, TypeOK
<1>2. row' = [row EXCEPT ![KeyOf[r]] = new]
  BY WriteCasSucceeds
<1>3. merged.state # "absent" /\ Author(merged) = r
  BY <1>1 DEF KeyInv, OutcomeReady, Outcome, Merged, Author
<1>4. new.rec = merged
  OBVIOUS
<1>5. \A q \in Requests \ {r} :
        pc[q] \notin SyncSteps /\ (Holds(q) => KeyOf[q] # KeyOf[r])
  BY <1>1, OneHolder, OnlyMover DEF Serving, SyncSteps, Holds, KeyInv
<1> HIDE DEF new, merged
<1> QED BY <1>1, <1>2, <1>3, <1>4, <1>5, RowStep

\* A rejected request frees its own key only.
LEMMA RejectedKeeps ==
    ASSUME OneGateway, KeyInv, ProcInv', NEW r \in Requests, Rejected(r)
    PROVE  KeyInv'
<1> DEFINE new == IF Clears THEN Absent ELSE row[KeyOf[r]]
<1>1. /\ UNCHANGED <<late, overdue, snap, pending, ran>>
      /\ pc[r] \in {"calling", "opening"} /\ pc'[r] = "done"
      /\ rejected' = rejected \union {r}
      /\ \A q \in Requests \ {r} : pc'[q] = pc[q]
  BY DEF Rejected, Release, Goto, KeyInv, ProcInv, TypeInv, TypeOK
<1>2. row' = [row EXCEPT ![KeyOf[r]] = new]
  BY DEF Rejected, Release, KeyInv, ProcInv, TypeInv, TypeOK
<1>3. pc[r] \in SyncSteps \/ Free(owner[r])
  BY DEF Rejected, SyncSteps
<1>4. \A q \in Requests \ {r} :
        pc[q] \notin SyncSteps /\ (Holds(q) => KeyOf[q] # KeyOf[r])
  BY <1>1, <1>3, OneHolder, OnlyMover DEF Serving, Holds, KeyInv
<1> HIDE DEF new
<1> QED BY <1>1, <1>2, <1>4, RowStep

\* Who is overdue stays so.
LEMMA OverdueStays ==
    ASSUME [Next]_vars, OnTime'
    PROVE  OnTime
<1>1. overdue \subseteq overdue'
  BY NextCases DEF vars, Accept, ClaimRead, ClaimCas, WriteRead, WriteCas, Rejected, Release,
     Outcomes, NotAdmitted, DryRun, Answered, Unknown, OpenFailed, StreamSettled,
     StreamBroken, Moves, Denied, Forward, Opened, Abandoned, Raises, Hangs, Expire, Crash
<1> QED BY <1>1 DEF OnTime

\* KeyInv is inductive while nobody is overdue.
LEMMA KeyStep ==
    ASSUME OneGateway, OnTime', KeyInv, [Next]_vars
    PROVE  KeyInv'
<1>1. ProcInv'
  BY ProcInvStep DEF KeyInv
<1>2. CASE UNCHANGED vars
  BY <1>1, <1>2 DEF vars, KeyInv, OnTime, FreshRead, RowHeld, OutcomeReady, OutcomeStays,
                    Claim, Outcome, Author, Live, Expired
<1>3. CASE Next
  BY <1>1, <1>3, NextCases, AcceptKeeps, ReadsKeep, ClaimCasKeeps, WriteCasKeeps,
     RejectedKeeps, OutcomesKeep, MovesKeep, ExpireKeeps, CrashKeeps
<1> QED BY <1>2, <1>3

\* The same as an invariant of every behaviour.
KeyInvOnTime == OnTime => KeyInv

LEMMA KeyOnTime ==
    ASSUME OneGateway
    PROVE  Spec => []KeyInvOnTime
<1>1. Init => KeyInvOnTime
  BY KeyInit DEF KeyInvOnTime
<1>2. KeyInvOnTime /\ [Next]_vars => KeyInvOnTime'
  BY KeyStep, OverdueStays DEF KeyInvOnTime
<1> QED BY <1>1, <1>2, PTL DEF Spec

\* With one gateway process no key is run twice before a record expires, whichever
\* requests raise, are cancelled or rejected, and wherever the process restarts.
THEOREM OnceCorrect ==
    ASSUME OneGateway
    PROVE  Spec => []RunOnce
<1>1. KeyInvOnTime => RunOnce
  BY OneHolder DEF RunOnce, KeyInvOnTime, KeyInv, ProcInv, TypeInv, TypeOK, Holds
<1> QED BY <1>1, KeyOnTime, PTL

-----------------------------------------------------------------------------
(* Newer outcomes.                                                         *)

\* Only the request that wrote a live row last changes it.
LEMMA NewerStep ==
    ASSUME KeyInv, Next, NEW k \in Keys
    PROVE  ~Clobbers(k)
<1> SUFFICES ASSUME Live(row[k].rec), row'[k] # row[k]
             PROVE  \/ Author(row'[k].rec) = Author(row[k].rec)
                    \/ row'[k] = Absent /\ Author(row[k].rec) \in rejected' \ rejected
  BY DEF Clobbers
<1>1. ASSUME NEW r \in Requests, ClaimCas(r) PROVE FALSE
  <2>1. /\ ~Live(row[KeyOf[r]].rec)
        /\ row' = [row EXCEPT ![KeyOf[r]] = row'[KeyOf[r]]]
    BY <1>1 DEF ClaimCas, KeyInv, FreshRead, ProcInv, TypeInv, TypeOK
  <2> QED BY <2>1 DEF KeyInv, ProcInv, TypeInv, TypeOK
<1>2. ASSUME NEW r \in Requests, WriteCas(r)
      PROVE  Author(row'[k].rec) = Author(row[k].rec)
  <2>1. pc[r] = "write_cas"
    BY <1>2 DEF WriteCas
  <2>2. KeyOf[r] = k /\ row'[k].rec = Merged(row[k].rec, pending[r])
    <3> DEFINE new == [ver |-> row[KeyOf[r]].ver + 1,
                       rec |-> Merged(row[KeyOf[r]].rec, pending[r])]
    <3>1. row' = [row EXCEPT ![KeyOf[r]] = new]
      BY <1>2, WriteCasSucceeds
    <3>2. new.rec = Merged(row[KeyOf[r]].rec, pending[r])
      OBVIOUS
    <3> HIDE DEF new
    <3> QED BY <3>1, <3>2 DEF KeyInv, ProcInv, TypeInv, TypeOK
  <2>3. Author(row[k].rec) = r
    BY <2>1, <2>2, ServingHolds DEF Serving
  <2>4. Author(pending[r]) = r
    BY <2>1 DEF KeyInv, OutcomeReady, Outcome
  <2> QED BY <2>2, <2>3, <2>4 DEF Merged, Author
<1>3. ASSUME NEW r \in Requests, Rejected(r)
      PROVE  row'[k] = Absent /\ Author(row[k].rec) \in rejected' \ rejected
  <2>1. KeyOf[r] = k /\ row'[k] = Absent /\ r \in rejected'
    BY <1>3 DEF Rejected, Release, KeyInv, ProcInv, TypeInv, TypeOK
  <2>2. Author(row[k].rec) = r
    BY <1>3, <2>1, ServingHolds DEF Rejected, Serving
  <2>3. r \notin rejected
    BY <1>3 DEF Rejected, KeyInv, OutcomeStays
  <2> QED BY <2>1, <2>2, <2>3
<1>4. \/ UNCHANGED row
      \/ \E r \in Requests : ClaimCas(r) \/ WriteCas(r) \/ Rejected(r)
  BY NextCases DEF Accept, ClaimRead, WriteRead, Outcomes, NotAdmitted, DryRun, Answered,
     Unknown, OpenFailed, StreamSettled, StreamBroken, Moves, Denied, Forward, Opened,
     Abandoned, Raises, Hangs, Expire, Crash
<1> QED BY <1>1, <1>2, <1>3, <1>4

\* With one gateway process a live record is changed by its author only.
THEOREM NewerCorrect ==
    ASSUME OneGateway
    PROVE  Spec => NewerOutcomeKept
<1>1. KeyInvOnTime /\ [Next]_vars => [\A k \in Keys : OnTime' => ~Clobbers(k)]_vars
  BY NewerStep, OverdueStays DEF KeyInvOnTime
<1> QED BY <1>1, KeyOnTime, PTL DEF Spec, NewerOutcomeKept

-----------------------------------------------------------------------------
(* Replays.                                                                *)

\* Requests that ran, were not rejected and have written their outcome or
\* never will.
Ended == {b \in ran \ rejected : pc[b] \in {"done", "crashed"}}

\* The body a record of key k holds is of a request in S with that key and with
\* the payload of the record; S is Ended before or after a step.
BodyIn(S, k, rec) ==
    rec.body # NoRequest =>
        /\ rec.body \in S
        /\ KeyOf[rec.body] = k
        /\ rec.payload = PayloadOf[rec.body]

BodyOwn(k, rec) == BodyIn(Ended, k, rec)

BodiesOwn ==
    /\ \A k \in Keys : BodyOwn(k, row[k].rec)
    /\ \A w \in Workers, k \in Keys : BodyOwn(k, cache[w][k])

RepliesOwn ==
    \A r \in Requests :
        reply[r].kind = "replayed" /\ reply[r].body # NoRequest =>
            /\ reply[r].body \in Ended
            /\ KeyOf[reply[r].body] = KeyOf[r]
            /\ PayloadOf[reply[r].body] = PayloadOf[r]

ReplayInv == KeyInv /\ BodiesOwn /\ RepliesOwn

\* An ended request stays ended.
LEMMA EndedStays ==
    ASSUME KeyInv, Next
    PROVE  Ended \subseteq Ended'
<1> SUFFICES ASSUME NEW b \in Ended PROVE b \in Ended'
  OBVIOUS
<1>1. b \in Requests /\ b \in ran \ rejected /\ pc[b] \in {"done", "crashed"}
  BY DEF Ended, KeyInv, ProcInv, TypeInv, TypeOK
<1> SUFFICES b \in ran' \ rejected' /\ pc'[b] = pc[b]
  BY <1>1 DEF Ended
<1> USE DEF Goto
<1>2. CASE \E w \in Workers, r \in Requests : Accept(w, r)
  BY <1>1, <1>2 DEF Accept, KeyInv, ProcInv, TypeInv, TypeOK
<1>3. ASSUME NEW r \in Requests,
             ClaimRead(r) \/ ClaimCas(r) \/ WriteRead(r) \/ WriteCas(r)
      PROVE  b \in ran' \ rejected' /\ pc'[b] = pc[b]
  BY <1>1, <1>3 DEF ClaimRead, ClaimCas, WriteRead, WriteCas, KeyInv, ProcInv, TypeInv, TypeOK
<1>4. ASSUME NEW r \in Requests, Rejected(r)
      PROVE  b \in ran' \ rejected' /\ pc'[b] = pc[b]
  BY <1>1, <1>4 DEF Rejected, Release, KeyInv, ProcInv, TypeInv, TypeOK
<1>5. ASSUME NEW r \in Requests, Outcomes(r) \/ Moves(r)
      PROVE  b \in ran' \ rejected' /\ pc'[b] = pc[b]
  BY <1>1, <1>5 DEF Outcomes, NotAdmitted, DryRun, Answered, Unknown, OpenFailed,
     StreamSettled, StreamBroken, Record, Moves, Denied, Forward, Opened, Abandoned, Raises, Hangs,
     KeyInv, ProcInv, TypeInv, TypeOK
<1>6. CASE \E t \in Times : Expire(t)
  BY <1>1, <1>6 DEF Expire
<1>7. CASE \E w \in Workers : Crash(w)
  BY <1>1, <1>7 DEF Crash, Lost
<1> QED BY <1>2, <1>3, <1>4, <1>5, <1>6, <1>7, NextCases

\* A record that was right stays right.
LEMMA BodyStays ==
    ASSUME KeyInv, Next, NEW k, NEW rec, BodyOwn(k, rec)
    PROVE  BodyIn(Ended', k, rec)
BY EndedStays DEF BodyOwn, BodyIn

\* The steps that keep the store and the memories, and replay nothing.
LEMMA StillKeepsReplays ==
    ASSUME ReplayInv, Next, UNCHANGED <<row, cache>>,
           \A r \in Requests : reply'[r] = reply[r] \/ reply'[r].kind # "replayed"
    PROVE  BodiesOwn' /\ RepliesOwn'
BY EndedStays DEF ReplayInv, BodiesOwn, BodyOwn, BodyIn, RepliesOwn

\* A step that puts one record under r's key into the store and into one memory.
LEMMA PutKeepsReplays ==
    ASSUME ReplayInv, Next, NEW r \in Requests, NEW w \in Workers, NEW new, NEW rec,
           row' = row \/ row' = [row EXCEPT ![KeyOf[r]] = new],
           cache' = [cache EXCEPT ![w][KeyOf[r]] = rec],
           BodyIn(Ended', KeyOf[r], new.rec), BodyIn(Ended', KeyOf[r], rec),
           \A q \in Requests : reply'[q] = reply[q] \/ reply'[q].kind # "replayed"
    PROVE  BodiesOwn' /\ RepliesOwn'
<1>1. RepliesOwn'
  BY EndedStays DEF ReplayInv, RepliesOwn
<1>2. ASSUME NEW k \in Keys PROVE BodyOwn(k, row[k].rec)'
  <2>1. CASE row'[k] = row[k]
    BY <2>1, EndedStays DEF ReplayInv, BodiesOwn, BodyOwn, BodyIn
  <2>2. CASE k = KeyOf[r] /\ row'[k] = new
    BY <2>2 DEF BodyOwn, BodyIn
  <2> QED BY <2>1, <2>2 DEF ReplayInv, KeyInv, ProcInv, TypeInv, TypeOK
<1>3. ASSUME NEW v \in Workers, NEW k \in Keys PROVE BodyOwn(k, cache[v][k])'
  <2>1. CASE cache'[v][k] = cache[v][k]
    BY <2>1, EndedStays DEF ReplayInv, BodiesOwn, BodyOwn, BodyIn
  <2>2. CASE k = KeyOf[r] /\ cache'[v][k] = rec
    BY <2>2 DEF BodyOwn, BodyIn
  <2> QED BY <2>1, <2>2 DEF ReplayInv, KeyInv, ProcInv, TypeInv, TypeOK
<1> QED BY <1>1, <1>2, <1>3 DEF BodiesOwn

\* A replay takes over the body of a record that is right.
LEMMA AcceptReplays ==
    ASSUME ReplayInv, Next, NEW w \in Workers, NEW r \in Requests, Accept(w, r)
    PROVE  BodiesOwn' /\ RepliesOwn'
<1> DEFINE k == KeyOf[r]
           known == IF Live(cache[w][k]) THEN cache[w][k] ELSE row[k].rec
<1>1. CASE Goto(r, "claim_read") /\ UNCHANGED <<cache, reply>>
  BY <1>1, StillKeepsReplays DEF Accept
<1>2. CASE Remember(r, known) /\ Answer(r, known)
  <2>1. cache' = [cache EXCEPT ![w][k] = known] /\ row' = row
    BY <1>2 DEF Accept, Remember, ReplayInv, KeyInv, ProcInv, TypeInv, TypeOK
  <2>2. BodyOwn(k, known)
    BY IdempotencyAssumption DEF ReplayInv, BodiesOwn
  <2> HIDE DEF known
  <2>3. /\ \A q \in Requests \ {r} : reply'[q] = reply[q]
        /\ reply'[r].kind = "replayed" =>
               known.payload = PayloadOf[r] /\ reply'[r].body = known.body
    BY <1>2 DEF Answer, Reply, ReplayInv, KeyInv, ProcInv, TypeInv, TypeOK
  <2>4. BodyIn(Ended', k, known)
    BY <2>2, BodyStays DEF ReplayInv
  <2>5. RepliesOwn'
    BY <2>3, <2>4, EndedStays DEF ReplayInv, RepliesOwn, BodyIn
  <2>6. ASSUME NEW v \in Workers, NEW j \in Keys PROVE BodyOwn(j, cache[v][j])'
    <3>1. CASE cache'[v][j] = cache[v][j]
      BY <3>1, EndedStays DEF ReplayInv, BodiesOwn, BodyOwn, BodyIn
    <3>2. CASE j = k /\ cache'[v][j] = known
      BY <3>2, <2>4 DEF BodyOwn, BodyIn
    <3> QED BY <2>1, <3>1, <3>2 DEF ReplayInv, KeyInv, ProcInv, TypeInv, TypeOK
  <2>7. \A j \in Keys : BodyOwn(j, row[j].rec)'
    BY <2>1, EndedStays DEF ReplayInv, BodiesOwn, BodyOwn, BodyIn
  <2> QED BY <2>5, <2>6, <2>7 DEF BodiesOwn
<1> QED BY <1>1, <1>2 DEF Accept

\* A claim has no body.
LEMMA ClaimCasReplays ==
    ASSUME ReplayInv, Next, NEW r \in Requests, ClaimCas(r)
    PROVE  BodiesOwn' /\ RepliesOwn'
<1> DEFINE new == [ver |-> snap[r].ver + 1, rec |-> Claim(r)]
<1>1. CASE /\ row' = [row EXCEPT ![KeyOf[r]] = new]
           /\ cache' = [cache EXCEPT ![owner[r]][KeyOf[r]] = Claim(r)]
           /\ UNCHANGED reply
  <2>1. owner[r] \in Workers
    BY DEF ClaimCas, ReplayInv, KeyInv, ProcInv, TypeInv, Accepted
  <2>2. BodyIn(Ended', KeyOf[r], Claim(r)) /\ new.rec = Claim(r)
    BY ClaimFields DEF BodyIn
  <2>3. BodyIn(Ended', KeyOf[r], new.rec)
    BY <2>2
  <2> HIDE DEF new
  <2> QED BY <1>1, <2>1, <2>2, <2>3, PutKeepsReplays
<1>2. CASE Reply(r, "in_progress", NoRequest) /\ UNCHANGED <<row, cache>>
  BY <1>2, StillKeepsReplays DEF Reply, ReplayInv, KeyInv, ProcInv, TypeInv, TypeOK
<1> QED BY <1>1, <1>2 DEF ClaimCas

\* An outcome is merged into the claim of the same request.
LEMMA WriteCasReplays ==
    ASSUME ReplayInv, Next, NEW r \in Requests, WriteCas(r)
    PROVE  BodiesOwn' /\ RepliesOwn'
<1> DEFINE merged == Merged(row[KeyOf[r]].rec, pending[r])
           new == [ver |-> row[KeyOf[r]].ver + 1, rec |-> merged]
           rec == [merged EXCEPT !.body = pending[r].body]
<1>1. pc[r] = "write_cas" /\ UNCHANGED <<reply, ran, rejected>>
  BY DEF WriteCas
<1>2. /\ row' = [row EXCEPT ![KeyOf[r]] = new]
      /\ cache' = [cache EXCEPT ![owner[r]][KeyOf[r]] = rec]
      /\ pc' = [pc EXCEPT ![r] = "done"]
  BY WriteCasSucceeds DEF ReplayInv
<1>3. row[KeyOf[r]].rec = Claim(r)
  BY <1>1, ServingHolds DEF Serving, ReplayInv
<1>4. /\ Outcome(r, pending[r])
      /\ pending[r].body = r => r \in ran
      /\ r \notin rejected /\ owner[r] \in Workers
  BY <1>1 DEF ReplayInv, KeyInv, ProcInv, OutcomeReady, OutcomeStays, TypeInv, Accepted
<1>5. /\ merged.payload = PayloadOf[r]
      /\ merged.body = pending[r].body
      /\ rec.payload = PayloadOf[r] /\ rec.body = pending[r].body
  BY <1>3, <1>4, ClaimFields DEF Merged, Outcome
<1>6. pending[r].body = r => r \in Ended'
  BY <1>1, <1>2, <1>4 DEF Ended, ReplayInv, KeyInv, ProcInv, TypeInv, TypeOK
<1>7. pending[r].body \in {NoRequest, r}
  BY <1>4 DEF Outcome
<1>8. new.rec = merged
  OBVIOUS
<1> HIDE DEF merged, new, rec
<1>9. BodyIn(Ended', KeyOf[r], new.rec) /\ BodyIn(Ended', KeyOf[r], rec)
  BY <1>5, <1>6, <1>7, <1>8 DEF BodyIn
<1> QED BY <1>1, <1>2, <1>4, <1>9, PutKeepsReplays

\* A freed key replays nothing.
LEMMA RejectedReplays ==
    ASSUME ReplayInv, Next, NEW r \in Requests, Rejected(r)
    PROVE  BodiesOwn' /\ RepliesOwn'
<1>1. /\ cache' = [cache EXCEPT ![owner[r]][KeyOf[r]] = NoRecord]
      /\ row' = row \/ row' = [row EXCEPT ![KeyOf[r]] = Absent]
      /\ \A q \in Requests : reply'[q] = reply[q] \/ reply'[q].kind # "replayed"
  BY DEF Rejected, Release, Reply, ReplayInv, KeyInv, ProcInv, TypeInv, TypeOK
<1>2. owner[r] \in Workers
  BY DEF Rejected, ReplayInv, KeyInv, ProcInv, TypeInv, Accepted
<1>3. BodyIn(Ended', KeyOf[r], Absent.rec) /\ BodyIn(Ended', KeyOf[r], NoRecord)
  BY DEF BodyIn, Absent, NoRecord
<1> QED BY <1>1, <1>2, <1>3, PutKeepsReplays

\* A process that restarts remembers nothing.
LEMMA CrashReplays ==
    ASSUME ReplayInv, Next, NEW w \in Workers, Crash(w)
    PROVE  BodiesOwn' /\ RepliesOwn'
<1>1. UNCHANGED <<row, reply>> /\ cache' = [cache EXCEPT ![w] = [k \in Keys |-> NoRecord]]
  BY DEF Crash
<1>2. ASSUME NEW v \in Workers, NEW k \in Keys PROVE BodyOwn(k, cache[v][k])'
  <2>1. CASE v = w
    BY <1>1, <2>1 DEF BodyOwn, BodyIn, NoRecord, ReplayInv, KeyInv, ProcInv, TypeInv, TypeOK
  <2>2. CASE v # w
    <3>1. cache'[v][k] = cache[v][k]
      BY <1>1, <2>2 DEF ReplayInv, KeyInv, ProcInv, TypeInv, TypeOK
    <3> QED BY <3>1, EndedStays DEF ReplayInv, BodiesOwn, BodyOwn, BodyIn
  <2> QED BY <2>1, <2>2
<1>3. \A k \in Keys : BodyOwn(k, row[k].rec)'
  BY <1>1, EndedStays DEF ReplayInv, BodiesOwn, BodyOwn, BodyIn
<1>4. RepliesOwn'
  BY <1>1, EndedStays DEF ReplayInv, RepliesOwn
<1> QED BY <1>2, <1>3, <1>4 DEF BodiesOwn

\* All other steps leave store and memories alone, and replay nothing.
LEMMA OtherReplays ==
    ASSUME ReplayInv, Next,
           \/ \E r \in Requests :
                ClaimRead(r) \/ WriteRead(r) \/ Outcomes(r) \/ Moves(r)
           \/ \E t \in Times : Expire(t)
    PROVE  BodiesOwn' /\ RepliesOwn'
<1>1. ASSUME NEW r \in Requests, ClaimRead(r) \/ WriteRead(r)
      PROVE  BodiesOwn' /\ RepliesOwn'
  BY <1>1, StillKeepsReplays
     DEF ClaimRead, WriteRead, Reply, ReplayInv, KeyInv, ProcInv, TypeInv, TypeOK
<1>2. ASSUME NEW r \in Requests, Outcomes(r)
      PROVE  BodiesOwn' /\ RepliesOwn'
  BY <1>2, StillKeepsReplays
     DEF Outcomes, NotAdmitted, DryRun, Answered, Unknown, OpenFailed, StreamSettled,
         StreamBroken, Record, Reply, ReplayInv, KeyInv, ProcInv, TypeInv, TypeOK
<1>3. ASSUME NEW r \in Requests, Moves(r)
      PROVE  BodiesOwn' /\ RepliesOwn'
  BY <1>3, StillKeepsReplays
     DEF Moves, Denied, Forward, Opened, Abandoned, Raises, Hangs, Reply, ReplayInv, KeyInv, ProcInv, TypeInv,
         TypeOK
<1>4. ASSUME NEW t \in Times, Expire(t)
      PROVE  BodiesOwn' /\ RepliesOwn'
  BY <1>4, StillKeepsReplays DEF Expire
<1> QED BY <1>1, <1>2, <1>3, <1>4

\* Initially nothing is recorded,
LEMMA ReplayInit == Init => ReplayInv
<1> SUFFICES ASSUME Init PROVE ReplayInv
  OBVIOUS
<1>1. BodiesOwn
  BY DEF Init, BodiesOwn, BodyOwn, BodyIn, Absent, NoRecord
<1>2. RepliesOwn
  BY DEF Init, RepliesOwn
<1> QED BY <1>1, <1>2, KeyInit DEF ReplayInv

\* ... and every step keeps it.
LEMMA ReplayStep ==
    ASSUME OneGateway, OnTime', ReplayInv, [Next]_vars
    PROVE  ReplayInv'
<1>1. KeyInv'
  BY KeyStep DEF ReplayInv
<1>2. CASE UNCHANGED vars
  BY <1>1, <1>2 DEF vars, ReplayInv, BodiesOwn, BodyOwn, BodyIn, RepliesOwn, Ended
<1>3. CASE Next
  <2>1. BodiesOwn' /\ RepliesOwn'
    BY <1>3, NextCases, AcceptReplays, ClaimCasReplays, WriteCasReplays,
       RejectedReplays, CrashReplays, OtherReplays
  <2> QED BY <1>1, <2>1 DEF ReplayInv
<1> QED BY <1>2, <1>3

\* With one gateway process a replayed body is of a request with the same key
\* and payload that ran and was not rejected.
THEOREM ReplayCorrect ==
    ASSUME OneGateway
    PROVE  Spec => []ReplayIsOwn
<1> DEFINE ReplayOnTime == OnTime => ReplayInv
<1>1. Init => ReplayOnTime
  BY ReplayInit
<1>2. ReplayOnTime /\ [Next]_vars => ReplayOnTime'
  BY ReplayStep, OverdueStays
<1>3. ReplayOnTime => ReplayIsOwn
  BY DEF ReplayInv, RepliesOwn, ReplayIsOwn, Ended
<1> HIDE DEF ReplayOnTime
<1> QED BY <1>1, <1>2, <1>3, PTL DEF Spec
=============================================================================
