---------------------------- MODULE Idempotency ----------------------------
(***************************************************************************)
(* Idempotency keys of the model-key gateway (modelkeyguard/gateway.py).   *)
(* A request that carries a key first looks the key's record up, in the    *)
(* memory of its gateway process and then in the store; it is answered     *)
(* from the record or claims the key by a compare-and-swap, is served, and *)
(* records its outcome under the key.                                      *)
(*                                                                         *)
(* Every access to the store is a step.  Between two awaits the code of a  *)
(* gateway process is synchronous (Free).  Every request here carries a    *)
(* key; one without never touches these records.                           *)
(***************************************************************************)
EXTENDS Naturals, FiniteSets

CONSTANTS
    Workers,         \* gateway processes
    Requests,        \* HTTP requests
    Keys,            \* scopes: namespace, principal, provider, key, header
    KeyOf,           \* KeyOf[r]: the scope of request r
    Payloads,        \* request bodies, up to their hash
    PayloadOf,       \* PayloadOf[r]: the body of request r
    Streams,         \* requests made with streaming on
    WriteAttempts,   \* MODELKEYGUARD_IDEMPOTENCY_CAS_RETRIES
    Clears,          \* TRUE: the store can delete a row (JSONL cannot)
    NoWorker, NoRequest, NoPayload,
    MaxLate,         \* bound: expiries in one behaviour
    MaxCrashes       \* bound: process crashes in one behaviour

ASSUME IdempotencyAssumption ==
    /\ NoWorker \notin Workers
    /\ NoRequest \notin Requests
    /\ NoPayload \notin Payloads
    /\ KeyOf \in [Requests -> Keys]
    /\ PayloadOf \in [Requests -> Payloads]
    /\ Streams \subseteq Requests
    /\ WriteAttempts \in Nat \ {0}
    /\ Clears \in BOOLEAN
    /\ MaxLate \in Nat
    /\ MaxCrashes \in Nat

VARIABLES
    row,       \* row[k]: the stored record of key k; its version is its sequence
               \* number plus one, and 0 if there is no row
    cache,     \* cache[w][k]: the record process w holds in memory
    late,      \* expiry times that have passed
    overdue,   \* ghost: requests in service when their claim expired
    owner,     \* owner[r]: the gateway process serving r
    pc,        \* pc[r]: what request r does next
    snap,      \* snap[r]: the row r has read
    pending,   \* pending[r]: the fields r is about to merge into the row
    tries,     \* tries[r]: failed compare-and-swaps of r's write
    reply,     \* reply[r]: how r was answered, and with whose response body
    ran,       \* requests that were forwarded, or answered by a dry run
    rejected,  \* those of them the provider rejected with a 4xx
    crashes    \* crashes so far

vars == <<row, cache, late, overdue, owner, pc, snap, pending, tries, reply, ran,
          rejected, crashes>>

-----------------------------------------------------------------------------
(* Records.  "until" names the expiry time: the request that computed it,  *)
(* when it claimed the key or when its stream ended.                       *)

RecordStates == {"absent", "forwarding", "settled", "uncertain", "released"}

NoRecord == [state |-> "absent", payload |-> NoPayload, body |-> NoRequest,
             replayable |-> TRUE, until |-> <<NoRequest, "claim">>]

Absent == [ver |-> 0, rec |-> NoRecord]

Author(rec) == rec.until[1]

Live(rec) == rec.state # "absent" /\ rec.until \notin late

Claim(r) == [NoRecord EXCEPT !.state = "forwarding", !.payload = PayloadOf[r],
                             !.until = <<r, "claim">>]

\* dict.update: the fields of the new record that are present win.
Merged(old, new) ==
    [state |-> new.state,
     until |-> new.until,
     payload |-> IF new.payload = NoPayload THEN old.payload ELSE new.payload,
     body |-> IF new.body = NoRequest THEN old.body ELSE new.body,
     replayable |-> old.replayable /\ new.replayable]

\* The CAS of the store.  On Postgres an absent row cannot be locked, and of two
\* inserts of it the second updates what the first has put there.
MayMatch(expected, current) == expected = current \/ expected = 0

-----------------------------------------------------------------------------
AwaitSteps == {"new", "opening", "relaying", "done", "abandoned", "raised", "stuck",
               "crashed"}
SyncSteps == {"claim_read", "claim_cas", "serving", "calling", "write_read",
              "write_cas"}

\* From its claim to its recorded outcome.
Serving == {"serving", "calling", "opening", "relaying", "write_read", "write_cas"}

\* Mutant: the look-up and the claim await something in between.
Free_Awaits(w) == TRUE

Free(w) == \A r \in Requests : owner[r] = w => pc[r] \in AwaitSteps

Goto(r, step) == pc' = [pc EXCEPT ![r] = step]

Reply(r, kind, body) == reply' = [reply EXCEPT ![r] = [kind |-> kind, body |-> body]]

Remember(r, rec) == cache' = [cache EXCEPT ![owner'[r]][KeyOf[r]] = rec]

-----------------------------------------------------------------------------
(* Looking the key up and claiming it.                                     *)

\* Mutant: a record is replayed whatever the request's payload is.
Answer_AnyPayload(r, rec) ==
    CASE rec.state = "uncertain" -> Reply(r, "uncertain", NoRequest)
      [] rec.state = "forwarding" -> Reply(r, "in_progress", NoRequest)
      [] rec.state = "settled" /\ ~rec.replayable -> Reply(r, "not_replayable", NoRequest)
      [] OTHER -> Reply(r, "replayed", rec.body)

\* The answer a live record gives to request r.
Answer(r, rec) ==
    CASE rec.payload # PayloadOf[r] -> Reply(r, "reused", NoRequest)
      [] rec.payload = PayloadOf[r] /\ rec.state = "uncertain" ->
            Reply(r, "uncertain", NoRequest)
      [] rec.payload = PayloadOf[r] /\ rec.state = "forwarding" ->
            Reply(r, "in_progress", NoRequest)
      [] rec.payload = PayloadOf[r] /\ rec.state = "settled" /\ ~rec.replayable ->
            Reply(r, "not_replayable", NoRequest)
      [] OTHER -> Reply(r, "replayed", rec.body)

\* _idempotency_read: the memory of the process first, then the store, whose
\* record is kept in memory.
Accept(w, r) ==
    LET k == KeyOf[r]
        known == IF Live(cache[w][k]) THEN cache[w][k] ELSE row[k].rec
    IN  /\ pc[r] = "new"
        /\ Free(w)
        /\ owner' = [owner EXCEPT ![r] = w]
        /\ \/ /\ Live(known)
              /\ Remember(r, known)
              /\ Answer(r, known)
              /\ Goto(r, "done")
           \/ /\ ~Live(known)
              /\ Goto(r, "claim_read")
              /\ UNCHANGED <<cache, reply>>
        /\ UNCHANGED <<row, late, overdue, snap, pending, tries, ran, rejected, crashes>>

\* Claiming reads the row again, for its version ...
ClaimRead(r) ==
    /\ pc[r] = "claim_read"
    /\ \/ /\ Live(row[KeyOf[r]].rec)
          /\ Reply(r, "in_progress", NoRequest)
          /\ Goto(r, "done")
          /\ UNCHANGED snap
       \/ /\ ~Live(row[KeyOf[r]].rec)
          /\ snap' = [snap EXCEPT ![r] = row[KeyOf[r]]]
          /\ Goto(r, "claim_cas")
          /\ UNCHANGED reply
    /\ UNCHANGED <<row, cache, late, overdue, owner, pending, tries, ran, rejected, crashes>>

\* ... and replaces it by the claim if it still has that version.
ClaimCas(r) ==
    /\ pc[r] = "claim_cas"
    /\ \/ /\ MayMatch(snap[r].ver, row[KeyOf[r]].ver)
          /\ row' = [row EXCEPT ![KeyOf[r]] = [ver |-> snap[r].ver + 1, rec |-> Claim(r)]]
          /\ cache' = [cache EXCEPT ![owner[r]][KeyOf[r]] = Claim(r)]
          /\ Goto(r, "serving")
          /\ UNCHANGED reply
       \/ /\ snap[r].ver # row[KeyOf[r]].ver
          /\ Reply(r, "in_progress", NoRequest)
          /\ Goto(r, "done")
          /\ UNCHANGED <<row, cache>>
    /\ snap' = [snap EXCEPT ![r] = Absent]
    /\ UNCHANGED <<late, overdue, owner, pending, tries, ran, rejected, crashes>>

-----------------------------------------------------------------------------
(* Recording the outcome.                                                  *)

\* Start _idempotency_write with these fields; the answer is given after it.
Record(r, fields, kind) ==
    /\ pending' = [pending EXCEPT ![r] = fields]
    /\ Goto(r, "write_read")
    /\ Reply(r, kind, r)

\* The fields a plain request writes: those of its record in memory, updated.
PlainFields(r, state) == [cache[owner[r]][KeyOf[r]] EXCEPT !.state = state]

\* A stream writes an expiry of its own and no payload hash.
StreamFields(r, state) == [NoRecord EXCEPT !.state = state, !.until = <<r, "outcome">>]

WriteRead(r) ==
    /\ pc[r] = "write_read"
    /\ snap' = [snap EXCEPT ![r] = row[KeyOf[r]]]
    /\ Goto(r, "write_cas")
    /\ UNCHANGED <<row, cache, late, overdue, owner, pending, tries, reply, ran, rejected, crashes>>

\* A failed CAS is retried from a fresh read; the last failure is ignored.  Only
\* the row keeps a body that was merged, the memory has the one just written.
WriteCas(r) ==
    /\ pc[r] = "write_cas"
    /\ \/ /\ MayMatch(snap[r].ver, row[KeyOf[r]].ver)
          /\ row' = [row EXCEPT ![KeyOf[r]] = [ver |-> snap[r].ver + 1,
                                               rec |-> Merged(snap[r].rec, pending[r])]]
          /\ cache' = [cache EXCEPT ![owner[r]][KeyOf[r]] =
                           [Merged(snap[r].rec, pending[r]) EXCEPT !.body = pending[r].body]]
          /\ Goto(r, "done")
          /\ tries' = [tries EXCEPT ![r] = 0]
          /\ pending' = [pending EXCEPT ![r] = NoRecord]
       \/ /\ snap[r].ver # row[KeyOf[r]].ver
          /\ IF tries[r] + 1 < WriteAttempts
             THEN /\ Goto(r, "write_read")
                  /\ tries' = [tries EXCEPT ![r] = @ + 1]
                  /\ UNCHANGED pending
             ELSE /\ Goto(r, "done")
                  /\ tries' = [tries EXCEPT ![r] = 0]
                  /\ pending' = [pending EXCEPT ![r] = NoRecord]
          /\ UNCHANGED <<row, cache>>
    /\ snap' = [snap EXCEPT ![r] = Absent]
    /\ UNCHANGED <<late, overdue, owner, reply, ran, rejected, crashes>>

\* A provider's 4xx frees the key: the record is dropped from memory and,
\* where the store can do it, deleted there, whatever it holds by now.
Release(r) ==
    /\ cache' = [cache EXCEPT ![owner[r]][KeyOf[r]] = NoRecord]
    /\ row' = IF Clears THEN [row EXCEPT ![KeyOf[r]] = Absent] ELSE row
    /\ rejected' = rejected \union {r}
    /\ Reply(r, "served", r)
    /\ Goto(r, "done")

-----------------------------------------------------------------------------
(* Serving a request that holds the claim.                                 *)

\* The system prompt signature or guard.check refuses: nothing is recorded.
Denied(r) ==
    /\ pc[r] = "serving"
    /\ Reply(r, "denied", NoRequest)
    /\ Goto(r, "done")
    /\ UNCHANGED <<row, cache, late, overdue, owner, snap, pending, tries, ran, rejected, crashes>>

\* The reservation fails, or the provider secret cannot be had.
NotAdmitted(r) ==
    /\ pc[r] = "serving"
    /\ Record(r, PlainFields(r, "released"), "denied")
    /\ UNCHANGED <<row, cache, late, overdue, owner, snap, tries, ran, rejected, crashes>>

DryRun(r) ==
    /\ pc[r] = "serving"
    /\ ran' = ran \union {r}
    /\ Record(r, [PlainFields(r, "settled") EXCEPT !.body = r], "served")
    /\ UNCHANGED <<row, cache, late, overdue, owner, snap, tries, rejected, crashes>>

\* A plain call blocks the process, a stream is opened in an await.
Forward(r) ==
    /\ pc[r] = "serving"
    /\ Goto(r, IF r \in Streams THEN "opening" ELSE "calling")
    /\ ran' = ran \union {r}
    /\ UNCHANGED <<row, cache, late, overdue, owner, snap, pending, tries, reply, rejected, crashes>>

\* 2xx: settled, or uncertain if the settlement failed.
Answered(r) ==
    /\ pc[r] = "calling"
    /\ \E state \in {"settled", "uncertain"} :
         Record(r, [PlainFields(r, state) EXCEPT !.body = r], "served")
    /\ UNCHANGED <<row, cache, late, overdue, owner, snap, tries, ran, rejected, crashes>>

\* Mutant: the row of a request whose outcome is unknown is cleared.
Unknown_Released(r) ==
    /\ pc[r] = "calling"
    /\ cache' = [cache EXCEPT ![owner[r]][KeyOf[r]] = NoRecord]
    /\ row' = IF Clears THEN [row EXCEPT ![KeyOf[r]] = Absent] ELSE row
    /\ Reply(r, "served", r)
    /\ Goto(r, "done")
    /\ UNCHANGED <<late, overdue, owner, snap, pending, tries, ran, rejected, crashes>>

\* 5xx, or the provider cannot be reached (forward_provider makes it a 502).
Unknown(r) ==
    /\ pc[r] = "calling"
    /\ Record(r, PlainFields(r, "uncertain"), "served")
    /\ UNCHANGED <<row, cache, late, overdue, owner, snap, tries, ran, rejected, crashes>>

Rejected(r) ==
    /\ \/ pc[r] = "calling"
       \/ pc[r] = "opening" /\ Free(owner[r])
    /\ Release(r)
    /\ UNCHANGED <<late, overdue, owner, snap, pending, tries, ran, crashes>>

Opened(r) ==
    /\ pc[r] = "opening"
    /\ Free(owner[r])
    /\ Goto(r, "relaying")
    /\ UNCHANGED <<row, cache, late, overdue, owner, snap, pending, tries, reply, ran, rejected, crashes>>

\* Mutant: a stream that cannot be opened leaves its claim.
OpenFailed_Forgets(r) ==
    /\ pc[r] = "opening"
    /\ Free(owner[r])
    /\ Reply(r, "served", r)
    /\ Goto(r, "done")
    /\ UNCHANGED <<row, cache, late, overdue, owner, snap, pending, tries, ran, rejected, crashes>>

\* The provider cannot be reached, or answers 5xx.
OpenFailed(r) ==
    /\ pc[r] = "opening"
    /\ Free(owner[r])
    /\ Record(r, [StreamFields(r, "uncertain") EXCEPT !.replayable = FALSE], "served")
    /\ UNCHANGED <<row, cache, late, overdue, owner, snap, tries, ran, rejected, crashes>>

\* After the terminal EOF the stream has been settled, or settling failed ...
StreamSettled(r) ==
    /\ pc[r] = "relaying"
    /\ Free(owner[r])
    /\ \E state \in {"settled", "uncertain"} :
         Record(r, [StreamFields(r, state) EXCEPT !.replayable = FALSE], "served")
    /\ UNCHANGED <<row, cache, late, overdue, owner, snap, tries, ran, rejected, crashes>>

\* ... or it broke off, or the drain after a cancellation called it released.
StreamBroken(r) ==
    /\ pc[r] = "relaying"
    /\ Free(owner[r])
    /\ \E state \in {"uncertain", "released"} :
         Record(r, [StreamFields(r, state) EXCEPT !.body = r], "served")
    /\ UNCHANGED <<row, cache, late, overdue, owner, snap, tries, ran, rejected, crashes>>

\* The handler is cancelled before the stream's generator runs.
Abandoned(r) ==
    /\ pc[r] \in {"opening", "relaying"}
    /\ Goto(r, "abandoned")
    /\ UNCHANGED <<row, cache, late, overdue, owner, snap, pending, tries, reply, ran, rejected, crashes>>

\* An exception leaves the handler and nothing is recorded: a read timeout of the
\* plain call, which is no URLError; the body of a rejected stream; a store that
\* fails; a stream task whose exception skips the generator's clean-up.
Raises(r) ==
    /\ \/ pc[r] \in {"serving", "calling"}
       \/ pc[r] \in {"opening", "relaying"} /\ Free(owner[r])
    /\ Goto(r, "raised")
    /\ UNCHANGED <<row, cache, late, overdue, owner, snap, pending, tries, reply, ran, rejected, crashes>>

\* The stream's task and its generator wait for each other (StreamRelay).
Hangs(r) ==
    /\ pc[r] = "relaying"
    /\ Free(owner[r])
    /\ Goto(r, "stuck")
    /\ UNCHANGED <<row, cache, late, overdue, owner, snap, pending, tries, reply, ran, rejected, crashes>>

-----------------------------------------------------------------------------
(* Time and failures.                                                      *)

\* The retention time of a record passes, in the store and in every memory.
Expire(t) ==
    /\ Cardinality(late) < MaxLate
    /\ t \notin late
    /\ pc[t[1]] \notin {"new", "claim_read", "claim_cas"}
    /\ \/ \E k \in Keys : row[k].rec.until = t
       \/ \E w \in Workers, k \in Keys : cache[w][k].until = t
    /\ late' = late \union {t}
    /\ overdue' = overdue \union {r \in Requests : t = <<r, "claim">> /\ pc[r] \in Serving}
    /\ UNCHANGED <<row, cache, owner, pc, snap, pending, tries, reply, ran, rejected, crashes>>

Lost(w) == {r \in Requests :
              owner[r] = w /\ pc[r] \notin {"done", "abandoned", "raised", "crashed"}}

Crash(w) ==
    /\ Lost(w) # {}
    /\ crashes < MaxCrashes
    /\ crashes' = crashes + 1
    /\ cache' = [cache EXCEPT ![w] = [k \in Keys |-> NoRecord]]
    /\ pc' = [r \in Requests |-> IF r \in Lost(w) THEN "crashed" ELSE pc[r]]
    /\ snap' = [r \in Requests |-> IF r \in Lost(w) THEN Absent ELSE snap[r]]
    /\ pending' = [r \in Requests |-> IF r \in Lost(w) THEN NoRecord ELSE pending[r]]
    /\ tries' = [r \in Requests |-> IF r \in Lost(w) THEN 0 ELSE tries[r]]
    /\ UNCHANGED <<row, late, overdue, owner, reply, ran, rejected>>

-----------------------------------------------------------------------------
Init ==
    /\ row = [k \in Keys |-> Absent]
    /\ cache = [w \in Workers |-> [k \in Keys |-> NoRecord]]
    /\ late = {}
    /\ overdue = {}
    /\ owner = [r \in Requests |-> NoWorker]
    /\ pc = [r \in Requests |-> "new"]
    /\ snap = [r \in Requests |-> Absent]
    /\ pending = [r \in Requests |-> NoRecord]
    /\ tries = [r \in Requests |-> 0]
    /\ reply = [r \in Requests |-> [kind |-> "none", body |-> NoRequest]]
    /\ ran = {}
    /\ rejected = {}
    /\ crashes = 0

Serve(r) ==
    \/ Denied(r) \/ NotAdmitted(r) \/ DryRun(r) \/ Forward(r)
    \/ Answered(r) \/ Unknown(r) \/ Rejected(r)
    \/ Opened(r) \/ OpenFailed(r) \/ StreamSettled(r) \/ StreamBroken(r)
    \/ Raises(r)

Step(r) == ClaimRead(r) \/ ClaimCas(r) \/ Serve(r) \/ WriteRead(r) \/ WriteCas(r)

Times == Requests \X {"claim", "outcome"}

Next ==
    \/ \E w \in Workers, r \in Requests : Accept(w, r)
    \/ \E r \in Requests : Step(r) \/ Abandoned(r) \/ Hangs(r)
    \/ \E t \in Times : Expire(t)
    \/ \E w \in Workers : Crash(w)

Spec == Init /\ [][Next]_vars

\* A process keeps executing, and provider calls and drains have timeouts.
FairSpec == Spec /\ \A r \in Requests : WF_vars(Step(r))

-----------------------------------------------------------------------------
(* Properties.                                                             *)

Records == [state : RecordStates, payload : Payloads \union {NoPayload},
            body : Requests \union {NoRequest}, replayable : BOOLEAN,
            until : (Requests \union {NoRequest}) \X {"claim", "outcome"}]
Row == [ver : Nat, rec : Records]
Kinds == {"none", "reused", "uncertain", "in_progress", "not_replayable",
          "replayed", "denied", "served"}

\* Every variable keeps its type, and nothing was rejected that did not run.
TypeOK ==
    /\ row \in [Keys -> Row]
    /\ cache \in [Workers -> [Keys -> Records]]
    /\ late \subseteq Times
    /\ overdue \subseteq Requests
    /\ owner \in [Requests -> Workers \union {NoWorker}]
    /\ pc \in [Requests -> AwaitSteps \union SyncSteps]
    /\ snap \in [Requests -> Row]
    /\ pending \in [Requests -> Records]
    /\ tries \in [Requests -> Nat]
    /\ reply \in [Requests -> [kind : Kinds, body : Requests \union {NoRequest}]]
    /\ ran \subseteq Requests
    /\ rejected \subseteq ran
    /\ crashes \in Nat

\* A request outlives its claim only if its record is kept for less time than it
\* takes to serve it; the properties that say "on time" leave that case out.
OnTime == overdue = {}

\* A record of request r, its claim or its outcome, has expired.
Expired(r) == \E kind \in {"claim", "outcome"} : <<r, kind>> \in late

\* tests/test_gateway_streaming_async.py:187, "claim is durable and single
\* winner": of all requests with one key, on however many processes, at most one
\* is between its claim and its recorded outcome.  Two processes break it: both
\* read an absent row, and both inserts succeed.
SingleFlight ==
    OnTime =>
        \A r, q \in Requests :
            r # q /\ KeyOf[r] = KeyOf[q] => ~(pc[r] \in Serving /\ pc[q] \in Serving)

\* What is left of it: a process never serves two requests with one key at a
\* time, whatever other processes insert over its claim, merge, clear or let
\* expire.  Its memory sees to that, not the store.
OneFlightPerProcess ==
    OnTime =>
        \A r, q \in Requests :
            r # q /\ KeyOf[r] = KeyOf[q] /\ owner[r] = owner[q] =>
                ~(pc[r] \in Serving /\ pc[q] \in Serving)

\* What the key is for: a request is not carried out twice.  Of two requests with
\* one key that ran and were not rejected by the provider, a record of one has
\* expired; no crash, cancellation, exception or stale memory of a process makes
\* a request run again.
RunOnce ==
    OnTime =>
        \A r, q \in ran \ rejected :
            r # q /\ KeyOf[r] = KeyOf[q] => Expired(r) \/ Expired(q)

\* Whatever was claimed, cleared, merged, cached or let expire in between: a
\* response that is replayed belongs to a request with the same key and the same
\* payload which ran and was not rejected.  (A released record replays no body.)
ReplayIsOwn ==
    \A r \in Requests :
        LET b == reply[r].body
        IN  OnTime /\ reply[r].kind = "replayed" /\ b # NoRequest =>
                /\ KeyOf[b] = KeyOf[r]
                /\ PayloadOf[b] = PayloadOf[r]
                /\ b \in ran \ rejected

\* The step changes the live record of key k, and not for the request that wrote
\* it last: that neither writes a newer state of its own nor is rejected.
Clobbers(k) ==
    /\ Live(row[k].rec)
    /\ row'[k] # row[k]
    /\ Author(row'[k].rec) # Author(row[k].rec)
    /\ ~(row'[k] = Absent /\ Author(row[k].rec) \in rejected' \ rejected)

\* gateway.py:117, "State transitions preserve projection versions and use CAS;
\* unconditional replace would permit a second worker/restart to clobber a newer
\* outcome": a live record is changed only by the request that wrote it.  The
\* versions do not ensure it, for a write reads the version it compares with just
\* before: a request that outlived its claim overwrites the next one's record.
NoClobber == [][\A k \in Keys : ~Clobbers(k)]_vars

\* What does ensure it in one process is that a claim is only given away when it
\* has expired: no cancelled, failed, rejected or restarted request touches the
\* record of a newer one, unless a request has outlived its claim.
NewerOutcomeKept == [][\A k \in Keys : OnTime' => ~Clobbers(k)]_vars

\* A request that claims its key frees it or records an outcome, unless it is
\* denied by guard.check, raises, hangs, loses its process or is cancelled.
OutcomeRecorded ==
    \A r \in Requests :
        pc[r] = "serving" ~>
            \/ row[KeyOf[r]].rec.state # "forwarding"
            \/ Author(row[KeyOf[r]].rec) # r
            \/ reply[r].kind = "denied"
            \/ pc[r] \in {"crashed", "abandoned", "raised", "stuck"}
=============================================================================
