---------------------------- MODULE StreamRelay ----------------------------
(***************************************************************************)
(* The relay of one streamed response (modelkeyguard/gateway.py,           *)
(* bounded_stream): a task reads the provider's chunks into a bounded      *)
(* queue, the response generator takes them out and sends them to the      *)
(* client, and settles when both have ended.                               *)
(*                                                                         *)
(* Both run in the event loop of one gateway process: a step is what runs  *)
(* between two awaits.  The provider answered with a status below 400;     *)
(* other answers end before this code.  What the reservation table makes   *)
(* of an update is the subject of QuotaReservation: here an update works,  *)
(* or raises before or after its write, and so does every other write.     *)
(***************************************************************************)
EXTENDS Naturals, Sequences

CONSTANTS
    Limit,        \* MODELKEYGUARD_STREAM_QUEUE_CHUNKS
    MaxChunks,    \* bound: chunks of one response
    MaxFailures,  \* bound: store operations that raise
    CanShutDown   \* TRUE: the event loop may shut down while the relay runs

ASSUME RelayAssumption ==
    /\ Limit \in Nat \ {0}
    /\ MaxChunks \in Nat
    /\ MaxFailures \in Nat
    /\ CanShutDown \in BOOLEAN

VARIABLES
    kind,         \* "upstream", or "dry_run": chunks made from a dry-run answer
    task,         \* what the relay task does next
    cons,         \* what the response generator does next
    queue,        \* chunk numbers on their way to the client; 0 is the sentinel
    raised,       \* the relay task ends, or has ended, by an exception
    taken,        \* chunks the generator has taken out, in order
    sent,         \* chunks the provider has sent
    metered,      \* the last of them that carried a usage record, or 0
    usage,        \* the one whose usage record the relay task holds, or 0
    terminal,     \* the flags on_complete and on_uncertain have set
    disconnected, \* the event that tells the task that nobody listens
    cancelled,    \* of "task" and "cons", who has a cancellation pending
    reservation,  \* the state the relay last wrote to the reservation
    idem,         \* the outcome written under the idempotency key
    charges,      \* settlements made: for each, the chunk it was computed from
    history,      \* history records written for this response
    failures,     \* store operations that raised
    shutdown      \* the event loop has been shut down

vars == <<kind, task, cons, queue, raised, taken, sent, metered, usage, terminal,
          disconnected, cancelled, reservation, idem, charges, history, failures,
          shutdown>>

taskVars == <<task, raised, sent, metered, usage, terminal, reservation, failures>>
consVars == <<cons, taken, disconnected, idem, charges, history>>

-----------------------------------------------------------------------------
States == {"forwarding", "streaming", "settled", "uncertain", "released"}

Running(actor) == actor \notin cancelled

\* update_reservation works.
Update(state) ==
    reservation' = (IF kind = "dry_run" THEN reservation ELSE state) /\ UNCHANGED failures

\* on_uncertain, after an operation that may have failed and left any of the
\* given states: its own update works, or raises, and the task ends by that.
OnUncertain(failed, states) ==
    /\ kind = "upstream"
    /\ task' = "close"
    /\ \/ /\ failures' = failures + failed
          /\ reservation' = "uncertain" /\ raised' = FALSE
       \/ /\ failures' = failures + failed + 1
          /\ reservation' \in states \cup {"uncertain"} /\ raised' = TRUE
    /\ failures' <= MaxFailures

Uncertain == terminal' = [terminal EXCEPT !.uncertain = TRUE]

Init ==
    /\ kind \in {"upstream", "dry_run"}
    /\ task = "created"
    /\ cons = "get"
    /\ queue = <<>>
    /\ raised = FALSE
    /\ taken = <<>>
    /\ sent = 0
    /\ metered = 0
    /\ usage = 0
    /\ terminal = [settled |-> FALSE, uncertain |-> FALSE]
    /\ disconnected = FALSE
    /\ cancelled = {}
    /\ reservation = IF kind = "dry_run" THEN "released" ELSE "forwarding"
    /\ idem = "forwarding"
    /\ charges = <<>>
    /\ history = 0
    /\ failures = 0
    /\ shutdown = FALSE

-----------------------------------------------------------------------------
(* The relay task: run_upstream, _stream_upstream and their callbacks.     *)

Start ==
    /\ task = "created" /\ Running("task")
    /\ task' = "read"
    /\ UNCHANGED <<kind, shutdown, queue, raised, sent, metered, usage, terminal,
                   cancelled, reservation, failures, consVars>>

\* The first chunk that is relayed marks the reservation; a chunk that comes
\* after the client has left is scanned for usage and dropped.
OnChunk ==
    \/ disconnected /\ task' = "read"
       /\ UNCHANGED <<terminal, raised, reservation, failures>>
    \/ ~disconnected /\ sent > 0 /\ reservation = "streaming"
       /\ task' = "put" /\ UNCHANGED <<terminal, raised, reservation, failures>>
    \/ ~disconnected /\ reservation # "streaming"
       /\ \/ task' = "put" /\ Update("streaming") /\ UNCHANGED <<terminal, raised>>
          \/ OnUncertain(1, {reservation, "streaming"}) /\ Uncertain

\* Mutant: the scan keeps the first usage record it finds.
Scan_First(hasUsage) == usage' = IF hasUsage /\ usage = 0 THEN sent + 1 ELSE usage

\* The newest usage record wins.
Scan(hasUsage) == usage' = IF hasUsage THEN sent + 1 ELSE usage

Read ==
    /\ task = "read" /\ Running("task")
    /\ sent < MaxChunks
    /\ \E hasUsage \in BOOLEAN :
         /\ sent' = sent + 1
         /\ metered' = IF hasUsage THEN sent + 1 ELSE metered
         /\ Scan(hasUsage)
    /\ OnChunk
    /\ UNCHANGED <<kind, shutdown, queue, cancelled, consVars>>

\* Mutant: a full queue loses its oldest chunk.
Put_Drops ==
    /\ task = "put" /\ Running("task")
    /\ queue' = Append(IF Len(queue) = Limit THEN Tail(queue) ELSE queue, sent)
    /\ task' = "read"
    /\ UNCHANGED <<kind, shutdown, raised, sent, metered, usage, terminal, cancelled,
                   reservation, failures, consVars>>

Put ==
    /\ task = "put" /\ Running("task")
    /\ Len(queue) < Limit
    /\ queue' = Append(queue, sent)
    /\ task' = "read"
    /\ UNCHANGED <<kind, shutdown, raised, sent, metered, usage, terminal, cancelled,
                   reservation, failures, consVars>>

\* Mutant: a put waits for room whether or not somebody listens.
PutTimesOut_Waits == FALSE /\ UNCHANGED vars

\* The put is retried every half second until nobody listens any more.
PutTimesOut ==
    /\ task = "put" /\ Running("task")
    /\ disconnected
    /\ task' = "read"
    /\ UNCHANGED <<kind, shutdown, queue, raised, sent, metered, usage, terminal,
                   cancelled, reservation, failures, consVars>>

\* on_complete; if its update raises, on_uncertain follows.
Eof ==
    /\ task = "read" /\ Running("task")
    /\ \/ /\ terminal' = [terminal EXCEPT !.settled = TRUE]
          /\ task' = "close"
          /\ Update("forwarding") /\ UNCHANGED raised
       \/ /\ terminal' = [terminal EXCEPT !.settled = TRUE, !.uncertain = TRUE]
          /\ OnUncertain(1, {reservation, "forwarding"})
    /\ UNCHANGED <<kind, shutdown, queue, sent, metered, usage, cancelled, consVars>>

\* Mutant: on_uncertain does not tell the reservation.
Broken_Silent ==
    /\ task = "read" /\ Running("task") /\ kind = "upstream"
    /\ task' = "close"
    /\ Uncertain
    /\ UNCHANGED <<kind, shutdown, queue, raised, sent, metered, usage, cancelled,
                   reservation, failures, consVars>>

\* The connection breaks or a read times out.
Broken ==
    /\ task = "read" /\ Running("task")
    /\ Uncertain
    /\ OnUncertain(0, {reservation})
    /\ UNCHANGED <<kind, shutdown, queue, sent, metered, usage, cancelled, consVars>>

\* The event loop shuts down and cancels the task.  A task that has not run
\* yet never does; one that reads or relays would drain the provider, but httpx
\* gives out the chunks of a response only once: the second aiter_raw raises.
\* A task that is about to end by an exception ends by the cancellation.
TaskCancelled ==
    /\ ~Running("task")
    /\ cancelled' = cancelled \ {"task"}
    /\ \/ /\ task \in {"read", "put"}
          /\ Uncertain
          /\ OnUncertain(0, {reservation})
       \/ /\ task \in {"read", "put"} /\ kind = "dry_run"
          /\ task' = "close"
          /\ UNCHANGED <<raised, terminal, reservation, failures>>
       \/ /\ task \notin {"read", "put"}
          /\ task' = IF task = "close" THEN "close" ELSE "done"
          /\ raised' = FALSE
          /\ UNCHANGED <<terminal, reservation, failures>>
    /\ UNCHANGED <<kind, shutdown, queue, sent, metered, usage, consVars>>

\* The client is closed and the sentinel queued, in the place of queued chunks
\* if nobody listens; if the queue is full and somebody does, the task waits.
Close ==
    /\ task = "close" /\ Running("task")
    /\ \/ Len(queue) < Limit /\ queue' = Append(queue, 0) /\ task' = "done"
       \/ Len(queue) = Limit /\ disconnected
          /\ queue' = Append(Tail(queue), 0) /\ task' = "done"
       \/ Len(queue) = Limit /\ ~disconnected
          /\ queue' = queue /\ task' = "blocked"
    /\ UNCHANGED <<kind, shutdown, raised, sent, metered, usage, terminal, cancelled,
                   reservation, failures, consVars>>

Unblocked ==
    /\ task = "blocked" /\ Running("task")
    /\ Len(queue) < Limit
    /\ queue' = Append(queue, 0)
    /\ task' = "done"
    /\ UNCHANGED <<kind, shutdown, raised, sent, metered, usage, terminal, cancelled,
                   reservation, failures, consVars>>

-----------------------------------------------------------------------------
(* The response generator.                                                 *)

Get ==
    /\ cons = "get" /\ Running("cons")
    /\ queue # <<>>
    /\ queue' = Tail(queue)
    /\ IF Head(queue) = 0
         THEN /\ cons' = "ended"
              /\ disconnected' = TRUE
              /\ taken' = taken
         ELSE /\ cons' = "send"
              /\ taken' = Append(taken, Head(queue))
              /\ UNCHANGED disconnected
    /\ UNCHANGED <<kind, shutdown, cancelled, taskVars, idem, charges, history>>

\* The client accepts the chunk.
Send ==
    /\ cons = "send" /\ Running("cons")
    /\ cons' = "get"
    /\ UNCHANGED <<kind, shutdown, queue, cancelled, taskVars, taken, disconnected, idem,
                   charges, history>>

\* The client goes away, or the event loop shuts down: the generator stops
\* yielding and, unless the task has ended, waits for it, which it shields from
\* the cancellation.
Detach(pending) ==
    /\ cons \in {"get", "send", "detached"}
    /\ cons' = IF task = "done" THEN "ended" ELSE "detached"
    /\ disconnected' = TRUE
    /\ cancelled' = cancelled \ pending
    /\ UNCHANGED <<kind, shutdown, queue, taskVars, taken, idem, charges, history>>

Leave == Running("cons") /\ cons # "detached" /\ Detach({})

ConsCancelled == ~Running("cons") /\ Detach({"cons"})

\* The wait is over because the task has ended by an exception: the wait raises
\* it, and what is left of the generator never runs.
Skip ==
    /\ cons = "detached" /\ Running("cons")
    /\ task = "done" /\ raised
    /\ cons' = "skipped"
    /\ UNCHANGED <<kind, shutdown, queue, cancelled, taskVars, taken, disconnected, idem,
                   charges, history>>

Charged == terminal.settled /\ ~terminal.uncertain /\ kind = "upstream"

\* Settle from the usage record, or from the estimate if there is none.
Settle(outcome) ==
    \/ /\ Charged
       /\ outcome \in {"settled", "uncertain"}
       /\ charges' = IF outcome = "settled" THEN Append(charges, usage) ELSE charges
       /\ reservation' = outcome
    \/ /\ ~Charged
       /\ outcome = IF kind = "dry_run" THEN idem
                    ELSE IF terminal.uncertain THEN "uncertain" ELSE "released"
       /\ UNCHANGED <<charges, reservation>>

\* The task has ended, and no exception keeps the generator from its end.
TaskEnded ==
    \/ cons = "ended"
    \/ cons = "detached" /\ Running("cons") /\ task = "done" /\ ~raised

\* Settlement, the outcome under the key, and the history.
Finalize ==
    /\ TaskEnded
    /\ cons' = "done"
    /\ \E outcome \in States : Settle(outcome) /\ idem' = outcome
    /\ history' = history + 1
    /\ UNCHANGED <<kind, shutdown, task, raised, queue, taken, sent, metered, usage,
                   terminal, disconnected, cancelled, failures>>

\* One of these writes raises, after those before it.
FinalizeRaises ==
    /\ TaskEnded
    /\ failures < MaxFailures
    /\ failures' = failures + 1
    /\ cons' = "failed"
    /\ \/ UNCHANGED <<charges, reservation, idem, history>>
       \/ \E outcome \in States :
             /\ Settle(outcome)
             /\ \/ idem' = idem /\ history' = history
                \/ idem' = outcome /\ history' \in {history, history + 1}
    /\ UNCHANGED <<kind, shutdown, task, raised, queue, taken, sent, metered, usage,
                   terminal, disconnected, cancelled>>

\* The server gives up waiting for its connections and cancels every task of
\* the event loop, once.  A generator that settles is in no await.
Over == {"done", "failed", "skipped"}

Shutdown ==
    /\ CanShutDown /\ ~shutdown
    /\ shutdown' = TRUE
    /\ cancelled' = {a \in {"task", "cons"} :
                       IF a = "task" THEN task # "done" ELSE cons \notin Over \cup {"ended"}}
    /\ UNCHANGED <<kind, queue, taskVars, consVars>>

-----------------------------------------------------------------------------
TaskStep == \/ Start \/ Read \/ Put \/ PutTimesOut \/ Eof \/ Broken
            \/ TaskCancelled \/ Close \/ Unblocked

ConsStep == Get \/ ConsCancelled \/ Skip \/ Finalize \/ FinalizeRaises

ClientStep == Send \/ Leave

Next == TaskStep \/ ConsStep \/ ClientStep \/ Shutdown

Spec == Init /\ [][Next]_vars

\* The event loop keeps running, a read of the provider ends by a chunk, the
\* end or a timeout, and a client takes what it is sent or goes away.
FairSpec == Spec /\ WF_vars(TaskStep) /\ WF_vars(ConsStep) /\ WF_vars(ClientStep)

-----------------------------------------------------------------------------
(* Properties.                                                             *)

\* Every variable keeps its type, and the queue its limit.
TypeOK ==
    /\ kind \in {"upstream", "dry_run"}
    /\ task \in {"created", "read", "put", "close", "blocked", "done"}
    /\ raised \in BOOLEAN
    /\ cons \in {"get", "send", "detached", "ended"} \cup Over
    /\ queue \in Seq(Nat) /\ Len(queue) <= Limit
    /\ taken \in Seq(Nat)
    /\ sent \in Nat /\ metered \in Nat /\ usage \in Nat
    /\ terminal \in [settled : BOOLEAN, uncertain : BOOLEAN]
    /\ disconnected \in BOOLEAN
    /\ cancelled \subseteq {"task", "cons"}
    /\ reservation \in States /\ idem \in States
    /\ charges \in Seq(Nat)
    /\ history \in Nat /\ failures \in Nat /\ shutdown \in BOOLEAN

\* gateway.py:1804, "slow clients must backpressure upstream": the queue may
\* be full as often as it likes, the client is sent the provider's chunks in
\* order and without a gap.
NothingDropped ==
    \A i \in 1..Len(taken) : taken[i] = i

\* gateway.py:871, "settle only after terminal EOF", and gateway.py:911: a
\* stream is charged at most once, only if the provider ended it and nothing
\* went wrong, and by the newest usage record of the whole response, whether
\* or not the client was still there to receive it.
ChargedByUsage ==
    /\ Len(charges) <= 1
    /\ charges # <<>> => /\ charges[1] = metered
                         /\ terminal.settled /\ ~terminal.uncertain
                         /\ kind = "upstream"

\* A response that has been settled has one history record, and its reservation
\* and its idempotency key say the same, unless a store operation raised or the
\* task was cancelled before it ran.  The key never says settled without a
\* charge, and the settlement is left out or cut short only after a store
\* operation raised.
OutcomeAgrees ==
    /\ cons = "done" => history = 1
    /\ cons \in Over /\ failures = 0 =>
          /\ cons = "done"
          /\ kind = "upstream" /\ (terminal.settled \/ terminal.uncertain) =>
                reservation = idem /\ idem \in {"settled", "uncertain"}
    /\ idem = "settled" => charges # <<>>
    /\ charges # <<>> => cons \in {"done", "failed"} /\ reservation = "settled"

\* The relay task waits for room for its sentinel and nobody will make any.
Stuck == task = "blocked" /\ cons = "detached" /\ Len(queue) = Limit

\* Whatever the client, the provider and the store do, the response generator
\* ends, unless the task is stuck with its sentinel.  It may end without having
\* settled: OutcomeAgrees says when.
RelayEnds == <>(cons \in Over \/ Stuck)

\* gateway.py:1899, "Preserve settlement/history after the disconnected client
\* has been detached".
DetachedIsSettled == cons = "detached" ~> cons = "done"

\* The same comment, where nothing waits for ever: a response whose client has
\* left ends with its settlement and its history, also if the store refused the
\* update that records the failure of the stream.
DetachedIsRecorded == cons \in {"done", "skipped"} => history = 1
=============================================================================
