---------------------------- MODULE UsageReview ----------------------------
(***************************************************************************)
(* The review pipeline: gateway processes that record usage and keep the   *)
(* review checkpoint (modelkeyguard/reviewer_agent.py, admin_review.py),   *)
(* the reviewer loop (scripts/usage_reviewer_agent.py), the analysis loop  *)
(* (scripts/usage_analysis_agent.py), both with the scanner state of       *)
(* governance_runtime.py, and the audit worker (review_worker.py with      *)
(* alert_rules.py).                                                        *)
(*                                                                         *)
(* A recorded request is its cursor (timestamp, request id), a number: a   *)
(* history row and, if it was billed, a usage event.  Requests are         *)
(* recorded in the order of their cursors; a history row has a timestamp   *)
(* in whole seconds, so within one second the code does not ensure that.   *)
(***************************************************************************)
EXTENDS Naturals, FiniteSets, FiniteSetsExt

CONSTANTS
    Gateways,         \* gateway processes on one store
    Serving,          \* the one that serves model requests and the loops
    MaxRow,           \* bound: requests recorded
    Unbilled,         \* requests that leave a history row and no usage event
    Spend,            \* Spend[i]: the tokens, or dollars, of request i
    Flagged,          \* requests whose text has a dangerous keyword
    MaxActive,        \* MODELKEYGUARD_HISTORY_MAX_ACTIVE_RECORDS
    Threshold,        \* conversations behind the checkpoint that trigger a review
    SpendThreshold,   \* tokens, or dollars, behind it that do
    Preview,          \* rows a status shows of its window: 10
    Forced,           \* loops that were started with --force
    Advances,         \* the reviewer loop was started with --advance-checkpoint
    SampleSize,       \* MODELKEYGUARD_REVIEW_SAMPLE_SIZE; 0 is no sampling
    Lookback,         \* MODELKEYGUARD_REVIEW_LOOKBACK_MINUTES is set
    BreakerEnabled,   \* MODELKEYGUARD_SCANNER_BREAKER_ENABLED
    BreakerMax,       \* MODELKEYGUARD_SCANNER_BREAKER_MAX_FAILURES
    MaxStreak,        \* bound: failures of the reviewer loop since a success
    MaxFaults         \* bound: other failures, crashes, expiries, plugin hits,
                      \* admin requests

Rows == 1..MaxRow

ASSUME ReviewAssumption ==
    /\ Serving \in Gateways
    /\ MaxRow \in Nat
    /\ Unbilled \subseteq Rows /\ Flagged \subseteq Rows
    /\ Spend \in [Rows -> Nat]
    /\ MaxActive \in Nat \ {0}
    /\ Threshold \in Nat \ {0}
    /\ SpendThreshold \in Nat \ {0}
    /\ Preview \in Nat
    /\ Forced \subseteq {"reviewer", "analysis"}
    /\ Advances \in BOOLEAN
    /\ SampleSize \in Nat
    /\ Lookback \in BOOLEAN
    /\ BreakerEnabled \in BOOLEAN
    /\ BreakerMax \in Nat \ {0}
    /\ MaxStreak \in Nat
    /\ MaxFaults \in Nat

VARIABLES
    mem,        \* mem[g]: the recorded requests in the memory of gateway g
    ckpt,       \* the cursor of the review checkpoint
    unread,     \* the checkpoint was written since the loop's gateway read it
    run,        \* the loop's newest review run; nobody uses the older ones again
    admin,      \* an administrator's request to advance without a run
    loop,       \* the reviewer loop: its step, its failures and the last error
    health,     \* the loop's stored health row
    worker,     \* the audit worker: its step, its batch, its copy of the graph
    fileCkpt,   \* the worker's checkpoint file
    analysed,   \* the analysis loop's newest report: up to which request, and
                \* whether any report repeated the one before
    forgot,     \* a status request of the analysis loop has failed since then
    seen,       \* last_seen_request_id of the analysis loop; 0 is ""
    reviewed,   \* requests that a status the reviewer's model has judged counts
    prompted,   \* requests that such a status names
    alerted,    \* requests the worker has evaluated its alert rules on
    cut,        \* requests the worker's sample or its lookback has left out
    acked,      \* requests an administrator has acknowledged
    streak,     \* the loop's failures since it last saved a success
    faults      \* bounded events so far

vars == <<mem, ckpt, unread, run, admin, loop, health, worker, fileCkpt, analysed, forgot, seen,
          reviewed, prompted, alerted, cut, acked, streak, faults>>

ghosts == <<reviewed, prompted, alerted, cut, acked>>

-----------------------------------------------------------------------------
Recorded == UNION {mem[g] : g \in Gateways}

Largest(S, floor) == Max(S \union {floor})

\* The n newest of some requests.
Newest(S, n) == {e \in S : Cardinality({f \in S : f >= e}) <= n}

\* refresh_active_window: the requests whose history rows a status reads.
Active == Newest(Recorded, MaxActive)

\* The requests of a copy of the graph behind the checkpoint that have a row a
\* status reads: every usage event, the history rows of the active window.
After(rows) == {i \in rows : i > ckpt /\ (i \in Active \/ i \notin Unbilled)}

\* The triggers: conversations, tokens or dollars, dangerous keywords.
Fires(after) ==
    \/ Cardinality(after \intersect Active) >= Threshold
    \/ MapThenSumSet(LAMBDA i : Spend[i], after \ Unbilled) >= SpendThreshold
    \/ after \intersect Active \intersect Flagged # {}

\* What it shows of them: the newest history rows, the newest usage events, and
\* the oldest hits of a keyword.
Shown(after) ==
    LET hits == after \intersect Active \intersect Flagged
    IN  Newest(after \intersect Active, Preview) \union Newest(after \ Unbilled, Preview)
          \union {e \in hits : Cardinality({f \in hits : f <= e}) <= Preview}

\* compute_review_status: the requests after the checkpoint, the newest
\* cursor, and whether a trigger fires.
Status(rows) ==
    [after |-> After(rows), latest |-> Largest(After(rows), ckpt),
     should |-> Fires(After(rows))]

\* replace_named_projection: unconditional.
Advance(cursor) == ckpt' = cursor /\ unread' = TRUE

Fault == faults < MaxFaults /\ faults' = faults + 1

\* A scanner plugin fires though no threshold is reached.
PluginFires == Fault

\* A handler of gateway g is between two accesses to the store.
Busy(g) == (g = Serving /\ loop.pc = "cas") \/ (admin.pc = "write" /\ admin.gw = g)

Idle == [pc |-> "idle", batch |-> {}, graph |-> {}]

Init ==
    /\ mem = [g \in Gateways |-> {}]
    /\ ckpt = 0
    /\ unread = FALSE
    /\ run = [state |-> "none", target |-> 0, evidence |-> {}, shown |-> {}]
    /\ admin = [pc |-> "idle", gw |-> Serving, cursor |-> 0]
    /\ loop = [pc |-> "status", failures |-> 0, terminal |-> FALSE]
    /\ health = [failures |-> 0, stopped |-> FALSE]
    /\ worker = Idle
    /\ fileCkpt = 0
    /\ analysed = [some |-> FALSE, cursor |-> 0, again |-> FALSE, slip |-> FALSE]
    /\ forgot = FALSE
    /\ seen = 0
    /\ reviewed = {} /\ prompted = {} /\ alerted = {} /\ cut = {} /\ acked = {}
    /\ streak = 0
    /\ faults = 0

-----------------------------------------------------------------------------
(* The gateways.                                                           *)

\* A model request ends: its usage event and its history row are recorded.
Record ==
    /\ ~Busy(Serving)
    /\ LET i == Largest(Recorded, 0) + 1
       IN  i <= MaxRow /\ mem' = [mem EXCEPT ![Serving] = @ \union {i}]
    /\ UNCHANGED <<ckpt, unread, run, admin, loop, health, worker, fileCkpt, analysed, forgot, seen,
                   ghosts, streak, faults>>

\* A gateway that starts reads the whole store.
GatewayRestart(g) ==
    /\ ~Busy(g) /\ Fault
    /\ mem' = [mem EXCEPT ![g] = Recorded]
    /\ UNCHANGED <<ckpt, unread, run, admin, loop, health, worker, fileCkpt, analysed, forgot, seen,
                   ghosts, streak>>

\* POST /admin/review/checkpoint without a run: a fresh status, in the memory
\* of this gateway, decides the cursor.
AdminRead(g) ==
    /\ admin.pc = "idle" /\ ~Busy(g) /\ Fault
    /\ admin' = [pc |-> "write", gw |-> g, cursor |-> Status(mem[g]).latest]
    /\ acked' = acked \union Status(mem[g]).after
    /\ UNCHANGED <<mem, ckpt, unread, run, loop, health, worker, fileCkpt, analysed, forgot, seen,
                   reviewed, prompted, alerted, cut, streak>>

AdminWrite ==
    /\ admin.pc = "write"
    /\ admin' = [admin EXCEPT !.pc = "idle"]
    /\ Advance(admin.cursor)
    /\ UNCHANGED <<mem, run, loop, health, worker, fileCkpt, analysed, forgot, seen, ghosts,
                   streak, faults>>

-----------------------------------------------------------------------------
(* The reviewer loop.                                                      *)

Goto(step) == loop' = [loop EXCEPT !.pc = step]

\* scanner_should_run without a usage checkpoint, if no plugin fires.
Due(name) == name \in Forced \/ Status(mem[Serving]).should

\* GET status.json: below the thresholds, and without a plugin that fires,
\* this round only writes the health it has in memory.
Poll ==
    /\ loop.pc = "status"
    /\ \/ /\ ~Due("reviewer")
          /\ Goto("sleep")
          /\ health' = [health EXCEPT !.failures = loop.failures]
          /\ UNCHANGED faults
       \/ Due("reviewer") /\ Goto("start") /\ UNCHANGED <<health, faults>>
       \/ PluginFires /\ Goto("start") /\ UNCHANGED health
    /\ UNCHANGED <<mem, ckpt, unread, run, admin, worker, fileCkpt, analysed, forgot, seen, ghosts,
                   streak>>

\* The status request and the health of a skipped round are outside the try
\* statement, the health of a failure is in its handler: if one of them raises,
\* the loop ends.
PollFails ==
    /\ loop.pc \in {"status", "failed"} /\ Fault
    /\ Goto("ended")
    /\ UNCHANGED <<mem, ckpt, unread, run, admin, health, worker, fileCkpt, analysed, forgot, seen,
                   ghosts, streak>>

\* POST /admin/review/start freezes the status that the model will see.
StartRun ==
    /\ loop.pc = "start" /\ ~Busy(Serving)
    /\ run' = [state |-> "open", target |-> Status(mem[Serving]).latest,
               evidence |-> Status(mem[Serving]).after,
               shown |-> Shown(Status(mem[Serving]).after)]
    /\ Goto("model")
    /\ UNCHANGED <<mem, ckpt, unread, admin, health, worker, fileCkpt, analysed, forgot,
                   seen, ghosts, streak, faults>>

\* What a valid answer is about: the prompt contains the frozen status, which
\* counts all requests of its window and shows some of them.
Verdict ==
    /\ reviewed' = reviewed \union run.evidence
    /\ prompted' = prompted \union run.shown

\* The model judges the frozen status and its answer is valid.
Judge ==
    /\ loop.pc = "model"
    /\ loop' = [loop EXCEPT !.pc = "succeeded"]
    /\ Verdict
    /\ UNCHANGED <<mem, ckpt, unread, run, admin, health, worker, fileCkpt, analysed, forgot, seen,
                   alerted, cut, acked, streak, faults>>

\* The start request, the model call, the validation of its answer or the saving
\* of the success raises: an error of a family that counts as terminal, or of one
\* that is retried.
Fail ==
    /\ loop.pc \in {"start", "model", "succeeded"} /\ streak < MaxStreak
    /\ \E terminal \in BOOLEAN :
         loop' = [loop EXCEPT !.pc = "failed", !.terminal = terminal]
    /\ streak' = streak + 1
    /\ UNCHANGED <<mem, ckpt, unread, run, admin, health, worker, fileCkpt, analysed, forgot, seen,
                   ghosts, faults>>

\* The configuration is read once, when the loop starts.
Breaker(failures) == BreakerEnabled /\ failures >= BreakerMax

\* Mutant: the breaker counts from the wrong end of the threshold.
Trips_Early(failures) == loop.terminal /\ Breaker(failures + 1)

\* scanner_state_transition: failures of any family count, but only one of a
\* terminal family trips the breaker.
Trips(failures) == loop.terminal /\ Breaker(failures)

\* After a success or a failure the loop computes its next state and saves it.
SaveHealth ==
    /\ loop.pc \in {"succeeded", "failed"}
    /\ LET failures == IF loop.pc = "failed" THEN loop.failures + 1 ELSE 0
           stops == loop.pc = "failed" /\ Trips(failures)
       IN  /\ health' = [failures |-> failures, stopped |-> stops]
           /\ loop' = [loop EXCEPT !.failures = failures,
                                   !.pc = IF loop.pc = "succeeded"
                                          THEN IF Advances THEN "checkpoint" ELSE "sleep"
                                          ELSE IF stops THEN "stopped" ELSE "sleep"]
           /\ streak' = IF loop.pc = "failed" THEN streak ELSE 0
    /\ UNCHANGED <<mem, ckpt, unread, run, admin, worker, fileCkpt, analysed, forgot, seen, ghosts,
                   faults>>

\* Mutant: a run whose window holds one request counts as passed.
CheckpointRead_Lags ==
    /\ loop.pc = "checkpoint" /\ ~Busy(Serving)
    /\ IF run.state = "open" /\ run.target > ckpt + 1
         THEN Goto("cas") /\ unread' = FALSE
         ELSE Goto("sleep") /\ UNCHANGED unread
    /\ UNCHANGED <<mem, ckpt, run, admin, health, worker, fileCkpt, analysed, forgot,
                   seen, ghosts, streak, faults>>

\* POST /admin/review/checkpoint with the run: the gateway reads the run and
\* the checkpoint.  A run that is not open, has expired, or has a target that
\* has been passed changes nothing; the loop only warns.
CheckpointRead ==
    /\ loop.pc = "checkpoint" /\ ~Busy(Serving)
    /\ IF run.state = "open" /\ run.target > ckpt
         THEN Goto("cas") /\ unread' = FALSE
         ELSE Goto("sleep") /\ UNCHANGED unread
    /\ UNCHANGED <<mem, ckpt, run, admin, health, worker, fileCkpt, analysed, forgot,
                   seen, ghosts, streak, faults>>

\* Mutant: the checkpoint row is replaced without a comparison.
CasPasses_RunOnly == run.state = "open"

\* Both rows must still hold the payloads that were read.
CasPasses == run.state = "open" /\ ~unread

\* Mutant: the cursor of a fresh status is checkpointed.
Target_Fresh == Status(mem[Serving]).latest

\* Mutant: the cursor after the window is checkpointed.
Target_Past == run.target + 1

Target == run.target

CheckpointCas ==
    /\ loop.pc = "cas"
    /\ Goto("sleep")
    /\ \/ /\ CasPasses
          /\ Advance(Target)
          /\ run' = [run EXCEPT !.state = "completed"]
       \/ ~CasPasses /\ UNCHANGED <<ckpt, unread, run>>
    /\ UNCHANGED <<mem, admin, health, worker, fileCkpt, analysed, forgot, seen, ghosts,
                   streak, faults>>

\* The time to live of an open run passes.
ExpireRun ==
    /\ run.state = "open" /\ loop.pc # "cas" /\ Fault
    /\ run' = [run EXCEPT !.state = "expired"]
    /\ UNCHANGED <<mem, ckpt, unread, admin, loop, health, worker, fileCkpt, analysed,
                   forgot, seen, ghosts, streak>>

\* The interval or the backoff passes.
WakeUp ==
    /\ loop.pc = "sleep"
    /\ loop' = [loop EXCEPT !.pc = "status", !.terminal = FALSE]
    /\ UNCHANGED <<mem, ckpt, unread, run, admin, health, worker, fileCkpt, analysed, forgot, seen,
                   ghosts, streak, faults>>

\* The loop is lost, or was stopped, and an operator starts it again: it goes
\* on from the stored failures, and does not look at the stored state.
LoopRestart ==
    /\ loop.pc # "cas" /\ Fault
    /\ loop' = [pc |-> "status", failures |-> health.failures, terminal |-> FALSE]
    /\ UNCHANGED <<mem, ckpt, unread, run, admin, health, worker, fileCkpt, analysed, forgot, seen,
                   ghosts, streak>>

-----------------------------------------------------------------------------
(* The audit worker: review_once.                                          *)

\* events[-sample_size:]
Sample(events) == IF SampleSize = 0 THEN events ELSE Newest(events, SampleSize)

\* It reads the audit file from its lookback on and behind its checkpoint file,
\* and opens the graph.
WorkerLoad ==
    /\ worker.pc = "idle"
    /\ \E since \in IF Lookback THEN Recorded ELSE {0} :
         LET events == {i \in Recorded : i > fileCkpt}
             batch == Sample({i \in events : i >= since})
         IN  /\ batch # {}
             /\ worker' = [pc |-> "alert", batch |-> batch, graph |-> Recorded]
             /\ cut' = cut \union (events \ batch)
    /\ UNCHANGED <<mem, ckpt, unread, run, admin, loop, health, fileCkpt, analysed, forgot, seen,
                   reviewed, prompted, alerted, acked, streak, faults>>

\* AlertEngine: every rule on every subject of the batch; alerts are persisted.
WorkerAlert ==
    /\ worker.pc = "alert"
    /\ worker' = [worker EXCEPT !.pc = "review"]
    /\ alerted' = alerted \union worker.batch
    /\ UNCHANGED <<mem, ckpt, unread, run, admin, loop, health, fileCkpt, analysed, forgot, seen,
                   reviewed, prompted, cut, acked, streak, faults>>

\* LLMUsageReviewer reviews the same batch; reviews and the batch record are
\* persisted.
WorkerReview ==
    /\ worker.pc = "review"
    /\ worker' = [worker EXCEPT !.pc = "advance"]
    /\ UNCHANGED <<mem, ckpt, unread, run, admin, loop, health, fileCkpt, analysed, forgot, seen,
                   ghosts, streak, faults>>

\* advance_review_checkpoint with the batch's newest cursor, which is not
\* accepted beyond the newest one of the graph.
WorkerAdvance ==
    /\ worker.pc = "advance"
    /\ worker' = [worker EXCEPT !.pc = "save"]
    /\ Advance(Min({Largest(worker.batch, 0), Status(worker.graph).latest}))
    /\ UNCHANGED <<mem, run, admin, loop, health, fileCkpt, analysed, forgot, seen, ghosts,
                   streak, faults>>

WorkerSave ==
    /\ worker.pc = "save"
    /\ worker' = Idle
    /\ fileCkpt' = Largest(worker.batch, 0)
    /\ UNCHANGED <<mem, ckpt, unread, run, admin, loop, health, analysed, forgot, seen, ghosts,
                   streak, faults>>

WorkerCrash ==
    /\ worker.pc # "idle" /\ Fault
    /\ worker' = Idle
    /\ UNCHANGED <<mem, ckpt, unread, run, admin, loop, health, fileCkpt, analysed, forgot, seen,
                   ghosts, streak>>

-----------------------------------------------------------------------------
(* The analysis loop.                                                      *)

\* Mutant: a window is analysed whenever a trigger fires.
NewWindow_Always == TRUE

\* scanner_should_run with the usage checkpoint.
NewWindow == LET latest == Status(mem[Serving]).latest IN latest = 0 \/ latest # seen

\* The cursor the loop remembers, whatever it did.
Remember(cursor) == seen' = cursor

\* A report on the usage of every subject up to a cursor, by a round that has
\* read the status or by a blind one.
Report(cursor, blind) ==
    LET again == analysed.some /\ cursor = analysed.cursor
    IN  analysed' = [some |-> TRUE, cursor |-> cursor, again |-> analysed.again \/ again,
                     slip |-> \/ analysed.slip
                              \/ again /\ cursor # 0 /\ ~forgot /\ ~blind]

\* It reads the status and analyses the window, or skips it; both remember its
\* cursor.
Analyse ==
    /\ \/ "analysis" \in Forced /\ UNCHANGED faults
       \/ NewWindow /\ Due("analysis") /\ UNCHANGED faults
       \/ NewWindow /\ PluginFires
    /\ Report(Status(mem[Serving]).latest, FALSE)
    /\ Remember(Status(mem[Serving]).latest)
    /\ forgot' = FALSE
    /\ UNCHANGED <<mem, ckpt, unread, run, admin, loop, health, worker, fileCkpt, ghosts, streak>>

AnalysisSkips ==
    /\ "analysis" \notin Forced /\ ~(Due("analysis") /\ NewWindow)
    /\ Remember(Status(mem[Serving]).latest)
    /\ UNCHANGED <<mem, ckpt, unread, run, admin, loop, health, worker, fileCkpt, analysed,
                   forgot, ghosts, streak, faults>>

\* The analysis or the saving of its checkpoint or health raises: there is no
\* report, and the cursor may be remembered already.
AnalysisRaises ==
    /\ Fault
    /\ Remember(Status(mem[Serving]).latest) \/ UNCHANGED seen
    /\ UNCHANGED <<mem, ckpt, unread, run, admin, loop, health, worker, fileCkpt, analysed,
                   forgot, ghosts, streak>>

\* A failed status request counts as a window without a cursor: it is skipped,
\* or reported if a plugin fires on the recent history or the loop is forced.
AnalysisBlind ==
    /\ Fault
    /\ \/ "analysis" \notin Forced /\ UNCHANGED analysed
       \/ Report(Largest(mem[Serving], 0), TRUE)
    /\ Remember(0)
    /\ forgot' = TRUE
    /\ UNCHANGED <<mem, ckpt, unread, run, admin, loop, health, worker, fileCkpt, ghosts, streak>>

-----------------------------------------------------------------------------
LoopStep == \/ Poll \/ StartRun \/ Judge \/ SaveHealth \/ CheckpointRead
            \/ CheckpointCas \/ WakeUp

WorkerStep == WorkerLoad \/ WorkerAlert \/ WorkerReview \/ WorkerAdvance \/ WorkerSave

Next ==
    \/ Record
    \/ \E g \in Gateways : GatewayRestart(g) \/ AdminRead(g)
    \/ AdminWrite
    \/ LoopStep \/ PollFails \/ Fail \/ LoopRestart
    \/ ExpireRun
    \/ WorkerStep \/ WorkerCrash
    \/ Analyse \/ AnalysisSkips \/ AnalysisRaises \/ AnalysisBlind

Spec == Init /\ [][Next]_vars

\* The reviewer loop keeps running (--loop), and a gateway finishes the handler
\* it is in.  The worker need not run.
FairSpec == Spec /\ WF_vars(LoopStep) /\ WF_vars(AdminWrite)

-----------------------------------------------------------------------------
(* Properties.                                                             *)

RunStates == {"none", "open", "completed", "expired"}

\* Every variable keeps its type.
TypeOK ==
    /\ mem \in [Gateways -> SUBSET Rows]
    /\ ckpt \in 0..MaxRow /\ unread \in BOOLEAN
    /\ run \in [state : RunStates, target : 0..MaxRow, evidence : SUBSET Rows,
                shown : SUBSET Rows]
    /\ admin \in [pc : {"idle", "write"}, gw : Gateways, cursor : 0..MaxRow]
    /\ loop \in [pc : {"status", "start", "model", "succeeded", "failed", "checkpoint",
                       "cas", "sleep", "stopped", "ended"},
                 failures : Nat, terminal : BOOLEAN]
    /\ health \in [failures : Nat, stopped : BOOLEAN]
    /\ worker \in [pc : {"idle", "alert", "review", "advance", "save"}, batch : SUBSET Rows,
                   graph : SUBSET Rows]
    /\ fileCkpt \in 0..MaxRow
    /\ seen \in 0..MaxRow /\ forgot \in BOOLEAN
    /\ analysed \in [some : BOOLEAN, cursor : 0..MaxRow, again : BOOLEAN, slip : BOOLEAN]
    /\ reviewed \subseteq Rows /\ prompted \subseteq Rows /\ alerted \subseteq Rows
    /\ cut \subseteq Rows /\ acked \subseteq Rows
    /\ streak \in Nat /\ faults \in Nat

\* reviewer_agent.py start_review_run: "Freeze one evidence window before any
\* remote model call".  With one gateway that records, every request behind the
\* checkpoint was counted by a status the model has judged or was in a batch of
\* the worker.  The code leaves one out in four ways: an administrator
\* acknowledged it, the worker's sample or its lookback cut it, or it was not
\* billed and its history row has left the active window.
NothingSkipped ==
    \A i \in Recorded :
        i <= ckpt => \/ i \in reviewed \union alerted \union acked \union cut
                     \/ i \in Unbilled \ Active

\* reviewer_agent.py:286: checkpointing a fresh status "would otherwise mark
\* events that were never included in the model prompt as reviewed": no request
\* behind the checkpoint is missing from the prompts, but for the same four ways.
NamedBeforePassed ==
    \A i \in Recorded :
        i <= ckpt => \/ i \in prompted \union alerted \union acked \union cut
                     \/ i \in Unbilled \ Active

\* A run that completes moves the checkpoint forward, from below its frozen
\* window to exactly its end, whatever other writers of the checkpoint do
\* between the gateway's reads and its write, and only after the model has
\* judged a status that counts all of the window.
RunAdvances ==
    [][run.state # "completed" /\ run'.state = "completed" =>
         /\ run.state = "open"
         /\ ckpt < run.target /\ ckpt' = run.target
         /\ run.evidence \subseteq reviewed]_vars

\* Crashes of the worker between its writes repeat alerts but lose none: what
\* its checkpoint file has passed was evaluated, or cut by sample or lookback.
AlertedBeforePassed ==
    \A i \in Recorded : i <= fileCkpt => i \in alerted \union cut

\* Neither cursor, the review checkpoint or the worker's file, passes a request
\* that nobody has looked at, but for the ways the code has of leaving one out.
NothingPassedUnseen == NothingSkipped /\ AlertedBeforePassed

\* docs_governance_runtime.md:37: the loop stops for good only with the breaker
\* enabled, on a terminal error, after at least the configured number of
\* failures in a row, counted across restarts; it says so in its health row.
BreakerHonest ==
    /\ loop.pc = "stopped" => /\ BreakerEnabled /\ loop.terminal
                              /\ streak >= BreakerMax
                              /\ health.stopped
    /\ loop.pc = "sleep" /\ loop.terminal /\ BreakerEnabled => loop.failures < BreakerMax

\* docs_governance_runtime.md:102, "no-new-data windows are skipped without
\* reprocessing": no report is about what the one before was about.
NotReprocessed == ~analysed.again

\* A window with a cursor is not reported twice by a loop that has not been told
\* to (--force), whatever fires its report, unless a status request has failed
\* in between: the skipped round then forgets the cursor.  Other writers may
\* move the checkpoint back, requests leave the active window, and gateways
\* restart in the meantime.
RememberedOnce == "analysis" \in Forced \/ ~analysed.slip

\* A loop that advances the checkpoint works its backlog off: while the requests
\* behind the checkpoint suffice to fire a trigger, the checkpoint moves past them
\* some day (or their history rows leave the active window), unless the loop stops
\* at its breaker or ends by an error outside its try statement.  Requests below
\* the thresholds wait for more.
EventuallyReviewed ==
    Advances /\ Fires(After(Recorded))
        ~> ~Fires(After(Recorded)) \/ loop.pc \in {"stopped", "ended"}
=============================================================================
