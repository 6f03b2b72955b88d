------------------------- MODULE UsageReview_proofs -------------------------
(***************************************************************************)
(* Theorems about UsageReview for every number of gateways and requests,   *)
(* every trigger, active window, sample size and breaker, and any number   *)
(* of faults.                                                              *)
(*                                                                         *)
(*   TypeCorrect      Spec => []TypeOK                                     *)
(*   UnseenCorrect    Spec => []NothingPassedUnseen                        *)
(*   AdvancesCorrect  Spec => RunAdvances                                  *)
(*   BreakerCorrect   Spec => []BreakerHonest                              *)
(*   OnceCorrect      Spec => []RememberedOnce                             *)
(***************************************************************************)
EXTENDS UsageReview, FiniteSetTheorems, WellFoundedInduction, TLAPS

-----------------------------------------------------------------------------
(* Cursors.                                                                *)

\* A finite set of numbers has a greatest one: of the sets of numbers above
\* one of its elements some has no smaller one among them.
LEMMA Greatest ==
    ASSUME NEW T \in SUBSET Nat, T # {}, IsFiniteSet(T)
    PROVE  \E x \in T : \A y \in T : y <= x
<1> DEFINE Above(x) == {y \in T : y > x}
           F == {Above(x) : x \in T}
<1>1. F \subseteq FiniteSubsetsOf(T) /\ F # {}
  <2>1. ASSUME NEW x \in T
        PROVE  Above(x) \in FiniteSubsetsOf(T)
    <3>1. Above(x) \in SUBSET T
      OBVIOUS
    <3> HIDE DEF Above
    <3> QED
      BY <3>1, FS_Subset DEF FiniteSubsetsOf
  <2> HIDE DEF Above
  <2> QED
    BY <2>1
<1>2. PICK A \in F : \A B \in F : ~ (<<B, A>> \in StrictSubsetOrdering(T))
  <2> HIDE DEF F
  <2> QED
    BY <1>1, FS_StrictSubsetOrderingWellFounded, WFMin
<1>3. PICK x \in T : A = Above(x)
  OBVIOUS
<1>4. ASSUME NEW y \in T, y > x
      PROVE  FALSE
  <2>1. Above(y) \subseteq A /\ y \in A /\ y \notin Above(y)
    <3>1. \A z \in T : z \in Nat
      OBVIOUS
    <3>2. \A z \in T : z > y => z > x
      BY <1>4, <3>1
    <3>3. Above(y) \subseteq A
      BY <1>3, <3>2
    <3>4. y \in A
      BY <1>3, <1>4
    <3>5. y \notin Above(y)
      BY <3>1
    <3> QED
      BY <3>3, <3>4, <3>5
  <2>2. Above(y) \in F /\ Above(y) # A
    <3> HIDE DEF Above
    <3> QED
      BY <2>1
  <2>3. Above(y) \subseteq T /\ A \subseteq T
    BY <1>3
  <2>4. <<Above(y), A>> \in StrictSubsetOrdering(T)
    BY <2>1, <2>2, <2>3 DEF StrictSubsetOrdering
  <2> QED
    BY <1>2, <2>2, <2>4
<1> QED
  BY <1>4

\* What the newest cursor of some requests, and no older than a floor, is.
LEMMA LargestFacts ==
    ASSUME NEW S \in SUBSET Rows, NEW f \in 0..MaxRow
    PROVE  /\ Largest(S, f) \in S \union {f}
           /\ \A x \in S : x <= Largest(S, f)
           /\ f <= Largest(S, f)
           /\ Largest(S, f) \in 0..MaxRow
<1> DEFINE T == S \union {f}
<1>1. T \in SUBSET Nat /\ T # {} /\ T \subseteq 0..MaxRow
  BY ReviewAssumption DEF Rows
<1>2. IsFiniteSet(T)
  <2>1. IsFiniteSet(0..MaxRow)
    BY ReviewAssumption, FS_Interval
  <2> HIDE DEF T
  <2> QED
    BY <1>1, <2>1, FS_Subset
<1>3. \E x \in T : \A y \in T : x >= y
  <2> HIDE DEF T
  <2>1. PICK x \in T : \A y \in T : y <= x
    BY <1>1, <1>2, Greatest
  <2> QED
    BY <1>1, <2>1
<1>4. Max(T) \in T /\ \A y \in T : Max(T) >= y
  BY <1>3 DEF Max
<1>5. \A y \in T : y \in Nat
  BY <1>1
<1>6. Largest(S, f) = Max(T)
  BY DEF Largest
<1>7. f \in T /\ \A x \in S : x \in T
  OBVIOUS
<1> HIDE DEF T
<1>8. \A y \in T : y <= Max(T)
  BY <1>4, <1>5
<1>9. Max(T) \in 0..MaxRow
  BY <1>1, <1>4
<1>10. Max(T) \in S \union {f}
  BY <1>4 DEF T
<1> QED
  BY <1>6, <1>7, <1>8, <1>9, <1>10

\* What compute_review_status says of a copy of the graph.
LEMMA StatusFacts ==
    ASSUME NEW rows \in SUBSET Rows, ckpt \in 0..MaxRow
    PROVE  /\ Status(rows).after = {i \in rows : i > ckpt /\ (i \in Active \/ i \notin Unbilled)}
           /\ Status(rows).after \in SUBSET Rows
           /\ Status(rows).latest \in Status(rows).after \union {ckpt}
           /\ Status(rows).latest \in 0..MaxRow
           /\ ckpt <= Status(rows).latest
           /\ \A i \in Status(rows).after : i <= Status(rows).latest
<1> DEFINE a == {i \in rows : i > ckpt /\ (i \in Active \/ i \notin Unbilled)}
<1>1. Status(rows).after = a /\ Status(rows).latest = Largest(a, ckpt)
  BY DEF Status, After
<1>2. a \in SUBSET Rows
  OBVIOUS
<1> HIDE DEF a
<1>3. /\ Largest(a, ckpt) \in a \union {ckpt} /\ Largest(a, ckpt) \in 0..MaxRow
      /\ ckpt <= Largest(a, ckpt) /\ \A i \in a : i <= Largest(a, ckpt)
  BY <1>2, LargestFacts
<1> QED
  BY <1>1, <1>2, <1>3 DEF a

\* The requests a status shows are of its window.
LEMMA ShownFacts ==
    ASSUME NEW after \in SUBSET Rows
    PROVE  Shown(after) \in SUBSET Rows
<1>1. \A S, n : Newest(S, n) \subseteq S
  BY DEF Newest
<1>2. /\ Newest(after \intersect Active, Preview) \subseteq after
      /\ Newest(after \ Unbilled, Preview) \subseteq after
  <2>1. /\ Newest(after \intersect Active, Preview) \subseteq after \intersect Active
        /\ Newest(after \ Unbilled, Preview) \subseteq after \ Unbilled
    BY <1>1
  <2> QED
    BY <2>1
<1> DEFINE hits == after \intersect Active \intersect Flagged
           oldest == {e \in hits : Cardinality({f \in hits : f <= e}) <= Preview}
<1>3. oldest \subseteq after
  OBVIOUS
<1>4. Shown(after) = Newest(after \intersect Active, Preview)
                       \union Newest(after \ Unbilled, Preview) \union oldest
  BY DEF Shown
<1> HIDE DEF oldest
<1> QED
  BY <1>2, <1>3, <1>4

\* The smaller of two cursors.
LEMMA MinFacts ==
    ASSUME NEW a \in Nat, NEW b \in Nat
    PROVE  Min({a, b}) \in {a, b} /\ Min({a, b}) <= a /\ Min({a, b}) <= b
<1>1. \E x \in {a, b} : \A y \in {a, b} : x =< y
  OBVIOUS
<1> QED
  BY <1>1 DEF Min

-----------------------------------------------------------------------------
(* The invariant.                                                          *)

\* Every gateway has the requests up to some cursor, the serving one all.
MemInv ==
    \A g \in Gateways :
        /\ mem[g] \subseteq mem[Serving]
        /\ \A i \in mem[Serving], j \in mem[g] : i <= j => i \in mem[g]

\* A cursor is one of a recorded request.
Cursors == mem[Serving] \union {0}

CursorInv ==
    /\ ckpt \in Cursors /\ fileCkpt \in Cursors /\ seen \in Cursors
    /\ run.target \in Cursors /\ admin.cursor \in Cursors
    /\ worker.batch \subseteq mem[Serving] /\ worker.graph \subseteq mem[Serving]

\* The requests up to a cursor are in a set.
Behind(c, S) == \A i \in mem[Serving] : i <= c => i \in S

\* The requests of which no status reads a row any more.
Faded == {i \in mem[Serving] : i \in Unbilled /\ i \notin Active}

Handled == reviewed \union alerted \union acked \union cut \union Faded

\* Nothing but handled requests is behind the checkpoint, the worker's file and
\* the cursors that are about to be written to them.
PassInv ==
    /\ Behind(ckpt, Handled)
    /\ Behind(run.target, Handled \union run.evidence)
    /\ loop.pc \in {"succeeded", "checkpoint", "cas"} => run.evidence \subseteq reviewed
    /\ admin.pc = "write" => Behind(admin.cursor, Handled)

WorkerInv ==
    /\ Behind(fileCkpt, alerted \union cut)
    /\ worker.pc # "idle" =>
          Behind(Largest(worker.batch, 0), alerted \union cut \union worker.batch)
    /\ worker.pc \in {"review", "advance", "save"} => worker.batch \subseteq alerted

\* A comparison that will succeed moves the checkpoint forward.
CasInv ==
    loop.pc = "cas" /\ ~unread => run.state = "open" /\ ckpt < run.target

\* The failures counted have happened since a success was saved last.
BreakerInv ==
    /\ health.failures <= streak /\ loop.failures <= streak
    /\ loop.pc = "failed" => loop.failures + 1 <= streak
    /\ loop.pc \notin {"failed", "sleep", "stopped", "ended"} => ~loop.terminal
    /\ BreakerHonest

\* The analysis loop remembers no older cursor than that of its last report.
SeenInv ==
    /\ RememberedOnce
    /\ ~forgot => analysed.cursor <= seen

IInv == TypeOK /\ MemInv /\ CursorInv /\ PassInv /\ WorkerInv /\ CasInv /\ BreakerInv /\ SeenInv

\* What the serving gateway has is what was recorded.
LEMMA AllRecorded == TypeOK /\ MemInv => Recorded = mem[Serving] /\ mem[Serving] \in SUBSET Rows
BY ReviewAssumption DEF TypeOK, MemInv, Recorded

\* A step is one of these.
LEMMA Actions ==
    ASSUME Next
    PROVE  \/ Record \/ (\E g \in Gateways : GatewayRestart(g) \/ AdminRead(g)) \/ AdminWrite
           \/ Poll \/ PollFails \/ StartRun \/ Judge \/ Fail \/ SaveHealth
           \/ CheckpointRead \/ CheckpointCas \/ ExpireRun \/ WakeUp \/ LoopRestart
           \/ WorkerLoad \/ WorkerAlert \/ WorkerReview \/ WorkerAdvance \/ WorkerSave
           \/ WorkerCrash \/ Analyse \/ AnalysisSkips \/ AnalysisRaises \/ AnalysisBlind
BY DEF Next, LoopStep, WorkerStep

\* A new request comes after all others.
LEMMA RecordFacts ==
    ASSUME TypeOK, MemInv, Record
    PROVE  \E i \in Rows :
              /\ mem' = [mem EXCEPT ![Serving] = @ \union {i}]
              /\ \A j \in mem[Serving] : j < i
<1> DEFINE i == Largest(Recorded, 0) + 1
<1>1. i <= MaxRow /\ mem' = [mem EXCEPT ![Serving] = @ \union {i}]
  BY DEF Record
<1>2. /\ Largest(Recorded, 0) \in 0..MaxRow
      /\ \A j \in mem[Serving] : j <= Largest(Recorded, 0)
  BY AllRecorded, LargestFacts, ReviewAssumption
<1>3. i \in Rows /\ \A j \in mem[Serving] : j < i
  BY <1>1, <1>2, AllRecorded, ReviewAssumption DEF Rows
<1> QED
  BY <1>1, <1>3

-----------------------------------------------------------------------------
(* Types.                                                                  *)

\* A worker's sample is of the events it was given.
LEMMA SampleFacts ==
    ASSUME NEW E
    PROVE  Sample(E) \subseteq E
BY DEF Sample, Newest

\* Every step keeps the types.
LEMMA TypeStep ==
    ASSUME TypeOK, MemInv, CursorInv, [Next]_vars
    PROVE  TypeOK'
<1> USE DEF TypeOK
<1>0. ckpt \in 0..MaxRow /\ \A g \in Gateways : mem[g] \in SUBSET Rows
  OBVIOUS
<1>1. \A g \in Gateways : /\ Status(mem[g]).latest \in 0..MaxRow
                          /\ Status(mem[g]).after \in SUBSET Rows
  BY <1>0, StatusFacts
<1>2. Serving \in Gateways /\ Status(mem[Serving]).latest \in 0..MaxRow
      /\ Status(mem[Serving]).after \in SUBSET Rows
  BY <1>1, ReviewAssumption
<1>3. CASE Record
  <2>1. PICK i \in Rows : mem' = [mem EXCEPT ![Serving] = @ \union {i}]
    BY <1>3, RecordFacts
  <2> QED
    BY <1>2, <1>3, <2>1 DEF Record, ghosts
<1>4. ASSUME NEW g \in Gateways, GatewayRestart(g)
      PROVE  TypeOK'
  BY <1>4, AllRecorded DEF GatewayRestart, Fault, ghosts
<1>5. ASSUME NEW g \in Gateways, AdminRead(g)
      PROVE  TypeOK'
  BY <1>1, <1>5 DEF AdminRead, Fault, ghosts
<1>6. CASE AdminWrite
  BY <1>6 DEF AdminWrite, Advance, ghosts
<1>7. CASE Poll \/ PollFails
  BY <1>7 DEF Poll, PollFails, Goto, PluginFires, Fault, ghosts
<1>8. CASE StartRun
  <2>1. Shown(Status(mem[Serving]).after) \in SUBSET Rows
    BY <1>2, ShownFacts
  <2> QED
    BY <1>2, <1>8, <2>1 DEF StartRun, Goto, RunStates, ghosts
<1>9. CASE Judge
  BY <1>9 DEF Judge, Verdict
<1>10. CASE Fail
  <2>1. PICK t \in BOOLEAN : loop' = [loop EXCEPT !.pc = "failed", !.terminal = t]
    BY <1>10 DEF Fail
  <2>2. loop' \in [pc : {"status", "start", "model", "succeeded", "failed", "checkpoint",
                         "cas", "sleep", "stopped", "ended"},
                   failures : Nat, terminal : BOOLEAN]
    BY <2>1
  <2>3. streak' \in Nat /\ faults' \in Nat
    BY <1>10 DEF Fail, Fault
  <2> QED
    BY <1>10, <2>2, <2>3 DEF Fail, ghosts
<1>11. CASE SaveHealth
  <2> DEFINE n == IF loop.pc = "failed" THEN loop.failures + 1 ELSE 0
             b == loop.pc = "failed" /\ Trips(n)
             t == IF loop.pc = "succeeded" THEN IF Advances THEN "checkpoint" ELSE "sleep"
                  ELSE IF b THEN "stopped" ELSE "sleep"
  <2>1. /\ health' = [failures |-> n, stopped |-> b]
        /\ loop' = [loop EXCEPT !.failures = n, !.pc = t]
        /\ streak' = IF loop.pc = "failed" THEN streak ELSE 0
    BY <1>11 DEF SaveHealth
  <2>2. n \in Nat /\ b \in BOOLEAN /\ t \in {"checkpoint", "stopped", "sleep"}
    OBVIOUS
  <2> HIDE DEF n, b, t
  <2>3. health' \in [failures : Nat, stopped : BOOLEAN] /\ streak' \in Nat
    BY <2>1, <2>2
  <2>4. loop' \in [pc : {"status", "start", "model", "succeeded", "failed", "checkpoint",
                         "cas", "sleep", "stopped", "ended"},
                   failures : Nat, terminal : BOOLEAN]
    BY <2>1, <2>2
  <2> QED
    BY <1>11, <2>3, <2>4 DEF SaveHealth, ghosts
<1>12. CASE CheckpointRead
  BY <1>12 DEF CheckpointRead, Goto, ghosts
<1>13. CASE CheckpointCas
  <2>1. /\ loop' = [loop EXCEPT !.pc = "sleep"]
        /\ UNCHANGED <<mem, admin, health, worker, fileCkpt, analysed, forgot, seen, ghosts,
                       streak, faults>>
        /\ \/ /\ ckpt' = run.target /\ unread' = TRUE
              /\ run' = [run EXCEPT !.state = "completed"]
           \/ UNCHANGED <<ckpt, unread, run>>
    BY <1>13 DEF CheckpointCas, Advance, Goto, Target
  <2>2. ckpt' \in 0..MaxRow /\ unread' \in BOOLEAN
    BY <2>1
  <2>3. run' \in [state : RunStates, target : 0..MaxRow, evidence : SUBSET Rows,
                  shown : SUBSET Rows]
    BY <2>1 DEF RunStates
  <2> QED
    BY <2>1, <2>2, <2>3 DEF ghosts
<1>14. CASE ExpireRun
  BY <1>14 DEF ExpireRun, Fault, RunStates, ghosts
<1>15. CASE WakeUp \/ LoopRestart
  <2>1. loop' \in [pc : {"status", "start", "model", "succeeded", "failed", "checkpoint",
                         "cas", "sleep", "stopped", "ended"},
                   failures : Nat, terminal : BOOLEAN]
    <3>1. CASE WakeUp
      BY <1>15, <3>1 DEF WakeUp
    <3>2. CASE LoopRestart
      <4>1. loop' = [pc |-> "status", failures |-> health.failures, terminal |-> FALSE]
        BY <3>2 DEF LoopRestart
      <4>2. health.failures \in Nat /\ FALSE \in BOOLEAN
        OBVIOUS
      <4> QED
        BY <4>1, <4>2
    <3> QED
      BY <1>15, <3>1, <3>2
  <2> QED
    BY <1>15, <2>1 DEF WakeUp, LoopRestart, Fault, ghosts
<1>16. CASE WorkerLoad
  <2>1. PICK since \in IF Lookback THEN Recorded ELSE {0} :
          LET events == {i \in Recorded : i > fileCkpt}
              batch == Sample({i \in events : i >= since})
          IN  /\ worker' = [pc |-> "alert", batch |-> batch, graph |-> Recorded]
              /\ cut' = cut \union (events \ batch)
    BY <1>16 DEF WorkerLoad
  <2>2. Sample({i \in {j \in Recorded : j > fileCkpt} : i >= since}) \subseteq Recorded
    BY SampleFacts
  <2>3. Recorded \in SUBSET Rows
    BY AllRecorded
  <2>4. worker' \in [pc : {"idle", "alert", "review", "advance", "save"}, batch : SUBSET Rows,
                     graph : SUBSET Rows]
    BY <2>1, <2>2, <2>3
  <2>5. cut' \subseteq Rows
    BY <2>1, <2>3
  <2> QED
    BY <1>16, <2>4, <2>5 DEF WorkerLoad
<1>17. CASE WorkerAlert
  BY <1>17 DEF WorkerAlert
<1>18. CASE WorkerReview
  BY <1>18 DEF WorkerReview, ghosts
<1>19. CASE WorkerAdvance
  <2>1. Largest(worker.batch, 0) \in 0..MaxRow
    BY LargestFacts, ReviewAssumption
  <2>2. Status(worker.graph).latest \in 0..MaxRow
    BY StatusFacts
  <2>3. Min({Largest(worker.batch, 0), Status(worker.graph).latest}) \in 0..MaxRow
    BY <2>1, <2>2, MinFacts
  <2> QED
    BY <1>19, <2>3 DEF WorkerAdvance, Advance, ghosts
<1>20. CASE WorkerSave
  <2>1. Largest(worker.batch, 0) \in 0..MaxRow
    BY LargestFacts, ReviewAssumption
  <2> QED
    BY <1>20, <2>1 DEF WorkerSave, Idle, ghosts
<1>21. CASE WorkerCrash
  BY <1>21 DEF WorkerCrash, Idle, Fault, ghosts
<1>22. CASE Analyse
  <2>1. analysed' \in [some : BOOLEAN, cursor : 0..MaxRow, again : BOOLEAN, slip : BOOLEAN]
    BY <1>2, <1>22 DEF Analyse, Report
  <2>2. faults' \in Nat
    BY <1>22 DEF Analyse, PluginFires, Fault
  <2> QED
    BY <1>2, <1>22, <2>1, <2>2 DEF Analyse, Remember, ghosts
<1>23. CASE AnalysisSkips
  BY <1>2, <1>23 DEF AnalysisSkips, Remember, ghosts
<1>24. CASE AnalysisBlind
  <2>1. Largest(mem[Serving], 0) \in 0..MaxRow /\ 0 \in 0..MaxRow
    <3>1. mem[Serving] \in SUBSET Rows /\ 0 \in 0..MaxRow
      BY <1>0, <1>2, ReviewAssumption
    <3> QED
      BY <3>1, LargestFacts
  <2>2. analysed' \in [some : BOOLEAN, cursor : 0..MaxRow, again : BOOLEAN, slip : BOOLEAN]
    <3>1. ASSUME Report(Largest(mem[Serving], 0), TRUE)
          PROVE  analysed' \in [some : BOOLEAN, cursor : 0..MaxRow, again : BOOLEAN,
                                slip : BOOLEAN]
      BY <2>1, <3>1 DEF Report
    <3> QED
      BY <1>24, <3>1 DEF AnalysisBlind
  <2> QED
    BY <1>24, <2>1, <2>2 DEF AnalysisBlind, Remember, Fault, ghosts
<1>25. CASE UNCHANGED vars
  BY <1>25 DEF vars, ghosts
<1>26. CASE AnalysisRaises
  BY <1>2, <1>26 DEF AnalysisRaises, Remember, Fault, ghosts
<1> QED
  BY <1>3, <1>4, <1>5, <1>6, <1>7, <1>8, <1>9, <1>10, <1>11, <1>12, <1>13, <1>14, <1>15, <1>16,
     <1>17, <1>18, <1>19, <1>20, <1>21, <1>22, <1>23, <1>24, <1>25, <1>26, Actions

-----------------------------------------------------------------------------
(* Copies of the graph and cursors.                                        *)

\* A gateway's copy changes when a request is recorded and at its start.
LEMMA MemStep ==
    ASSUME TypeOK, MemInv, [Next]_vars
    PROVE  /\ MemInv'
           /\ mem[Serving] \subseteq mem'[Serving]
           /\ \A i \in mem'[Serving] \ mem[Serving] : i \in Rows /\ \A j \in mem[Serving] : j < i
<1>0. Serving \in Gateways /\ mem \in [Gateways -> SUBSET Rows]
  BY ReviewAssumption DEF TypeOK
<1>1. CASE UNCHANGED mem
  BY <1>1 DEF MemInv
<1>2. CASE Record
  <2>1. PICK i \in Rows : /\ mem' = [mem EXCEPT ![Serving] = @ \union {i}]
                          /\ \A j \in mem[Serving] : j < i
    BY <1>2, RecordFacts
  <2>2. /\ mem'[Serving] = mem[Serving] \union {i}
        /\ \A g \in Gateways \ {Serving} : mem'[g] = mem[g]
    BY <1>0, <2>1
  <2>3. \A r \in Rows : r \in Nat
    BY ReviewAssumption DEF Rows
  <2>4. \A g \in Gateways : \A j \in mem[g] : ~(i <= j)
    BY <1>0, <2>1, <2>3 DEF MemInv
  <2>5. MemInv'
    <3>1. ASSUME NEW g \in Gateways, NEW a \in mem'[Serving], NEW b \in mem'[g], a <= b
          PROVE  a \in mem'[g]
      <4>1. CASE g = Serving
        BY <3>1, <4>1
      <4>2. CASE g # Serving
        <5>1. mem'[g] = mem[g] /\ a # i
          BY <2>2, <2>4, <3>1, <4>2
        <5> QED
          BY <2>2, <3>1, <5>1 DEF MemInv
      <4> QED
        BY <4>1, <4>2
    <3>2. \A g \in Gateways : mem'[g] \subseteq mem'[Serving]
      BY <2>2 DEF MemInv
    <3> QED
      BY <3>1, <3>2 DEF MemInv
  <2> QED
    BY <2>1, <2>2, <2>5
<1>3. ASSUME NEW g \in Gateways, GatewayRestart(g)
      PROVE  MemInv' /\ mem'[Serving] = mem[Serving]
  <2>1. mem' = [mem EXCEPT ![g] = mem[Serving]]
    BY <1>3, AllRecorded DEF GatewayRestart
  <2>2. mem'[g] = mem[Serving] /\ \A h \in Gateways \ {g} : mem'[h] = mem[h]
    BY <1>0, <2>1
  <2>3. mem'[Serving] = mem[Serving]
    BY <1>0, <2>2
  <2> QED
    BY <2>2, <2>3 DEF MemInv
<1>4. UNCHANGED mem \/ Record \/ \E g \in Gateways : GatewayRestart(g)
  BY Actions DEF vars, AdminRead, AdminWrite, Poll, PollFails, StartRun, Judge, Fail, SaveHealth,
     CheckpointRead, CheckpointCas, ExpireRun, WakeUp, LoopRestart, WorkerLoad, WorkerAlert,
     WorkerReview, WorkerAdvance, WorkerSave, WorkerCrash, Analyse, AnalysisSkips, AnalysisRaises,
      AnalysisBlind
<1> QED
  BY <1>1, <1>2, <1>3, <1>4

\* Every step leaves the cursors on recorded requests.
LEMMA CursorStep ==
    ASSUME TypeOK, MemInv, CursorInv, [Next]_vars
    PROVE  CursorInv'
<1> USE DEF CursorInv, Cursors
<1>0. Serving \in Gateways /\ ckpt \in 0..MaxRow /\ \A g \in Gateways : mem[g] \in SUBSET Rows
  BY ReviewAssumption DEF TypeOK
<1>1. \A g \in Gateways : Status(mem[g]).latest \in Cursors
  <2>1. ASSUME NEW g \in Gateways
        PROVE  Status(mem[g]).latest \in Cursors
    <3>1. Status(mem[g]).latest \in mem[g] \union {ckpt}
      BY <1>0, StatusFacts
    <3> QED
      BY <3>1 DEF MemInv
  <2> QED
    BY <2>1
<1>2. mem[Serving] \subseteq mem'[Serving]
  BY MemStep
<1>3. Largest(worker.batch, 0) \in Cursors
  <2>1. worker.batch \in SUBSET Rows /\ 0 \in 0..MaxRow
    BY ReviewAssumption DEF TypeOK
  <2>2. Largest(worker.batch, 0) \in worker.batch \union {0}
    BY <2>1, LargestFacts
  <2> QED
    BY <2>2
<1>4. CASE UNCHANGED <<ckpt, fileCkpt, seen, run, admin, worker>>
  BY <1>2, <1>4
<1>5. ASSUME NEW g \in Gateways, AdminRead(g)
      PROVE  CursorInv'
  BY <1>1, <1>2, <1>5 DEF AdminRead
<1>6. CASE AdminWrite
  BY <1>2, <1>6 DEF AdminWrite, Advance, TypeOK
<1>7. CASE StartRun
  BY <1>0, <1>1, <1>2, <1>7 DEF StartRun
<1>8. CASE CheckpointCas
  BY <1>2, <1>8 DEF CheckpointCas, Advance, Target, TypeOK
<1>9. CASE ExpireRun
  BY <1>2, <1>9 DEF ExpireRun, TypeOK
<1>10. CASE WorkerLoad
  <2>1. PICK since \in IF Lookback THEN Recorded ELSE {0} :
          worker' = [pc |-> "alert", graph |-> Recorded,
                     batch |-> Sample({i \in {j \in Recorded : j > fileCkpt} : i >= since})]
    BY <1>10 DEF WorkerLoad
  <2>2. Sample({i \in {j \in Recorded : j > fileCkpt} : i >= since}) \subseteq Recorded
    BY SampleFacts
  <2> QED
    BY <1>2, <1>10, <2>1, <2>2, AllRecorded DEF WorkerLoad
<1>11. CASE WorkerAlert \/ WorkerReview
  BY <1>2, <1>11 DEF WorkerAlert, WorkerReview, TypeOK
<1>12. CASE WorkerAdvance
  <2>1. Status(worker.graph).latest \in worker.graph \union {ckpt}
    BY <1>0, StatusFacts DEF TypeOK
  <2>2. Status(worker.graph).latest \in Nat /\ Largest(worker.batch, 0) \in Nat
    <3>1. worker.batch \in SUBSET Rows /\ worker.graph \in SUBSET Rows /\ 0 \in 0..MaxRow
      BY ReviewAssumption DEF TypeOK
    <3>2. Status(worker.graph).latest \in 0..MaxRow /\ Largest(worker.batch, 0) \in 0..MaxRow
      BY <1>0, <3>1, StatusFacts, LargestFacts
    <3> QED
      BY <3>2
  <2>3. Min({Largest(worker.batch, 0), Status(worker.graph).latest}) \in Cursors
    BY <1>3, <2>1, <2>2, MinFacts
  <2> QED
    BY <1>2, <1>12, <2>3 DEF WorkerAdvance, Advance, TypeOK
<1>13. CASE WorkerSave
  BY <1>2, <1>3, <1>13 DEF WorkerSave, Idle
<1>14. CASE WorkerCrash
  BY <1>2, <1>14 DEF WorkerCrash, Idle
<1>15. CASE Analyse \/ AnalysisSkips \/ AnalysisRaises \/ AnalysisBlind
  BY <1>0, <1>1, <1>2, <1>15
  DEF Analyse, AnalysisSkips, AnalysisRaises, AnalysisBlind, Remember
<1> QED
  BY <1>4, <1>5, <1>6, <1>7, <1>8, <1>9, <1>10, <1>11, <1>12, <1>13, <1>14, <1>15, Actions
  DEF vars, Record, GatewayRestart, Poll, PollFails, Judge, Fail, SaveHealth, CheckpointRead,
      WakeUp, LoopRestart

-----------------------------------------------------------------------------
(* What has been handled.                                                  *)

\* New requests are not behind a cursor, so what was stays as long as the set
\* does not shrink.
LEMMA StaysBehind ==
    ASSUME TypeOK, MemInv, [Next]_vars, NEW c \in Cursors, NEW S, NEW T, Behind(c, S), S \subseteq T
    PROVE  \A i \in mem'[Serving] : i <= c => i \in T
<1> SUFFICES ASSUME NEW i \in mem'[Serving], i <= c
             PROVE  i \in T
  OBVIOUS
<1>1. CASE i \in mem[Serving]
  BY <1>1 DEF Behind
<1>2. CASE i \notin mem[Serving]
  <2>1. i \in Rows /\ \A j \in mem[Serving] : j < i
    BY <1>2, MemStep
  <2>2. i \in Nat /\ i > 0 /\ mem[Serving] \in SUBSET Nat
    BY <2>1, ReviewAssumption DEF Rows, TypeOK
  <2>3. c < i
    BY <2>1, <2>2 DEF Cursors
  <2> QED
    BY <2>2, <2>3 DEF Cursors
<1> QED
  BY <1>1, <1>2

\* The requests between the checkpoint and a status's newest are in its window,
\* or have faded.
LEMMA WindowBehind ==
    ASSUME TypeOK, MemInv, NEW g \in Gateways, Behind(ckpt, Handled)
    PROVE  Behind(Status(mem[g]).latest, Handled \union Status(mem[g]).after)
<1>0. /\ Serving \in Gateways /\ mem[Serving] \in SUBSET Rows /\ mem[g] \in SUBSET Rows
      /\ ckpt \in 0..MaxRow /\ Rows \subseteq Nat
  BY ReviewAssumption DEF TypeOK, Rows
<1>1. /\ Status(mem[g]).after =
           {i \in mem[g] : i > ckpt /\ (i \in Active \/ i \notin Unbilled)}
      /\ Status(mem[g]).latest \in Status(mem[g]).after \union {ckpt}
  BY <1>0, StatusFacts
<1> SUFFICES ASSUME NEW i \in mem[Serving], i <= Status(mem[g]).latest, ~(i <= ckpt),
                    i \notin Faded
             PROVE  i \in Status(mem[g]).after
  BY DEF Behind, Handled
<1>2. Status(mem[g]).latest # ckpt
  OBVIOUS
<1>3. Status(mem[g]).latest \in mem[g]
  BY <1>1, <1>2
<1>4. i \in mem[g]
  BY <1>3 DEF MemInv
<1>5. i \in Nat /\ ckpt \in Nat
  <2>1. i \in Rows /\ ckpt \in 0..MaxRow
    BY <1>0
  <2> QED
    BY <2>1, ReviewAssumption DEF Rows
<1>6. i > ckpt
  BY <1>5
<1>7. i \in Active \/ i \notin Unbilled
  BY DEF Faded
<1> QED
  BY <1>1, <1>4, <1>6, <1>7

\* A request that has left the active window does not come back.
LEMMA FadedGrows ==
    ASSUME TypeOK, MemInv, [Next]_vars
    PROVE  Faded \subseteq Faded'
<1>1. /\ Recorded = mem[Serving] /\ mem[Serving] \in SUBSET Rows
      /\ mem[Serving] \subseteq mem'[Serving]
  BY AllRecorded, MemStep
<1>2. Recorded' = mem'[Serving] /\ mem'[Serving] \in SUBSET Rows
  <2>1. MemInv'
    BY MemStep
  <2>2. mem'[Serving] \subseteq Rows
    BY <1>1, MemStep
  <2>3. \A g \in Gateways : mem'[g] \subseteq mem'[Serving]
    BY <2>1 DEF MemInv
  <2> QED
    BY <2>2, <2>3, ReviewAssumption DEF Recorded
<1> SUFFICES ASSUME NEW i \in mem[Serving], i \in Active'
             PROVE  i \in Active
  BY <1>1 DEF Faded
<1> DEFINE S == {f \in mem[Serving] : f >= i}
           T == {f \in mem'[Serving] : f >= i}
<1>3. Cardinality(T) <= MaxActive
  BY <1>2 DEF Active, Newest
<1>4. S \subseteq T /\ T \subseteq Rows
  BY <1>1, <1>2
<1>5. IsFiniteSet(Rows)
  BY ReviewAssumption, FS_Interval DEF Rows
<1> HIDE DEF S, T
<1>6. IsFiniteSet(T)
  BY <1>4, <1>5, FS_Subset
<1>7. IsFiniteSet(S) /\ Cardinality(S) <= Cardinality(T)
  BY <1>4, <1>6, FS_Subset
<1>8. Cardinality(S) \in Nat /\ Cardinality(T) \in Nat
  BY <1>6, <1>7, FS_CardinalityType
<1>9. Cardinality(S) <= MaxActive
  BY <1>3, <1>7, <1>8, ReviewAssumption
<1> QED
  BY <1>1, <1>9 DEF S, Active, Newest

\* The newest request is in the active window: a status of the serving gateway
\* is up to date.
LEMMA LatestOfAll ==
    ASSUME TypeOK, MemInv
    PROVE  \A i \in mem[Serving] : i <= Status(mem[Serving]).latest
<1>0. Recorded = mem[Serving] /\ mem[Serving] \in SUBSET Rows
  BY AllRecorded
<1>1. mem[Serving] \in SUBSET Nat /\ IsFiniteSet(mem[Serving])
  <2>1. IsFiniteSet(Rows) /\ Rows \subseteq Nat
    BY ReviewAssumption, FS_Interval DEF Rows
  <2> QED
    BY <1>0, <2>1, FS_Subset
<1>2. ckpt \in 0..MaxRow /\ ckpt \in Nat
  <2>1. ckpt \in 0..MaxRow
    BY DEF TypeOK
  <2> QED
    BY <2>1, ReviewAssumption
<1>3. /\ Status(mem[Serving]).after =
           {i \in mem[Serving] : i > ckpt /\ (i \in Active \/ i \notin Unbilled)}
      /\ ckpt <= Status(mem[Serving]).latest
      /\ Status(mem[Serving]).latest \in 0..MaxRow
      /\ \A i \in Status(mem[Serving]).after : i <= Status(mem[Serving]).latest
  BY <1>0, <1>2, StatusFacts
<1> DEFINE latest == Status(mem[Serving]).latest
<1>4. CASE mem[Serving] # {}
  <2>1. PICK x \in mem[Serving] : \A y \in mem[Serving] : y <= x
    BY <1>1, <1>4, Greatest
  <2>2. {f \in Recorded : f >= x} = {x}
    <3>1. \A f \in mem[Serving] : f \in Nat /\ (f >= x => f = x)
      BY <1>1, <2>1
    <3> QED
      BY <1>0, <1>1, <3>1
  <2>3. Cardinality({x}) = 1
    BY FS_Singleton
  <2>4. x \in Active
    BY <1>0, <2>2, <2>3, ReviewAssumption DEF Active, Newest
  <2>5. latest \in Nat /\ x \in Nat
    BY <1>1, <1>3, ReviewAssumption
  <2>6. x <= latest
    <3>1. CASE x > ckpt
      BY <1>3, <2>4, <3>1
    <3>2. CASE ~(x > ckpt)
      <4> HIDE DEF latest
      <4>1. ckpt <= latest
        BY <1>3 DEF latest
      <4> QED
        BY <1>2, <2>5, <3>2, <4>1
    <3> QED
      BY <3>1, <3>2
  <2> HIDE DEF latest
  <2>7. \A i \in mem[Serving] : i \in Nat /\ i <= x
    BY <1>1, <2>1
  <2>8. \A i \in mem[Serving] : i <= latest
    BY <2>5, <2>6, <2>7
  <2> QED
    BY <2>8 DEF latest
<1> QED
  BY <1>4

\* Every step keeps what is behind the worker's file.
LEMMA WorkerKept ==
    ASSUME TypeOK, MemInv, CursorInv, WorkerInv, [Next]_vars
    PROVE  WorkerInv'
<1> DEFINE e == Largest(worker.batch, 0)
<1>0. /\ Serving \in Gateways /\ mem[Serving] \in SUBSET Rows /\ worker.batch \in SUBSET Rows
      /\ fileCkpt \in 0..MaxRow /\ Rows \subseteq Nat /\ 0 \in 0..MaxRow
  BY ReviewAssumption DEF TypeOK, Rows
<1>1. e \in worker.batch \union {0} /\ \A i \in worker.batch : i <= e
  BY <1>0, LargestFacts
<1>2. fileCkpt \in Cursors /\ e \in Cursors
  BY <1>1 DEF CursorInv, Cursors
<1> HIDE DEF e
<1>3. CASE UNCHANGED <<worker, fileCkpt, alerted, cut>>
  <2>1. Behind(fileCkpt, alerted \union cut)'
    BY <1>2, <1>3, StaysBehind DEF WorkerInv, Behind
  <2>2. worker.pc # "idle" => Behind(e, alerted \union cut \union worker.batch)'
    <3>1. worker.pc # "idle" => Behind(e, alerted \union cut \union worker.batch) /\ e' = e
      BY <1>3 DEF WorkerInv, e
    <3> QED
      BY <1>2, <1>3, <3>1, StaysBehind DEF Behind
  <2> QED
    BY <1>3, <2>1, <2>2 DEF WorkerInv, e
<1>4. CASE WorkerLoad
  <2> DEFINE events == {i \in mem[Serving] : i > fileCkpt}
  <2>1. PICK since \in IF Lookback THEN Recorded ELSE {0} :
          /\ worker' = [pc |-> "alert", batch |-> Sample({i \in events : i >= since}),
                        graph |-> mem[Serving]]
          /\ cut' = cut \union (events \ Sample({i \in events : i >= since}))
    BY <1>4, AllRecorded DEF WorkerLoad
  <2>2. \A i \in mem[Serving] : i <= fileCkpt \/ i \in events
    <3>1. fileCkpt \in Nat /\ \A i \in mem[Serving] : i \in Nat
      <4>1. fileCkpt \in 0..MaxRow /\ \A i \in mem[Serving] : i \in Rows
        BY <1>0
      <4> QED
        BY <4>1, ReviewAssumption DEF Rows
    <3>2. \A i \in mem[Serving] : i <= fileCkpt \/ i > fileCkpt
      BY <3>1
    <3> QED
      BY <3>2
  <2> HIDE DEF events
  <2>3. UNCHANGED <<mem, fileCkpt, alerted>>
    BY <1>4 DEF WorkerLoad
  <2>4. worker'.pc = "alert" /\ cut \subseteq cut' /\ events \subseteq cut' \union worker'.batch
    BY <2>1
  <2>5. \A i \in mem[Serving] : i \in alerted \union cut' \union worker'.batch
    BY <2>2, <2>4 DEF WorkerInv, Behind
  <2> QED
    BY <2>3, <2>4, <2>5 DEF WorkerInv, Behind
<1>5. CASE WorkerAlert
  <2>1. /\ worker.pc = "alert" /\ worker' = [worker EXCEPT !.pc = "review"]
        /\ alerted' = alerted \union worker.batch /\ UNCHANGED <<mem, fileCkpt, cut>>
    BY <1>5 DEF WorkerAlert
  <2>2. worker'.pc = "review" /\ worker'.batch = worker.batch
    BY <2>1 DEF TypeOK
  <2> QED
    BY <2>1, <2>2 DEF WorkerInv, Behind
<1>6. CASE WorkerReview \/ WorkerAdvance
  <2>1. /\ worker.pc \in {"review", "advance"} /\ UNCHANGED <<mem, fileCkpt, cut, alerted>>
        /\ worker'.pc \in {"advance", "save"} /\ worker'.batch = worker.batch
    BY <1>6 DEF WorkerReview, WorkerAdvance, ghosts, TypeOK
  <2> QED
    BY <2>1 DEF WorkerInv, Behind
<1>7. CASE WorkerSave
  <2>1. /\ worker.pc = "save" /\ worker'.pc = "idle" /\ fileCkpt' = e
        /\ UNCHANGED <<mem, cut, alerted>>
    BY <1>7 DEF WorkerSave, Idle, ghosts, e
  <2>2. Behind(e, alerted \union cut)
    BY <2>1 DEF WorkerInv, Behind, e
  <2> QED
    BY <2>1, <2>2 DEF WorkerInv, Behind
<1>8. CASE WorkerCrash
  BY <1>8 DEF WorkerCrash, Idle, ghosts, WorkerInv, Behind
<1> QED
  BY <1>3, <1>4, <1>5, <1>6, <1>7, <1>8, Actions
  DEF vars, ghosts, Record, GatewayRestart, AdminRead, AdminWrite, Poll, PollFails, StartRun,
      Judge, Fail, SaveHealth, CheckpointRead, CheckpointCas, ExpireRun, WakeUp, LoopRestart,
      Analyse, AnalysisSkips, AnalysisRaises,
      AnalysisBlind

\* Handled requests stay so.
LEMMA HandledGrows ==
    ASSUME TypeOK, MemInv, [Next]_vars
    PROVE  reviewed \subseteq reviewed' /\ Handled \subseteq Handled'
<1>1. /\ reviewed \subseteq reviewed' /\ alerted \subseteq alerted'
      /\ acked \subseteq acked' /\ cut \subseteq cut'
  BY Actions
  DEF vars, ghosts, Record, GatewayRestart, AdminRead, AdminWrite, Poll, PollFails, StartRun,
      Judge, Verdict, Fail, SaveHealth, CheckpointRead, CheckpointCas, ExpireRun, WakeUp,
      LoopRestart, WorkerLoad, WorkerAlert, WorkerReview, WorkerAdvance, WorkerSave, WorkerCrash,
      Analyse, AnalysisSkips, AnalysisRaises, AnalysisBlind
<1>2. Faded \subseteq Faded'
  BY FadedGrows
<1> QED
  BY <1>1, <1>2 DEF Handled

\* Every step keeps what is behind the checkpoint.
LEMMA PassKept ==
    ASSUME TypeOK, MemInv, CursorInv, PassInv, WorkerInv, [Next]_vars
    PROVE  PassInv'
<1>0. /\ Serving \in Gateways /\ mem[Serving] \in SUBSET Rows /\ Rows \subseteq Nat
      /\ ckpt \in Cursors /\ run.target \in Cursors /\ admin.cursor \in Cursors
  BY ReviewAssumption DEF TypeOK, Rows, CursorInv
<1>1. Handled \subseteq Handled' /\ reviewed \subseteq reviewed'
  BY HandledGrows
<1>2. Behind(ckpt, Handled) /\ Behind(run.target, Handled \union run.evidence)
  BY DEF PassInv
<1>3. \A i \in mem'[Serving] : i <= ckpt => i \in Handled'
  BY <1>0, <1>1, <1>2, StaysBehind
<1>4. \A i \in mem'[Serving] : i <= run.target => i \in Handled' \union run.evidence
  <2>1. Handled \union run.evidence \subseteq Handled' \union run.evidence
    BY <1>1
  <2> QED
    BY <1>0, <1>2, <2>1, StaysBehind
<1>5. ASSUME admin.pc = "write"
      PROVE  \A i \in mem'[Serving] : i <= admin.cursor => i \in Handled'
  BY <1>0, <1>1, <1>5, StaysBehind DEF PassInv
<1>6. loop.pc \in {"succeeded", "checkpoint", "cas"} => run.evidence \subseteq reviewed'
  BY <1>1 DEF PassInv
<1>7. CASE UNCHANGED <<ckpt, run, admin, loop>>
  BY <1>3, <1>4, <1>5, <1>6, <1>7 DEF PassInv, Behind
<1>8. ASSUME NEW g \in Gateways, AdminRead(g)
      PROVE  PassInv'
  <2>1. /\ admin' = [pc |-> "write", gw |-> g, cursor |-> Status(mem[g]).latest]
        /\ acked' = acked \union Status(mem[g]).after
        /\ UNCHANGED <<mem, ckpt, run, loop, reviewed, alerted, cut>>
    BY <1>8 DEF AdminRead
  <2>2. Behind(Status(mem[g]).latest, Handled \union Status(mem[g]).after)
    BY <1>2, WindowBehind
  <2>3. Handled \union Status(mem[g]).after \subseteq Handled'
    <3>1. acked' \subseteq Handled' /\ Status(mem[g]).after \subseteq acked'
      BY <2>1 DEF Handled
    <3> QED
      BY <1>1, <3>1
  <2> QED
    BY <1>3, <1>4, <1>6, <2>1, <2>2, <2>3 DEF PassInv, Behind
<1>9. CASE AdminWrite
  <2>1. /\ admin.pc = "write" /\ admin'.pc = "idle" /\ ckpt' = admin.cursor
        /\ UNCHANGED <<run, loop>>
    BY <1>9 DEF AdminWrite, Advance, TypeOK
  <2> QED
    BY <1>4, <1>5, <1>6, <2>1 DEF PassInv, Behind
<1>10. CASE StartRun
  <2>1. /\ run'.target = Status(mem[Serving]).latest /\ run'.evidence = Status(mem[Serving]).after
        /\ loop'.pc = "model" /\ UNCHANGED <<mem, ckpt, admin>>
    BY <1>10 DEF StartRun, Goto, TypeOK
  <2>2. Behind(Status(mem[Serving]).latest, Handled \union Status(mem[Serving]).after)
    BY <1>0, <1>2, WindowBehind
  <2>3. Handled \union Status(mem[Serving]).after \subseteq Handled' \union run'.evidence
    BY <1>1, <2>1
  <2> QED
    BY <1>3, <1>5, <2>1, <2>2, <2>3 DEF PassInv, Behind
<1>11. CASE Judge
  <2>1. /\ reviewed' = reviewed \union run.evidence /\ UNCHANGED <<ckpt, run, admin>>
    BY <1>11 DEF Judge, Verdict
  <2> QED
    BY <1>3, <1>4, <1>5, <2>1 DEF PassInv, Behind
<1>12. CASE CheckpointCas
  <2>1. /\ loop.pc = "cas" /\ loop'.pc = "sleep" /\ run'.target = run.target
        /\ run'.evidence = run.evidence
        /\ (ckpt' = ckpt \/ ckpt' = run.target) /\ UNCHANGED admin
    BY <1>12 DEF CheckpointCas, Goto, Advance, Target, TypeOK
  <2>2. run.evidence \subseteq Handled'
    BY <1>6, <2>1 DEF Handled
  <2>3. \A i \in mem'[Serving] : i <= run.target => i \in Handled'
    BY <1>4, <2>2
  <2>4. UNCHANGED admin
    BY <1>12 DEF CheckpointCas
  <2> QED
    BY <1>3, <1>5, <2>1, <2>2, <2>3, <2>4 DEF PassInv, Behind
<1>13. CASE ExpireRun
  <2>1. /\ run'.target = run.target /\ run'.evidence = run.evidence
        /\ UNCHANGED <<ckpt, admin, loop>>
    BY <1>13 DEF ExpireRun, TypeOK
  <2> QED
    BY <1>3, <1>4, <1>5, <1>6, <2>1 DEF PassInv, Behind
<1>14. CASE WorkerAdvance
  <2> DEFINE e == Largest(worker.batch, 0)
  <2>1. /\ e \in 0..MaxRow /\ e \in Cursors
    <3>1. worker.batch \in SUBSET Rows /\ 0 \in 0..MaxRow /\ worker.batch \subseteq mem[Serving]
      BY ReviewAssumption DEF TypeOK, CursorInv
    <3>2. e \in 0..MaxRow /\ e \in worker.batch \union {0}
      BY <3>1, LargestFacts
    <3> QED
      BY <3>1, <3>2 DEF Cursors
  <2>2. Status(worker.graph).latest \in 0..MaxRow
    BY StatusFacts DEF TypeOK
  <2>3. /\ worker.pc = "advance" /\ UNCHANGED <<mem, run, admin, loop>>
        /\ ckpt' = Min({e, Status(worker.graph).latest})
    BY <1>14 DEF WorkerAdvance, Advance
  <2>4. Behind(e, Handled)
    <3> HIDE DEF e
    <3>1. Behind(e, alerted \union cut \union worker.batch) /\ worker.batch \subseteq alerted
      BY <2>3 DEF WorkerInv, e
    <3> QED
      BY <3>1 DEF Behind, Handled
  <2> HIDE DEF e
  <2>5. ckpt' \in Nat /\ ckpt' <= e /\ e \in Nat
    BY <2>1, <2>2, <2>3, MinFacts
  <2>6. \A i \in mem[Serving] : i <= ckpt' => i <= e
    <3>1. \A i \in mem[Serving] : i \in Nat
      BY <1>0
    <3> QED
      BY <2>5, <3>1
  <2>7. Behind(ckpt', Handled)
    BY <2>4, <2>6 DEF Behind
  <2> QED
    BY <1>1, <1>4, <1>5, <1>6, <2>3, <2>7 DEF PassInv, Behind
<1>15. CASE UNCHANGED <<ckpt, run, admin>>
            /\ (loop'.pc \in {"succeeded", "checkpoint", "cas"} =>
                  loop.pc \in {"succeeded", "checkpoint", "cas"})
  BY <1>3, <1>4, <1>5, <1>6, <1>15 DEF PassInv, Behind
<1>16. ASSUME Poll \/ PollFails \/ Fail \/ SaveHealth \/ CheckpointRead \/ WakeUp \/ LoopRestart
       PROVE  UNCHANGED <<ckpt, run, admin>>
              /\ (loop'.pc \in {"succeeded", "checkpoint", "cas"} =>
                    loop.pc \in {"succeeded", "checkpoint", "cas"})
  <2>1. UNCHANGED <<ckpt, run, admin>>
    BY <1>16 DEF Poll, PollFails, Fail, SaveHealth, CheckpointRead, WakeUp, LoopRestart
  <2>2. CASE Poll \/ PollFails
    BY <2>1, <2>2 DEF Poll, PollFails, Goto, TypeOK
  <2>3. CASE Fail
    <3>1. loop'.pc = "failed"
      BY <2>3 DEF Fail, TypeOK
    <3> QED
      BY <2>1, <3>1
  <2>4. CASE SaveHealth
    <3>1. loop.pc = "succeeded" \/ loop'.pc \in {"stopped", "sleep"}
      BY <2>4 DEF SaveHealth, TypeOK
    <3> QED
      BY <2>1, <3>1
  <2>5. CASE CheckpointRead
    BY <2>1, <2>5 DEF CheckpointRead
  <2>6. CASE WakeUp
    <3>1. loop'.pc = "status"
      BY <2>6 DEF WakeUp, TypeOK
    <3> QED
      BY <2>1, <3>1
  <2>7. CASE LoopRestart
    <3>1. loop'.pc = "status"
      BY <2>7 DEF LoopRestart
    <3> QED
      BY <2>1, <3>1
  <2> QED
    BY <1>16, <2>2, <2>3, <2>4, <2>5, <2>6, <2>7
<1> QED
  BY <1>7, <1>8, <1>9, <1>10, <1>11, <1>12, <1>13, <1>14, <1>15, <1>16, Actions
  DEF vars, Record, GatewayRestart, WorkerLoad, WorkerAlert, WorkerReview, WorkerSave,
      WorkerCrash, Analyse, AnalysisSkips, AnalysisRaises,
      AnalysisBlind

-----------------------------------------------------------------------------
(* The comparison, the breaker and the analysis loop.                      *)

\* Every step keeps that a comparison that will succeed moves the checkpoint.
LEMMA CasKept ==
    ASSUME TypeOK, CasInv, [Next]_vars
    PROVE  CasInv'
<1>1. CASE UNCHANGED <<loop, unread, run, ckpt>>
  BY <1>1 DEF CasInv
<1>2. CASE AdminWrite \/ WorkerAdvance
  BY <1>2 DEF AdminWrite, WorkerAdvance, Advance, CasInv
<1>3. CASE Poll \/ PollFails \/ StartRun \/ Judge \/ Fail \/ SaveHealth \/ CheckpointCas
           \/ WakeUp \/ LoopRestart
  <2>1. loop'.pc # "cas"
    <3>1. CASE Poll \/ PollFails \/ StartRun \/ CheckpointCas
      BY <3>1 DEF Poll, PollFails, StartRun, CheckpointCas, Goto, TypeOK
    <3>2. CASE Judge \/ Fail
      BY <3>2 DEF Judge, Fail, TypeOK
    <3>3. CASE SaveHealth
      BY <3>3 DEF SaveHealth, TypeOK
    <3>4. CASE WakeUp
      BY <3>4 DEF WakeUp, TypeOK
    <3>5. CASE LoopRestart
      BY <3>5 DEF LoopRestart
    <3> QED
      BY <1>3, <3>1, <3>2, <3>3, <3>4, <3>5
  <2> QED
    BY <2>1 DEF CasInv
<1>4. CASE CheckpointRead
  <2>1. CASE run.state = "open" /\ run.target > ckpt
    <3>1. run.state = "open" /\ ckpt < run.target
      BY <2>1, ReviewAssumption DEF TypeOK
    <3> QED
      BY <1>4, <3>1 DEF CheckpointRead, CasInv
  <2>2. CASE ~(run.state = "open" /\ run.target > ckpt)
    <3>1. loop'.pc = "sleep"
      BY <1>4, <2>2 DEF CheckpointRead, Goto, TypeOK
    <3> QED
      BY <3>1 DEF CasInv
  <2> QED
    BY <2>1, <2>2
<1>5. CASE ExpireRun
  BY <1>5 DEF ExpireRun, CasInv
<1> QED
  BY <1>1, <1>2, <1>3, <1>4, <1>5, Actions
  DEF vars, Record, GatewayRestart, AdminRead, WorkerLoad, WorkerAlert, WorkerReview,
      WorkerSave, WorkerCrash, Analyse, AnalysisSkips, AnalysisRaises,
      AnalysisBlind

\* Every step keeps what the loop counts.
LEMMA BreakerKept ==
    ASSUME TypeOK, BreakerInv, [Next]_vars
    PROVE  BreakerInv'
<1> USE DEF BreakerInv, BreakerHonest
<1>0. /\ loop.failures \in Nat /\ health.failures \in Nat /\ streak \in Nat
      /\ BreakerMax \in Nat \ {0} /\ loop.terminal \in BOOLEAN
  BY ReviewAssumption DEF TypeOK
<1>1. CASE UNCHANGED <<loop, health, streak>>
  BY <1>1
<1>2. CASE Poll
  <2>1. /\ loop.pc = "status" /\ loop'.pc \in {"sleep", "start"}
        /\ loop'.failures = loop.failures /\ loop'.terminal = loop.terminal
        /\ streak' = streak
    BY <1>2 DEF Poll, Goto, TypeOK
  <2>2. health'.failures \in {health.failures, loop.failures}
    BY <1>2 DEF Poll, TypeOK
  <2> QED
    BY <2>1, <2>2
<1>3. CASE PollFails \/ StartRun \/ CheckpointRead \/ CheckpointCas
  <2>1. /\ loop.pc \in {"status", "failed", "start", "checkpoint", "cas"}
        /\ loop'.pc \in {"ended", "model", "cas", "sleep"}
        /\ loop.pc = "failed" => loop'.pc = "ended"
        /\ loop'.failures = loop.failures /\ loop'.terminal = loop.terminal
        /\ UNCHANGED <<health, streak>>
    BY <1>3 DEF PollFails, StartRun, CheckpointRead, CheckpointCas, Goto, TypeOK
  <2> QED
    BY <2>1
<1>4. CASE Judge
  <2>1. /\ loop.pc = "model" /\ loop'.pc = "succeeded"
        /\ loop'.failures = loop.failures /\ loop'.terminal = loop.terminal
        /\ UNCHANGED <<health, streak>>
    BY <1>4 DEF Judge, TypeOK
  <2> QED
    BY <2>1
<1>5. CASE Fail
  <2>1. /\ loop'.pc = "failed" /\ loop'.failures = loop.failures
        /\ streak' = streak + 1 /\ health' = health
    BY <1>5 DEF Fail, TypeOK
  <2> QED
    BY <1>0, <2>1
<1>6. CASE SaveHealth
  <2>1. CASE loop.pc = "succeeded"
    <3>1. /\ loop'.pc \in {"checkpoint", "sleep"} /\ loop'.failures = 0 /\ loop'.terminal = loop.terminal
          /\ health'.failures = 0 /\ streak' = 0
      BY <1>6, <2>1 DEF SaveHealth, TypeOK
    <3> QED
      BY <2>1, <3>1
  <2>2. CASE loop.pc = "failed"
    <3> DEFINE n == loop.failures + 1
    <3>1. /\ loop'.pc = IF Trips(n) THEN "stopped" ELSE "sleep"
          /\ loop'.failures = n /\ loop'.terminal = loop.terminal
          /\ health'.failures = n /\ (health'.stopped <=> Trips(n)) /\ streak' = streak
      <4>1. loop' = [loop EXCEPT !.failures = n, !.pc = IF Trips(n) THEN "stopped" ELSE "sleep"]
        BY <1>6, <2>2 DEF SaveHealth
      <4>2. health'.failures = n /\ (health'.stopped <=> Trips(n)) /\ streak' = streak
        BY <1>6, <2>2 DEF SaveHealth
      <4> QED
        BY <4>1, <4>2 DEF TypeOK
    <3>2. n <= streak /\ n \in Nat
      BY <1>0, <2>2
    <3> HIDE DEF n
    <3>3. Trips(n) => loop.terminal /\ BreakerEnabled /\ streak >= BreakerMax
      BY <1>0, <3>2 DEF Trips, Breaker
    <3>4. ~Trips(n) /\ loop.terminal /\ BreakerEnabled => n < BreakerMax
      BY <1>0, <3>2 DEF Trips, Breaker
    <3>5. CASE Trips(n)
      BY <3>1, <3>2, <3>3, <3>5
    <3>6. CASE ~Trips(n)
      BY <3>1, <3>2, <3>4, <3>6
    <3> QED
      BY <3>5, <3>6
  <2> QED
    BY <1>6, <2>1, <2>2 DEF SaveHealth
<1>7. CASE WakeUp
  <2>1. /\ loop'.pc = "status" /\ loop'.failures = loop.failures /\ loop'.terminal = FALSE
        /\ UNCHANGED <<health, streak>>
    BY <1>7 DEF WakeUp, TypeOK
  <2> QED
    BY <2>1
<1>8. CASE LoopRestart
  <2>1. /\ loop'.pc = "status" /\ loop'.failures = health.failures /\ loop'.terminal = FALSE
        /\ UNCHANGED <<health, streak>>
    BY <1>8 DEF LoopRestart
  <2> QED
    BY <2>1
<1> QED
  BY <1>1, <1>2, <1>3, <1>4, <1>5, <1>6, <1>7, <1>8, Actions
  DEF vars, Record, GatewayRestart, AdminRead, AdminWrite, ExpireRun, WorkerLoad, WorkerAlert,
      WorkerReview, WorkerAdvance, WorkerSave, WorkerCrash, Analyse, AnalysisSkips, AnalysisRaises,
      AnalysisBlind

\* Every step keeps what the analysis loop remembers.
LEMMA SeenKept ==
    ASSUME TypeOK, MemInv, CursorInv, SeenInv, [Next]_vars
    PROVE  SeenInv'
<1> DEFINE latest == Status(mem[Serving]).latest
<1>0. /\ Serving \in Gateways /\ mem[Serving] \in SUBSET Rows /\ ckpt \in 0..MaxRow
      /\ seen \in mem[Serving] \union {0} /\ seen \in 0..MaxRow /\ analysed.cursor \in 0..MaxRow
      /\ analysed.slip \in BOOLEAN
  BY ReviewAssumption DEF TypeOK, CursorInv, Cursors
<1>1. latest \in 0..MaxRow /\ \A i \in mem[Serving] : i <= latest
  BY <1>0, StatusFacts, LatestOfAll
<1> HIDE DEF latest
<1>2. seen <= latest
  BY <1>0, <1>1, ReviewAssumption
<1>3. /\ latest \in Nat /\ seen \in Nat /\ analysed.cursor \in Nat
      /\ ~forgot => analysed.cursor <= latest
  <2>1. latest \in Nat /\ seen \in Nat /\ analysed.cursor \in Nat
    BY <1>0, <1>1, ReviewAssumption
  <2> QED
    BY <1>2, <2>1 DEF SeenInv
<1>4. CASE UNCHANGED <<analysed, forgot, seen>>
  BY <1>4 DEF SeenInv, RememberedOnce
<1>5. CASE Analyse
  <2>1. /\ analysed'.cursor = latest /\ seen' = latest /\ forgot' = FALSE
        /\ analysed'.slip <=> \/ analysed.slip
                              \/ /\ analysed.some /\ latest = analysed.cursor
                                 /\ latest # 0 /\ ~forgot
    BY <1>5 DEF Analyse, Report, Remember, latest
  <2>2. CASE "analysis" \in Forced
    BY <1>3, <2>1, <2>2 DEF SeenInv, RememberedOnce
  <2>3. CASE "analysis" \notin Forced
    <3>1. latest = 0 \/ latest # seen
      BY <1>5, <2>3 DEF Analyse, NewWindow, latest
    <3>2. ~(latest = analysed.cursor /\ latest # 0 /\ ~forgot)
      BY <1>2, <1>3, <3>1 DEF SeenInv
    <3>3. ~analysed'.slip
      BY <2>1, <2>3, <3>2 DEF SeenInv, RememberedOnce
    <3> QED
      BY <1>3, <2>1, <3>3 DEF SeenInv, RememberedOnce
  <2> QED
    BY <2>2, <2>3
<1>6. CASE AnalysisSkips \/ AnalysisRaises
  <2>1. (seen' = latest \/ seen' = seen) /\ UNCHANGED <<analysed, forgot>>
    BY <1>6 DEF AnalysisSkips, AnalysisRaises, Remember, latest
  <2> QED
    BY <1>3, <2>1 DEF SeenInv, RememberedOnce
<1>7. CASE AnalysisBlind
  <2>1. forgot' = TRUE /\ (analysed' = analysed \/ analysed'.slip = analysed.slip)
    <3>1. ASSUME Report(Largest(mem[Serving], 0), TRUE)
          PROVE  analysed'.slip = analysed.slip
      <4>1. analysed'.slip = (analysed.slip \/ FALSE)
        BY <3>1 DEF Report
      <4> QED
        BY <1>0, <4>1
    <3> QED
      BY <1>7, <3>1 DEF AnalysisBlind
  <2> QED
    BY <2>1 DEF SeenInv, RememberedOnce
<1> QED
  BY <1>4, <1>5, <1>6, <1>7, Actions
  DEF vars, Record, GatewayRestart, AdminRead, AdminWrite, Poll, PollFails, StartRun, Judge, Fail,
      SaveHealth, CheckpointRead, CheckpointCas, ExpireRun, WakeUp, LoopRestart, WorkerLoad,
      WorkerAlert, WorkerReview, WorkerAdvance, WorkerSave, WorkerCrash

-----------------------------------------------------------------------------
(* The theorems.                                                           *)

LEMMA InitHolds == Init => IInv
<1> SUFFICES ASSUME Init
             PROVE  IInv
  OBVIOUS
<1> USE ReviewAssumption DEF Init
<1>1. TypeOK
  <2>1. 0 \in 0..MaxRow
    OBVIOUS
  <2>2. /\ mem \in [Gateways -> SUBSET Rows]
        /\ run \in [state : RunStates, target : 0..MaxRow, evidence : SUBSET Rows,
                    shown : SUBSET Rows]
        /\ admin \in [pc : {"idle", "write"}, gw : Gateways, cursor : 0..MaxRow]
    BY <2>1 DEF RunStates
  <2>3. /\ health \in [failures : Nat, stopped : BOOLEAN]
        /\ analysed \in [some : BOOLEAN, cursor : 0..MaxRow, again : BOOLEAN, slip : BOOLEAN]
        /\ worker \in [pc : {"idle", "alert", "review", "advance", "save"}, batch : SUBSET Rows,
                       graph : SUBSET Rows]
    BY <2>1 DEF Idle
  <2>4. loop \in [pc : {"status", "start", "model", "succeeded", "failed", "checkpoint",
                       "cas", "sleep", "stopped", "ended"},
                 failures : Nat, terminal : BOOLEAN]
    OBVIOUS
  <2> QED
    BY <2>1, <2>2, <2>3, <2>4 DEF TypeOK
<1>2. MemInv /\ CursorInv /\ mem[Serving] = {}
  BY DEF MemInv, CursorInv, Cursors, Idle
<1>3. PassInv /\ WorkerInv
  BY <1>2 DEF PassInv, WorkerInv, Behind, Idle
<1>4. CasInv /\ BreakerInv /\ SeenInv
  BY DEF CasInv, BreakerInv, BreakerHonest, SeenInv, RememberedOnce
<1> QED
  BY <1>1, <1>2, <1>3, <1>4 DEF IInv

\* The invariant holds in every reachable state.
THEOREM InvCorrect == Spec => []IInv
<1>1. IInv /\ [Next]_vars => IInv'
  <2> SUFFICES ASSUME IInv, [Next]_vars
               PROVE  IInv'
    OBVIOUS
  <2>1. TypeOK' /\ MemInv' /\ CursorInv'
    BY TypeStep, MemStep, CursorStep DEF IInv
  <2>2. PassInv' /\ WorkerInv'
    BY PassKept, WorkerKept DEF IInv
  <2>3. CasInv' /\ BreakerInv' /\ SeenInv'
    BY CasKept, BreakerKept, SeenKept DEF IInv
  <2> QED
    BY <2>1, <2>2, <2>3 DEF IInv
<1> QED
  BY InitHolds, <1>1, PTL DEF Spec

\* Every variable keeps its type, and every cursor is one of a request.
THEOREM TypeCorrect == Spec => []TypeOK
<1>1. IInv => TypeOK
  BY DEF IInv
<1> QED
  BY InvCorrect, <1>1, PTL

\* Neither the review checkpoint nor the worker's file passes a request that
\* no judged status counted and no batch held, but for the ways the code has of
\* leaving one out (reviewer_agent.py:286, review_worker.py:60).
THEOREM UnseenCorrect == Spec => []NothingPassedUnseen
<1>1. IInv => NothingPassedUnseen
  BY AllRecorded DEF IInv, PassInv, WorkerInv, Behind, Handled, Faded, NothingPassedUnseen,
     NothingSkipped, AlertedBeforePassed
<1> QED
  BY InvCorrect, <1>1, PTL

\* A completed run moves the checkpoint from below its window to its end, and
\* the model has judged the window (admin_review.py:93).
THEOREM AdvancesCorrect == Spec => RunAdvances
<1>1. IInv /\ [Next]_vars =>
        [run.state # "completed" /\ run'.state = "completed" =>
           /\ run.state = "open"
           /\ ckpt < run.target /\ ckpt' = run.target
           /\ run.evidence \subseteq reviewed]_vars
  <2> SUFFICES ASSUME IInv, Next, run.state # "completed", run'.state = "completed"
               PROVE  /\ run.state = "open"
                      /\ ckpt < run.target /\ ckpt' = run.target
                      /\ run.evidence \subseteq reviewed
    BY DEF vars
  <2>1. CASE CheckpointCas
    <3>1. CasPasses /\ Advance(Target) /\ loop.pc = "cas"
      BY <2>1 DEF CheckpointCas
    <3> QED
      BY <3>1 DEF CasPasses, Advance, Target, IInv, CasInv, PassInv
  <2>2. CASE StartRun
    BY <2>2 DEF StartRun
  <2>3. CASE ExpireRun
    <3>1. run'.state = "expired"
      BY <2>3 DEF ExpireRun, IInv, TypeOK
    <3> QED
      BY <3>1
  <2>4. CASE run' = run
    BY <2>4
  <2> QED
    BY <2>1, <2>2, <2>3, <2>4, Actions
    DEF Record, GatewayRestart, AdminRead, AdminWrite, Poll, PollFails, Judge, Fail, SaveHealth,
        CheckpointRead, WakeUp, LoopRestart, WorkerLoad, WorkerAlert, WorkerReview,
        WorkerAdvance, WorkerSave, WorkerCrash, Analyse, AnalysisSkips, AnalysisRaises,
      AnalysisBlind
<1> QED
  BY InvCorrect, <1>1, PTL DEF Spec, RunAdvances

\* The loop stops at its breaker only after so many failures in a row, counted
\* across restarts (governance_runtime.py:822).
THEOREM BreakerCorrect == Spec => []BreakerHonest
<1>1. IInv => BreakerHonest
  BY DEF IInv, BreakerInv
<1> QED
  BY InvCorrect, <1>1, PTL

\* A loop that is not forced reports no window twice, whatever plugins fire,
\* unless a status request has failed since (governance_runtime.py:714).
THEOREM OnceCorrect == Spec => []RememberedOnce
<1>1. IInv => RememberedOnce
  BY DEF IInv, SeenInv
<1> QED
  BY InvCorrect, <1>1, PTL
=============================================================================
