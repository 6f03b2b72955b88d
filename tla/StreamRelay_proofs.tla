------------------------- MODULE StreamRelay_proofs -------------------------
(***************************************************************************)
(* Theorems about StreamRelay for every size of the queue, length of the   *)
(* response and number of failures.                                        *)
(*                                                                         *)
(*   TypeCorrect      Spec => []TypeOK                                     *)
(*   OrderCorrect     Spec => []NothingDropped                             *)
(*   ChargeCorrect    Spec => []ChargedByUsage                             *)
(*   OutcomeCorrect   Spec => []OutcomeAgrees                              *)
(***************************************************************************)
EXTENDS StreamRelay, TLAPS

-----------------------------------------------------------------------------
(* The inductive invariant.                                                *)

\* Who has ended: the generator knows that nobody listens from the moment it
\* stops sending, it ends after the task, the task holds a final flag only when
\* it has stopped reading, and it ends by an exception only if a store operation
\* raised.
Ends ==
    /\ disconnected <=> cons \in {"detached", "ended"} \cup Over
    /\ cons \in {"ended"} \cup Over => task = "done"
    /\ raised => failures > 0
    /\ terminal.settled \/ terminal.uncertain => task \in {"close", "blocked", "done"}

\* While the client listens, the chunks taken, the chunks queued and the one the
\* task holds are the provider's chunks, in order.
InOrder ==
    /\ NothingDropped
    /\ ~disconnected =>
          /\ \A j \in 1..Len(queue) :
                \/ queue[j] = Len(taken) + j
                \/ queue[j] = 0 /\ j = Len(queue) /\ task = "done"
          /\ task \in {"created", "read"} => Len(taken) + Len(queue) = sent
          /\ task = "put" => Len(taken) + Len(queue) + 1 = sent

\* Nothing is recorded before the generator ends, and a reservation is
\* uncertain from the moment the task knows that the stream is.
Books ==
    /\ usage = metered
    /\ cons \notin Over => history = 0 /\ charges = <<>> /\ idem = "forwarding"
    /\ kind = "upstream" /\ terminal.uncertain /\ failures = 0 /\ cons \notin Over =>
          reservation = "uncertain"
    /\ ChargedByUsage
    /\ OutcomeAgrees

IInv == TypeOK /\ Ends /\ InOrder /\ Books

-----------------------------------------------------------------------------
(* Helpers.                                                                *)

\* What appending to a sequence of chunks and taking its head do.
LEMMA ChunkFacts ==
    ASSUME NEW q \in Seq(Nat), NEW n \in Nat
    PROVE  /\ Append(q, n) \in Seq(Nat)
           /\ Len(q) \in Nat
           /\ Len(Append(q, n)) = Len(q) + 1
           /\ \A j \in 1..Len(q) : Append(q, n)[j] = q[j]
           /\ Append(q, n)[Len(q) + 1] = n
           /\ Len(q) > 0 =>
                 /\ q # <<>>
                 /\ Head(q) \in Nat /\ Head(q) = q[1]
                 /\ Tail(q) \in Seq(Nat)
                 /\ Len(Tail(q)) = Len(q) - 1
                 /\ \A j \in 1..Len(q) - 1 : Tail(q)[j] = q[j + 1]
           /\ q # <<>> => Len(q) > 0
OBVIOUS

\* A single charge.
LEMMA OneCharge ==
    /\ usage \in Nat => <<usage>> # <<>> /\ Len(<<usage>>) = 1 /\ <<usage>>[1] = usage
    /\ Len(<<>>) = 0
OBVIOUS

\* An update of the reservation keeps its type.
LEMMA UpdateTyped ==
    ASSUME NEW state \in States, reservation \in States, failures \in Nat,
           Update(state)
    PROVE  reservation' \in States /\ failures' \in Nat
BY DEF Update

\* So does the update that follows a failure, and it counts the failures.
LEMMA OnUncertainFacts ==
    ASSUME NEW failed \in Nat, NEW states \in SUBSET States, failures \in Nat,
           OnUncertain(failed, states)
    PROVE  /\ kind = "upstream" /\ task' = "close"
           /\ reservation' \in States /\ failures' \in Nat /\ raised' \in BOOLEAN
           /\ failures' >= failures + failed
           /\ raised' => failures' > 0
           /\ failures' = 0 => reservation' = "uncertain"
<1>0. kind = "upstream" /\ task' = "close" /\ failed \in Nat /\ failures \in Nat
  BY DEF OnUncertain
<1>1. CASE /\ failures' = failures + failed
           /\ reservation' = "uncertain" /\ raised' = FALSE
  <2>1. failures' \in Nat /\ failures' >= failures + failed
    BY <1>0, <1>1
  <2>2. reservation' \in States /\ raised' \in BOOLEAN /\ ~raised'
    BY <1>1 DEF States
  <2> QED
    BY <1>0, <1>1, <2>1, <2>2
<1>2. CASE /\ failures' = failures + failed + 1
           /\ reservation' \in states \cup {"uncertain"} /\ raised' = TRUE
  BY <1>2 DEF OnUncertain, States
<1> QED
  BY <1>1, <1>2 DEF OnUncertain

Flags == [settled : BOOLEAN, uncertain : BOOLEAN]

\* A settlement keeps the types of what it writes.
LEMMA SettleTyped ==
    ASSUME charges \in Seq(Nat), usage \in Nat, reservation \in States,
           NEW outcome \in States, Settle(outcome)
    PROVE  charges' \in Seq(Nat) /\ reservation' \in States
<1>1. Append(charges, usage) \in Seq(Nat)
  BY ChunkFacts
<1> QED
  BY <1>1 DEF Settle

\* Setting a flag keeps the flags' type.
LEMMA FlagsTyped ==
    ASSUME terminal \in Flags
    PROVE  /\ [terminal EXCEPT !.uncertain = TRUE] \in Flags
           /\ [terminal EXCEPT !.settled = TRUE] \in Flags
           /\ [terminal EXCEPT !.settled = TRUE, !.uncertain = TRUE] \in Flags
BY DEF Flags

\* The states the code writes are states.
LEMMA StatesKnown ==
    /\ "forwarding" \in States /\ "streaming" \in States /\ "settled" \in States
    /\ "uncertain" \in States /\ "released" \in States
BY DEF States

-----------------------------------------------------------------------------
(* Every step keeps every part of the invariant.                           *)

\* Every step keeps the types.
LEMMA TypeStep ==
    ASSUME TypeOK, [Next]_vars
    PROVE  TypeOK'
<1> USE RelayAssumption DEF TypeOK, Flags, Running, taskVars, consVars
<1>1. CASE Start
  BY <1>1 DEF Start
<1>2. CASE Read
  <2>1. /\ reservation' \in States /\ failures' \in Nat
        /\ raised' \in BOOLEAN /\ task' \in {"read", "put", "close"}
    <3>1. CASE OnUncertain(1, {reservation, "streaming"})
      BY <3>1, OnUncertainFacts, StatesKnown
    <3>2. CASE ~OnUncertain(1, {reservation, "streaming"})
      BY <1>2, <3>2, UpdateTyped, StatesKnown DEF Read, OnChunk
    <3> QED
      BY <3>1, <3>2
  <2>2. terminal' \in Flags
    BY <1>2, FlagsTyped DEF Read, OnChunk, Uncertain
  <2>3. sent' \in Nat /\ metered' \in Nat /\ usage' \in Nat
    BY <1>2 DEF Read, Scan
  <2> QED
    BY <1>2, <2>1, <2>2, <2>3 DEF Read
<1>3. CASE Put
  <2>1. Append(queue, sent) \in Seq(Nat) /\ Len(Append(queue, sent)) = Len(queue) + 1
    BY ChunkFacts
  <2> QED
    BY <1>3, <2>1 DEF Put
<1>4. CASE PutTimesOut
  BY <1>4 DEF PutTimesOut
<1>5. CASE Eof
  <2>1. /\ reservation' \in States /\ failures' \in Nat
        /\ raised' \in BOOLEAN /\ task' = "close"
    <3>1. CASE OnUncertain(1, {reservation, "forwarding"})
      BY <3>1, OnUncertainFacts, StatesKnown
    <3>2. CASE ~OnUncertain(1, {reservation, "forwarding"})
      BY <1>5, <3>2, UpdateTyped, StatesKnown DEF Eof
    <3> QED
      BY <3>1, <3>2
  <2>2. terminal' \in Flags
    BY <1>5, FlagsTyped DEF Eof
  <2> QED
    BY <1>5, <2>1, <2>2 DEF Eof
<1>6. CASE Broken
  <2>1. /\ reservation' \in States /\ failures' \in Nat
        /\ raised' \in BOOLEAN /\ task' = "close"
    BY <1>6, OnUncertainFacts DEF Broken
  <2>2. terminal' \in Flags
    BY <1>6, FlagsTyped DEF Broken, Uncertain
  <2> QED
    BY <1>6, <2>1, <2>2 DEF Broken
<1>7. CASE TaskCancelled
  <2>1. /\ reservation' \in States /\ failures' \in Nat
        /\ raised' \in BOOLEAN /\ task' \in {"close", "done"}
    <3>1. CASE OnUncertain(0, {reservation})
      BY <3>1, OnUncertainFacts
    <3>2. CASE ~OnUncertain(0, {reservation})
      BY <1>7, <3>2 DEF TaskCancelled
    <3> QED
      BY <3>1, <3>2
  <2>2. terminal' \in Flags
    BY <1>7, FlagsTyped DEF TaskCancelled, Uncertain
  <2>3. cancelled' \subseteq {"task", "cons"}
    BY <1>7 DEF TaskCancelled
  <2> QED
    BY <1>7, <2>1, <2>2, <2>3 DEF TaskCancelled
<1>8. CASE Close
  <2>1. queue' \in Seq(Nat) /\ Len(queue') <= Limit
    <3>1. Append(queue, 0) \in Seq(Nat) /\ Len(Append(queue, 0)) = Len(queue) + 1
      BY ChunkFacts
    <3>2. Len(queue) = Limit =>
            Append(Tail(queue), 0) \in Seq(Nat) /\ Len(Append(Tail(queue), 0)) = Limit
      BY ChunkFacts
    <3>3. Len(queue) \in Nat
      BY ChunkFacts
    <3>4. \/ Len(queue) < Limit /\ queue' = Append(queue, 0)
          \/ Len(queue) = Limit /\ queue' \in {queue, Append(Tail(queue), 0)}
      BY <1>8 DEF Close
    <3>5. CASE Len(queue) < Limit /\ queue' = Append(queue, 0)
      BY <3>1, <3>3, <3>5
    <3>6. CASE Len(queue) = Limit /\ queue' \in {queue, Append(Tail(queue), 0)}
      BY <3>2, <3>6
    <3> QED
      BY <3>4, <3>5, <3>6
  <2>2. task' \in {"blocked", "done"}
    BY <1>8 DEF Close
  <2> QED
    BY <1>8, <2>1, <2>2 DEF Close
<1>9. CASE Unblocked
  BY <1>9 DEF Unblocked
<1>10. CASE Get
  <2>1. Len(queue) > 0 /\ Tail(queue) \in Seq(Nat) /\ Head(queue) \in Nat
        /\ Len(Tail(queue)) <= Limit
    BY <1>10, ChunkFacts DEF Get
  <2>2. Append(taken, Head(queue)) \in Seq(Nat)
    BY <2>1, ChunkFacts
  <2>3. taken' \in Seq(Nat) /\ cons' \in {"send", "ended"} /\ disconnected' \in BOOLEAN
    BY <1>10, <2>2 DEF Get
  <2> QED
    BY <1>10, <2>1, <2>3 DEF Get
<1>11. CASE ConsCancelled
  BY <1>11 DEF ConsCancelled, Detach
<1>12. CASE Finalize
  <2>1. PICK outcome \in States : Settle(outcome) /\ idem' = outcome
    BY <1>12 DEF Finalize
  <2>2. charges' \in Seq(Nat) /\ reservation' \in States
    BY <2>1, SettleTyped
  <2> QED
    BY <1>12, <2>1, <2>2 DEF Finalize, Over
<1>17. CASE FinalizeRaises
  <2>1. CASE UNCHANGED <<charges, reservation, idem, history>>
    BY <1>17, <2>1 DEF FinalizeRaises, Over
  <2>2. CASE \E outcome \in States :
               /\ Settle(outcome)
               /\ \/ idem' = idem /\ history' = history
                  \/ idem' = outcome /\ history' \in {history, history + 1}
    <3>1. PICK outcome \in States :
               /\ Settle(outcome)
               /\ \/ idem' = idem /\ history' = history
                  \/ idem' = outcome /\ history' \in {history, history + 1}
      BY <2>2
    <3>2. charges' \in Seq(Nat) /\ reservation' \in States
      BY <3>1, SettleTyped
    <3>3. idem' \in States /\ history' \in Nat
      BY <3>1
    <3> QED
      BY <1>17, <3>2, <3>3 DEF FinalizeRaises, Over
  <2> QED
    BY <1>17, <2>1, <2>2 DEF FinalizeRaises
<1>18. CASE Skip
  BY <1>18 DEF Skip, Over
<1>13. CASE Send
  BY <1>13 DEF Send
<1>14. CASE Leave
  BY <1>14 DEF Leave, Detach
<1>15. CASE Shutdown
  BY <1>15 DEF Shutdown
<1>16. CASE UNCHANGED vars
  BY <1>16 DEF vars
<1> QED
  BY <1>1, <1>2, <1>3, <1>4, <1>5, <1>6, <1>7, <1>8, <1>9, <1>10, <1>11,
     <1>12, <1>13, <1>14, <1>15, <1>16, <1>17, <1>18
     DEF Next, TaskStep, ConsStep, ClientStep

\* Every step keeps the order in which the two ends end.
LEMMA EndsStep ==
    ASSUME TypeOK, Ends, InOrder, [Next]_vars
    PROVE  Ends'
<1> USE RelayAssumption DEF TypeOK, Ends, Over, Running, taskVars, consVars
<1>1. CASE Start
  BY <1>1 DEF Start
<1>2. CASE Read
  BY <1>2 DEF Read, OnChunk, Scan, Update, OnUncertain, Uncertain
<1>3. CASE Put
  BY <1>3 DEF Put
<1>4. CASE PutTimesOut
  BY <1>4 DEF PutTimesOut
<1>5. CASE Eof
  BY <1>5 DEF Eof, Update, OnUncertain
<1>6. CASE Broken
  BY <1>6 DEF Broken, OnUncertain, Uncertain
<1>7. CASE TaskCancelled
  BY <1>7 DEF TaskCancelled, OnUncertain, Uncertain
<1>8. CASE Close
  BY <1>8 DEF Close
<1>9. CASE Unblocked
  BY <1>9 DEF Unblocked
<1>10. CASE Get
  <2>1. Head(queue) = 0 => task = "done"
    <3>1. Len(queue) \in Nat /\ Len(queue) > 0 /\ Head(queue) = queue[1] /\ Len(taken) \in Nat
      BY <1>10, ChunkFacts DEF Get
    <3>2. ~disconnected
      BY <1>10 DEF Get
    <3>3. queue[1] = Len(taken) + 1 \/ (queue[1] = 0 /\ task = "done")
      BY <3>1, <3>2 DEF InOrder
    <3> QED
      BY <3>1, <3>3
  <2> QED
    BY <1>10, <2>1 DEF Get
<1>11. CASE ConsCancelled
  BY <1>11 DEF ConsCancelled, Detach
<1>12. CASE Finalize
  BY <1>12 DEF Finalize, TaskEnded
<1>17. CASE FinalizeRaises
  BY <1>17 DEF FinalizeRaises, TaskEnded
<1>18. CASE Skip
  BY <1>18 DEF Skip
<1>13. CASE Send
  BY <1>13 DEF Send
<1>14. CASE Leave
  BY <1>14 DEF Leave, Detach
<1>15. CASE Shutdown
  BY <1>15 DEF Shutdown
<1>16. CASE UNCHANGED vars
  BY <1>16 DEF vars
<1> QED
  BY <1>1, <1>2, <1>3, <1>4, <1>5, <1>6, <1>7, <1>8, <1>9, <1>10, <1>11,
     <1>12, <1>13, <1>14, <1>15, <1>16, <1>17, <1>18
     DEF Next, TaskStep, ConsStep, ClientStep

\* Every step keeps the chunks in order.
LEMMA OrderStep ==
    ASSUME TypeOK, Ends, InOrder, [Next]_vars
    PROVE  InOrder'
<1>0. cons = "get" => ~disconnected
  BY DEF Ends, Over
<1> HIDE DEF Ends
<1> USE RelayAssumption DEF TypeOK, InOrder, NothingDropped, Running, taskVars, consVars
<1>1. CASE Start
  BY <1>1 DEF Start
<1>2. CASE Read
  BY <1>2 DEF Read, OnChunk, Scan, Update, OnUncertain, Uncertain
<1>3. CASE Put
  <2>1. /\ Len(queue') = Len(queue) + 1
        /\ \A j \in 1..Len(queue) : queue'[j] = queue[j]
        /\ queue'[Len(queue) + 1] = sent
        /\ Len(queue) \in Nat /\ Len(taken) \in Nat
    BY <1>3, ChunkFacts DEF Put
  <2>2. ASSUME ~disconnected, NEW j \in 1..Len(queue')
        PROVE  queue'[j] = Len(taken) + j
    <3>1. CASE j = Len(queue) + 1
      <4>1. Len(taken) + Len(queue) + 1 = sent
        BY <1>3, <2>2 DEF Put
      <4> QED
        BY <2>1, <3>1, <4>1
    <3>2. CASE j \in 1..Len(queue)
      <4>1. queue[j] = Len(taken) + j
        BY <1>3, <2>2, <3>2 DEF Put
      <4> QED
        BY <2>1, <3>2, <4>1
    <3>3. j = Len(queue) + 1 \/ j \in 1..Len(queue)
      <4>1. Len(queue') \in Nat /\ Len(queue) \in Nat /\ Len(queue') = Len(queue) + 1
        BY <2>1
      <4> QED
        BY <4>1
    <3> QED
      BY <3>1, <3>2, <3>3
  <2>3. UNCHANGED <<taken, sent, disconnected>> /\ task = "put" /\ task' = "read"
    BY <1>3 DEF Put
  <2>4. ~disconnected => Len(taken') + Len(queue') = sent'
    BY <2>1, <2>3
  <2> QED
    BY <2>2, <2>3, <2>4
<1>4. CASE PutTimesOut
  BY <1>4 DEF PutTimesOut
<1>5. CASE Eof
  BY <1>5 DEF Eof, Update, OnUncertain
<1>6. CASE Broken
  BY <1>6 DEF Broken, Update, OnUncertain, Uncertain
<1>7. CASE TaskCancelled
  BY <1>7 DEF TaskCancelled, Update, OnUncertain, Uncertain
<1>8. CASE Close
  <2>1. CASE disconnected
    BY <1>8, <2>1 DEF Close
  <2>2. CASE ~disconnected /\ Len(queue) < Limit
    <3>1. /\ Len(queue') = Len(queue) + 1
          /\ \A j \in 1..Len(queue) : queue'[j] = queue[j]
          /\ queue'[Len(queue) + 1] = 0
          /\ Len(queue) \in Nat /\ task' = "done"
      <4>1. queue' = Append(queue, 0) /\ task' = "done"
        BY <1>8, <2>2 DEF Close
      <4> QED
        BY <4>1, ChunkFacts
    <3>2. ASSUME NEW j \in 1..Len(queue')
          PROVE  queue'[j] = Len(taken) + j \/ (queue'[j] = 0 /\ j = Len(queue'))
      <4>1. task = "close"
        BY <1>8 DEF Close
      <4>2. CASE j = Len(queue) + 1
        BY <3>1, <4>2
      <4>3. CASE j \in 1..Len(queue)
        BY <2>2, <3>1, <4>1, <4>3
      <4> QED
        BY <3>1, <4>2, <4>3
    <3> QED
      BY <1>8, <2>2, <3>1, <3>2 DEF Close
  <2>3. CASE ~disconnected /\ Len(queue) = Limit
    BY <1>8, <2>3 DEF Close
  <2> QED
    BY <2>1, <2>2, <2>3, ChunkFacts
<1>9. CASE Unblocked
  <2>1. /\ Len(queue') = Len(queue) + 1
        /\ \A j \in 1..Len(queue) : queue'[j] = queue[j]
        /\ queue'[Len(queue) + 1] = 0
        /\ Len(queue) \in Nat /\ task' = "done"
    BY <1>9, ChunkFacts DEF Unblocked
  <2>2. ASSUME ~disconnected, NEW j \in 1..Len(queue')
        PROVE  queue'[j] = Len(taken) + j \/ (queue'[j] = 0 /\ j = Len(queue'))
    <3>1. CASE j = Len(queue) + 1
      BY <2>1, <3>1
    <3>2. CASE j \in 1..Len(queue)
      BY <1>9, <2>1, <2>2, <3>2 DEF Unblocked
    <3> QED
      BY <2>1, <3>1, <3>2
  <2> QED
    BY <1>9, <2>1, <2>2 DEF Unblocked
<1>10. CASE Get
  <2>1. /\ Len(queue) \in Nat /\ Len(queue) > 0 /\ Len(taken) \in Nat
        /\ Len(queue') = Len(queue) - 1
        /\ \A j \in 1..Len(queue) - 1 : queue'[j] = queue[j + 1]
        /\ Head(queue) = queue[1] /\ Head(queue) \in Nat
    BY <1>10, ChunkFacts DEF Get
  <2>2. ~disconnected
    BY <1>0, <1>10 DEF Get
  <2>3. CASE Head(queue) = 0
    BY <1>10, <2>3 DEF Get
  <2>4. CASE Head(queue) # 0
    <3>1. Head(queue) = Len(taken) + 1
      BY <2>1, <2>2, <2>4
    <3>2. /\ Len(taken') = Len(taken) + 1
          /\ \A j \in 1..Len(taken) : taken'[j] = taken[j]
          /\ taken'[Len(taken) + 1] = Len(taken) + 1
      <4>1. taken' = Append(taken, Len(taken) + 1)
        BY <1>10, <2>4, <3>1 DEF Get
      <4> QED
        BY <2>1, <4>1, ChunkFacts
    <3>3. ASSUME NEW i \in 1..Len(taken')
          PROVE  taken'[i] = i
      <4>1. i \in 1..Len(taken) \/ i = Len(taken) + 1
        BY <2>1, <3>2
      <4> QED
        BY <3>2, <4>1
    <3>4. ASSUME NEW j \in 1..Len(queue')
          PROVE  queue'[j] = Len(taken') + j
                   \/ (queue'[j] = 0 /\ j = Len(queue') /\ task = "done")
      <4>1. j + 1 \in 1..Len(queue) /\ queue'[j] = queue[j + 1]
        BY <2>1
      <4> QED
        BY <2>1, <2>2, <3>2, <4>1
    <3> QED
      <4>1. task' = task /\ sent' = sent /\ disconnected' = disconnected
        BY <1>10, <2>4 DEF Get
      <4>2. \A i \in 1..Len(taken') : taken'[i] = i
        BY <3>3
      <4>3. \A j \in 1..Len(queue') :
               queue'[j] = Len(taken') + j
                 \/ (queue'[j] = 0 /\ j = Len(queue') /\ task = "done")
        BY <3>4
      <4> QED
        <5>0. Len(taken') + Len(queue') = Len(taken) + Len(queue)
          BY <2>1, <3>2
        <5>1. task' \in {"created", "read"} => Len(taken') + Len(queue') = sent'
          BY <2>2, <4>1, <5>0
        <5>2. task' = "put" => Len(taken') + Len(queue') + 1 = sent'
          BY <2>2, <4>1, <5>0
        <5> QED
          BY <4>1, <4>2, <4>3, <5>1, <5>2
  <2> QED
    BY <2>3, <2>4
<1>11. CASE ConsCancelled
  BY <1>11 DEF ConsCancelled, Detach
<1>12. CASE Finalize
  BY <1>12 DEF Finalize, TaskEnded
<1>17. CASE FinalizeRaises
  BY <1>17 DEF FinalizeRaises, TaskEnded
<1>18. CASE Skip
  BY <1>18 DEF Skip
<1>13. CASE Send
  BY <1>13 DEF Send
<1>14. CASE Leave
  BY <1>14 DEF Leave, Detach
<1>15. CASE Shutdown
  BY <1>15 DEF Shutdown
<1>16. CASE UNCHANGED vars
  BY <1>16 DEF vars
<1> QED
  BY <1>1, <1>2, <1>3, <1>4, <1>5, <1>6, <1>7, <1>8, <1>9, <1>10, <1>11,
     <1>12, <1>13, <1>14, <1>15, <1>16, <1>17, <1>18
     DEF Next, TaskStep, ConsStep, ClientStep

\* What a settlement leaves behind.
SettledBy(outcome) ==
    /\ \/ charges' = <<usage>> /\ outcome = "settled" /\ reservation' = "settled" /\ Charged
       \/ charges' = <<>> /\ outcome # "settled"
    /\ Len(charges') <= 1
    /\ charges' # <<>> => charges'[1] = usage /\ outcome = "settled"
    /\ failures = 0 /\ kind = "upstream" /\ (terminal.settled \/ terminal.uncertain) =>
          reservation' = outcome /\ outcome \in {"settled", "uncertain"}

\* A settlement charges the usage record, or nothing, and says so.
LEMMA SettleFacts ==
    ASSUME TypeOK, Books, cons \notin Over, NEW outcome \in States, Settle(outcome)
    PROVE  SettledBy(outcome)
<1>1. charges = <<>> /\ idem = "forwarding" /\ Len(<<>>) = 0
  BY OneCharge DEF Books
<1>2. CASE Charged
  <2>1. \/ outcome = "settled" /\ charges' = <<usage>>
        \/ outcome = "uncertain" /\ charges' = <<>>
    BY <1>1, <1>2 DEF Settle
  <2>2. reservation' = outcome
    BY <1>2 DEF Settle
  <2>3. usage \in Nat
    BY DEF TypeOK
  <2>4. CASE outcome = "settled" /\ charges' = <<usage>>
    BY <1>2, <2>2, <2>3, <2>4, OneCharge DEF SettledBy
  <2>5. CASE outcome = "uncertain" /\ charges' = <<>>
    BY <1>1, <2>2, <2>5 DEF SettledBy
  <2> QED
    BY <2>1, <2>4, <2>5
<1>3. CASE ~Charged
  <2>1. charges' = <<>> /\ reservation' = reservation
        /\ outcome = IF kind = "dry_run" THEN "forwarding"
                     ELSE IF terminal.uncertain THEN "uncertain" ELSE "released"
    BY <1>1, <1>3 DEF Settle
  <2> QED
    BY <1>1, <1>3, <2>1 DEF SettledBy, Charged, Books
<1> QED
  BY <1>2, <1>3

\* Every step keeps the books.
LEMMA BooksStep ==
    ASSUME TypeOK, Ends, Books, [Next]_vars
    PROVE  Books'
<1> USE RelayAssumption DEF TypeOK, Ends, Books, ChargedByUsage, OutcomeAgrees,
                            States, Over, Running, taskVars, consVars
<1>1. CASE Start
  BY <1>1 DEF Start
<1>2. CASE Read
  <2>1. usage' = metered'
    BY <1>2 DEF Read, Scan
  <2>2. cons \notin Over /\ cons' = cons /\ ~terminal.uncertain
    BY <1>2 DEF Read
  <2>3. UNCHANGED <<kind, charges, idem, history>>
    BY <1>2 DEF Read
  <2>4. terminal'.uncertain /\ failures' = 0 => reservation' = "uncertain"
    <3>1. CASE OnUncertain(1, {reservation, "streaming"})
      BY <3>1, OnUncertainFacts
    <3>2. CASE ~OnUncertain(1, {reservation, "streaming"})
      BY <1>2, <2>2, <3>2 DEF Read, OnChunk
    <3> QED
      BY <3>1, <3>2
  <2> QED
    BY <2>1, <2>2, <2>3, <2>4
<1>3. CASE Put
  BY <1>3 DEF Put
<1>4. CASE PutTimesOut
  BY <1>4 DEF PutTimesOut
<1>5. CASE Eof
  <2>1. cons \notin Over /\ UNCHANGED <<kind, cons, usage, metered, charges, idem, history>>
    BY <1>5 DEF Eof
  <2>2. terminal'.uncertain /\ failures' = 0 /\ kind = "upstream" => reservation' = "uncertain"
    <3>1. CASE OnUncertain(1, {reservation, "forwarding"})
      BY <3>1, OnUncertainFacts
    <3>2. CASE ~OnUncertain(1, {reservation, "forwarding"})
      BY <1>5, <3>2 DEF Eof
    <3> QED
      BY <3>1, <3>2
  <2> QED
    BY <2>1, <2>2
<1>6. CASE Broken
  BY <1>6 DEF Broken, OnUncertain, Uncertain
<1>7. CASE TaskCancelled
  BY <1>7 DEF TaskCancelled, OnUncertain, Uncertain
<1>8. CASE Close
  BY <1>8 DEF Close
<1>9. CASE Unblocked
  BY <1>9 DEF Unblocked
<1>10. CASE Get
  BY <1>10 DEF Get
<1>11. CASE ConsCancelled
  BY <1>11 DEF ConsCancelled, Detach
<1>12. CASE Finalize
  <2>1. cons \notin Over /\ cons' = "done" /\ history' = 1
        /\ UNCHANGED <<kind, usage, metered, terminal, failures>>
    BY <1>12 DEF Finalize, TaskEnded
  <2>2. PICK outcome \in States : Settle(outcome) /\ idem' = outcome
    BY <1>12 DEF Finalize
  <2>3. SettledBy(outcome)
    BY <2>1, <2>2, SettleFacts
  <2>4. ChargedByUsage'
    BY <2>1, <2>3, OneCharge DEF SettledBy, Charged
  <2>5. OutcomeAgrees'
    BY <2>1, <2>2, <2>3, OneCharge DEF SettledBy
  <2> QED
    BY <2>1, <2>4, <2>5
<1>17. CASE FinalizeRaises
  <2>1. cons \notin Over /\ cons' = "failed" /\ failures' > 0
        /\ UNCHANGED <<kind, usage, metered, terminal>>
    BY <1>17 DEF FinalizeRaises, TaskEnded
  <2>2. CASE UNCHANGED <<charges, reservation, idem, history>>
    BY <2>1, <2>2
  <2>3. CASE \E outcome \in States : Settle(outcome) /\ idem' \in {idem, outcome}
    <3>1. PICK outcome \in States : Settle(outcome) /\ idem' \in {idem, outcome}
      BY <2>3
    <3>2. SettledBy(outcome)
      BY <2>1, <3>1, SettleFacts
    <3>3. ChargedByUsage'
      BY <2>1, <3>2, OneCharge DEF SettledBy, Charged
    <3>4. OutcomeAgrees'
      <4>1. idem = "forwarding"
        BY <2>1
      <4>2. CASE charges' = <<usage>>
        BY <2>1, <3>2, <4>2 DEF SettledBy
      <4>3. CASE charges' = <<>>
        BY <2>1, <3>1, <3>2, <4>1, <4>3, OneCharge DEF SettledBy
      <4> QED
        BY <3>2, <4>2, <4>3 DEF SettledBy
    <3> QED
      BY <2>1, <3>3, <3>4
  <2> QED
    BY <1>17, <2>2, <2>3 DEF FinalizeRaises
<1>18. CASE Skip
  BY <1>18 DEF Skip
<1>13. CASE Send
  BY <1>13 DEF Send
<1>14. CASE Leave
  BY <1>14 DEF Leave, Detach
<1>15. CASE Shutdown
  BY <1>15 DEF Shutdown
<1>16. CASE UNCHANGED vars
  BY <1>16 DEF vars
<1> QED
  BY <1>1, <1>2, <1>3, <1>4, <1>5, <1>6, <1>7, <1>8, <1>9, <1>10, <1>11,
     <1>12, <1>13, <1>14, <1>15, <1>16, <1>17, <1>18
     DEF Next, TaskStep, ConsStep, ClientStep

-----------------------------------------------------------------------------
(* The theorems.                                                           *)

\* The relay starts with its invariant.
LEMMA InitHolds == Init => IInv
<1> SUFFICES ASSUME Init PROVE IInv
  OBVIOUS
<1>1. Len(queue) = 0 /\ Len(taken) = 0 /\ charges = <<>> /\ cons = "get"
      /\ queue \in Seq(Nat) /\ taken \in Seq(Nat) /\ charges \in Seq(Nat)
  BY DEF Init
<1>2. terminal.settled = FALSE /\ terminal.uncertain = FALSE
  BY DEF Init
<1>3. TypeOK
  <2>1. reservation \in States /\ idem \in States
    BY StatesKnown DEF Init
  <2>2. terminal \in Flags
    BY DEF Init, Flags
  <2>3. Len(queue) <= Limit
    BY RelayAssumption, <1>1
  <2> QED
    BY <1>1, <2>1, <2>2, <2>3 DEF Init, TypeOK, Flags
<1>4. Ends
  BY <1>2 DEF Init, Ends, Over
<1>5. InOrder
  BY <1>1 DEF Init, InOrder, NothingDropped
<1>6. Books
  BY <1>1, <1>2 DEF Init, Books, ChargedByUsage, OutcomeAgrees, Over
<1> QED
  BY <1>3, <1>4, <1>5, <1>6 DEF IInv

\* The invariant holds in every state the relay reaches.
THEOREM InvCorrect == Spec => []IInv
<1>1. IInv /\ [Next]_vars => IInv'
  BY TypeStep, EndsStep, OrderStep, BooksStep DEF IInv
<1> QED
  BY InitHolds, <1>1, PTL DEF Spec

\* Every variable keeps its type, and the queue its limit (gateway.py:1803).
THEOREM TypeCorrect == Spec => []TypeOK
<1>1. IInv => TypeOK
  BY DEF IInv
<1> QED
  BY InvCorrect, <1>1, PTL

\* Whatever the size of the queue, and however often it was full: the client is
\* sent the provider's chunks in order and without a gap (gateway.py:1804).
THEOREM OrderCorrect == Spec => []NothingDropped
<1>1. IInv => NothingDropped
  BY DEF IInv, InOrder
<1> QED
  BY InvCorrect, <1>1, PTL

\* A stream is charged at most once, only after its end, and by its newest usage
\* record, read by the client or not (gateway.py:871, gateway.py:911).
THEOREM ChargeCorrect == Spec => []ChargedByUsage
<1>1. IInv => ChargedByUsage
  BY DEF IInv, Books
<1> QED
  BY InvCorrect, <1>1, PTL

\* A stream that has been settled has one history record, its reservation and its
\* idempotency key agree, and the settlement is skipped or cut short only if a
\* store operation raised (gateway.py:1893-1951).
THEOREM OutcomeCorrect == Spec => []OutcomeAgrees
<1>1. IInv => OutcomeAgrees
  BY DEF IInv, Books
<1> QED
  BY InvCorrect, <1>1, PTL

=============================================================================
