------------------------ MODULE PolicyRevisions_proofs ------------------------
(*****************************************************************************)
(* Theorems about PolicyRevisions for every set of names and values, any     *)
(* number of revisions, failures and crashes, and any passing of time.       *)
(*                                                                           *)
(*   TypeCorrect     Spec => []TypeOK                                        *)
(*   KeptCorrect     Spec => RevisionsKept                                   *)
(*   ServedCorrect   ~Capped => (Spec => []ServedIsLatest)                   *)
(*   ReloadedCorrect Spec => []ServedUnlessMissed                            *)
(*****************************************************************************)
EXTENDS PolicyRevisions, FiniteSetTheorems, WellFoundedInduction, TLAPS

-----------------------------------------------------------------------------
(* The number of a revision's millisecond.                                   *)

\* A set of numbers has a least one: of the sets of numbers below one of its
\* elements some has no smaller one among them.
LEMMA Least ==
    ASSUME NEW T \in SUBSET Nat, T # {}, IsFiniteSet(T)
    PROVE  \E x \in T : \A y \in T : x <= y
<1> DEFINE Below(x) == {y \in T : y < x}
           F == {Below(x) : x \in T}
<1>1. F \subseteq FiniteSubsetsOf(T) /\ F # {}
  <2>1. ASSUME NEW x \in T
        PROVE  Below(x) \in FiniteSubsetsOf(T)
    <3>1. Below(x) \in SUBSET T
      OBVIOUS
    <3> HIDE DEF Below
    <3> QED
      BY <3>1, FS_Subset DEF FiniteSubsetsOf
  <2> HIDE DEF Below
  <2> QED
    BY <2>1
<1>2. PICK A \in F : \A B \in F : ~ (<<B, A>> \in StrictSubsetOrdering(T))
  <2> HIDE DEF F
  <2> QED
    BY <1>1, FS_StrictSubsetOrderingWellFounded, WFMin
<1>3. PICK x \in T : A = Below(x)
  OBVIOUS
<1>4. ASSUME NEW y \in T, y < x
      PROVE  FALSE
  <2>1. Below(y) \subseteq A /\ y \in A /\ y \notin Below(y)
    <3>1. \A z \in T : z \in Nat
      OBVIOUS
    <3>2. \A z \in T : z < y => z < x
      BY <1>4, <3>1
    <3>3. Below(y) \subseteq A
      BY <1>3, <3>2
    <3>4. y \in A
      BY <1>3, <1>4
    <3>5. y \notin Below(y)
      BY <3>1
    <3> QED
      BY <3>3, <3>4, <3>5
  <2>2. Below(y) \in F /\ Below(y) # A
    <3> HIDE DEF Below
    <3> QED
      BY <2>1
  <2>3. Below(y) \subseteq T /\ A \subseteq T
    BY <1>3
  <2>4. <<Below(y), A>> \in StrictSubsetOrdering(T)
    BY <2>1, <2>2, <2>3 DEF StrictSubsetOrdering
  <2> QED
    BY <1>2, <2>2, <2>4
<1> QED
  BY <1>4

\* Among one more numbers than there are revisions one is no revision's.
LEMMA RoomLeft ==
    ASSUME NEW S \in SUBSET Revision, IsFiniteSet(S), NEW c \in Nat
    PROVE  \E ms \in c..(c + Cardinality(S)) : \A r \in S : r.ms # ms
<1> DEFINE k == Cardinality(S)
           taken == {r.ms : r \in S}
<1>1. k \in Nat
  BY FS_CardinalityType
<1>2. IsFiniteSet(taken) /\ Cardinality(taken) <= k
  <2> DEFINE f == [r \in S |-> r.ms]
  <2>1. f \in Surjection(S, taken)
    BY DEF Surjection
  <2> HIDE DEF f, taken
  <2> QED
    BY <2>1, FS_Surjection
<1>3. IsFiniteSet(c..(c + k)) /\ Cardinality(c..(c + k)) = k + 1
  <2> HIDE DEF k
  <2>1. c \in Int /\ c + k \in Int /\ ~(c > c + k) /\ (c + k) - c + 1 = k + 1
    BY <1>1
  <2> QED
    BY <2>1, FS_Interval
<1>4. ~(c..(c + k) \subseteq taken)
  <2> HIDE DEF k, taken
  <2>1. Cardinality(taken) \in Nat
    BY <1>2, FS_CardinalityType
  <2> QED
    BY <1>1, <1>2, <1>3, <2>1, FS_Subset
<1> QED
  BY <1>4

\* FreshMs is a millisecond from the clock on; of a quota, the first that no
\* revision of its name the process knows of has.
LEMMA FreshFacts ==
    ASSUME TypeOK, NEW p \in Procs, NEW n \in Names, IsFiniteSet(mem[p].revs)
    PROVE  /\ FreshMs(p, n) \in Nat /\ clock <= FreshMs(p, n)
           /\ register = "price" => FreshMs(p, n) = clock
           /\ register # "price" =>
                 /\ \A r \in mem[p].revs : ~(r.name = n /\ r.ms = FreshMs(p, n))
                 /\ \A earlier \in clock..(FreshMs(p, n) - 1) :
                       \E r \in mem[p].revs : r.name = n /\ r.ms = earlier
<1> DEFINE S == mem[p].revs
           Free(ms) == \A r \in S : ~(r.name = n /\ r.ms = ms)
           Span == clock..(clock + Cardinality(S))
           T == {ms \in Span : Free(ms)}
           Good(ms) == /\ Free(ms)
                       /\ \A earlier \in clock..(ms - 1) :
                             \E r \in S : r.name = n /\ r.ms = earlier
<1>1. S \in SUBSET Revision /\ clock \in Nat /\ Cardinality(S) \in Nat /\ IsFiniteSet(S)
  BY FS_CardinalityType DEF TypeOK, View
<1>2. Span \subseteq Nat /\ IsFiniteSet(Span)
  <2> DEFINE k == Cardinality(S)
  <2>1. k \in Nat
    BY <1>1
  <2> HIDE DEF k
  <2>2. IsFiniteSet(clock..(clock + k)) /\ clock..(clock + k) \subseteq Nat
    BY <1>1, <2>1, FS_Interval
  <2> QED
    BY <2>2 DEF k
<1>3. T # {}
  <2> HIDE DEF S
  <2>1. PICK ms \in Span : \A r \in S : r.ms # ms
    BY <1>1, RoomLeft
  <2> QED
    BY <2>1
<1>4. T \in SUBSET Nat /\ IsFiniteSet(T)
  <2>1. T \in SUBSET Span
    OBVIOUS
  <2> HIDE DEF T, Span
  <2> QED
    BY <1>2, <2>1, FS_Subset
<1>5. PICK x \in T : \A y \in T : x <= y
  <2> HIDE DEF T
  <2> QED
    BY <1>3, <1>4, Least
<1>6. Good(x)
  <2>1. ASSUME NEW earlier \in clock..(x - 1)
        PROVE  \E r \in S : r.name = n /\ r.ms = earlier
    <3>1. x \in Nat /\ x <= clock + Cardinality(S) /\ x >= clock
      BY <1>1, <1>2
    <3> DEFINE k == Cardinality(S)
    <3> HIDE DEF k
    <3>2. earlier \in clock..(clock + k) /\ ~(x <= earlier)
      BY <3>1, <1>1 DEF k
    <3>3. ~Free(earlier)
      BY <3>2, <1>5 DEF k
    <3> QED
      BY <3>3
  <2> QED
    BY <2>1
<1>7. register # "price" => FreshMs(p, n) \in Span /\ Good(FreshMs(p, n))
  <2>1. x \in Span
    OBVIOUS
  <2>2. register # "price" => FreshMs(p, n) = CHOOSE ms \in Span : Good(ms)
    BY DEF FreshMs
  <2> HIDE DEF Span, Good, T
  <2> QED
    BY <1>6, <2>1, <2>2
<1>8. register = "price" => FreshMs(p, n) = clock
  BY DEF FreshMs
<1>9. register # "price" => FreshMs(p, n) \in Nat /\ clock <= FreshMs(p, n)
  <2>1. \A ms \in Span : ms \in Nat /\ clock <= ms
    <3> DEFINE k == Cardinality(S)
    <3>1. k \in Nat
      BY <1>1
    <3> HIDE DEF k
    <3>2. \A ms \in clock..(clock + k) : ms \in Nat /\ clock <= ms
      BY <1>1, <3>1
    <3> QED
      BY <3>2 DEF k
  <2> HIDE DEF Span, Good
  <2> QED
    BY <1>7, <2>1
<1> QED
  BY <1>1, <1>7, <1>8, <1>9

-----------------------------------------------------------------------------
(* The order of revisions.                                                   *)

\* Revisions of different numbers are in a strict total order.
LEMMA NewerOrder ==
    ASSUME NEW r \in Revision, NEW s \in Revision, NEW t \in Revision
    PROVE  /\ ~Newer(r, r)
           /\ Newer(r, s) /\ Newer(s, t) => Newer(r, t)
           /\ r.num # s.num => Newer(r, s) \/ Newer(s, r)
<1>1. /\ r.ms \in Nat /\ s.ms \in Nat /\ t.ms \in Nat
      /\ r.num \in Nat /\ s.num \in Nat /\ t.num \in Nat
  BY DEF Revision
<1> QED
  BY <1>1 DEF Newer

\* Some revisions that differ in their numbers have a newest one.
LEMMA Newest ==
    ASSUME NEW S \in SUBSET Revision, S # {}, IsFiniteSet(S),
           \A r, s \in S : r.num = s.num => r = s
    PROVE  \E r \in S : \A s \in S \ {r} : Newer(r, s)
<1> DEFINE Above(x) == {y \in S : Newer(y, x)}
           F == {Above(x) : x \in S}
<1>1. F \subseteq FiniteSubsetsOf(S) /\ F # {}
  <2>1. ASSUME NEW x \in S
        PROVE  Above(x) \in FiniteSubsetsOf(S)
    <3>1. Above(x) \in SUBSET S
      OBVIOUS
    <3> HIDE DEF Above
    <3> QED
      BY <3>1, FS_Subset DEF FiniteSubsetsOf
  <2> HIDE DEF Above
  <2> QED
    BY <2>1
<1>2. PICK A \in F : \A B \in F : ~ (<<B, A>> \in StrictSubsetOrdering(S))
  <2> HIDE DEF F
  <2> QED
    BY <1>1, FS_StrictSubsetOrderingWellFounded, WFMin
<1>3. PICK x \in S : A = Above(x)
  OBVIOUS
<1>4. ASSUME NEW y \in S, Newer(y, x)
      PROVE  FALSE
  <2>1. Above(y) \subseteq A /\ y \in A /\ y \notin Above(y)
    <3>1. x \in Revision /\ y \in Revision
      OBVIOUS
    <3>2. \A z \in S : Newer(z, y) => Newer(z, x)
      BY <1>4, <3>1, NewerOrder
    <3>3. ~Newer(y, y)
      BY <3>1, NewerOrder
    <3> QED
      BY <1>3, <1>4, <3>2, <3>3
  <2>2. Above(y) \in F /\ Above(y) # A
    <3> HIDE DEF Above
    <3> QED
      BY <2>1
  <2>3. Above(y) \subseteq S /\ A \subseteq S
    BY <1>3
  <2>4. <<Above(y), A>> \in StrictSubsetOrdering(S)
    BY <2>1, <2>2, <2>3 DEF StrictSubsetOrdering
  <2> QED
    BY <1>2, <2>2, <2>4
<1>5. ASSUME NEW s \in S \ {x}
      PROVE  Newer(x, s)
  <2>1. x \in Revision /\ s \in Revision /\ x.num # s.num
    OBVIOUS
  <2> QED
    BY <1>4, <2>1, NewerOrder
<1> QED
  BY <1>5

\* A rebuild finds a value for every name.
LEMMA RebuiltType ==
    ASSUME NEW view, view.revs \in SUBSET Revision, IsFiniteSet(view.revs),
           \A r, s \in view.revs : r.num = s.num => r = s
    PROVE  Rebuilt(view) \in [Names -> Vals]
<1>1. ASSUME NEW n \in Names
      PROVE  ValueOf(view, n) \in Vals
  <2> DEFINE mine == Revisions(view, n)
             Top(r) == \A s \in mine \ {r} : Newer(r, s)
  <2>1. mine \in SUBSET view.revs
    BY DEF Revisions
  <2>2. CASE mine = {}
    BY <2>2 DEF ValueOf, Vals
  <2>3. CASE mine # {}
    <3>1. /\ mine \in SUBSET Revision /\ IsFiniteSet(mine)
          /\ \A r, s \in mine : r.num = s.num => r = s
      <4> HIDE DEF mine
      <4> QED
        BY <2>1, FS_Subset
    <3>2. \E r \in mine : Top(r)
      <4> HIDE DEF mine
      <4> QED
        BY <2>3, <3>1, Newest
    <3>3. (CHOOSE r \in mine : Top(r)) \in mine
      <4> HIDE DEF mine, Top
      <4> QED
        BY <3>2
    <3>4. ValueOf(view, n) = (CHOOSE r \in mine : Top(r)).val
      BY <2>3 DEF ValueOf
    <3> HIDE DEF mine, Top
    <3> QED
      BY <3>1, <3>3, <3>4 DEF Revision, Vals
  <2> QED
    BY <2>2, <2>3
<1> QED
  BY <1>1 DEF Rebuilt

-----------------------------------------------------------------------------
(* The types, and the numbers that tell revisions apart.                     *)

\* A revision that is somewhere: in the store, in a memory or being written.
Known(r) ==
    \/ r \in revs
    \/ \E p \in Procs : r \in mem[p].revs
    \/ \E p \in Procs : job[p] # Idle /\ job[p].rev = r

NumInv ==
    /\ \A r \in Revision : Known(r) => r.num <= begun
    /\ \A r, s \in Revision : Known(r) /\ Known(s) /\ r.num = s.num => r = s

FiniteInv == IsFiniteSet(revs) /\ \A p \in Procs : IsFiniteSet(mem[p].revs)

TypeInv == TypeOK /\ FiniteInv /\ NumInv

\* What is known only because it was known before keeps its number.
LEMMA NumKept ==
    ASSUME NumInv, begun' = begun, \A r \in Revision : Known(r)' => Known(r)
    PROVE  NumInv'
  BY DEF NumInv

\* What a job under way holds.
LEMMA JobFacts ==
    ASSUME TypeOK, NEW p \in Procs, job[p] # Idle
    PROVE  /\ job[p].step \in Steps /\ job[p].rev \in Revision
           /\ job[p].rev.name \in Names /\ job[p].rev.val \in Vals
           /\ job[p].rev.ms \in Nat /\ job[p].rev.num \in Nat
           /\ job[p] = [step |-> job[p].step, rev |-> job[p].rev]
<1>1. job[p] \in [step : Steps, rev : Revision]
  BY DEF TypeOK
<1> QED
  BY <1>1 DEF Revision, Vals

\* A job with a next step is not idle.
LEMMA IdleFacts ==
    ASSUME NEW p, job[p].step \in {"node", "edge", "event", "rebuild"}
    PROVE  job[p] # Idle
  BY DEF Idle

LEMMA StepsFacts ==
    ASSUME TypeOK
    PROVE  /\ register \in {"quota", "price"}
           /\ register = "quota" => Steps = {"node", "edge", "event", "rebuild"} /\ First = "node"
           /\ register = "price" => Steps = {"event", "rebuild"} /\ First = "event"
           /\ After("node") = "edge" /\ After("edge") = "event" /\ After("event") = "rebuild"
  BY RegistersAssumption DEF TypeOK, Steps, First, After

LEMMA StoredFacts ==
    ASSUME NEW S, NEW r
    PROVE  /\ Stored(S, r) \subseteq S \cup {r} /\ r \in Stored(S, r)
           /\ IsFiniteSet(S) => IsFiniteSet(Stored(S, r))
           /\ register = "price" => Stored(S, r) = S \cup {r}
<1>1. Stored(S, r) \subseteq S \cup {r} /\ r \in Stored(S, r)
  BY DEF Stored
<1>2. IsFiniteSet(S) => IsFiniteSet(S \cup {r})
  BY FS_AddElement
<1>3. IsFiniteSet(S) => IsFiniteSet(Stored(S, r))
  BY <1>1, <1>2, FS_Subset
<1> QED
  BY <1>1, <1>3 DEF Stored

\* A revision that begins gets the next number.
LEMMA BeginType ==
    ASSUME TypeInv, NEW p \in Procs, NEW n \in Names, NEW v \in Values \cup {None},
           Begin(p, n, v)
    PROVE  /\ TypeInv'
           /\ job[p] = Idle /\ job'[p] # Idle /\ job'[p].step = First
           /\ job'[p].rev = [name |-> n, ms |-> FreshMs(p, n), num |-> begun + 1, val |-> v]
           /\ \A q \in Procs : q # p => job'[q] = job[q]
<1> DEFINE x == [name |-> n, ms |-> FreshMs(p, n), num |-> begun + 1, val |-> v]
<1>1. x \in Revision /\ x.num = begun + 1 /\ begun \in Nat
  <2>1. FreshMs(p, n) \in Nat
    BY FreshFacts DEF TypeInv, FiniteInv
  <2>2. begun \in Nat /\ begun + 1 \in Nat \ {0}
    BY DEF TypeInv, TypeOK
  <2> QED
    BY <2>1, <2>2 DEF Revision
<1> HIDE DEF x
<1>2. job' = [job EXCEPT ![p] = [step |-> First, rev |-> x]]
  BY DEF Begin, x
<1>3. First \in Steps /\ [step |-> First, rev |-> x] # Idle /\ First # "idle"
  <2>1. First \in Steps /\ First # "idle"
    BY StepsFacts DEF TypeInv
  <2> QED
    BY <2>1 DEF Idle
<1>4. /\ job'[p] = [step |-> First, rev |-> x] /\ job'[p] # Idle
      /\ \A q \in Procs : q # p => job'[q] = job[q]
  BY <1>2, <1>3 DEF TypeInv, TypeOK
<1>5. TypeOK'
  <2>1. job' \in [Procs -> {Idle} \cup [step : Steps, rev : Revision]]
    BY <1>1, <1>2, <1>3 DEF TypeInv, TypeOK
  <2>2. Steps' = Steps
    BY DEF Begin, Steps
  <2>3. begun' \in Nat
    BY <1>1 DEF Begin
  <2> QED
    BY <2>1, <2>2, <2>3 DEF Begin, TypeInv, TypeOK
<1>6. FiniteInv'
  BY DEF Begin, TypeInv, FiniteInv
<1>7. NumInv'
  <2>1. \A r \in Revision : Known(r)' => Known(r) \/ r = x
    BY <1>4 DEF Begin, Known
  <2>2. \A r \in Revision : r.num \in Nat
    BY DEF Revision
  <2>3. \A r \in Revision : Known(r) => r.num <= begun
    BY DEF TypeInv, NumInv
  <2>4. begun' = begun + 1
    BY DEF Begin
  <2>5. \A r \in Revision : Known(r)' => r.num <= begun'
    BY <1>1, <2>1, <2>2, <2>3, <2>4
  <2>6. \A r \in Revision : Known(r) => r.num # x.num
    BY <1>1, <2>2, <2>3
  <2>7. \A r, s \in Revision : Known(r)' /\ Known(s)' /\ r.num = s.num => r = s
    BY <2>1, <2>6 DEF TypeInv, NumInv
  <2> QED
    BY <2>5, <2>7 DEF NumInv
<1>8. job'[p].step = First /\ job'[p].rev = x
  BY <1>4
<1>9. job[p] = Idle
  BY DEF Begin
<1> QED
  BY <1>4, <1>5, <1>6, <1>7, <1>8, <1>9 DEF TypeInv, x

\* What a step does to the job and to what is known.
LEMMA StepType ==
    ASSUME TypeInv, NEW p \in Procs, Step(p)
    PROVE  TypeInv'
<1> DEFINE x == job[p].rev
<1>1. job[p] # Idle
  BY IdleFacts DEF Step
<1>2. x \in Revision /\ job[p] = [step |-> job[p].step, rev |-> x] /\ Known(x)
  BY <1>1, JobFacts DEF TypeInv, Known
<1>3. job[p].step \in Steps /\ After(job[p].step) \in Steps
  BY <1>1, JobFacts, StepsFacts DEF Step, TypeInv
<1>4. job' = [job EXCEPT ![p].step = After(job[p].step)]
  BY DEF Step
<1>5. /\ job'[p] = [step |-> After(job[p].step), rev |-> x]
      /\ \A q \in Procs : q # p => job'[q] = job[q]
      /\ job' \in [Procs -> {Idle} \cup [step : Steps, rev : Revision]]
  <2>1. job \in [Procs -> {Idle} \cup [step : Steps, rev : Revision]]
    BY DEF TypeInv, TypeOK
  <2>2. job' = [job EXCEPT ![p] = [job[p] EXCEPT !.step = After(job[p].step)]]
    BY <1>4, <2>1
  <2>3. [job[p] EXCEPT !.step = After(job[p].step)] = [step |-> After(job[p].step), rev |-> x]
    BY <1>2
  <2> HIDE DEF x
  <2> QED
    BY <1>2, <1>3, <2>1, <2>2, <2>3
<1>6. /\ revs' \subseteq revs \cup {x} /\ IsFiniteSet(revs')
      /\ linked' \subseteq linked \cup {x} /\ proj' = proj
      /\ mem' \in [Procs -> View]
      /\ \A q \in Procs : mem'[q].revs \subseteq mem[q].revs \cup {x} /\ IsFiniteSet(mem'[q].revs)
  <2>1. mem \in [Procs -> View] /\ mem[p] \in View
        /\ mem[p] = [revs |-> mem[p].revs, linked |-> mem[p].linked]
    BY DEF TypeInv, TypeOK, View
  <2>2. IsFiniteSet(revs) /\ \A q \in Procs : IsFiniteSet(mem[q].revs)
    BY DEF TypeInv, FiniteInv
  <2> DEFINE m1 == [revs |-> Stored(mem[p].revs, x), linked |-> mem[p].linked]
             m2 == [revs |-> mem[p].revs, linked |-> mem[p].linked \cup {x}]
  <2>3. m1 \in View /\ m2 \in View
    <3>1. Stored(mem[p].revs, x) \subseteq Revision
      BY <1>2, <2>1, StoredFacts DEF View
    <3> QED
      BY <1>2, <2>1, <3>1 DEF View
  <2>4. CASE WriteRevision(p)
    <3>1. revs' = Stored(revs, x) /\ linked' = linked /\ proj' = proj
          /\ mem' = [mem EXCEPT ![p].revs = Stored(mem[p].revs, x)]
      BY <2>4 DEF WriteRevision
    <3>2. mem' = [mem EXCEPT ![p] = m1]
      <4>1. [mem[p] EXCEPT !.revs = Stored(mem[p].revs, x)] = m1
        BY <2>1
      <4>2. mem' = [mem EXCEPT ![p] = [mem[p] EXCEPT !.revs = Stored(mem[p].revs, x)]]
        BY <3>1
      <4> QED
        BY <4>1, <4>2
    <3>3. mem'[p] = m1 /\ \A q \in Procs : q # p => mem'[q] = mem[q]
      BY <2>1, <3>2
    <3>4. mem' \in [Procs -> View]
      <4> HIDE DEF m1
      <4> QED
        BY <2>1, <2>3, <3>2
    <3> HIDE DEF x
    <3> QED
      BY <2>2, <3>1, <3>3, <3>4, StoredFacts
  <2>5. CASE WriteEdge(p)
    <3>1. revs' = revs /\ linked' = linked \cup {x} /\ proj' = proj
          /\ mem' = [mem EXCEPT ![p].linked = mem[p].linked \cup {x}]
      BY <2>5 DEF WriteEdge
    <3>2. mem' = [mem EXCEPT ![p] = m2]
      <4>1. [mem[p] EXCEPT !.linked = mem[p].linked \cup {x}] = m2
        BY <2>1
      <4>2. mem' = [mem EXCEPT ![p] = [mem[p] EXCEPT !.linked = mem[p].linked \cup {x}]]
        BY <3>1
      <4> QED
        BY <4>1, <4>2
    <3>3. mem'[p] = m2 /\ \A q \in Procs : q # p => mem'[q] = mem[q]
      BY <2>1, <3>2
    <3>4. mem' \in [Procs -> View]
      <4> HIDE DEF m2
      <4> QED
        BY <2>1, <2>3, <3>2
    <3> HIDE DEF x
    <3> QED
      BY <2>2, <3>1, <3>3, <3>4
  <2>6. CASE WriteEvent(p)
    BY <2>1, <2>2, <2>6 DEF WriteEvent
  <2> QED
    BY <2>4, <2>5, <2>6 DEF Step
<1>7. UNCHANGED <<register, up, clock, begun, lostSteps, acked, cut, missed>>
  BY DEF Step
<1> HIDE DEF x
<1>8. TypeOK'
  <2>1. Steps' = Steps
    BY <1>7 DEF Steps
  <2>2. revs' \subseteq Revision /\ linked' \subseteq Revision
    BY <1>2, <1>6 DEF TypeInv, TypeOK
  <2> QED
    BY <1>5, <1>6, <1>7, <2>1, <2>2 DEF TypeInv, TypeOK
<1>9. FiniteInv'
  BY <1>6 DEF FiniteInv
<1>10. NumInv'
  <2>1. \A r \in Revision : Known(r)' => Known(r)
    BY <1>1, <1>2, <1>5, <1>6 DEF Known, x
  <2> QED
    BY <1>7, <2>1, NumKept DEF TypeInv
<1> QED
  BY <1>8, <1>9, <1>10 DEF TypeInv

\* A memory is a view a projection can be rebuilt from.
LEMMA MemRebuilt ==
    ASSUME TypeInv, NEW p \in Procs
    PROVE  Rebuilt(mem[p]) \in [Names -> Vals]
<1>1. mem[p].revs \in SUBSET Revision /\ IsFiniteSet(mem[p].revs)
  BY DEF TypeInv, TypeOK, FiniteInv, View
<1>2. \A r, s \in mem[p].revs : r.num = s.num => r = s
  BY <1>1 DEF TypeInv, NumInv, Known
<1> QED
  BY <1>1, <1>2, RebuiltType

LEMMA RebuildType ==
    ASSUME TypeInv, NEW p \in Procs, Rebuild(p)
    PROVE  TypeInv'
<1>1. job[p] # Idle
  BY IdleFacts DEF Rebuild
<1>2. job[p].rev.name \in Names /\ job[p].rev.val \in Vals
  BY <1>1, JobFacts DEF TypeInv
<1>3. TypeOK'
  <2>1. proj' \in [Names -> Vals]
    BY MemRebuilt DEF Rebuild
  <2>2. job' \in [Procs -> {Idle} \cup [step : Steps, rev : Revision]]
    BY DEF Rebuild, TypeInv, TypeOK
  <2>3. acked' \in [Names -> Vals] /\ cut' \in [Names -> SUBSET Vals] /\ missed' \subseteq Names
    BY <1>2 DEF Rebuild, TypeInv, TypeOK
  <2>4. Steps' = Steps
    BY DEF Rebuild, Steps
  <2> QED
    BY <2>1, <2>2, <2>3, <2>4 DEF Rebuild, TypeInv, TypeOK
<1>4. FiniteInv'
  BY DEF Rebuild, TypeInv, FiniteInv
<1>5. NumInv'
  <2>1. \A r \in Revision : Known(r)' => Known(r)
    BY DEF Rebuild, TypeInv, TypeOK, Known
  <2> QED
    BY <2>1, NumKept DEF Rebuild, TypeInv
<1> QED
  BY <1>3, <1>4, <1>5 DEF TypeInv

LEMMA CutOffType ==
    ASSUME TypeInv, NEW p \in Procs, CutOff(p), UNCHANGED mem,
           up' \in [Procs -> BOOLEAN], lostSteps' \in [fail : Nat, crash : Nat]
    PROVE  TypeInv'
<1>1. TypeOK'
  <2>1. job' \in [Procs -> {Idle} \cup [step : Steps, rev : Revision]]
    BY DEF CutOff, TypeInv, TypeOK
  <2>2. cut' \in [Names -> SUBSET Vals]
    <3>1. CASE job[p] = Idle
      BY <3>1 DEF CutOff, TypeInv, TypeOK
    <3>2. CASE job[p] # Idle
      <4>1. job[p].rev.name \in Names /\ job[p].rev.val \in Vals
        BY <3>2, JobFacts DEF TypeInv
      <4> QED
        BY <3>2, <4>1 DEF CutOff, TypeInv, TypeOK
    <3> QED
      BY <3>1, <3>2
  <2>3. Steps' = Steps
    BY DEF CutOff, Steps
  <2> QED
    BY <2>1, <2>2, <2>3 DEF CutOff, TypeInv, TypeOK
<1>2. FiniteInv'
  BY DEF CutOff, TypeInv, FiniteInv
<1>3. NumInv'
  <2>1. \A r \in Revision : Known(r)' => Known(r)
    BY DEF CutOff, TypeInv, TypeOK, Known
  <2> QED
    BY <2>1, NumKept DEF CutOff, TypeInv
<1> QED
  BY <1>1, <1>2, <1>3 DEF TypeInv

LEMMA FailsType ==
    ASSUME TypeInv, NEW p \in Procs, Fails(p)
    PROVE  TypeInv'
<1>1. lostSteps' \in [fail : Nat, crash : Nat]
  BY DEF Fails, TypeInv, TypeOK
<1> QED
  BY <1>1, CutOffType DEF Fails, TypeInv, TypeOK

LEMMA CrashType ==
    ASSUME TypeInv, NEW p \in Procs, Crash(p)
    PROVE  TypeInv'
<1>1. lostSteps' \in [fail : Nat, crash : Nat]
  BY DEF Crash, TypeInv, TypeOK
<1>2. up' \in [Procs -> BOOLEAN]
  BY DEF Crash, TypeInv, TypeOK
<1> QED
  BY <1>1, <1>2, CutOffType DEF Crash

LEMMA FirstReadType ==
    ASSUME TypeInv, NEW p \in Procs, FirstRead(p)
    PROVE  TypeInv'
<1>1. TypeOK'
  <2>1. proj' \in [Names -> Vals]
    BY MemRebuilt DEF FirstRead
  <2>2. Steps' = Steps
    BY DEF FirstRead, Steps
  <2> QED
    BY <2>1, <2>2 DEF FirstRead, TypeInv, TypeOK
<1>2. FiniteInv'
  BY DEF FirstRead, TypeInv, FiniteInv
<1>3. NumInv'
  <2>1. \A r \in Revision : Known(r)' => Known(r)
    BY DEF FirstRead, Known
  <2> QED
    BY <2>1, NumKept DEF FirstRead, TypeInv
<1> QED
  BY <1>1, <1>2, <1>3 DEF TypeInv

\* A load gives a view of what is stored; all of it unless it is capped and of
\* prices.
LEMMA LoadFacts ==
    ASSUME TypeInv, NEW view \in Loads
    PROVE  /\ view \in View /\ view.linked = linked /\ view.revs \subseteq revs
           /\ IsFiniteSet(view.revs)
           /\ register = "quota" \/ ~Capped => view = Durable
<1>1. revs \subseteq Revision /\ linked \subseteq Revision /\ IsFiniteSet(revs)
  BY DEF TypeInv, TypeOK, FiniteInv
<1>2. \E some \in SUBSET revs : view = [revs |-> some, linked |-> linked]
  BY DEF Loads, Durable
<1>3. PICK some \in SUBSET revs : view = [revs |-> some, linked |-> linked]
  BY <1>2
<1>4. IsFiniteSet(some)
  BY <1>1, FS_Subset
<1>5. register = "quota" \/ ~Capped => view = Durable
  BY DEF Loads
<1> QED
  BY <1>1, <1>3, <1>4, <1>5 DEF View

\* What a process that restarts loads.
LEMMA RestartLoads ==
    ASSUME TypeInv, NEW p \in Procs, Restart(p)
    PROVE  \E view \in Loads :
               /\ mem' = [mem EXCEPT ![p] = view] /\ mem'[p] = view
               /\ \A q \in Procs : q # p => mem'[q] = mem[q]
               /\ missed' = missed \cup {n \in Names : ValueOf(view, n) # ValueOf(Durable, n)}
<1>1. PICK view \in Loads :
         /\ mem' = [mem EXCEPT ![p] = view]
         /\ missed' = missed \cup {n \in Names : ValueOf(view, n) # ValueOf(Durable, n)}
  BY DEF Restart
<1>2. mem \in [Procs -> View]
  BY DEF TypeInv, TypeOK
<1>3. mem'[p] = view /\ \A q \in Procs : q # p => mem'[q] = mem[q]
  BY <1>1, <1>2
<1> QED
  BY <1>1, <1>3

LEMMA RestartType ==
    ASSUME TypeInv, NEW p \in Procs, Restart(p)
    PROVE  TypeInv'
<1>1. PICK view \in Loads :
         /\ mem' = [mem EXCEPT ![p] = view] /\ mem'[p] = view
         /\ \A q \in Procs : q # p => mem'[q] = mem[q]
         /\ missed' = missed \cup {n \in Names : ValueOf(view, n) # ValueOf(Durable, n)}
  BY RestartLoads
<1>2. view \in View /\ view.revs \subseteq revs /\ IsFiniteSet(view.revs)
  BY LoadFacts
<1>3. TypeOK'
  <2>1. Steps' = Steps
    BY DEF Restart, Steps
  <2>2. mem' \in [Procs -> View]
    BY <1>1, <1>2 DEF TypeInv, TypeOK
  <2>3. missed' \subseteq Names
    BY <1>1 DEF TypeInv, TypeOK
  <2> QED
    BY <2>1, <2>2, <2>3 DEF Restart, TypeInv, TypeOK
<1>4. FiniteInv'
  BY <1>1, <1>2 DEF Restart, TypeInv, FiniteInv
<1>5. NumInv'
  <2>1. \A r \in Revision : Known(r)' => Known(r)
    BY <1>1, <1>2 DEF Restart, Known
  <2> QED
    BY <2>1, NumKept DEF Restart, TypeInv
<1> QED
  BY <1>3, <1>4, <1>5 DEF TypeInv

LEMMA TypeInit == Init => TypeInv
<1> SUFFICES ASSUME Init
             PROVE  TypeInv
  OBVIOUS
<1>1. TypeOK
  <2>1. acked \in [Names -> Vals] /\ cut \in [Names -> SUBSET Vals]
    BY DEF Init, Vals
  <2>2. mem \in [Procs -> View]
    BY DEF Init, View
  <2> QED
    BY <2>1, <2>2 DEF Init, TypeOK
<1>2. FiniteInv
  BY FS_EmptySet DEF Init, FiniteInv
<1>3. NumInv
  <2>1. \A r : ~Known(r)
    BY DEF Init, Known
  <2> QED
    BY <2>1 DEF NumInv
<1> QED
  BY <1>1, <1>2, <1>3 DEF TypeInv

LEMMA TypeStep == TypeInv /\ [Next]_vars => TypeInv'
<1> SUFFICES ASSUME TypeInv, [Next]_vars
             PROVE  TypeInv'
  OBVIOUS
<1>1. ASSUME NEW p \in Procs, NEW n \in Names, Revise(p, n)
      PROVE  TypeInv'
  BY <1>1, BeginType DEF Revise, UpsertQuota, RevokeQuota, UpsertPrice, RevokePrice
<1>2. ASSUME NEW p \in Procs, Step(p)
      PROVE  TypeInv'
  BY <1>2, StepType
<1>3. ASSUME NEW p \in Procs, Rebuild(p)
      PROVE  TypeInv'
  BY <1>3, RebuildType
<1>4. ASSUME NEW p \in Procs, Fails(p)
      PROVE  TypeInv'
  BY <1>4, FailsType
<1>5. ASSUME NEW p \in Procs, FirstQuota(p) \/ FirstPrice(p)
      PROVE  TypeInv'
  BY <1>5, FirstReadType DEF FirstQuota, FirstPrice
<1>6. ASSUME NEW p \in Procs, Crash(p)
      PROVE  TypeInv'
  BY <1>6, CrashType
<1>7. ASSUME NEW p \in Procs, Restart(p)
      PROVE  TypeInv'
  BY <1>7, RestartType
<1>8. CASE Tick \/ UNCHANGED vars
  <2>1. /\ UNCHANGED <<register, revs, linked, proj, mem, job, up, begun, lostSteps, acked, cut, missed>>
        /\ clock' \in Nat
    BY <1>8 DEF Tick, vars, TypeInv, TypeOK
  <2>2. TypeOK' /\ FiniteInv'
    BY <2>1 DEF TypeInv, TypeOK, FiniteInv, Steps
  <2>3. NumInv'
    BY <2>1 DEF TypeInv, NumInv, Known
  <2> QED
    BY <2>2, <2>3 DEF TypeInv
<1> QED
  BY <1>1, <1>2, <1>3, <1>4, <1>5, <1>6, <1>7, <1>8 DEF Next

LEMMA TypeInvCorrect == Spec => []TypeInv
BY TypeInit, TypeStep, PTL DEF Spec

\* Every variable of the registers keeps its type.
THEOREM TypeCorrect == Spec => []TypeOK
<1>1. TypeInv => TypeOK
  BY DEF TypeInv
<1> QED
  BY <1>1, TypeInvCorrect, PTL

-----------------------------------------------------------------------------
(* One process changes the register.                                         *)

\* What the process that serves knows is stored, and all there is unless a capped
\* load has left out prices; one that does not serve is at nothing; an edge is
\* of a revision that is stored.
MirrorInv ==
    /\ \A p \in Procs : up[p] =>
          /\ mem[p].linked = linked /\ mem[p].revs \subseteq revs
          /\ register = "quota" => mem[p] = Durable
    /\ \A p \in Procs : ~up[p] => job[p] = Idle
    /\ linked \subseteq revs
    /\ register = "quota" \/ ~Capped => missed = {}

\* Every millisecond from the clock up to some later one has a revision of n.
Filled(n, ms) ==
    \A t \in Nat : clock <= t /\ t < ms => \E s \in revs : s.name = n /\ s.ms = t

\* A price is not later than the clock; quotas run ahead of it without a gap.
DenseInv ==
    /\ register = "price" => \A r \in revs : r.ms <= clock
    /\ register = "quota" => \A r \in revs : Filled(r.name, r.ms)

\* The revision being written is the last of all; until its first step it is
\* not stored, after it the process knows it, and after its edge it is linked.
PendingInv ==
    \A p \in Procs : job[p] # Idle =>
        /\ job[p].rev.num = begun
        /\ job[p].step = First <=> job[p].rev \notin revs
        /\ job[p].step # First => job[p].rev \in mem[p].revs
        /\ register = "price" =>
              /\ job[p].rev.ms <= clock
              /\ \A r \in revs : r.ms <= job[p].rev.ms
        /\ register = "quota" =>
              /\ job[p].step \in {"event", "rebuild"} => job[p].rev \in linked
              /\ Filled(job[p].rev.name, job[p].rev.ms)
              /\ \A r \in revs : r.name = job[p].rev.name /\ r # job[p].rev
                                 => r.ms < job[p].rev.ms

\* The values revisions under way are about to give to n.
Coming(n) == {job[p].rev.val : p \in {q \in Procs : job[q] # Idle /\ job[q].rev.name = n}}

\* What a rebuild would find is the acknowledged value, or one interrupted since
\* or under way.
TopInv ==
    \A n \in Names : Tied(n) \/ ValueOf(Durable, n) \in {acked[n]} \cup cut[n] \cup Coming(n)

\* Of a name no load has missed, that is what the process that serves finds.
LoadedInv ==
    \A p \in Procs : up[p] =>
        \A n \in Names \ missed : Tied(n) \/ ValueOf(mem[p], n) = ValueOf(Durable, n)

\* So is what it did find.
ProjInv ==
    proj # Absent =>
        \A n \in Names \ missed : Tied(n) \/ proj[n] \in {acked[n]} \cup cut[n]

AloneInv == MirrorInv /\ DenseInv /\ PendingInv /\ TopInv /\ LoadedInv /\ ProjInv

\* Once it is visible the revision being written is the one a rebuild finds, in
\* the store as in the memory of its process.
PendingFound ==
    \A p \in Procs : job[p] # Idle => \A view \in {Durable, mem[p]} :
        job[p].rev \in Revisions(view, job[p].rev.name)
        => \/ Tied(job[p].rev.name)
           \/ ValueOf(view, job[p].rev.name) = job[p].rev.val

LEMMA OneProc ==
    ASSUME Alone, NEW p \in Procs, NEW q \in Procs
    PROVE  q = p
<1>1. PICK x : Procs = {x}
  BY FS_Singleton, ProcsAssumption DEF Alone
<1> QED
  BY <1>1

\* A revision newer than every other of its name is the one a rebuild finds.
LEMMA FoundIs ==
    ASSUME NEW view, NEW n, Revisions(view, n) \in SUBSET Revision,
           NEW x \in Revisions(view, n),
           \A r \in Revisions(view, n) \ {x} : Newer(x, r)
    PROVE  ValueOf(view, n) = x.val
<1> DEFINE mine == Revisions(view, n)
           Top(r) == \A s \in mine \ {r} : Newer(r, s)
           c == CHOOSE r \in mine : Top(r)
<1>1. c \in mine /\ Top(c)
  <2>1. x \in mine /\ Top(x)
    OBVIOUS
  <2> HIDE DEF mine, Top
  <2> QED
    BY <2>1
<1>2. c = x
  <2> HIDE DEF c
  <2>1. c # x => Newer(c, x) /\ Newer(x, c) /\ c \in Revision /\ x \in Revision
    BY <1>1
  <2> QED
    BY <2>1, NewerOrder
<1>3. ValueOf(view, n) = c.val
  BY DEF ValueOf
<1> QED
  BY <1>2, <1>3

LEMMA PendingIsFound == TypeInv /\ MirrorInv /\ PendingInv => PendingFound
<1> SUFFICES ASSUME TypeInv, MirrorInv, PendingInv, NEW p \in Procs, job[p] # Idle,
                    NEW view \in {Durable, mem[p]},
                    job[p].rev \in Revisions(view, job[p].rev.name),
                    ~Tied(job[p].rev.name)
             PROVE  ValueOf(view, job[p].rev.name) = job[p].rev.val
  BY DEF PendingFound
<1> DEFINE x == job[p].rev
           n == x.name
           mine == Revisions(view, n)
<1>1. x \in Revision /\ Known(x)
  BY JobFacts DEF TypeInv, Known
<1>view. view.revs \subseteq revs
  BY DEF MirrorInv, Durable
<1>2. revs \in SUBSET Revision /\ mine \in SUBSET revs /\ \A r \in mine : r.name = n
  BY <1>view DEF TypeInv, TypeOK, Revisions
<1>3. ASSUME NEW r \in mine \ {x}
      PROVE  Newer(x, r)
  <2>1. r \in revs /\ r \in Revision /\ r.name = n /\ r # x /\ Known(r)
    BY <1>2 DEF Known
  <2>2. r.num < x.num
    <3>1. r.num <= begun /\ x.num = begun /\ r.num # x.num
      BY <1>1, <2>1 DEF TypeInv, NumInv, PendingInv
    <3> QED
      BY <1>1, <2>1, <3>1 DEF Revision
  <2>3. x.ms \in Nat /\ r.ms \in Nat /\ x.num \in Nat /\ r.num \in Nat
    BY <1>1, <2>1 DEF Revision
  <2>4. CASE register = "quota"
    <3>1. r.ms < x.ms
      BY <2>1, <2>4 DEF PendingInv
    <3> QED
      BY <2>3, <3>1 DEF Newer
  <2>5. CASE register = "price"
    <3>1. r.ms <= x.ms
      BY <2>1, <2>5 DEF PendingInv
    <3>2. x \in revs /\ x.name = n
      BY <1>2
    <3>3. ~(x.ms = r.ms /\ x.val = None /\ r.val # None)
      BY <2>1, <2>5, <3>2 DEF Tied
    <3> QED
      BY <2>2, <2>3, <3>1, <3>3 DEF Newer
  <2> QED
    BY <2>4, <2>5, StepsFacts DEF TypeInv
<1> QED
  BY <1>2, <1>3, FoundIs

LEMMA PendingIsFoundNext == TypeInv' /\ MirrorInv' /\ PendingInv' => PendingFound'
BY PendingIsFound, PTL

\* A rebuild finds the same as long as the revisions it looks at are the same.
LEMMA SameFound ==
    ASSUME register' = register, NEW n, Revisions(Durable, n)' = Revisions(Durable, n)
    PROVE  ValueOf(Durable, n)' = ValueOf(Durable, n)
BY DEF ValueOf

LEMMA SameFoundHere ==
    ASSUME register' = register, NEW n, NEW p, Revisions(mem[p], n)' = Revisions(mem[p], n)
    PROVE  ValueOf(mem[p], n)' = ValueOf(mem[p], n)
BY DEF ValueOf

\* What a load gives is what the process finds from then on.
LEMMA LoadedFound ==
    ASSUME register' = register, NEW n, NEW p, NEW view, mem'[p] = view
    PROVE  ValueOf(mem[p], n)' = ValueOf(view, n)
BY DEF ValueOf, Revisions

\* Where nothing changes that a rebuild looks at, it finds what it did.
LEMMA LoadedKept ==
    ASSUME LoadedInv, UNCHANGED <<register, revs, linked, mem>>, missed \subseteq missed',
           \A q \in Procs : up'[q] => up[q]
    PROVE  LoadedInv'
<1>1. ASSUME NEW n, NEW q
      PROVE  /\ ValueOf(mem[q], n)' = ValueOf(mem[q], n)
             /\ ValueOf(Durable, n)' = ValueOf(Durable, n)
             /\ Tied(n)' = Tied(n)
  BY SameFound, SameFoundHere DEF Revisions, Durable, Tied
<1> QED
  BY <1>1 DEF LoadedInv

\* A revision that begins is later than every stored one.
LEMMA BeginAlone ==
    ASSUME TypeInv, Alone, AloneInv, NEW p \in Procs, NEW n \in Names,
           NEW v \in Values \cup {None}, Begin(p, n, v)
    PROVE  AloneInv'
<1> DEFINE x == job'[p].rev
<1>1. /\ job[p] = Idle /\ job'[p] # Idle /\ job'[p].step = First
      /\ x = [name |-> n, ms |-> FreshMs(p, n), num |-> begun + 1, val |-> v]
  BY BeginType
<1>2. /\ UNCHANGED <<register, revs, linked, proj, mem, up, clock, acked, cut, missed>>
      /\ up[p] /\ begun' = begun + 1
  BY DEF Begin
<1>3. (register = "quota" => mem[p].revs = revs) /\ \A r \in revs : r \in Revision /\ r.ms \in Nat
  BY <1>2 DEF AloneInv, MirrorInv, Durable, TypeInv, TypeOK, Revision
<1>4. \A q \in Procs : q = p
  BY OneProc
<1>5. /\ FreshMs(p, n) \in Nat /\ clock \in Nat /\ clock <= FreshMs(p, n)
      /\ register = "price" => FreshMs(p, n) = clock
      /\ register = "quota" =>
            /\ \A r \in revs : ~(r.name = n /\ r.ms = FreshMs(p, n))
            /\ \A t \in clock..(FreshMs(p, n) - 1) : \E r \in revs : r.name = n /\ r.ms = t
  BY <1>3, FreshFacts, StepsFacts DEF TypeInv, FiniteInv, TypeOK
<1>fresh. PICK f \in Nat : f = FreshMs(p, n)
  BY <1>5
<1>6. x.num = begun + 1 /\ x.name = n /\ x.ms = f
  BY <1>1, <1>fresh
<1>7. x \notin revs
  <2>1. \A r \in revs : r.num <= begun /\ r.num \in Nat
    BY <1>3 DEF TypeInv, NumInv, Known, Revision
  <2>2. begun \in Nat
    BY DEF TypeInv, TypeOK
  <2> QED
    BY <1>6, <2>1, <2>2
<1> HIDE DEF x
<1>8. MirrorInv'
  BY <1>2, <1>4 DEF AloneInv, MirrorInv, Durable
<1>9. DenseInv'
  BY <1>2 DEF AloneInv, DenseInv, Filled
<1>10. PendingInv'
  <2>1. x.num = begun' /\ (job'[p].step = First' <=> x \notin revs')
    BY <1>1, <1>2, <1>6, <1>7 DEF First
  <2>2. ASSUME register' = "price"
        PROVE  x.ms <= clock' /\ \A r \in revs' : r.ms <= x.ms
    <3>1. x.ms = clock
      BY <1>2, <1>5, <1>fresh, <1>6, <2>2
    <3> QED
      BY <1>2, <1>5, <1>fresh, <2>2, <3>1 DEF AloneInv, DenseInv
  <2>3. ASSUME register' = "quota"
        PROVE  /\ ~(job'[p].step \in {"event", "rebuild"})
               /\ Filled(n, f)'
               /\ \A r \in revs' : r.name = x.name /\ r # x => r.ms < x.ms
    <3>1. job'[p].step = "node"
      BY <1>1, <1>2, <2>3, StepsFacts DEF TypeInv
    <3>2. \A t \in Nat : clock <= t /\ t < x.ms => \E r \in revs : r.name = n /\ r.ms = t
      <4>1. ASSUME NEW t \in Nat, clock <= t, t < x.ms
            PROVE  t \in clock..(f - 1)
        BY <1>5, <1>fresh, <1>6, <4>1
      <4> QED
        BY <1>2, <1>5, <1>fresh, <2>3, <4>1
    <3>3. ASSUME NEW r \in revs, r.name = n
          PROVE  r.ms < x.ms
      <4>1. r.ms # x.ms
        BY <1>2, <1>5, <1>fresh, <1>6, <2>3, <3>3
      <4>2. ~(x.ms < r.ms)
        <5>1. SUFFICES ASSUME x.ms < r.ms
                       PROVE  FALSE
          OBVIOUS
        <5>2. Filled(n, r.ms)
          BY <1>2, <2>3, <3>3 DEF AloneInv, DenseInv
        <5>3. clock <= x.ms
          BY <1>5, <1>fresh, <1>6
        <5> QED
          BY <1>2, <1>5, <1>fresh, <1>6, <2>3, <5>1, <5>2, <5>3 DEF Filled
      <4> QED
        BY <1>3, <1>5, <1>fresh, <1>6, <4>1, <4>2
    <3>4. Filled(n, f)'
      BY <1>2, <1>6, <3>2 DEF Filled
    <3>5. \A r \in revs' : r.name = x.name /\ r # x => r.ms < x.ms
      BY <1>2, <1>6, <3>3
    <3> QED
      BY <3>1, <3>4, <3>5
  <2>4. Filled(n, f)' => Filled(job[p].rev.name, job[p].rev.ms)'
    BY <1>6 DEF x, Filled
  <2>5. job'[p].step = First'
    BY <1>1, <1>2 DEF First
  <2> QED
    BY <1>1, <1>4, <2>1, <2>2, <2>3, <2>4, <2>5 DEF PendingInv, x
<1>11. TopInv'
  <2>1. \A m \in Names : Coming(m) = {}
    BY <1>1, <1>4 DEF Coming
  <2>2. \A m \in Names : ValueOf(Durable, m)' = ValueOf(Durable, m) /\ (Tied(m) => Tied(m)')
    BY <1>2, SameFound DEF Revisions, Durable, Tied
  <2> QED
    BY <1>2, <2>1, <2>2 DEF AloneInv, TopInv
<1>12. ProjInv'
  BY <1>2 DEF AloneInv, ProjInv, Tied
<1>13. LoadedInv'
  BY <1>2, LoadedKept DEF AloneInv
<1> QED
  BY <1>8, <1>9, <1>10, <1>11, <1>12, <1>13 DEF AloneInv

\* What a step writes; nothing that is stored is dropped.
LEMMA StepWrites ==
    ASSUME TypeInv, Alone, AloneInv, NEW p \in Procs, Step(p)
    PROVE  /\ job[p] # Idle /\ job'[p] # Idle /\ job'[p].rev = job[p].rev
           /\ job'[p].step = After(job[p].step) /\ up[p]
           /\ mem'[p].revs = mem[p].revs \cup {job[p].rev} /\ mem'[p].linked = linked'
           /\ register = "quota" => mem'[p] = Durable'
           /\ revs' = revs \cup {job[p].rev}
           /\ linked' = IF job[p].step = "edge" THEN linked \cup {job[p].rev} ELSE linked
<1> DEFINE x == job[p].rev
<1>1. job[p] # Idle
  BY IdleFacts DEF Step
<1>2. /\ job[p] = [step |-> job[p].step, rev |-> x] /\ up[p]
      /\ mem[p].linked = linked /\ (register = "quota" => mem[p] = Durable)
      /\ job[p].step = First <=> x \notin revs
      /\ job[p].step # First => x \in mem[p].revs
  BY <1>1, JobFacts DEF TypeInv, AloneInv, MirrorInv, PendingInv
<1>3. /\ job'[p] = [step |-> After(job[p].step), rev |-> x]
      /\ job' = [job EXCEPT ![p].step = After(job[p].step)]
  <2>1. /\ job \in [Procs -> {Idle} \cup [step : Steps, rev : Revision]]
        /\ job' = [job EXCEPT ![p].step = After(job[p].step)]
    BY DEF Step, TypeInv, TypeOK
  <2>2. [job[p] EXCEPT !.step = After(job[p].step)] = [step |-> After(job[p].step), rev |-> x]
    BY <1>2
  <2> QED
    BY <2>1, <2>2
<1>4. job'[p] # Idle
  <2>1. After(job[p].step) # "idle"
    BY StepsFacts DEF Step, TypeInv
  <2> QED
    BY <1>3, <2>1 DEF Idle
<1>5. PICK known \in SUBSET Revision : mem[p] = [revs |-> known, linked |-> linked]
  BY <1>2 DEF TypeInv, TypeOK, View
<1>quota. register = "quota" => known = revs
  BY <1>2, <1>5 DEF Durable
<1>mem. mem \in [Procs -> View] /\ mem[p].revs = known
  BY <1>5 DEF TypeInv, TypeOK
<1>6. Stored(revs, x) = revs \cup {x} /\ Stored(known, x) = known \cup {x}
  <2>1. ASSUME register = "quota", NEW r \in revs, r.name = x.name, r.ms = x.ms
        PROVE  r = x
    <3>1. r # x => r.ms < x.ms
      BY <1>1, <2>1 DEF AloneInv, PendingInv
    <3>2. r.ms \in Nat
      BY DEF TypeInv, TypeOK, Revision
    <3> QED
      BY <2>1, <3>1, <3>2
  <2>2. register = "quota" => Stored(revs, x) = revs \cup {x}
    BY <2>1 DEF Stored
  <2>3. register # "quota" => Stored(revs, x) = revs \cup {x} /\ Stored(known, x) = known \cup {x}
    BY DEF Stored
  <2> QED
    BY <1>quota, <2>2, <2>3
<1>7. /\ mem'[p] = [revs |-> known \cup {x}, linked |-> linked'] /\ revs' = revs \cup {x}
      /\ linked' = IF job[p].step = "edge" THEN linked \cup {x} ELSE linked
  <2>1. CASE WriteRevision(p)
    <3>1. revs' = Stored(revs, x) /\ linked' = linked
          /\ mem' = [mem EXCEPT ![p].revs = Stored(known, x)]
      BY <1>mem, <2>1 DEF WriteRevision
    <3>2. mem'[p] = [revs |-> Stored(known, x), linked |-> linked]
      BY <1>5, <1>mem, <3>1
    <3>3. job[p].step # "edge"
      BY <2>1, StepsFacts DEF WriteRevision, TypeInv
    <3> QED
      BY <1>6, <3>1, <3>2, <3>3
  <2>2. CASE WriteEdge(p)
    <3>1. revs' = revs /\ linked' = linked \cup {x} /\ job[p].step = "edge"
          /\ mem' = [mem EXCEPT ![p].linked = linked \cup {x}]
      BY <1>5, <1>mem, <2>2 DEF WriteEdge
    <3>2. mem'[p] = [revs |-> known, linked |-> linked \cup {x}]
      BY <1>5, <1>mem, <3>1
    <3>3. x \in revs /\ x \in known
      BY <1>2, <1>mem, <3>1, StepsFacts DEF TypeInv
    <3> HIDE DEF x
    <3> QED
      BY <3>1, <3>2, <3>3
  <2>3. CASE WriteEvent(p)
    <3>1. /\ UNCHANGED <<revs, linked, mem>> /\ job[p].step = "event"
          /\ x \in revs /\ x \in known
      BY <1>2, <1>mem, <2>3 DEF WriteEvent
    <3> HIDE DEF x
    <3> QED
      BY <1>5, <3>1
  <2> QED
    BY <2>1, <2>2, <2>3 DEF Step
<1>8. /\ mem'[p].revs = mem[p].revs \cup {x} /\ mem'[p].linked = linked'
      /\ register = "quota" => mem'[p] = Durable'
  <2>1. mem'[p].revs = known \cup {x} /\ mem'[p].linked = linked'
    BY <1>7
  <2>2. register = "quota" => mem'[p] = [revs |-> revs', linked |-> linked']
    BY <1>quota, <1>7
  <2> QED
    BY <1>mem, <2>1, <2>2 DEF Durable
<1> QED
  BY <1>1, <1>2, <1>3, <1>4, <1>7, <1>8

LEMMA StepAlone ==
    ASSUME TypeInv, TypeInv', Alone, AloneInv, NEW p \in Procs, Step(p)
    PROVE  AloneInv'
<1>1. PICK x \in Revision : x = job[p].rev
  BY StepWrites, JobFacts DEF TypeInv
<1>2. /\ job[p] # Idle /\ job'[p] # Idle /\ job'[p].rev = x
      /\ job'[p].step = After(job[p].step) /\ up[p]
      /\ mem'[p].revs = mem[p].revs \cup {x} /\ mem'[p].linked = linked'
      /\ register = "quota" => mem'[p] = Durable'
      /\ revs' = revs \cup {x}
      /\ linked' = IF job[p].step = "edge" THEN linked \cup {x} ELSE linked
  BY <1>1, StepWrites
<1>3. UNCHANGED <<register, proj, up, clock, begun, acked, cut, missed>>
  BY StepWrites DEF Step, WriteRevision, WriteEdge, WriteEvent
<1>4. \A q \in Procs : q = p
  BY OneProc
<1>5. MirrorInv'
  <2>1. linked' \subseteq revs' /\ mem[p].revs \subseteq revs /\ (register = "quota" \/ ~Capped => missed = {})
    BY <1>2 DEF AloneInv, MirrorInv
  <2>2. mem'[p].revs \subseteq revs'
    BY <1>2, <2>1
  <2> QED
    BY <1>2, <1>3, <1>4, <2>1, <2>2 DEF MirrorInv
<1>6. \A n \in Names, ms \in Nat : Filled(n, ms) => Filled(n, ms)'
  BY <1>2, <1>3 DEF Filled
<1>7. /\ x.num = begun
      /\ register = "price" => x.ms <= clock /\ \A r \in revs : r.ms <= x.ms
      /\ register = "quota" =>
            /\ job[p].step \in {"event", "rebuild"} => x \in linked
            /\ Filled(x.name, x.ms)
            /\ \A r \in revs : r.name = x.name /\ r # x => r.ms < x.ms
  BY <1>1, <1>2 DEF AloneInv, PendingInv
<1>8. x.name \in Names /\ x.ms \in Nat /\ \A r \in revs : r.name \in Names /\ r.ms \in Nat
  BY DEF Revision, TypeInv, TypeOK
<1>9. DenseInv'
  BY <1>2, <1>3, <1>6, <1>7, <1>8 DEF AloneInv, DenseInv
<1>10. PendingInv'
  <2>1. /\ job'[p].step # First' /\ x \in revs' /\ x \in mem'[p].revs
        /\ register = "quota" => job'[p].step \in {"edge", "event", "rebuild"}
        /\ register = "quota" => (job'[p].step = "event" => job[p].step = "edge")
        /\ register = "quota" => (job'[p].step = "rebuild" => job[p].step = "event")
    <3>1. First' = First
      BY <1>3 DEF First
    <3>2. job[p].step \in Steps /\ job[p].step \in {"node", "edge", "event"}
      BY <1>2, JobFacts DEF Step, TypeInv
    <3>3. x \in revs'
      BY <1>2
    <3> QED
      BY <1>2, <3>1, <3>2, <3>3, StepsFacts DEF TypeInv
  <2>2. x.ms <= x.ms
    BY <1>8
  <2>3. Filled(x.name, x.ms)' => Filled(job[p].rev.name, job[p].rev.ms)'
    BY <1>2 DEF Filled
  <2>4. register' = "quota" =>
            /\ job'[p].step \in {"event", "rebuild"} => x \in linked'
            /\ Filled(x.name, x.ms)'
            /\ \A r \in revs' : r.name = x.name /\ r # x => r.ms < x.ms
    BY <1>2, <1>3, <1>6, <1>7, <1>8, <2>1
  <2>5. register' = "price" => x.ms <= clock' /\ \A r \in revs' : r.ms <= x.ms
    BY <1>2, <1>3, <1>7, <2>2
  <2> QED
    BY <1>2, <1>3, <1>4, <1>7, <2>1, <2>3, <2>4, <2>5 DEF PendingInv
<1>11. \A n \in Names : Tied(n) => Tied(n)'
  BY <1>2, <1>3 DEF Tied
<1>12. TopInv'
  <2>1. \A n \in Names : Coming(n)' = Coming(n)
    BY <1>1, <1>2, <1>4 DEF Coming
  <2>2. ASSUME NEW n \in Names, Revisions(Durable, n)' = Revisions(Durable, n)
        PROVE  Tied(n)' \/ ValueOf(Durable, n)' \in {acked'[n]} \cup cut'[n] \cup Coming(n)'
    BY <1>3, <1>11, <2>1, <2>2, SameFound DEF AloneInv, TopInv
  <2>3. ASSUME Revisions(Durable, x.name)' # Revisions(Durable, x.name)
        PROVE  Tied(x.name)' \/ ValueOf(Durable, x.name)' \in Coming(x.name)'
    <3>1. x \in Revisions(Durable, x.name)'
      BY <1>2, <1>3, <2>3 DEF Revisions, Durable
    <3>2. \/ Tied(job[p].rev.name)'
          \/ ValueOf(Durable, job[p].rev.name)' = job'[p].rev.val
      <4>1. PendingFound'
        BY <1>5, <1>10, PendingIsFoundNext
      <4>2. (job[p].rev \in Revisions(Durable, job[p].rev.name))'
        BY <1>2, <3>1 DEF Revisions, Durable
      <4> QED
        BY <1>2, <4>1, <4>2 DEF PendingFound
    <3>3. Tied(x.name)' \/ ValueOf(Durable, x.name)' = x.val
      BY <1>2, <3>2 DEF Tied, ValueOf, Revisions, Durable
    <3>4. x.val \in Coming(x.name)'
      BY <1>2 DEF Coming
    <3> QED
      BY <3>3, <3>4
  <2>4. ASSUME NEW n \in Names, n # x.name
        PROVE  Revisions(Durable, n)' = Revisions(Durable, n)
    <3>1. x \notin Revisions(Durable, n) /\ x \notin Revisions(Durable, n)'
      BY <2>4 DEF Revisions, Durable
    <3>2. \A r : r # x => (r \in revs' <=> r \in revs) /\ (r \in linked' <=> r \in linked)
      BY <1>2
    <3> QED
      BY <1>3, <3>1, <3>2 DEF Revisions, Durable
  <2> QED
    BY <2>2, <2>3, <2>4 DEF TopInv
<1>13. ProjInv'
  BY <1>3, <1>11 DEF AloneInv, ProjInv
<1>14. LoadedInv'
  <2>1. SUFFICES ASSUME NEW n \in Names \ missed
                 PROVE  Tied(n)' \/ ValueOf(mem[p], n)' = ValueOf(Durable, n)'
    BY <1>3, <1>4 DEF LoadedInv
  <2>2. CASE register = "quota"
    <3>1. mem'[p] = Durable'
      BY <1>2, <2>2
    <3> QED
      BY <3>1 DEF ValueOf, Revisions
  <2>3. CASE register = "price" /\ n # x.name
    <3>1. mem'[p].revs = mem[p].revs \cup {x} /\ revs' = revs \cup {x}
      BY <1>2
    <3>2. Revisions(mem[p], n)' = Revisions(mem[p], n)
      BY <1>3, <2>3, <3>1 DEF Revisions
    <3>3. Revisions(Durable, n)' = Revisions(Durable, n)
      BY <1>3, <2>3, <3>1 DEF Revisions, Durable
    <3>4. Tied(n) \/ ValueOf(mem[p], n) = ValueOf(Durable, n)
      BY <1>2 DEF AloneInv, LoadedInv
    <3> QED
      BY <1>3, <1>11, <3>2, <3>3, <3>4, SameFound, SameFoundHere
  <2>4. CASE register = "price" /\ n = x.name
    <3>1. PendingFound'
      BY <1>5, <1>10, PendingIsFoundNext
    <3>2. /\ (job[p].rev \in Revisions(Durable, job[p].rev.name))'
          /\ (job[p].rev \in Revisions(mem[p], job[p].rev.name))'
      BY <1>2, <1>3, <2>4 DEF Revisions, Durable
    <3>3. \/ Tied(job[p].rev.name)'
          \/ /\ ValueOf(Durable, job[p].rev.name)' = job'[p].rev.val
             /\ ValueOf(mem[p], job[p].rev.name)' = job'[p].rev.val
      BY <1>2, <3>1, <3>2 DEF PendingFound
    <3>4. Tied(x.name)' \/ ValueOf(mem[p], x.name)' = ValueOf(Durable, x.name)'
      BY <1>2, <3>3 DEF Tied, ValueOf, Revisions, Durable
    <3> QED
      BY <2>4, <3>4
  <2> QED
    BY <2>2, <2>3, <2>4, StepsFacts DEF TypeInv
<1> QED
  BY <1>5, <1>9, <1>10, <1>12, <1>13, <1>14 DEF AloneInv

\* A rebuild stores the revision that is acknowledged, and for the other names
\* what they had.
LEMMA RebuildAlone ==
    ASSUME TypeInv, Alone, AloneInv, NEW p \in Procs, Rebuild(p)
    PROVE  AloneInv'
<1> DEFINE x == job[p].rev
<1>1. job[p] # Idle
  BY IdleFacts DEF Rebuild
<1>2. /\ UNCHANGED <<register, revs, linked, mem, up, clock, begun>>
      /\ proj' = Rebuilt(mem[p]) /\ job'[p] = Idle
      /\ acked' = [acked EXCEPT ![x.name] = x.val]
      /\ cut' = [cut EXCEPT ![x.name] = {}]
      /\ missed' = missed \ {x.name}
  BY DEF Rebuild, TypeInv, TypeOK
<1>3. /\ x \in Revision /\ x.name \in Names /\ up[p]
      /\ acked \in [Names -> Vals] /\ cut \in [Names -> SUBSET Vals]
  BY <1>1, JobFacts DEF TypeInv, TypeOK, AloneInv, MirrorInv
<1>4. \A q \in Procs : q = p
  BY OneProc
<1>5. \A n \in Names : /\ Tied(n)' = Tied(n) /\ ValueOf(Durable, n)' = ValueOf(Durable, n)
                       /\ ValueOf(mem[p], n)' = ValueOf(mem[p], n)
  BY <1>2, SameFound, SameFoundHere DEF Tied, Revisions, Durable
<1>6. \/ Tied(x.name)
      \/ ValueOf(Durable, x.name) = x.val /\ ValueOf(mem[p], x.name) = x.val
  <2>1. x \in Revisions(Durable, x.name) /\ x \in Revisions(mem[p], x.name)
    <3>1. job[p].step = "rebuild" /\ job[p].step # First
      BY StepsFacts DEF Rebuild, TypeInv
    <3>2. x \in revs /\ x \in mem[p].revs /\ (register = "quota" => x \in linked)
      BY <1>1, <3>1 DEF AloneInv, PendingInv
    <3>3. mem[p].linked = linked
      BY <1>3 DEF AloneInv, MirrorInv
    <3> HIDE DEF x
    <3> QED
      BY <3>2, <3>3 DEF Revisions, Durable
  <2>2. PendingFound
    BY PendingIsFound DEF AloneInv
  <2> QED
    BY <1>1, <2>1, <2>2 DEF PendingFound
<1>7. ASSUME NEW n \in Names
      PROVE  Tied(n) \/ ValueOf(Durable, n) \in {acked'[n]} \cup cut'[n]
  <2>1. CASE n = x.name
    BY <1>2, <1>3, <1>6, <2>1
  <2>2. CASE n # x.name
    <3>1. Coming(n) = {}
      BY <1>4, <2>2 DEF Coming
    <3> HIDE DEF x
    <3> QED
      BY <1>2, <1>3, <2>2, <3>1 DEF AloneInv, TopInv
  <2> QED
    BY <2>1, <2>2
<1>8. ASSUME NEW n \in Names \ missed'
      PROVE  Tied(n) \/ ValueOf(mem[p], n) = ValueOf(Durable, n)
  <2>1. CASE n = x.name
    BY <1>6, <2>1
  <2>2. CASE n # x.name
    <3>1. n \in Names \ missed
      BY <1>2, <2>2
    <3> HIDE DEF x
    <3> QED
      BY <1>3, <3>1 DEF AloneInv, LoadedInv
  <2> QED
    BY <2>1, <2>2
<1> HIDE DEF x
<1>9. TopInv'
  BY <1>5, <1>7 DEF TopInv
<1>10. LoadedInv'
  BY <1>4, <1>5, <1>8 DEF LoadedInv
<1>11. ProjInv'
  <2>1. \A n \in Names : proj'[n] = ValueOf(mem[p], n)
    BY <1>2 DEF Rebuilt
  <2>2. \A n \in Names \ missed' : Tied(n) \/ proj'[n] \in {acked'[n]} \cup cut'[n]
    BY <1>7, <1>8, <2>1
  <2> QED
    BY <1>5, <2>2 DEF ProjInv
<1>12. MirrorInv'
  BY <1>2, <1>4 DEF AloneInv, MirrorInv, Durable
<1>13. DenseInv'
  BY <1>2 DEF AloneInv, DenseInv, Filled
<1>14. PendingInv'
  BY <1>2, <1>4 DEF PendingInv
<1> QED
  BY <1>9, <1>10, <1>11, <1>12, <1>13, <1>14 DEF AloneInv

\* An interrupted revision leaves its value among those that may show.
LEMMA CutOffAlone ==
    ASSUME TypeInv, Alone, AloneInv, NEW p \in Procs, CutOff(p), UNCHANGED mem,
           \A q \in Procs : up'[q] => up[q]
    PROVE  AloneInv'
<1>1. /\ UNCHANGED <<register, revs, linked, proj, clock, begun, acked, missed>>
      /\ job'[p] = Idle
  BY DEF CutOff, TypeInv, TypeOK
<1>2. \A q \in Procs : q = p
  BY OneProc
<1>3. \A n \in Names : Tied(n)' = Tied(n) /\ ValueOf(Durable, n)' = ValueOf(Durable, n)
  BY <1>1, SameFound DEF Tied, Revisions, Durable
<1>4. ASSUME NEW n \in Names
      PROVE  cut[n] \cup Coming(n) \subseteq cut'[n]
  <2>1. cut \in [Names -> SUBSET Vals]
    BY DEF TypeInv, TypeOK
  <2>2. CASE job[p] = Idle
    BY <1>2, <2>2 DEF CutOff, Coming
  <2>3. CASE job[p] # Idle
    <3> DEFINE x == job[p].rev
    <3>1. x.name \in Names
      BY <2>3, JobFacts DEF TypeInv
    <3>2. cut' = [cut EXCEPT ![x.name] = @ \cup {x.val}]
      BY <2>3 DEF CutOff
    <3>3. Coming(n) = IF n = x.name THEN {x.val} ELSE {}
      BY <1>2, <2>3 DEF Coming
    <3> HIDE DEF x
    <3> QED
      BY <2>1, <3>1, <3>2, <3>3
  <2> QED
    BY <2>2, <2>3
<1>5. TopInv'
  BY <1>1, <1>3, <1>4 DEF AloneInv, TopInv
<1>6. ProjInv'
  BY <1>1, <1>3, <1>4 DEF AloneInv, ProjInv
<1>7. MirrorInv'
  BY <1>1, <1>2 DEF AloneInv, MirrorInv, Durable
<1>8. DenseInv'
  BY <1>1 DEF AloneInv, DenseInv, Filled
<1>9. PendingInv'
  BY <1>1, <1>2 DEF PendingInv
<1>10. LoadedInv'
  BY <1>1, LoadedKept DEF AloneInv
<1> QED
  BY <1>5, <1>6, <1>7, <1>8, <1>9, <1>10 DEF AloneInv

LEMMA CrashAlone ==
    ASSUME TypeInv, Alone, AloneInv, NEW p \in Procs, Fails(p) \/ Crash(p)
    PROVE  AloneInv'
<1>1. CutOff(p) /\ UNCHANGED mem
  BY DEF Fails, Crash
<1>2. \A q \in Procs : up'[q] => up[q]
  BY DEF Fails, Crash, TypeInv, TypeOK
<1> QED
  BY <1>1, <1>2, CutOffAlone

LEMMA FirstReadAlone ==
    ASSUME TypeInv, Alone, AloneInv, NEW p \in Procs, FirstRead(p)
    PROVE  AloneInv'
<1>1. /\ UNCHANGED <<register, revs, linked, mem, job, up, clock, begun, acked, cut, missed>>
      /\ proj' = Rebuilt(mem[p]) /\ job[p] = Idle /\ up[p]
  BY DEF FirstRead
<1>2. \A q \in Procs : q = p
  BY OneProc
<1>3. \A n \in Names : Tied(n)' = Tied(n) /\ ValueOf(Durable, n)' = ValueOf(Durable, n)
  BY <1>1, SameFound DEF Tied, Revisions, Durable
<1>4. \A n \in Names : Coming(n) = {} /\ Coming(n)' = {}
  BY <1>1, <1>2 DEF Coming
<1>5. TopInv'
  BY <1>1, <1>3, <1>4 DEF AloneInv, TopInv
<1>6. ProjInv'
  <2>1. \A n \in Names : proj'[n] = ValueOf(mem[p], n)
    BY <1>1 DEF Rebuilt
  <2>2. \A n \in Names \ missed : Tied(n) \/ proj'[n] = ValueOf(Durable, n)
    BY <1>1, <2>1 DEF AloneInv, LoadedInv
  <2>3. \A n \in Names : Tied(n) \/ ValueOf(Durable, n) \in {acked[n]} \cup cut[n]
    BY <1>4 DEF AloneInv, TopInv
  <2> QED
    BY <1>1, <1>3, <2>2, <2>3 DEF ProjInv
<1>7. MirrorInv'
  BY <1>1 DEF AloneInv, MirrorInv, Durable
<1>8. DenseInv'
  BY <1>1 DEF AloneInv, DenseInv, Filled
<1>9. PendingInv'
  BY <1>1 DEF AloneInv, PendingInv, Filled, First
<1>10. LoadedInv'
  BY <1>1, LoadedKept DEF AloneInv
<1> QED
  BY <1>5, <1>6, <1>7, <1>8, <1>9, <1>10 DEF AloneInv

LEMMA RestartAlone ==
    ASSUME TypeInv, Alone, AloneInv, NEW p \in Procs, Restart(p)
    PROVE  AloneInv'
<1>1. /\ UNCHANGED <<register, revs, linked, proj, job, clock, begun, acked, cut>>
      /\ ~up[p] /\ job[p] = Idle
  BY DEF Restart, AloneInv, MirrorInv
<1>2. \A q \in Procs : q = p
  BY OneProc
<1>3. PICK view \in Loads :
         /\ mem'[p] = view
         /\ missed' = missed \cup {n \in Names : ValueOf(view, n) # ValueOf(Durable, n)}
  BY RestartLoads
<1>4. /\ view.linked = linked /\ view.revs \subseteq revs
      /\ register = "quota" \/ ~Capped => view = Durable
  BY LoadFacts
<1>5. \A n \in Names : /\ Tied(n)' = Tied(n) /\ ValueOf(Durable, n)' = ValueOf(Durable, n)
                       /\ Coming(n)' = Coming(n)
  BY <1>1, SameFound DEF Tied, Revisions, Durable, Coming
<1>6. MirrorInv'
  <2>1. register' = "quota" \/ ~Capped => missed' = {}
    BY <1>1, <1>3, <1>4 DEF AloneInv, MirrorInv
  <2>2. register' = "quota" => mem'[p] = Durable'
    BY <1>1, <1>3, <1>4 DEF Durable
  <2>3. linked \subseteq revs
    BY DEF AloneInv, MirrorInv
  <2> QED
    BY <1>1, <1>2, <1>3, <1>4, <2>1, <2>2, <2>3 DEF MirrorInv
<1>7. DenseInv'
  BY <1>1 DEF AloneInv, DenseInv, Filled
<1>8. PendingInv'
  BY <1>1, <1>2 DEF PendingInv
<1>9. TopInv'
  BY <1>1, <1>5 DEF AloneInv, TopInv
<1>10. LoadedInv'
  <2>1. ASSUME NEW n \in Names \ missed'
        PROVE  ValueOf(mem[p], n)' = ValueOf(Durable, n)'
    <3>1. ValueOf(mem[p], n)' = ValueOf(view, n)
      BY <1>1, <1>3, LoadedFound
    <3>2. ValueOf(view, n) = ValueOf(Durable, n)
      BY <1>3, <2>1
    <3> QED
      BY <1>5, <2>1, <3>1, <3>2
  <2> QED
    BY <1>2, <2>1 DEF LoadedInv
<1>11. ProjInv'
  BY <1>1, <1>3, <1>5 DEF AloneInv, ProjInv
<1> QED
  BY <1>6, <1>7, <1>8, <1>9, <1>10, <1>11 DEF AloneInv

LEMMA TickAlone ==
    ASSUME TypeInv, Alone, AloneInv, Tick \/ UNCHANGED vars
    PROVE  AloneInv'
<1>1. /\ UNCHANGED <<register, revs, linked, proj, mem, job, up, begun, acked, cut, missed>>
      /\ clock \in Nat /\ clock' \in Nat /\ clock <= clock'
  BY DEF Tick, vars, TypeInv, TypeOK
<1>2. \A n \in Names : Tied(n)' = Tied(n) /\ ValueOf(Durable, n)' = ValueOf(Durable, n)
                       /\ Coming(n)' = Coming(n)
  BY <1>1, SameFound DEF Tied, Revisions, Durable, Coming
<1>3. \A n \in Names, ms \in Nat : Filled(n, ms) => Filled(n, ms)'
  BY <1>1 DEF Filled
<1>4. \A ms \in Nat : ms <= clock => ms <= clock'
  BY <1>1
<1>5. \A r \in Revision : r.name \in Names /\ r.ms \in Nat
  BY DEF Revision
<1>6. revs \subseteq Revision
  BY DEF TypeInv, TypeOK
<1>7. MirrorInv'
  BY <1>1 DEF AloneInv, MirrorInv, Durable
<1>8. DenseInv'
  BY <1>1, <1>3, <1>4, <1>5, <1>6 DEF AloneInv, DenseInv
<1>9. PendingInv'
  <2>1. SUFFICES ASSUME NEW p \in Procs, job[p] # Idle
                 PROVE  /\ job[p].rev.num = begun
                        /\ job[p].step = First <=> job[p].rev \notin revs
                        /\ job[p].step # First => job[p].rev \in mem[p].revs
                        /\ register = "price" =>
                              /\ job[p].rev.ms <= clock'
                              /\ \A r \in revs : r.ms <= job[p].rev.ms
                        /\ register = "quota" =>
                              /\ job[p].step \in {"event", "rebuild"} => job[p].rev \in linked
                              /\ Filled(job[p].rev.name, job[p].rev.ms)'
                              /\ \A r \in revs : r.name = job[p].rev.name /\ r # job[p].rev
                                                 => r.ms < job[p].rev.ms
    BY <1>1 DEF PendingInv, First
  <2>2. job[p].rev \in Revision
    BY <2>1, JobFacts DEF TypeInv
  <2>3. Filled(job[p].rev.name, job[p].rev.ms) => Filled(job[p].rev.name, job[p].rev.ms)'
    <3>1. PICK n \in Names, ms \in Nat : n = job[p].rev.name /\ ms = job[p].rev.ms
      BY <1>5, <2>2
    <3> QED
      BY <1>1, <1>3, <3>1 DEF Filled
  <2> QED
    BY <1>4, <1>5, <2>1, <2>2, <2>3 DEF AloneInv, PendingInv
<1>10. TopInv'
  BY <1>1, <1>2 DEF AloneInv, TopInv
<1>11. ProjInv'
  BY <1>1, <1>2 DEF AloneInv, ProjInv
<1>12. LoadedInv'
  BY <1>1, LoadedKept DEF AloneInv
<1> QED
  BY <1>7, <1>8, <1>9, <1>10, <1>11, <1>12 DEF AloneInv

LEMMA AloneInit == Init => AloneInv
<1> SUFFICES ASSUME Init
             PROVE  AloneInv
  OBVIOUS
<1>1. MirrorInv /\ DenseInv /\ PendingInv /\ ProjInv
  BY DEF Init, MirrorInv, DenseInv, PendingInv, ProjInv, Durable
<1>loaded. LoadedInv
  BY DEF Init, LoadedInv, Durable
<1>2. ASSUME NEW n \in Names
      PROVE  ValueOf(Durable, n) = acked[n]
  <2>1. Revisions(Durable, n) = {}
    BY DEF Init, Revisions, Durable
  <2> QED
    BY <2>1 DEF Init, ValueOf
<1> QED
  BY <1>1, <1>loaded, <1>2 DEF AloneInv, TopInv

LEMMA AloneStep == TypeInv /\ TypeInv' /\ (Alone => AloneInv) /\ [Next]_vars => (Alone => AloneInv')
<1> SUFFICES ASSUME TypeInv, TypeInv', Alone, AloneInv, [Next]_vars
             PROVE  AloneInv'
  OBVIOUS
<1>1. ASSUME NEW p \in Procs, NEW n \in Names, Revise(p, n)
      PROVE  AloneInv'
  BY <1>1, BeginAlone DEF Revise, UpsertQuota, RevokeQuota, UpsertPrice, RevokePrice
<1>2. ASSUME NEW p \in Procs, Step(p)
      PROVE  AloneInv'
  BY <1>2, StepAlone
<1>3. ASSUME NEW p \in Procs, Rebuild(p)
      PROVE  AloneInv'
  BY <1>3, RebuildAlone
<1>4. ASSUME NEW p \in Procs, Fails(p) \/ Crash(p)
      PROVE  AloneInv'
  BY <1>4, CrashAlone
<1>5. ASSUME NEW p \in Procs, FirstQuota(p) \/ FirstPrice(p)
      PROVE  AloneInv'
  BY <1>5, FirstReadAlone DEF FirstQuota, FirstPrice
<1>6. ASSUME NEW p \in Procs, Restart(p)
      PROVE  AloneInv'
  BY <1>6, RestartAlone
<1>7. CASE Tick \/ UNCHANGED vars
  BY <1>7, TickAlone
<1> QED
  BY <1>1, <1>2, <1>3, <1>4, <1>5, <1>6, <1>7 DEF Next

-----------------------------------------------------------------------------
(* The theorems.                                                             *)

LEMMA AloneInvCorrect == Spec => [](Alone => AloneInv)
<1>1. Init => (Alone => AloneInv)
  BY AloneInit
<1>2. TypeInv /\ TypeInv' /\ (Alone => AloneInv) /\ [Next]_vars => (Alone => AloneInv)'
  BY AloneStep
<1> QED
  BY <1>1, <1>2, TypeInvCorrect, PTL DEF Spec

\* Requests are admitted and charged by the value acknowledged last for a name,
\* or by one of a revision that was interrupted since, on a store whose load
\* reads every event.
THEOREM ServedCorrect ==
    ASSUME ~Capped
    PROVE  Spec => []ServedIsLatest
<1>1. (Alone => AloneInv) => ServedIsLatest
  BY DEF AloneInv, MirrorInv, ProjInv, ServedIsLatest, Settled, Latest, AllRevoked, Served
<1> QED
  BY <1>1, AloneInvCorrect, PTL

\* On any store that is so of every name but those a load has left to an older
\* value, until they are revised again.
THEOREM ReloadedCorrect == Spec => []ServedUnlessMissed
<1>1. TypeInv /\ (Alone => AloneInv) => ServedUnlessMissed
  <2>1. SUFFICES ASSUME AloneInv, Settled, NEW n \in Names, register = "quota" \/ n \notin missed
                 PROVE  Latest(n)
    BY StepsFacts DEF TypeInv, ServedUnlessMissed, Settled
  <2>2. n \notin missed
    BY <2>1 DEF AloneInv, MirrorInv
  <2> QED
    BY <2>1, <2>2 DEF AloneInv, ProjInv, Settled, Latest, AllRevoked, Served
<1> QED
  BY <1>1, TypeInvCorrect, AloneInvCorrect, PTL

\* No revision and no edge is ever overwritten or dropped.
THEOREM KeptCorrect == Spec => RevisionsKept
<1>1. ASSUME TypeInv, Alone => AloneInv, [Next]_vars, Alone
      PROVE  revs \subseteq revs' /\ linked \subseteq linked'
  <2>1. ASSUME NEW p \in Procs, NEW n \in Names, Revise(p, n)
        PROVE  revs \subseteq revs' /\ linked \subseteq linked'
    BY <2>1 DEF Revise, UpsertQuota, RevokeQuota, UpsertPrice, RevokePrice, Begin
  <2>2. ASSUME NEW p \in Procs, Step(p)
        PROVE  revs \subseteq revs' /\ linked \subseteq linked'
    BY <1>1, <2>2, StepWrites
  <2>3. ASSUME NEW p \in Procs, Rebuild(p) \/ Restart(p) \/ Fails(p) \/ Crash(p)
        PROVE  revs \subseteq revs' /\ linked \subseteq linked'
    BY <2>3 DEF Rebuild, Restart, Fails, Crash, CutOff
  <2>4. ASSUME NEW p \in Procs, FirstQuota(p) \/ FirstPrice(p)
        PROVE  revs \subseteq revs' /\ linked \subseteq linked'
    BY <2>4 DEF FirstQuota, FirstPrice, FirstRead
  <2>5. CASE Tick \/ UNCHANGED vars
    BY <2>5 DEF Tick, vars
  <2> QED
    BY <1>1, <2>1, <2>2, <2>3, <2>4, <2>5 DEF Next
<1>2. TypeInv /\ (Alone => AloneInv) /\ [Next]_vars
      => [Alone => revs \subseteq revs' /\ linked \subseteq linked']_vars
  BY <1>1
<1> QED
  BY <1>2, TypeInvCorrect, AloneInvCorrect, PTL DEF Spec, RevisionsKept
===============================================================================
