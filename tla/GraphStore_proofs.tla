-------------------------- MODULE GraphStore_proofs --------------------------
(*******************************************************************************)
(* Theorems about GraphStore for every set of backends and of processes of the *)
(* relational store, every size of the policy file and any numbers of appends, *)
(* conversations, changes, crashes and failed writes, where the JSONL log and the *)
(* kogwistar store belong to one process each (OneWriter).                     *)
(*                                                                             *)
(*   TypeCorrect       Spec => []TypeOK                                        *)
(*   DanglesCorrect    Spec => []NothingDangles                                *)
(*   SeededCorrect     Spec => []SeededWhole                                   *)
(*   DurableCorrect    Spec => []AcknowledgedIsDurable                         *)
(*   RevisionsCorrect  Spec => []RevisionsLinear                               *)
(*   HistoryCorrect    Spec => HistoryKept                                     *)
(*                                                                             *)
(* GraphInv says of every process what its memory has to do with the disk and in *)
(* which order the writes it still has to make come: that is what an operation *)
(* that may end between any two of them is safe by.                            *)
(*******************************************************************************)
EXTENDS GraphStore, FiniteSetTheorems, FunctionTheorems, TLAPS

-------------------------------------------------------------------------------
(* The invariant.                                                              *)

\* The JSONL log and the kogwistar store belong to one process.
OneWriter == \A b \in Backends \ {"postgres"} : \E p \in Procs : ProcsOf[b] = {p}

Vals == 0..(MaxUsage + MaxRevises)
W == [op : {"put", "lane", "load"}, about : Entities, val : Vals]
     \cup [op : {"event"}, about : Entities, val : {"init", "access"}]

TypeInv ==
    /\ backend \in Backends
    /\ disk \in [Entities -> Payload]
    /\ events \subseteq [kind : {"init", "access"}, num : Nat \ {0}, about : Entities]
    /\ IsFiniteSet(events)
    /\ lane \in 0..MaxUsage /\ eventSeq \in Nat
    /\ revs \subseteq [seq : Nat \ {0}, of : Entities, prev : Nat] /\ IsFiniteSet(revs)
    /\ current \in [Entities -> Nat]
    /\ sealed \subseteq GraphKeys /\ torn \in BOOLEAN
    /\ up \in [Procs -> {"down", "seeding", "serving"}]
    /\ gkey \in [Procs -> GraphKeys]
    /\ mem \in [Procs -> [Entities -> Payload]]
    /\ memEvents \in [Procs -> Nat]
    /\ todo \in [Procs -> Seq(W)]
    /\ lost \in [Procs -> SUBSET Entities]
    /\ slipped \in BOOLEAN /\ partly \in BOOLEAN
    /\ done \in [usage : 0..MaxUsage, access : 0..MaxAccess, revise : 0..MaxRevises,
                 crash : Nat, fail : Nat]

Kind(e) == e[1]
On(e) == disk[e] # Absent

Puts(w, e) == w.op = "put" /\ w.about = e

\* e is on disk, or will be before place i of the list of p.
Comes(p, e, i) == On(e) \/ \E j \in DOMAIN todo[p] : j < i /\ Puts(todo[p][j], e)

\* The write that moves the head of the chain.
Moves(w) == IF backend = "kogwistar" THEN w.op = "lane" ELSE Puts(w, HeadNode)

\* Ledger events and access conversations are not older than their count.
Old(e, v) ==
    /\ Kind(e) = "usage" => v <= done.usage
    /\ Kind(e) = "access" /\ e[2] > done.access => v = Absent
OldOK == \A e \in Entities : Old(e, disk[e]) /\ \A p \in ProcsOf[backend] : Old(e, mem[p][e])

\* One write of p: a seeding puts policy entities, the relational store has no
\* ledger here, and what memory knows of a new ledger event or conversation is
\* on disk.
WriteOK(p, w) ==
    /\ w.op = "put" =>
          /\ Old(w.about, w.val)
          /\ up[p] = "seeding" => w.about \in Seeds \cup {Sentinel}
          /\ backend = "postgres" => Kind(w.about) \notin {"head", "usage", "edge"}
          /\ backend = "kogwistar" /\ Kind(w.about) \in {"usage", "access"} =>
                (mem[p][w.about] = w.val => On(w.about))
    /\ w.op = "event" => up[p] = "seeding" \/ Kind(w.about) = "access"
    /\ Moves(w) => w.val <= MaxUsage
    /\ w.op = "lane" => w.val <= MaxUsage

\* The chain as far as n, when p gets to place i.
ChainComes(p, n, i) ==
    \A m \in 1..n : Comes(p, Usage(m), i) /\ (slipped \/ Comes(p, Edge(m), i))

\* The order of the writes of p: a node before the event about it, a ledger event
\* and its edge before the head reaches it.
OrderOK(p) ==
    LET t == todo[p] IN
    \A i \in DOMAIN t :
        /\ t[i].op = "event" => Comes(p, t[i].about, i)
        /\ Moves(t[i]) => t[i].val >= ChainHead /\ ChainComes(p, t[i].val, i)
        /\ \A m \in 1..MaxUsage : Puts(t[i], Usage(m)) => m > ChainHead
        /\ Moves(t[i]) => \A j \in DOMAIN t : j > i =>
              /\ Moves(t[j]) => t[j].val >= t[i].val
              /\ \A m \in 1..MaxUsage : Puts(t[j], Usage(m)) => m > t[i].val

\* The memory of a process that is up, and what it does if it seeds.
MemoryOK(p) ==
    /\ Alone => \A e \in Entities : /\ mem[p][e] # disk[e] => e \in lost[p]
                                    /\ mem[p][e] = Absent => disk[e] = Absent
    /\ backend = "kogwistar" /\ (~slipped \/ up[p] = "seeding") => lost[p] = {}
    /\ backend = "postgres" => mem[p][HeadNode] = Absent
    /\ backend = "jsonl" => memEvents[p] = Cardinality(events)
    /\ HeadSeq(p) \in ChainHead..MaxUsage
    /\ \A m \in 1..HeadSeq(p) : On(Usage(m)) /\ (slipped \/ On(Edge(m)))

Seeded == \E s \in Seeds : On(s)

UpOK(p) ==
    /\ up[p] = "seeding" => \A s \in Seeds : Comes(p, s, Len(todo[p]) + 1)
    /\ up[p] = "serving" => Seeded

ProcOK(p) ==
    /\ \A i \in DOMAIN todo[p] : WriteOK(p, todo[p][i])
    /\ up[p] = "down" => todo[p] = <<>>
    /\ OrderOK(p)
    /\ up[p] # "down" => MemoryOK(p) /\ UpOK(p)

\* The chain on disk.
DiskChain ==
    /\ backend # "kogwistar" => ~slipped
    /\ backend = "postgres" => disk[HeadNode] = Absent
    /\ ChainHead \in 0..MaxUsage
    /\ \A m \in 1..ChainHead : On(Usage(m)) /\ (slipped \/ On(Edge(m)))

EventsOK ==
    /\ \A e \in events : On(e.about)
    /\ backend = "jsonl" => \A e \in events : e.num <= Cardinality(events)
    /\ backend = "kogwistar" => \A e \in events : e.num <= eventSeq

\* The policy graph is there as a whole, or one process makes it so.
SeedsOK ==
    /\ (\E e \in Entities \ {Sentinel} : On(e)) => Seeded
    /\ Seeded /\ ~partly => \/ \A s \in Seeds : On(s)
                            \/ \E p \in ProcsOf[backend] : up[p] = "seeding"

\* Revisions are numbered upwards, the current one of an entity last, and it is
\* the only one of the entity that none supersedes.
RevsOK ==
    backend = "kogwistar" =>
        /\ \A r \in revs : r.seq < NextSeq /\ r.prev < NextSeq
        /\ \A r, s \in revs : r.seq = s.seq => r = s
        /\ \A e \in Entities :
              /\ current[e] < NextSeq
              /\ current[e] = 0 => disk[e] = Absent /\ \A r \in revs : r.of # e
              /\ current[e] # 0 => disk[e] # Absent
              /\ \A r \in revs : r.of = e =>
                    /\ r.prev # current[e]
                    /\ r.seq = current[e] \/ \E s \in revs : s.of = e /\ s.prev = r.seq
              /\ \A r, s \in revs : r.of = e /\ s.of = e /\ r.prev = s.prev => r = s

GraphInv ==
    /\ TypeInv /\ OldOK /\ DiskChain /\ EventsOK /\ SeedsOK /\ RevsOK
    /\ \A p \in ProcsOf[backend] : ProcOK(p)

-------------------------------------------------------------------------------
(* Entities and lists.                                                         *)

\* Entities of different kinds are different, and those of one kind differ by
\* their number.
LEMMA EntityFacts ==
    /\ Sentinel \in Entities /\ Kind(Sentinel) = "sentinel"
    /\ HeadNode \in Entities /\ Kind(HeadNode) = "head"
    /\ Seeds \subseteq Entities /\ \A s \in Seeds : Kind(s) = "seed"
    /\ Seed(1) \in Seeds
    /\ \A n \in 1..MaxUsage : /\ Usage(n) \in Entities /\ Kind(Usage(n)) = "usage"
                              /\ Edge(n) \in Entities /\ Kind(Edge(n)) = "edge"
    /\ \A n \in 1..MaxAccess : Access(n) \in Entities /\ Kind(Access(n)) = "access"
    /\ \A m, n \in Nat : (Usage(m) = Usage(n) => m = n) /\ (Edge(m) = Edge(n) => m = n)
    /\ \A n \in Nat : Access(n)[2] = n
    /\ \A e \in Entities :
          /\ Kind(e) = "head" => e = HeadNode
          /\ Kind(e) \in {"sentinel", "head", "seed", "usage", "edge", "access"}
<1>1. SeedSize \in Nat \ {0} /\ MaxUsage \in Nat /\ MaxAccess \in Nat
  BY BoundsAssumption
<1>2. Seed(1) \in Seeds
  BY <1>1 DEF Seeds
<1>3. \A s \in Seeds : Kind(s) = "seed"
  BY DEF Seeds, Seed, Kind
<1>4. \A n \in Nat : /\ Kind(Usage(n)) = "usage" /\ Kind(Edge(n)) = "edge"
                     /\ Kind(Access(n)) = "access" /\ Access(n)[2] = n
                     /\ Usage(n)[2] = n /\ Edge(n)[2] = n
  BY DEF Kind, Usage, Edge, Access
<1>5. \A m, n \in Nat : (Usage(m) = Usage(n) => m = n) /\ (Edge(m) = Edge(n) => m = n)
  BY <1>4
<1>6. Kind(Sentinel) = "sentinel" /\ Kind(HeadNode) = "head"
  BY DEF Kind, Sentinel, HeadNode
<1>7. \A e \in Entities :
         \/ e \in {Sentinel, HeadNode} \/ e \in Seeds
         \/ \E n \in 1..MaxUsage : e = Usage(n) \/ e = Edge(n)
         \/ \E n \in 1..MaxAccess : e = Access(n)
  BY DEF Entities
<1>8. \A n \in (1..MaxUsage) \cup (1..MaxAccess) : n \in Nat
  BY <1>1
<1>9. \A e \in Entities :
         /\ Kind(e) = "head" => e = HeadNode
         /\ Kind(e) \in {"sentinel", "head", "seed", "usage", "edge", "access"}
  BY <1>3, <1>4, <1>6, <1>7, <1>8
<1> QED
  BY <1>2, <1>3, <1>4, <1>5, <1>6, <1>8, <1>9 DEF Entities

\* What is left of a list after its first write.
LEMMA TailFacts ==
    ASSUME NEW S, NEW t \in Seq(S), t # <<>>
    PROVE  /\ Head(t) = t[1] /\ 1 \in DOMAIN t /\ t[1] \in S
           /\ Tail(t) \in Seq(S) /\ Len(t) = Len(Tail(t)) + 1 /\ Len(Tail(t)) \in Nat
           /\ \A i \in DOMAIN Tail(t) : i \in Nat \ {0} /\ i + 1 \in DOMAIN t /\ Tail(t)[i] = t[i + 1]
           /\ \A i \in DOMAIN t : i # 1 => i - 1 \in DOMAIN Tail(t) /\ Tail(t)[i - 1] = t[i]
<1>1. Len(t) \in Nat \ {0} /\ DOMAIN t = 1..Len(t)
  OBVIOUS
<1>2. Tail(t) \in Seq(S) /\ Len(Tail(t)) = Len(t) - 1 /\ DOMAIN Tail(t) = 1..(Len(t) - 1)
  BY <1>1
<1>3. \A i \in 1..(Len(t) - 1) : Tail(t)[i] = t[i + 1]
  BY <1>1
<1> QED
  BY <1>1, <1>2, <1>3

\* The processes of a JSONL log or kogwistar store are one.
LEMMA OneOrRelational ==
    ASSUME OneWriter, TypeInv, NEW p \in ProcsOf[backend]
    PROVE  /\ ProcsOf[backend] \subseteq Procs /\ IsFiniteSet(ProcsOf[backend])
           /\ backend = "postgres" \/ (ProcsOf[backend] = {p} /\ Alone)
           /\ Alone => ProcsOf[backend] = {p}
<1>1. backend \in Backends /\ DOMAIN ProcsOf = Backends /\ IsFiniteSet(ProcsOf[backend])
  BY BackendsAssumption DEF TypeInv
<1>2. ProcsOf[backend] \subseteq Procs
  BY <1>1 DEF Procs, Range
<1>3. Cardinality({p}) = 1 /\ (Alone => ProcsOf[backend] = {p})
  BY <1>1, FS_Singleton DEF Alone
<1> QED
  BY <1>1, <1>2, <1>3 DEF OneWriter, Alone

-------------------------------------------------------------------------------
(* What a step of one process leaves to the others.                            *)

\* It takes nothing off the disk, and touches no other process.
Leaves(p) ==
    /\ UNCHANGED backend
    /\ \A q \in ProcsOf[backend] \ {p} :
          todo'[q] = todo[q] /\ up'[q] = up[q] /\ mem'[q] = mem[q] /\ lost'[q] = lost[q]
    /\ \A e \in Entities : On(e) => On(e)'
    /\ done'.usage >= done.usage /\ done'.access >= done.access

\* What is old enough stays so: the counts only grow.
LEMMA OldNext ==
    ASSUME TypeInv, TypeInv', done'.usage >= done.usage, done'.access >= done.access,
           NEW e \in Entities, NEW v \in Int, Old(e, v)
    PROVE  Old(e, v)'
<1>1. /\ done.usage \in Int /\ done.access \in Int /\ done'.usage \in Int /\ done'.access \in Int
  BY BoundsAssumption DEF TypeInv
<1>2. CASE Kind(e) = "access"
  <2>1. e[2] \in Int
    BY <1>2, BoundsAssumption DEF Entities, Seeds, Seed, Usage, Edge, Access, Sentinel, HeadNode, Kind
  <2> QED
    BY <1>1, <1>2, <2>1 DEF Old
<1>3. CASE Kind(e) # "access"
  BY <1>1, <1>3 DEF Old
<1> QED
  BY <1>2, <1>3

\* A step of one process keeps what is true of another: only the relational
\* store has others, and there nobody moves a ledger.
LEMMA OthersKept ==
    ASSUME OneWriter, GraphInv, TypeInv', DiskChain', NEW p \in ProcsOf[backend], Leaves(p),
           NEW q \in ProcsOf[backend] \ {p}
    PROVE  ProcOK(q)'
<1>1. backend = "postgres" /\ backend' = "postgres" /\ ~Alone /\ ~Alone'
  BY OneOrRelational DEF GraphInv, Leaves, Alone
<1>2. /\ todo'[q] = todo[q] /\ up'[q] = up[q] /\ mem'[q] = mem[q] /\ lost'[q] = lost[q]
      /\ \A e \in Entities : On(e) => On(e)'
      /\ q \in Procs /\ todo[q] \in Seq(W) /\ ProcOK(q)
  BY OneOrRelational DEF GraphInv, Leaves, TypeInv
<1>3. \A i \in DOMAIN todo[q] : todo[q][i] \in W /\ i \in Nat
  BY <1>2
<1>4. \A e \in Entities, i \in Nat : Comes(q, e, i) => Comes(q, e, i)'
  BY <1>2 DEF Comes
<1>5. ASSUME NEW i \in DOMAIN todo[q]
      PROVE  /\ WriteOK(q, todo[q][i])' /\ ~Moves(todo[q][i])' 
             /\ \A m \in 1..MaxUsage : ~Puts(todo[q][i], Usage(m))
  <2>0. PICK w : w = todo[q][i]
    OBVIOUS
  <2>1. w \in W /\ WriteOK(q, w)
    BY <1>2, <1>3, <2>0 DEF ProcOK
  <2>2. w.about \in Entities /\ (w.op = "put" => w.val \in Int)
    BY <2>1, BoundsAssumption DEF W, Vals
  <2>3. w.op = "put" => Old(w.about, w.val)'
    BY <2>1, <2>2, OldNext DEF WriteOK, GraphInv, Leaves
  <2>4. ~Moves(w)'
    BY <1>1, <2>1, EntityFacts DEF Moves, Puts, WriteOK
  <2>5. \A m \in 1..MaxUsage : ~Puts(w, Usage(m))
    BY <1>1, <2>1, EntityFacts DEF Puts, WriteOK
  <2>6. w.op = "lane" => w.val <= MaxUsage
    BY <2>1 DEF WriteOK
  <2> QED
    BY <1>1, <1>2, <2>0, <2>1, <2>3, <2>4, <2>5, <2>6 DEF WriteOK
<1>6. OrderOK(q)'
  <2>1. \A i \in DOMAIN todo[q] : todo[q][i].op = "event" => Comes(q, todo[q][i].about, i)'
    <3>1. \A i \in DOMAIN todo[q] : todo[q][i].about \in Entities
      BY <1>3 DEF W
    <3> QED
      BY <1>2, <1>3, <1>4, <3>1 DEF ProcOK, OrderOK
  <2> QED
    BY <1>2, <1>5, <2>1 DEF OrderOK, Puts
<1>7. up[q] # "down" => MemoryOK(q)'
  <2>1. up[q] # "down" => mem'[q][HeadNode] = Absent
    BY <1>1, <1>2 DEF ProcOK, MemoryOK
  <2>2. disk'[HeadNode] = Absent
    BY <1>1 DEF DiskChain
  <2>3. up[q] # "down" => HeadSeq(q)' = 0 /\ ChainHead' = 0
    BY <1>1, <2>1, <2>2 DEF HeadSeq, ChainHead
  <2> QED
    BY <1>1, <2>1, <2>3, BoundsAssumption DEF MemoryOK
<1>8. up[q] # "down" => UpOK(q)'
  <2>1. \A s \in Seeds : s \in Entities
    BY EntityFacts
  <2>2. Len(todo[q]) + 1 \in Nat
    BY <1>2
  <2> QED
    BY <1>2, <1>4, <2>1, <2>2 DEF ProcOK, UpOK, Seeded
<1> QED
  BY <1>2, <1>5, <1>6, <1>7, <1>8 DEF ProcOK

\* A step that leaves the store alone keeps the invariant if it keeps p's part,
\* and does not give up a seeding that has begun unnoticed.
LEMMA QuietKept ==
    ASSUME OneWriter, GraphInv, TypeInv', NEW p \in ProcsOf[backend], Leaves(p), UNCHANGED store,
           slipped => slipped', backend # "kogwistar" => ~slipped', partly => partly',
           up[p] = "seeding" /\ up'[p] # "seeding" /\ Seeded => partly',
           \A e \in Entities : Old(e, mem[p][e])', ProcOK(p)'
    PROVE  GraphInv'
<1>1. /\ UNCHANGED <<backend, disk, events, lane, eventSeq, revs, current>>
  BY DEF Leaves, store
<1>2. DiskChain'
  BY <1>1 DEF GraphInv, DiskChain, ChainHead, On
<1>3. EventsOK' /\ RevsOK'
  BY <1>1 DEF GraphInv, EventsOK, RevsOK, NextSeq, On
<1>4. SeedsOK'
  <2>1. \A q \in ProcsOf[backend] \ {p} : up'[q] = up[q]
    BY DEF Leaves
  <2> QED
    BY <1>1, <2>1 DEF GraphInv, SeedsOK, Seeded, On
<1>5. OldOK'
  <2>1. \A e \in Entities : disk[e] \in Int /\ \A q \in ProcsOf[backend] : mem[q][e] \in Int
    <3>1. TypeInv /\ ProcsOf[backend] \subseteq Procs
      BY OneOrRelational DEF GraphInv
    <3>2. Payload \subseteq Int
      BY BoundsAssumption DEF Payload, Absent
    <3>3. \A e \in Entities : disk[e] \in Payload /\ \A q \in Procs : mem[q][e] \in Payload
      BY <3>1 DEF TypeInv
    <3> QED
      BY <3>1, <3>2, <3>3
  <2>2. \A e \in Entities : Old(e, disk[e])' /\ \A q \in ProcsOf[backend] : Old(e, mem[q][e])
    BY <1>1, <2>1, OldNext DEF GraphInv, OldOK, Leaves
  <2>3. \A e \in Entities, q \in ProcsOf[backend] \ {p} : Old(e, mem[q][e])'
    <3>1. SUFFICES ASSUME NEW e \in Entities, NEW q \in ProcsOf[backend] \ {p}
                   PROVE  Old(e, mem[q][e])'
      OBVIOUS
    <3>2. PICK v \in Int : v = mem[q][e]
      BY <2>1
    <3>3. Old(e, v) /\ mem'[q] = mem[q]
      BY <2>2, <3>2 DEF Leaves
    <3>4. Old(e, v)'
      BY <3>3, OldNext DEF GraphInv, Leaves
    <3> QED
      BY <3>2, <3>3, <3>4
  <2> QED
    BY <1>1, <2>2, <2>3 DEF OldOK
<1>6. \A q \in ProcsOf[backend] \ {p} : ProcOK(q)'
  BY <1>2, OthersKept
<1> QED
  BY <1>1, <1>2, <1>3, <1>4, <1>5, <1>6 DEF GraphInv

\* A process that has nothing left to write and is down, or serves on.
LEMMA EmptyOK ==
    ASSUME NEW p, todo'[p] = <<>>, up'[p] # "down" => MemoryOK(p)' /\ UpOK(p)'
    PROVE  ProcOK(p)'
<1>1. DOMAIN todo'[p] = {}
  OBVIOUS
<1> QED
  BY <1>1 DEF ProcOK, OrderOK

\* The memory of a process whose store and memory stay.
LEMMA MemoryStays ==
    ASSUME NEW p, MemoryOK(p), UNCHANGED <<backend, store, slipped>>,
           mem'[p] = mem[p], lost'[p] = lost[p], backend = "jsonl" => memEvents'[p] = memEvents[p],
           up'[p] = "seeding" => up[p] = "seeding"
    PROVE  MemoryOK(p)'
  BY DEF MemoryOK, store, Alone, HeadSeq, ChainHead, On

\* A process is lost.
LEMMA CrashKept ==
    ASSUME OneWriter, GraphInv, NEW p \in ProcsOf[backend], Crash(p)
    PROVE  GraphInv'
<1>1. /\ UNCHANGED <<backend, store, gkey, mem, memEvents, lost, slipped>>
      /\ up' = [up EXCEPT ![p] = "down"] /\ todo' = [todo EXCEPT ![p] = <<>>]
      /\ partly' = (partly \/ (up[p] = "seeding" /\ Seeded))
      /\ done' = [done EXCEPT !.crash = @ + 1]
      /\ torn' \in BOOLEAN
  BY DEF Crash, Seeded, On, GraphInv, TypeInv
<1>2. p \in Procs /\ ProcsOf[backend] \subseteq Procs
  BY OneOrRelational DEF GraphInv
<1>3. TypeInv'
  <2>1. <<>> \in Seq(W)
    OBVIOUS
  <2>2. partly' \in BOOLEAN
    BY <1>1
  <2>3. done' \in [usage : 0..MaxUsage, access : 0..MaxAccess, revise : 0..MaxRevises,
                   crash : Nat, fail : Nat]
    <3>1. done \in [usage : 0..MaxUsage, access : 0..MaxAccess, revise : 0..MaxRevises,
                    crash : Nat, fail : Nat]
      BY DEF GraphInv, TypeInv
    <3> QED
      BY <1>1, <3>1
  <2>4. todo' \in [Procs -> Seq(W)] /\ up' \in [Procs -> {"down", "seeding", "serving"}]
    BY <1>1, <1>2, <2>1 DEF GraphInv, TypeInv
  <2> QED
    BY <1>1, <2>2, <2>3, <2>4 DEF GraphInv, TypeInv, store
<1>4. up'[p] = "down" /\ todo'[p] = <<>>
  BY <1>1, <1>2 DEF GraphInv, TypeInv
<1>5. Leaves(p)
  BY <1>1, <1>2, BoundsAssumption DEF GraphInv, TypeInv, Leaves, On, store
<1>6. ProcOK(p)'
  BY <1>4, EmptyOK
<1>7. \A e \in Entities : Old(e, mem[p][e])'
  BY <1>1 DEF GraphInv, OldOK, Old, TypeInv
<1> QED
  BY <1>1, <1>3, <1>4, <1>5, <1>6, <1>7, QuietKept DEF GraphInv, DiskChain

\* What giving up leaves.
LEMMA GivesUpFacts ==
    ASSUME OneWriter, GraphInv, NEW p \in ProcsOf[backend], GivesUp(p), UNCHANGED <<backend, store>>,
           \A q \in ProcsOf[backend] \ {p} : mem'[q] = mem[q] /\ lost'[q] = lost[q],
           done' = done \/ done' = [done EXCEPT !.fail = @ + 1]
    PROVE  /\ todo'[p] = <<>> /\ (up'[p] # "down" => up[p] = "serving" /\ up'[p] = "serving")
           /\ up[p] = "seeding" /\ up'[p] # "seeding" /\ Seeded => partly'
           /\ partly => partly'
           /\ todo' \in [Procs -> Seq(W)] /\ up' \in [Procs -> {"down", "seeding", "serving"}]
           /\ partly' \in BOOLEAN
           /\ done' \in [usage : 0..MaxUsage, access : 0..MaxAccess, revise : 0..MaxRevises,
                         crash : Nat, fail : Nat]
           /\ done'.usage = done.usage /\ done'.access = done.access
           /\ Leaves(p)
<1>1. /\ up' = [up EXCEPT ![p] = IF @ = "seeding" THEN "down" ELSE @]
      /\ todo' = [todo EXCEPT ![p] = <<>>]
      /\ partly' = (partly \/ (up[p] = "seeding" /\ Seeded))
  BY DEF GivesUp, Seeded, On
<1>2. /\ p \in Procs /\ ProcsOf[backend] \subseteq Procs /\ <<>> \in Seq(W)
      /\ todo \in [Procs -> Seq(W)] /\ up \in [Procs -> {"down", "seeding", "serving"}]
      /\ done \in [usage : 0..MaxUsage, access : 0..MaxAccess, revise : 0..MaxRevises,
                   crash : Nat, fail : Nat]
  BY OneOrRelational DEF GraphInv, TypeInv
<1>3. /\ todo'[p] = <<>> /\ up'[p] = IF up[p] = "seeding" THEN "down" ELSE up[p]
      /\ \A q \in ProcsOf[backend] \ {p} : todo'[q] = todo[q] /\ up'[q] = up[q]
  BY <1>1, <1>2
<1>4. todo' \in [Procs -> Seq(W)] /\ up' \in [Procs -> {"down", "seeding", "serving"}]
  BY <1>1, <1>2
<1>5. done'.usage = done.usage /\ done'.access = done.access
      /\ done' \in [usage : 0..MaxUsage, access : 0..MaxAccess, revise : 0..MaxRevises,
                    crash : Nat, fail : Nat]
  BY <1>2
<1>6. done'.usage >= done.usage /\ done'.access >= done.access
  BY <1>2, <1>5, BoundsAssumption
<1>7. Leaves(p)
  BY <1>3, <1>6 DEF Leaves, On, store
<1> QED
  BY <1>1, <1>2, <1>3, <1>4, <1>5, <1>7

\* An event or a projection is not written.
LEMMA EventFailsKept ==
    ASSUME OneWriter, GraphInv, NEW p \in ProcsOf[backend], EventFails(p)
    PROVE  GraphInv'
<1>1. /\ GivesUp(p) /\ UNCHANGED <<backend, store, torn, gkey, mem, lost, slipped>>
      /\ done' = done \/ done' = [done EXCEPT !.fail = @ + 1]
      /\ memEvents' = memEvents \/ (backend = "kogwistar" /\ memEvents' = [memEvents EXCEPT ![p] = @ + 1])
  BY DEF EventFails
<1>2. /\ todo'[p] = <<>> /\ (up'[p] # "down" => up[p] = "serving" /\ up'[p] = "serving")
      /\ up[p] = "seeding" /\ up'[p] # "seeding" /\ Seeded => partly'
      /\ Leaves(p) /\ (partly => partly')
      /\ todo' \in [Procs -> Seq(W)] /\ up' \in [Procs -> {"down", "seeding", "serving"}]
      /\ partly' \in BOOLEAN
      /\ done' \in [usage : 0..MaxUsage, access : 0..MaxAccess, revise : 0..MaxRevises,
                    crash : Nat, fail : Nat]
      /\ done'.usage = done.usage /\ done'.access = done.access
  BY <1>1, GivesUpFacts
<1>3. p \in Procs
  BY OneOrRelational DEF GraphInv
<1>4. memEvents' \in [Procs -> Nat] /\ (backend = "jsonl" => memEvents'[p] = memEvents[p])
  BY <1>1, <1>3 DEF GraphInv, TypeInv
<1>5. TypeInv'
  BY <1>1, <1>2, <1>4 DEF GraphInv, TypeInv, store
<1>6. up'[p] # "down" => MemoryOK(p)' /\ UpOK(p)'
  <2>1. up[p] # "down" => MemoryOK(p) /\ UpOK(p)
    BY DEF GraphInv, ProcOK
  <2>2. up'[p] # "down" => MemoryOK(p)'
    BY <1>1, <1>2, <1>4, <2>1, MemoryStays
  <2>3. up'[p] # "down" => UpOK(p)'
    BY <1>1, <1>2, <2>1 DEF UpOK, Seeded, On, store
  <2> QED
    BY <2>2, <2>3
<1>7. \A e \in Entities : Old(e, mem[p][e])'
  BY <1>1, <1>2 DEF GraphInv, OldOK, Old
<1>8. ProcOK(p)'
  BY <1>2, <1>6, EmptyOK
<1> QED
  BY <1>1, <1>2, <1>5, <1>7, <1>8, QuietKept DEF GraphInv, DiskChain

\* The write of a node or edge raises, and memory may have what the disk has not.
LEMMA PutFailsKept ==
    ASSUME OneWriter, GraphInv, NEW p \in ProcsOf[backend], PutFails(p)
    PROVE  GraphInv'
<1>1. PICK w : w = Head(todo[p])
  OBVIOUS
<1>2. /\ GivesUp(p) /\ UNCHANGED <<backend, store, torn, gkey, memEvents>>
      /\ done' = [done EXCEPT !.fail = @ + 1] /\ todo[p] # <<>> /\ w.op = "put"
      /\ \/ /\ slipped' = (slipped \/ backend = "kogwistar")
            /\ mem' = [mem EXCEPT ![p][w.about] = w.val]
            /\ lost' = [lost EXCEPT ![p] = @ \cup {w.about}]
         \/ backend = "kogwistar" /\ UNCHANGED <<mem, lost, slipped>>
  BY <1>1 DEF PutFails
<1>3. /\ p \in Procs /\ ProcsOf[backend] \subseteq Procs /\ TypeInv
      /\ todo[p] \in Seq(W) /\ ProcOK(p)
      /\ mem \in [Procs -> [Entities -> Payload]] /\ lost \in [Procs -> SUBSET Entities]
  BY OneOrRelational DEF GraphInv, TypeInv
<1>4. w = todo[p][1] /\ 1 \in DOMAIN todo[p] /\ w \in W /\ WriteOK(p, w)
  BY <1>1, <1>2, <1>3, TailFacts DEF ProcOK
<1>5. w.about \in Entities /\ w.val \in Vals /\ w.val \in Payload /\ w.val \in Nat
  BY <1>2, <1>4, BoundsAssumption DEF W, Vals, Payload, Absent
<1>6. /\ mem' \in [Procs -> [Entities -> Payload]] /\ lost' \in [Procs -> SUBSET Entities]
      /\ slipped' \in BOOLEAN /\ (slipped => slipped') /\ (backend # "kogwistar" => ~slipped')
      /\ \A q \in ProcsOf[backend] \ {p} : mem'[q] = mem[q] /\ lost'[q] = lost[q]
  <2>1. slipped \in BOOLEAN /\ (backend # "kogwistar" => ~slipped)
    BY DEF GraphInv, DiskChain, TypeInv
  <2>2. slipped' \in BOOLEAN /\ (slipped => slipped') /\ (backend # "kogwistar" => ~slipped')
    BY <1>2, <2>1
  <2>3. mem' \in [Procs -> [Entities -> Payload]] /\ \A q \in ProcsOf[backend] \ {p} : mem'[q] = mem[q]
    <3>1. CASE mem' = mem
      BY <1>3, <3>1
    <3>2. CASE mem' = [mem EXCEPT ![p] = [mem[p] EXCEPT ![w.about] = w.val]]
      <4>1. [mem[p] EXCEPT ![w.about] = w.val] \in [Entities -> Payload]
        BY <1>3, <1>5
      <4> QED
        BY <1>3, <3>2, <4>1
    <3> QED
      BY <1>2, <3>1, <3>2
  <2>4. lost' \in [Procs -> SUBSET Entities] /\ \A q \in ProcsOf[backend] \ {p} : lost'[q] = lost[q]
    BY <1>2, <1>3, <1>5
  <2> QED
    BY <2>2, <2>3, <2>4
<1>7. /\ todo'[p] = <<>> /\ (up'[p] # "down" => up[p] = "serving" /\ up'[p] = "serving")
      /\ up[p] = "seeding" /\ up'[p] # "seeding" /\ Seeded => partly'
      /\ Leaves(p) /\ (partly => partly')
      /\ todo' \in [Procs -> Seq(W)] /\ up' \in [Procs -> {"down", "seeding", "serving"}]
      /\ partly' \in BOOLEAN
      /\ done' \in [usage : 0..MaxUsage, access : 0..MaxAccess, revise : 0..MaxRevises,
                    crash : Nat, fail : Nat]
      /\ done'.usage = done.usage /\ done'.access = done.access
  BY <1>2, <1>6, GivesUpFacts
<1>8. TypeInv'
  BY <1>2, <1>6, <1>7 DEF GraphInv, TypeInv, store
<1>9. UpOK(p)' \/ up'[p] = "down"
  <2>1. up[p] # "down" => UpOK(p)
    BY <1>3 DEF ProcOK
  <2> QED
    BY <1>2, <1>7, <2>1 DEF UpOK, Seeded, On, store
<1>10. CASE backend = "kogwistar" /\ UNCHANGED <<mem, lost, slipped>>
  <2>1. up'[p] # "down" => MemoryOK(p)'
    BY <1>2, <1>3, <1>7, <1>10, MemoryStays DEF ProcOK
  <2>2. \A e \in Entities : Old(e, mem[p][e])'
    BY <1>7, <1>10 DEF GraphInv, OldOK, Old
  <2>3. ProcOK(p)'
    BY <1>7, <1>9, <2>1, EmptyOK
  <2> QED
    BY <1>2, <1>6, <1>7, <1>8, <2>2, <2>3, QuietKept
<1>11. CASE /\ slipped' = (slipped \/ backend = "kogwistar")
            /\ mem' = [mem EXCEPT ![p][w.about] = w.val]
            /\ lost' = [lost EXCEPT ![p] = @ \cup {w.about}]
  <2>1. /\ \A e \in Entities : mem'[p][e] = IF e = w.about THEN w.val ELSE mem[p][e]
        /\ lost'[p] = lost[p] \cup {w.about}
    BY <1>3, <1>5, <1>11
  <2>2. \A e \in Entities : Old(e, mem[p][e])'
    BY <1>2, <1>4, <1>7, <2>1 DEF GraphInv, OldOK, Old, WriteOK
  <2>3. ASSUME up'[p] # "down"
        PROVE  MemoryOK(p)'
    <3>1. MemoryOK(p) /\ up'[p] = "serving" /\ backend' = backend /\ UNCHANGED <<disk, events, lane>>
      BY <1>2, <1>3, <1>7, <2>3 DEF ProcOK, store
    <3>2. Alone => \A e \in Entities : /\ mem'[p][e] # disk[e] => e \in lost'[p]
                                       /\ mem'[p][e] = Absent => disk[e] = Absent
      BY <1>5, <2>1, <3>1 DEF MemoryOK, Absent
    <3>3. backend = "kogwistar" => slipped'
      BY <1>11
    <3>4. backend = "postgres" => mem'[p][HeadNode] = Absent
      BY <1>2, <1>4, <2>1, <3>1, EntityFacts DEF MemoryOK, WriteOK
    <3>5. HeadSeq(p)' \in ChainHead..MaxUsage
          /\ \A m \in 1..HeadSeq(p)' : On(Usage(m)) /\ (slipped' \/ On(Edge(m)))
      <4>1. CASE backend = "jsonl" /\ w.about = HeadNode
        <5>1. Moves(w) /\ w.val <= MaxUsage
          BY <1>2, <1>4, <4>1 DEF Moves, Puts, WriteOK
        <5>2. w.val >= ChainHead /\ ChainComes(p, w.val, 1)
          BY <1>3, <1>4, <5>1 DEF ProcOK, OrderOK
        <5>3. HeadSeq(p)' = w.val
          BY <1>5, <2>1, <3>1, <4>1, EntityFacts DEF HeadSeq, Absent
        <5>4. \A m \in 1..w.val : On(Usage(m)) /\ (slipped' \/ On(Edge(m)))
          <6>1. \A e : Comes(p, e, 1) => On(e)
            <7>1. \A j \in DOMAIN todo[p] : ~(j < 1)
              BY <1>3
            <7> QED
              BY <7>1 DEF Comes
          <6> QED
            BY <1>6, <5>2, <6>1 DEF ChainComes
        <5> QED
          BY <1>5, <5>1, <5>2, <5>3, <5>4, BoundsAssumption DEF GraphInv, DiskChain
      <4>2. CASE backend # "jsonl" \/ w.about # HeadNode
        <5>1. HeadSeq(p)' = HeadSeq(p)
          <6>1. HeadNode \in Entities /\ backend \in {"jsonl", "postgres", "kogwistar"}
            BY <1>3, EntityFacts, BackendsAssumption DEF TypeInv
          <6>2. CASE backend = "postgres"
            BY <3>1, <3>4, <6>2 DEF HeadSeq, MemoryOK
          <6>3. CASE backend = "kogwistar"
            BY <3>1, <6>3 DEF HeadSeq
          <6>4. CASE backend = "jsonl"
            BY <2>1, <3>1, <4>2, <6>1, <6>4 DEF HeadSeq
          <6> QED
            BY <6>1, <6>2, <6>3, <6>4
        <5> QED
          BY <1>6, <3>1, <5>1 DEF MemoryOK
      <4> QED
        BY <4>1, <4>2
    <3>6. backend = "jsonl" => memEvents'[p] = Cardinality(events)
      BY <1>2, <3>1 DEF MemoryOK
    <3>7. /\ Alone' = Alone /\ ChainHead' = ChainHead /\ \A e \in Entities : On(e)' = On(e)
      BY <3>1 DEF Alone, ChainHead, On
    <3>8. \A m \in 1..MaxUsage : Usage(m) \in Entities /\ Edge(m) \in Entities
      BY EntityFacts
    <3>9. \A m \in 1..HeadSeq(p)' : On(Usage(m))' /\ (slipped' \/ On(Edge(m))')
      BY <3>1, <3>5 DEF On
    <3> QED
      BY <3>1, <3>2, <3>3, <3>4, <3>5, <3>6, <3>7, <3>9 DEF MemoryOK
  <2>4. ProcOK(p)'
    BY <1>7, <1>9, <2>3, EmptyOK
  <2> QED
    BY <1>2, <1>6, <1>7, <1>8, <2>2, <2>4, QuietKept
<1> QED
  BY <1>2, <1>10, <1>11

-------------------------------------------------------------------------------
(* The beginning of an operation.                                              *)

\* An idle process begins an operation whose writes are in order.
LEMMA BeginKept ==
    ASSUME OneWriter, GraphInv, NEW p \in ProcsOf[backend], Idle(p),
           UNCHANGED <<backend, store, torn, up, gkey, mem, memEvents, lost, slipped, partly>>,
           done' \in [usage : 0..MaxUsage, access : 0..MaxAccess, revise : 0..MaxRevises,
                      crash : Nat, fail : Nat],
           done'.usage >= done.usage, done'.access >= done.access,
           NEW t \in Seq(W), todo' = [todo EXCEPT ![p] = t],
           \A i \in DOMAIN t : WriteOK(p, t[i])', OrderOK(p)'
    PROVE  GraphInv'
<1>1. /\ p \in Procs /\ ProcsOf[backend] \subseteq Procs /\ TypeInv /\ ProcOK(p)
      /\ todo \in [Procs -> Seq(W)] /\ up[p] = "serving"
  BY OneOrRelational DEF GraphInv, TypeInv, Idle
<1>2. todo'[p] = t /\ \A q \in ProcsOf[backend] \ {p} : todo'[q] = todo[q]
  BY <1>1
<1>3. TypeInv'
  <2>1. todo' \in [Procs -> Seq(W)]
    BY <1>1
  <2> QED
    BY <1>1, <2>1 DEF TypeInv, store
<1>4. Leaves(p)
  BY <1>2 DEF Leaves, On, store
<1>5. MemoryOK(p)' /\ UpOK(p)'
  <2>1. MemoryOK(p) /\ UpOK(p)
    BY <1>1 DEF ProcOK
  <2>2. MemoryOK(p)'
    BY <2>1, MemoryStays
  <2>3. UpOK(p)'
    BY <1>1, <2>1 DEF UpOK, Seeded, On, store
  <2> QED
    BY <2>2, <2>3
<1>6. ProcOK(p)'
  BY <1>1, <1>2, <1>5 DEF ProcOK
<1>7. \A e \in Entities : Old(e, mem[p][e])'
  <2> SUFFICES ASSUME NEW e \in Entities
               PROVE  Old(e, mem[p][e])'
    OBVIOUS
  <2>0. mem[p][e] \in Payload /\ Payload \subseteq Int
    BY <1>1, BoundsAssumption DEF TypeInv, Payload, Absent
  <2>1. PICK v \in Int : v = mem[p][e]
    BY <2>0
  <2>2. Old(e, v)
    BY <2>1 DEF GraphInv, OldOK
  <2>3. Old(e, v)'
    BY <1>1, <1>3, <2>2, OldNext
  <2> QED
    BY <2>1, <2>3
<1> QED
  BY <1>1, <1>3, <1>4, <1>6, <1>7, QuietKept DEF GraphInv, DiskChain

\* The outcome of a request is recorded: the node first, then the event about it.
LEMMA ConversationKept ==
    ASSUME OneWriter, GraphInv, NEW p \in ProcsOf[backend], Conversation(p)
    PROVE  GraphInv'
<1>1. PICK n : n = done.access + 1
  OBVIOUS
<1>2. /\ Idle(p) /\ done.access < MaxAccess /\ done' = [done EXCEPT !.access = @ + 1]
      /\ todo' = [todo EXCEPT ![p] = AccessWrites(n)]
      /\ UNCHANGED <<backend, store, torn, up, gkey, mem, memEvents, lost, slipped, partly>>
  BY <1>1 DEF Conversation
<1>3. /\ done \in [usage : 0..MaxUsage, access : 0..MaxAccess, revise : 0..MaxRevises,
                   crash : Nat, fail : Nat]
      /\ p \in Procs /\ mem \in [Procs -> [Entities -> Payload]] /\ todo \in [Procs -> Seq(W)]
      /\ MaxAccess \in Nat /\ MaxUsage \in Nat /\ up[p] = "serving"
  BY <1>2, OneOrRelational, BoundsAssumption DEF GraphInv, TypeInv, Idle
<1>4. /\ done' \in [usage : 0..MaxUsage, access : 0..MaxAccess, revise : 0..MaxRevises,
                    crash : Nat, fail : Nat]
      /\ done'.usage >= done.usage /\ done'.access >= done.access /\ done'.access = n
      /\ n \in 1..MaxAccess /\ n > done.access
  <2>1. done.access \in Nat /\ n \in 1..MaxAccess /\ n > done.access /\ n \in 0..MaxAccess
    BY <1>1, <1>2, <1>3
  <2>2. done' = [done EXCEPT !.access = n]
    BY <1>1, <1>2
  <2>3. done'.access = n /\ done'.usage = done.usage
    BY <1>3, <2>2
  <2>4. done' \in [usage : 0..MaxUsage, access : 0..MaxAccess, revise : 0..MaxRevises,
                   crash : Nat, fail : Nat]
    BY <1>3, <2>1, <2>2
  <2>5. done.usage \in 0..MaxUsage
    BY <1>3
  <2>6. done'.usage >= done.usage
    BY <1>3, <2>3, <2>5
  <2>7. done'.access >= done.access
    BY <2>1, <2>3
  <2> QED
    BY <2>1, <2>3, <2>4, <2>6, <2>7
<1>5. /\ Access(n) \in Entities /\ Kind(Access(n)) = "access" /\ Access(n)[2] = n
      /\ Access(n) # HeadNode /\ \A m \in 1..MaxUsage : Access(n) # Usage(m)
  BY <1>3, <1>4, EntityFacts
<1>6. PICK a, b : a = Put(Access(n), 0) /\ b = EventOf("access", Access(n))
  OBVIOUS
<1>7. /\ a.op = "put" /\ a.about = Access(n) /\ a.val = 0
      /\ b.op = "event" /\ b.about = Access(n) /\ a \in W /\ b \in W
  BY <1>3, <1>5, <1>6, BoundsAssumption DEF Put, EventOf, W, Vals
<1>8. PICK t : t = <<a, b>>
  OBVIOUS
<1>9. /\ t \in Seq(W) /\ DOMAIN t = {1, 2} /\ t[1] = a /\ t[2] = b
      /\ todo' = [todo EXCEPT ![p] = t] /\ todo'[p] = t
  BY <1>2, <1>3, <1>6, <1>7, <1>8 DEF AccessWrites
<1>10. mem[p][Access(n)] = Absent
  BY <1>4, <1>5 DEF GraphInv, OldOK, Old
<1>11. \A i \in DOMAIN t : WriteOK(p, t[i])'
  <2>1. WriteOK(p, a)'
    BY <1>2, <1>3, <1>4, <1>5, <1>7, <1>10 DEF WriteOK, Old, Moves, Puts, Absent
  <2>2. WriteOK(p, b)'
    BY <1>2, <1>3, <1>5, <1>7 DEF WriteOK, Moves, Puts
  <2> QED
    BY <1>9, <2>1, <2>2
<1>12. OrderOK(p)'
  <2>1. Comes(p, Access(n), 2)'
    BY <1>7, <1>9 DEF Comes, Puts
  <2>2. /\ ~Moves(a)' /\ ~Moves(b)'
        /\ \A m \in 1..MaxUsage : ~Puts(a, Usage(m)) /\ ~Puts(b, Usage(m))
    BY <1>5, <1>7 DEF Moves, Puts
  <2> QED
    BY <1>7, <1>9, <2>1, <2>2 DEF OrderOK
<1> QED
  BY <1>2, <1>4, <1>9, <1>11, <1>12, BeginKept

\* An administrator changes an entity.
LEMMA ReviseKept ==
    ASSUME OneWriter, GraphInv, NEW p \in ProcsOf[backend], NEW s \in Seeds, Revise(p, s)
    PROVE  GraphInv'
<1>1. PICK v \in {0, done.revise + 1} :
         /\ Idle(p) /\ done.revise < MaxRevises /\ done' = [done EXCEPT !.revise = @ + 1]
         /\ todo' = [todo EXCEPT ![p] = <<Put(s, v)>>]
         /\ UNCHANGED <<backend, store, torn, up, gkey, mem, memEvents, lost, slipped, partly>>
  BY DEF Revise
<1>2. /\ done \in [usage : 0..MaxUsage, access : 0..MaxAccess, revise : 0..MaxRevises,
                   crash : Nat, fail : Nat]
      /\ p \in Procs /\ todo \in [Procs -> Seq(W)]
      /\ MaxRevises \in Nat /\ MaxAccess \in Nat /\ MaxUsage \in Nat /\ up[p] = "serving"
  BY <1>1, OneOrRelational, BoundsAssumption DEF GraphInv, TypeInv, Idle
<1>3. /\ done' \in [usage : 0..MaxUsage, access : 0..MaxAccess, revise : 0..MaxRevises,
                    crash : Nat, fail : Nat]
      /\ done'.usage >= done.usage /\ done'.access >= done.access /\ v \in Vals
  BY <1>1, <1>2 DEF Vals
<1>4. /\ s \in Entities /\ Kind(s) = "seed" /\ s # HeadNode
      /\ \A m \in 1..MaxUsage : s # Usage(m)
  BY EntityFacts
<1>5. PICK a : a = Put(s, v)
  OBVIOUS
<1>6. /\ a.op = "put" /\ a.about = s /\ a.val = v /\ a \in W
  BY <1>3, <1>4, <1>5 DEF Put, W
<1>7. PICK t : t = <<a>>
  OBVIOUS
<1>8. /\ t \in Seq(W) /\ DOMAIN t = {1} /\ t[1] = a
      /\ todo' = [todo EXCEPT ![p] = t] /\ todo'[p] = t
  BY <1>1, <1>2, <1>5, <1>6, <1>7
<1>9. WriteOK(p, a)'
  BY <1>1, <1>2, <1>4, <1>6 DEF WriteOK, Old, Moves, Puts
<1>10. OrderOK(p)'
  <2>1. ~Moves(a)' /\ \A m \in 1..MaxUsage : ~Puts(a, Usage(m))
    BY <1>4, <1>6 DEF Moves, Puts
  <2> QED
    BY <1>6, <1>8, <2>1 DEF OrderOK
<1> QED
  BY <1>1, <1>3, <1>8, <1>9, <1>10, BeginKept

\* An append is in order: the event and its edge before the head moves to it.
LEMMA LedgerOrder ==
    ASSUME TypeInv, NEW p \in ProcsOf[backend], MemoryOK(p), UNCHANGED <<backend, store, slipped>>,
           NEW t \in Seq(W), todo'[p] = t,
           NEW n \in 1..MaxUsage, n = HeadSeq(p) + 1,
           NEW u \in DOMAIN t, NEW e \in DOMAIN t, NEW h \in DOMAIN t,
           u < h, e < h, h = Len(t),
           Puts(t[u], Usage(n)), Puts(t[e], Edge(n)), Moves(t[h]), t[h].val = n,
           \A i \in DOMAIN t : t[i].op # "event",
           \A i \in DOMAIN t \ {u} : \A m \in 1..MaxUsage : ~Puts(t[i], Usage(m)),
           \A i \in DOMAIN t \ {h} : Moves(t[i]) => t[i].val = 0 /\ HeadSeq(p) = 0
    PROVE  OrderOK(p)'
<1>1. /\ DOMAIN t \subseteq Nat /\ \A i \in DOMAIN t : i <= h
      /\ MaxUsage \in Nat /\ HeadSeq(p) \in ChainHead..MaxUsage /\ ChainHead' = ChainHead
      /\ HeadSeq(p) \in Int /\ ChainHead \in Int
      /\ \A x : (On(x) => On(x)')
      /\ \A w : Moves(w)' <=> Moves(w)
  <2>1. DOMAIN t \subseteq Nat /\ \A i \in DOMAIN t : i <= h
    OBVIOUS
  <2>2. ChainHead \in Int
    BY BoundsAssumption, EntityFacts DEF ChainHead, TypeInv, Payload, Absent
  <2>3. HeadSeq(p) \in ChainHead..MaxUsage /\ HeadSeq(p) \in Int
    BY <2>2, BoundsAssumption DEF MemoryOK
  <2>4. ChainHead' = ChainHead /\ (\A x : (On(x) => On(x)')) /\ \A w : Moves(w)' <=> Moves(w)
    BY DEF ChainHead, On, Moves, store
  <2> QED
    BY <2>1, <2>2, <2>3, <2>4, BoundsAssumption
<1>2. ChainComes(p, n, h)'
  <2> SUFFICES ASSUME NEW m \in 1..n
               PROVE  Comes(p, Usage(m), h)' /\ (slipped' \/ Comes(p, Edge(m), h)')
    BY DEF ChainComes
  <2>1. CASE m = n
    BY <2>1 DEF Comes
  <2>2. CASE m # n
    <3>1. m \in 1..HeadSeq(p)
      BY <1>1, <2>2
    <3>2. On(Usage(m)) /\ (slipped \/ On(Edge(m)))
      BY <3>1 DEF MemoryOK
    <3> QED
      BY <1>1, <3>2 DEF Comes
  <2> QED
    BY <2>1, <2>2
<1>3. ASSUME NEW i \in DOMAIN t, Moves(t[i])
      PROVE  /\ t[i].val >= ChainHead /\ ChainComes(p, t[i].val, i)'
             /\ \A j \in DOMAIN t : j > i =>
                   /\ Moves(t[j]) => t[j].val >= t[i].val
                   /\ \A m \in 1..MaxUsage : Puts(t[j], Usage(m)) => m > t[i].val
  <2>1. CASE i = h
    BY <1>1, <1>2, <2>1
  <2>2. CASE i # h
    <3>1. t[i].val = 0 /\ HeadSeq(p) = 0
      BY <1>3, <2>2
    <3>2. ChainComes(p, 0, i)'
      BY DEF ChainComes
    <3>3. \A j \in DOMAIN t : Moves(t[j]) => t[j].val >= 0
      BY <3>1
    <3> QED
      BY <1>1, <3>1, <3>2, <3>3
  <2> QED
    BY <2>1, <2>2
<1>4. \A i \in DOMAIN t : \A m \in 1..MaxUsage : Puts(t[i], Usage(m)) => m > ChainHead
  <2> SUFFICES ASSUME NEW m \in 1..MaxUsage, Puts(t[u], Usage(m))
               PROVE  m > ChainHead
    OBVIOUS
  <2>1. m = n
    BY <1>1, EntityFacts DEF Puts
  <2> QED
    BY <1>1, <2>1
<1> QED
  BY <1>1, <1>3, <1>4 DEF OrderOK

\* A settled request is appended to the ledger.
LEMMA LedgerBegun ==
    ASSUME OneWriter, GraphInv, NEW p \in ProcsOf[backend], Ledger(p)
    PROVE  GraphInv'
<1>1. PICK n, pay : n = HeadSeq(p) + 1 /\ pay = done.usage + 1
  OBVIOUS
<1>2. /\ Idle(p) /\ backend # "postgres" /\ done.usage < MaxUsage /\ HeadSeq(p) < MaxUsage
      /\ done' = [done EXCEPT !.usage = pay]
      /\ todo' = [todo EXCEPT ![p] = LedgerWrites(p, pay)]
      /\ UNCHANGED <<backend, store, torn, up, gkey, mem, memEvents, lost, slipped, partly>>
  BY <1>1 DEF Ledger
<1>3. /\ done \in [usage : 0..MaxUsage, access : 0..MaxAccess, revise : 0..MaxRevises,
                   crash : Nat, fail : Nat]
      /\ p \in Procs /\ mem \in [Procs -> [Entities -> Payload]] /\ todo \in [Procs -> Seq(W)]
      /\ MaxAccess \in Nat /\ MaxUsage \in Nat /\ MaxRevises \in Nat /\ up[p] = "serving" /\ TypeInv
      /\ MemoryOK(p) /\ DiskChain /\ backend \in {"jsonl", "kogwistar"}
  BY <1>2, OneOrRelational, BoundsAssumption, BackendsAssumption DEF GraphInv, ProcOK, TypeInv, Idle
<1>4. /\ done' \in [usage : 0..MaxUsage, access : 0..MaxAccess, revise : 0..MaxRevises,
                    crash : Nat, fail : Nat]
      /\ done'.usage >= done.usage /\ done'.access >= done.access /\ done'.usage = pay
      /\ pay \in 1..MaxUsage /\ pay > done.usage
  <2>1. done.usage \in Nat /\ pay \in 1..MaxUsage /\ pay > done.usage /\ pay \in 0..MaxUsage
    BY <1>1, <1>2, <1>3
  <2>2. done'.usage = pay /\ done'.access = done.access
    BY <1>2, <1>3
  <2>3. done' \in [usage : 0..MaxUsage, access : 0..MaxAccess, revise : 0..MaxRevises,
                   crash : Nat, fail : Nat]
    BY <1>2, <1>3, <2>1
  <2>4. done.access \in 0..MaxAccess
    BY <1>3
  <2>5. done'.access >= done.access
    BY <1>3, <2>2, <2>4
  <2>6. done'.usage >= done.usage
    BY <2>1, <2>2
  <2> QED
    BY <2>1, <2>2, <2>3, <2>5, <2>6
<1>5. n \in 1..MaxUsage /\ HeadSeq(p) \in Nat /\ n <= MaxUsage
  <2>1. ChainHead \in 0..MaxUsage /\ HeadSeq(p) \in ChainHead..MaxUsage
    BY <1>3 DEF DiskChain, MemoryOK
  <2> QED
    BY <1>1, <1>2, <1>3, <2>1
<1>6. PICK a, u, e, h, l : /\ a = Put(HeadNode, 0) /\ u = Put(Usage(n), pay) /\ e = Put(Edge(n), 0)
                           /\ h = Put(HeadNode, n) /\ l = LaneTo(n)
  OBVIOUS
<1>7. /\ a.op = "put" /\ a.about = HeadNode /\ a.val = 0
      /\ u.op = "put" /\ u.about = Usage(n) /\ u.val = pay
      /\ e.op = "put" /\ e.about = Edge(n) /\ e.val = 0
      /\ h.op = "put" /\ h.about = HeadNode /\ h.val = n
      /\ l.op = "lane" /\ l.about = HeadNode /\ l.val = n
  BY <1>6 DEF Put, LaneTo
<1>8. a \in W /\ u \in W /\ e \in W /\ h \in W /\ l \in W
  <2>1. 0 \in Vals /\ pay \in Vals /\ n \in Vals
    BY <1>3, <1>4, <1>5 DEF Vals
  <2>2. HeadNode \in Entities /\ Usage(n) \in Entities /\ Edge(n) \in Entities
    BY <1>5, EntityFacts
  <2> QED
    BY <1>6, <2>1, <2>2 DEF W, Put, LaneTo
<1>9. /\ Kind(HeadNode) = "head" /\ Kind(Usage(n)) = "usage" /\ Kind(Edge(n)) = "edge"
      /\ \A m \in 1..MaxUsage : HeadNode # Usage(m) /\ Edge(n) # Usage(m)
  BY <1>5, EntityFacts
<1>10. /\ WriteOK(p, a)' /\ WriteOK(p, u)' /\ WriteOK(p, e)' /\ WriteOK(p, h)' /\ WriteOK(p, l)'
  <2>1. mem[p][Usage(n)] # pay
    <3>1. Usage(n) \in Entities /\ mem[p][Usage(n)] <= done.usage
      BY <1>5, <1>9, EntityFacts DEF GraphInv, OldOK, Old
    <3>2. mem[p][Usage(n)] \in Int /\ done.usage \in Int /\ pay \in Int
      BY <1>3, <1>4, <3>1 DEF Payload, Absent
    <3> QED
      BY <1>4, <3>1, <3>2
  <2>2. WriteOK(p, u)'
    BY <1>2, <1>3, <1>4, <1>7, <1>9, <2>1 DEF WriteOK, Old, Moves, Puts
  <2>3. WriteOK(p, a)' /\ WriteOK(p, h)'
    BY <1>2, <1>3, <1>5, <1>7, <1>9 DEF WriteOK, Old, Moves, Puts
  <2>4. WriteOK(p, e)'
    BY <1>2, <1>3, <1>7, <1>9 DEF WriteOK, Old, Moves, Puts
  <2>5. WriteOK(p, l)'
    BY <1>2, <1>3, <1>5, <1>7 DEF WriteOK, Moves, Puts
  <2> QED
    BY <2>2, <2>3, <2>4, <2>5
<1>11. /\ Puts(u, Usage(n)) /\ Puts(e, Edge(n))
       /\ \A w \in {a, u, e, h, l} : w.op # "event"
       /\ \A w \in {a, e, h, l} : \A m \in 1..MaxUsage : ~Puts(w, Usage(m))
       /\ ~Moves(u) /\ ~Moves(e)
       /\ backend = "jsonl" => Moves(h)
       /\ backend = "kogwistar" => Moves(l) /\ ~Moves(a) /\ ~Moves(h)
  BY <1>3, <1>7, <1>9 DEF Moves, Puts
<1>12. ASSUME NEW t \in Seq(W), t = LedgerWrites(p, pay), \A i \in DOMAIN t : t[i] \in {a, u, e, h, l},
              OrderOK(p)'
       PROVE  GraphInv'
  <2>1. \A i \in DOMAIN t : WriteOK(p, t[i])'
    BY <1>10, <1>12
  <2> QED
    BY <1>2, <1>4, <1>12, <2>1, BeginKept
<1>13. todo'[p] = LedgerWrites(p, pay) /\ UNCHANGED <<backend, store, slipped>>
  BY <1>2, <1>3
<1>14. CASE backend = "jsonl" /\ mem[p][HeadNode] = Absent
  <2>1. PICK t : t = <<a, u, e, h>>
    OBVIOUS
  <2>2. t = LedgerWrites(p, pay)
    BY <1>1, <1>6, <1>14, <2>1 DEF LedgerWrites
  <2>3. /\ t \in Seq(W) /\ DOMAIN t = 1..4 /\ Len(t) = 4
        /\ t[1] = a /\ t[2] = u /\ t[3] = e /\ t[4] = h
    BY <1>8, <2>1
  <2>4. HeadSeq(p) = 0
    BY <1>14 DEF HeadSeq
  <2>5. OrderOK(p)'
    <3>1. \A i \in DOMAIN t : i \in {1, 2, 3, 4}
      BY <2>3
    <3>2. /\ 2 \in DOMAIN t /\ 3 \in DOMAIN t /\ 4 \in DOMAIN t
          /\ 2 < 4 /\ 3 < 4 /\ 4 = Len(t)
          /\ Puts(t[2], Usage(n)) /\ Puts(t[3], Edge(n)) /\ Moves(t[4]) /\ t[4].val = n
      BY <1>7, <1>11, <1>14, <2>3
    <3>3. \A i \in DOMAIN t : t[i].op # "event"
      BY <1>11, <2>3, <3>1
    <3>4. \A i \in DOMAIN t \ {2} : \A m \in 1..MaxUsage : ~Puts(t[i], Usage(m))
      BY <1>11, <2>3, <3>1
    <3>5. \A i \in DOMAIN t \ {4} : Moves(t[i]) => t[i].val = 0 /\ HeadSeq(p) = 0
      BY <1>7, <1>11, <1>14, <2>3, <2>4, <3>1
    <3>6. todo'[p] = t /\ TypeInv /\ MemoryOK(p)
      BY <1>3, <1>13, <2>2
    <3> HIDE DEF HeadSeq
    <3>7. t \in Seq(W)
      BY <2>3
    <3>8. n \in 1..MaxUsage /\ n = HeadSeq(p) + 1
      BY <1>1, <1>5
    <3> QED
      BY <1>13, <3>2, <3>3, <3>4, <3>5, <3>6, <3>7, <3>8, LedgerOrder
  <2> QED
    BY <1>12, <2>2, <2>3, <2>5
<1>15. CASE backend = "jsonl" /\ mem[p][HeadNode] # Absent
  <2>1. PICK t : t = <<u, e, h>>
    OBVIOUS
  <2>2. t = LedgerWrites(p, pay)
    BY <1>1, <1>6, <1>15, <2>1 DEF LedgerWrites
  <2>3. t \in Seq(W) /\ DOMAIN t = 1..3 /\ Len(t) = 3 /\ t[1] = u /\ t[2] = e /\ t[3] = h
    BY <1>8, <2>1
  <2>4. OrderOK(p)'
    <3>1. \A i \in DOMAIN t : i \in {1, 2, 3}
      BY <2>3
    <3>2. /\ 1 \in DOMAIN t /\ 2 \in DOMAIN t /\ 3 \in DOMAIN t
          /\ 1 < 3 /\ 2 < 3 /\ 3 = Len(t)
          /\ Puts(t[1], Usage(n)) /\ Puts(t[2], Edge(n)) /\ Moves(t[3]) /\ t[3].val = n
      BY <1>7, <1>11, <1>15, <2>3
    <3>3. \A i \in DOMAIN t : t[i].op # "event"
      BY <1>11, <2>3, <3>1
    <3>4. \A i \in DOMAIN t \ {1} : \A m \in 1..MaxUsage : ~Puts(t[i], Usage(m))
      BY <1>11, <2>3, <3>1
    <3>5. \A i \in DOMAIN t \ {3} : Moves(t[i]) => t[i].val = 0 /\ HeadSeq(p) = 0
      BY <1>7, <1>11, <1>15, <2>3, <3>1
    <3>6. todo'[p] = t /\ TypeInv /\ MemoryOK(p)
      BY <1>3, <1>13, <2>2
    <3> HIDE DEF HeadSeq
    <3>7. t \in Seq(W)
      BY <2>3
    <3>8. n \in 1..MaxUsage /\ n = HeadSeq(p) + 1
      BY <1>1, <1>5
    <3> QED
      BY <1>13, <3>2, <3>3, <3>4, <3>5, <3>6, <3>7, <3>8, LedgerOrder
  <2> QED
    BY <1>12, <2>2, <2>3, <2>4
<1>16. CASE backend = "kogwistar" /\ n = 1
  <2>1. PICK t : t = <<u, a, e, h, l>>
    OBVIOUS
  <2>2. t = LedgerWrites(p, pay)
    BY <1>1, <1>6, <1>16, <2>1 DEF LedgerWrites
  <2>3. /\ t \in Seq(W) /\ DOMAIN t = 1..5 /\ Len(t) = 5
        /\ t[1] = u /\ t[2] = a /\ t[3] = e /\ t[4] = h /\ t[5] = l
    BY <1>8, <2>1
  <2>4. OrderOK(p)'
    <3>1. \A i \in DOMAIN t : i \in {1, 2, 3, 4, 5}
      BY <2>3
    <3>2. /\ 1 \in DOMAIN t /\ 3 \in DOMAIN t /\ 5 \in DOMAIN t
          /\ 1 < 5 /\ 3 < 5 /\ 5 = Len(t)
          /\ Puts(t[1], Usage(n)) /\ Puts(t[3], Edge(n)) /\ Moves(t[5]) /\ t[5].val = n
      BY <1>7, <1>11, <1>16, <2>3
    <3>3. \A i \in DOMAIN t : t[i].op # "event"
      BY <1>11, <2>3, <3>1
    <3>4. \A i \in DOMAIN t \ {1} : \A m \in 1..MaxUsage : ~Puts(t[i], Usage(m))
      BY <1>11, <2>3, <3>1
    <3>5. \A i \in DOMAIN t \ {5} : Moves(t[i]) => t[i].val = 0 /\ HeadSeq(p) = 0
      BY <1>7, <1>11, <1>16, <2>3, <3>1
    <3>6. todo'[p] = t /\ TypeInv /\ MemoryOK(p)
      BY <1>3, <1>13, <2>2
    <3> HIDE DEF HeadSeq
    <3>7. t \in Seq(W)
      BY <2>3
    <3>8. n \in 1..MaxUsage /\ n = HeadSeq(p) + 1
      BY <1>1, <1>5
    <3> QED
      BY <1>13, <3>2, <3>3, <3>4, <3>5, <3>6, <3>7, <3>8, LedgerOrder
  <2> QED
    BY <1>12, <2>2, <2>3, <2>4
<1>17. CASE backend = "kogwistar" /\ n # 1
  <2>1. PICK t : t = <<u, e, h, l>>
    OBVIOUS
  <2>2. t = LedgerWrites(p, pay)
    BY <1>1, <1>6, <1>17, <2>1 DEF LedgerWrites
  <2>3. /\ t \in Seq(W) /\ DOMAIN t = 1..4 /\ Len(t) = 4
        /\ t[1] = u /\ t[2] = e /\ t[3] = h /\ t[4] = l
    BY <1>8, <2>1
  <2>4. OrderOK(p)'
    <3>1. \A i \in DOMAIN t : i \in {1, 2, 3, 4}
      BY <2>3
    <3>2. /\ 1 \in DOMAIN t /\ 2 \in DOMAIN t /\ 4 \in DOMAIN t
          /\ 1 < 4 /\ 2 < 4 /\ 4 = Len(t)
          /\ Puts(t[1], Usage(n)) /\ Puts(t[2], Edge(n)) /\ Moves(t[4]) /\ t[4].val = n
      BY <1>7, <1>11, <1>17, <2>3
    <3>3. \A i \in DOMAIN t : t[i].op # "event"
      BY <1>11, <2>3, <3>1
    <3>4. \A i \in DOMAIN t \ {1} : \A m \in 1..MaxUsage : ~Puts(t[i], Usage(m))
      BY <1>11, <2>3, <3>1
    <3>5. \A i \in DOMAIN t \ {4} : Moves(t[i]) => t[i].val = 0 /\ HeadSeq(p) = 0
      BY <1>7, <1>11, <1>17, <2>3, <3>1
    <3>6. todo'[p] = t /\ TypeInv /\ MemoryOK(p)
      BY <1>3, <1>13, <2>2
    <3> HIDE DEF HeadSeq
    <3>7. t \in Seq(W)
      BY <2>3
    <3>8. n \in 1..MaxUsage /\ n = HeadSeq(p) + 1
      BY <1>1, <1>5
    <3> QED
      BY <1>13, <3>2, <3>3, <3>4, <3>5, <3>6, <3>7, <3>8, LedgerOrder
  <2> QED
    BY <1>12, <2>2, <2>3, <2>4
<1> QED
  BY <1>3, <1>14, <1>15, <1>16, <1>17

\* The writes that seed a store.
LEMMA PolicyFacts ==
    /\ PolicyGraph \in Seq(W) /\ Len(PolicyGraph) = SeedSize + 1
    /\ \A i \in 1..SeedSize : PolicyGraph[i] = Put(Seed(i), 0)
    /\ PolicyGraph[SeedSize + 1] = EventOf("init", Seed(1))
<1> DEFINE A == [i \in 1..SeedSize |-> Put(Seed(i), 0)]
           E == EventOf("init", Seed(1))
<1>1. SeedSize \in Nat \ {0} /\ 0 \in Vals
  BY BoundsAssumption DEF Vals
<1>2. \A i \in 1..SeedSize : Put(Seed(i), 0) \in W
  BY <1>1 DEF W, Put, Entities, Seeds
<1>3. E \in W
  BY EntityFacts DEF W, EventOf
<1>4. A \in Seq(W) /\ Len(A) = SeedSize /\ \A i \in 1..SeedSize : A[i] = Put(Seed(i), 0)
  BY <1>1, <1>2
<1> HIDE DEF A, E
<1>5. <<E>> \in Seq(W) /\ Len(<<E>>) = 1 /\ <<E>>[1] = E
  BY <1>3
<1>6. PolicyGraph = A \o <<E>>
  BY DEF PolicyGraph, A, E
<1> QED
  BY <1>1, <1>4, <1>5, <1>6 DEF E

\* A seeding puts every policy entity, the first of them before the event about it.
LEMMA SeedFacts ==
    ASSUME TypeInv, NEW t, t = SeedWrites(disk)
    PROVE  /\ t \in Seq(W)
           /\ \A i \in DOMAIN t :
                 /\ t[i].op = "put" => t[i].about \in Seeds \cup {Sentinel}
                 /\ t[i].op # "lane"
                 /\ t[i].op = "event" => t[i].about = Seed(1) /\ \E j \in DOMAIN t : j < i /\ Puts(t[j], Seed(1))
           /\ \A s \in Seeds : \E i \in DOMAIN t : Puts(t[i], s)
<1> DEFINE P == PolicyGraph
<1>1. SeedSize \in Nat \ {0} /\ 0 \in Vals
  BY BoundsAssumption DEF Vals
<1>2. PICK A : A = SentinelFirst(disk)
  OBVIOUS
<1>3. A = <<>> \/ A = <<Put(Sentinel, 0)>>
  BY <1>2 DEF SentinelFirst
<1>4. Put(Sentinel, 0) \in W /\ Reload \in W
  BY <1>1, EntityFacts DEF W, Put, Reload
<1>5. A \in Seq(W) /\ Len(A) \in Nat /\ \A i \in 1..Len(A) : A[i] = Put(Sentinel, 0)
  <2>1. CASE A = <<>>
    BY <2>1
  <2>2. CASE A = <<Put(Sentinel, 0)>>
    <3>1. PICK x : x = Put(Sentinel, 0)
      OBVIOUS
    <3>2. A = <<x>> /\ x \in W
      BY <1>4, <2>2, <3>1
    <3>3. A \in Seq(W) /\ Len(A) = 1 /\ A[1] = x
      BY <3>2
    <3> QED
      BY <3>1, <3>3
  <2> QED
    BY <1>3, <2>1, <2>2
<1>6. PICK B : /\ t = A \o P \o B
               /\ B = <<>> \/ B = <<Reload>>
  <2>1. backend \in {"jsonl", "postgres", "kogwistar"}
    BY BackendsAssumption DEF TypeInv
  <2>2. P \in Seq(W) /\ A \in Seq(W)
    BY <1>5, PolicyFacts
  <2> HIDE DEF P
  <2>3. CASE backend = "jsonl"
    <3>1. t = A \o P
      BY <1>2, <2>3 DEF SeedWrites, SeedJsonl, P
    <3>2. A \o P = A \o P \o <<>>
      BY <2>2
    <3> QED
      BY <3>1, <3>2
  <2>4. CASE backend \in {"postgres", "kogwistar"}
    BY <1>2, <2>4 DEF SeedWrites, SeedRelational, SeedKogwistar, P
  <2> QED
    BY <2>1, <2>3, <2>4
<1>7. B \in Seq(W) /\ Len(B) \in Nat /\ \A i \in 1..Len(B) : B[i] = Reload
  <2>1. CASE B = <<>>
    BY <2>1
  <2>2. CASE B = <<Reload>>
    <3>1. PICK x : x = Reload
      OBVIOUS
    <3>2. B = <<x>> /\ x \in W
      BY <1>4, <2>2, <3>1
    <3>3. B \in Seq(W) /\ Len(B) = 1 /\ B[1] = x
      BY <3>2
    <3> QED
      BY <3>1, <3>3
  <2> QED
    BY <1>6, <2>1, <2>2
<1>8. /\ P \in Seq(W) /\ Len(P) = SeedSize + 1
      /\ \A i \in 1..SeedSize : P[i] = Put(Seed(i), 0)
      /\ P[SeedSize + 1] = EventOf("init", Seed(1))
  BY PolicyFacts
<1> HIDE DEF P
<1>9. PICK k : k = Len(A)
  OBVIOUS
<1>10. /\ t \in Seq(W) /\ k \in Nat /\ Len(t) = k + SeedSize + 1 + Len(B)
       /\ \A i \in 1..k : t[i] = Put(Sentinel, 0)
       /\ \A i \in 1..SeedSize : t[k + i] = Put(Seed(i), 0)
       /\ t[k + SeedSize + 1] = EventOf("init", Seed(1))
       /\ \A i \in DOMAIN t : i > k + SeedSize + 1 => t[i] = Reload
  <2>1. PICK C : C = A \o P
    OBVIOUS
  <2>2. /\ C \in Seq(W) /\ Len(C) = k + SeedSize + 1
        /\ \A i \in 1..k : C[i] = A[i]
        /\ \A i \in 1..(SeedSize + 1) : C[k + i] = P[i]
    <3>0. PICK Q : Q = P
      OBVIOUS
    <3>1. C \in Seq(W) /\ Len(C) = Len(A) + Len(P)
      <4>1. A \in Seq(W) /\ Q \in Seq(W) /\ C = A \o Q
        BY <1>5, <1>8, <2>1, <3>0
      <4>2. C \in Seq(W) /\ Len(C) = Len(A) + Len(Q)
        BY <4>1
      <4> QED
        BY <3>0, <4>2
    <3>2. Len(C) = k + SeedSize + 1 /\ Len(P) \in Nat
      BY <1>1, <1>5, <1>8, <1>9, <3>1
    <3>3. \A i \in 1..Len(A) : C[i] = A[i]
      BY <1>5, <1>8, <2>1
    <3>4. \A i \in 1..Len(P) : C[Len(A) + i] = P[i]
      BY <1>5, <1>8, <2>1
    <3> QED
      BY <1>8, <1>9, <3>1, <3>2, <3>3, <3>4
  <2>3. /\ t \in Seq(W) /\ Len(t) = Len(C) + Len(B)
        /\ \A i \in 1..Len(C) : t[i] = C[i]
        /\ \A i \in DOMAIN t : i > Len(C) => t[i] = B[i - Len(C)] /\ i - Len(C) \in 1..Len(B)
    BY <1>6, <1>7, <2>1, <2>2
  <2>4. \A i \in 1..SeedSize : i \in 1..(SeedSize + 1) /\ k + i \in 1..Len(C)
    BY <1>1, <1>5, <1>9, <2>2
  <2>5. k + SeedSize + 1 \in 1..Len(C) /\ SeedSize + 1 \in 1..(SeedSize + 1) /\ 1..k \subseteq 1..Len(C)
    BY <1>1, <1>5, <1>9, <2>2
  <2>6. \A i \in 1..k : t[i] = Put(Sentinel, 0)
    BY <1>5, <1>9, <2>2, <2>3, <2>5
  <2>7. \A i \in 1..SeedSize : t[k + i] = Put(Seed(i), 0)
    BY <1>8, <2>2, <2>3, <2>4
  <2>8. t[k + SeedSize + 1] = EventOf("init", Seed(1))
    <3>1. C[k + (SeedSize + 1)] = P[SeedSize + 1]
      BY <2>2, <2>5
    <3>2. k + (SeedSize + 1) = k + SeedSize + 1
      BY <1>1, <1>5, <1>9
    <3> QED
      BY <1>8, <2>3, <2>5, <3>1, <3>2
  <2>9. \A i \in DOMAIN t : i > k + SeedSize + 1 => t[i] = Reload
    BY <1>7, <2>2, <2>3
  <2> QED
    BY <1>5, <1>9, <2>2, <2>3, <2>6, <2>7, <2>8, <2>9
<1>11. \A i \in 1..SeedSize : k + i \in DOMAIN t /\ Seed(i) \in Seeds
  BY <1>1, <1>7, <1>10 DEF Seeds
<1>12. \A s \in Seeds : \E i \in DOMAIN t : Puts(t[i], s)
  <2> SUFFICES ASSUME NEW s \in Seeds
               PROVE  \E i \in DOMAIN t : Puts(t[i], s)
    OBVIOUS
  <2>1. PICK j \in 1..SeedSize : s = Seed(j)
    BY DEF Seeds
  <2> QED
    <3>1. k + j \in DOMAIN t /\ t[k + j] = Put(s, 0)
      BY <1>10, <1>11, <2>1
    <3>2. Puts(Put(s, 0), s)
      BY DEF Puts, Put
    <3> QED
      BY <3>1, <3>2
<1>13. ASSUME NEW i \in DOMAIN t
       PROVE  /\ t[i].op = "put" => t[i].about \in Seeds \cup {Sentinel}
              /\ t[i].op # "lane"
              /\ t[i].op = "event" => t[i].about = Seed(1) /\ \E j \in DOMAIN t : j < i /\ Puts(t[j], Seed(1))
  <2>1. i \in Nat /\ i >= 1
    BY <1>10
  <2>2. CASE i \in 1..k
    BY <1>10, <2>2 DEF Put
  <2>3. CASE i > k /\ i <= k + SeedSize
    <3>1. i - k \in 1..SeedSize /\ k + (i - k) = i
      BY <1>1, <1>10, <2>1, <2>3
    <3>2. t[i] = Put(Seed(i - k), 0) /\ Seed(i - k) \in Seeds
      BY <1>10, <1>11, <3>1
    <3> QED
      BY <3>2 DEF Put
  <2>4. CASE i = k + SeedSize + 1
    <3>1. t[k + 1] = Put(Seed(1), 0) /\ k + 1 \in DOMAIN t /\ k + 1 < i
      BY <1>1, <1>10, <1>11, <2>4
    <3> QED
      BY <1>10, <2>4, <3>1 DEF Put, Puts, EventOf
  <2>5. CASE i > k + SeedSize + 1
    BY <1>10, <2>5 DEF Reload
  <2> QED
    BY <1>1, <1>10, <2>1, <2>2, <2>3, <2>4, <2>5
<1> QED
  BY <1>10, <1>12, <1>13

-------------------------------------------------------------------------------
(* The start of a process.                                                     *)

\* A process that has loaded the store has it in memory.
LEMMA LoadedMemory ==
    ASSUME TypeInv, DiskChain, NEW p \in Procs, UNCHANGED <<backend, store, slipped>>,
           mem'[p] = disk, lost'[p] = {}, memEvents'[p] = Cardinality(events)
    PROVE  MemoryOK(p)'
<1>1. UNCHANGED <<disk, events, lane>>
  BY DEF store
<1>2. HeadSeq(p)' = ChainHead
  BY <1>1 DEF HeadSeq, ChainHead
<1>3. ChainHead' = ChainHead /\ \A e : On(e)' <=> On(e)
  BY <1>1 DEF ChainHead, On
<1>4. ChainHead \in ChainHead..MaxUsage
  BY BoundsAssumption DEF DiskChain
<1>5. \A m \in 1..HeadSeq(p)' : On(Usage(m))' /\ (slipped' \/ On(Edge(m))')
  BY <1>2, <1>3 DEF DiskChain
<1> QED
  BY <1>1, <1>2, <1>3, <1>4, <1>5 DEF MemoryOK, DiskChain

\* A process starts: it serves, or seeds a store that has no policy graph.
LEMMA StartKept ==
    ASSUME OneWriter, GraphInv, NEW p \in ProcsOf[backend], NEW k \in GraphKeys, Start(p, k)
    PROVE  GraphInv'
<1>1. /\ up[p] = "down" /\ mem' = [mem EXCEPT ![p] = disk]
      /\ memEvents' = [memEvents EXCEPT ![p] = Cardinality(events)]
      /\ lost' = [lost EXCEPT ![p] = {}] /\ gkey' = [gkey EXCEPT ![p] = k]
      /\ UNCHANGED <<backend, store, torn, slipped, partly, done>>
  BY DEF Start, Loaded
<1>2. /\ p \in Procs /\ ProcsOf[backend] \subseteq Procs /\ TypeInv /\ ProcOK(p)
      /\ DiskChain /\ OldOK /\ SeedsOK
      /\ mem \in [Procs -> [Entities -> Payload]] /\ lost \in [Procs -> SUBSET Entities]
      /\ todo \in [Procs -> Seq(W)] /\ up \in [Procs -> {"down", "seeding", "serving"}]
      /\ gkey \in [Procs -> GraphKeys] /\ memEvents \in [Procs -> Nat]
      /\ disk \in [Entities -> Payload]
  BY OneOrRelational DEF GraphInv, TypeInv
<1>3. todo[p] = <<>> /\ <<>> \in Seq(W)
  BY <1>1, <1>2 DEF ProcOK
<1>4. PICK t : t = IF Existing(disk) # {} THEN <<>> ELSE SeedWrites(disk)
  OBVIOUS
<1>5. /\ up' = [up EXCEPT ![p] = IF Existing(disk) # {} THEN "serving" ELSE "seeding"]
      /\ todo' = [todo EXCEPT ![p] = t]
  <2>1. CASE Existing(disk) # {}
    <3>1. todo' = todo /\ up' = [up EXCEPT ![p] = "serving"]
      BY <2>1 DEF Start
    <3> QED
      BY <1>2, <1>3, <1>4, <2>1, <3>1
  <2>2. CASE Existing(disk) = {}
    BY <1>4, <2>2 DEF Start
  <2> QED
    BY <2>1, <2>2
<1>6. Existing(disk) = {} =>
         /\ t \in Seq(W)
         /\ \A i \in DOMAIN t :
               /\ t[i].op = "put" => t[i].about \in Seeds \cup {Sentinel}
               /\ t[i].op # "lane"
               /\ t[i].op = "event" => t[i].about = Seed(1) /\ \E j \in DOMAIN t : j < i /\ Puts(t[j], Seed(1))
         /\ \A s \in Seeds : \E i \in DOMAIN t : Puts(t[i], s)
  BY <1>2, <1>4, SeedFacts
<1>7. t \in Seq(W)
  BY <1>3, <1>4, <1>6
<1>8. /\ mem'[p] = disk /\ lost'[p] = {} /\ memEvents'[p] = Cardinality(events) /\ todo'[p] = t
      /\ up'[p] = IF Existing(disk) # {} THEN "serving" ELSE "seeding"
      /\ \A q \in ProcsOf[backend] \ {p} :
            todo'[q] = todo[q] /\ up'[q] = up[q] /\ mem'[q] = mem[q] /\ lost'[q] = lost[q]
  BY <1>1, <1>2, <1>5
<1>9. TypeInv'
  <2>1. Cardinality(events) \in Nat
    BY <1>2, FS_CardinalityType DEF TypeInv
  <2>2. mem' \in [Procs -> [Entities -> Payload]] /\ lost' \in [Procs -> SUBSET Entities]
    BY <1>1, <1>2
  <2>3. gkey' \in [Procs -> GraphKeys] /\ memEvents' \in [Procs -> Nat]
    BY <1>1, <1>2, <2>1
  <2>4. up' \in [Procs -> {"down", "seeding", "serving"}]
    BY <1>2, <1>5
  <2>5. todo' \in [Procs -> Seq(W)]
    BY <1>2, <1>5, <1>7
  <2> QED
    BY <1>1, <1>2, <2>2, <2>3, <2>4, <2>5 DEF TypeInv, store
<1>10. Leaves(p)
  <2>1. done.usage \in Int /\ done.access \in Int
    BY <1>2, BoundsAssumption DEF TypeInv
  <2> QED
    BY <1>1, <1>8, <2>1 DEF Leaves, On, store
<1>11. MemoryOK(p)'
  BY <1>1, <1>2, <1>8, LoadedMemory
<1>12. \A e \in Entities : Old(e, mem[p][e])'
  BY <1>1, <1>2, <1>8 DEF OldOK, Old
<1>13. \A e : On(e)' <=> On(e)
  BY <1>1 DEF On, store
<1>14. ProcOK(p)'
  <2>1. CASE Existing(disk) # {}
    <3>1. t = <<>> /\ up'[p] = "serving"
      BY <1>4, <1>8, <2>1
    <3>2. Seeded'
      <4>1. PICK e \in Entities \ {Sentinel} : On(e)
        BY <1>2, <2>1 DEF Existing, On
      <4> QED
        BY <1>2, <1>13, <4>1 DEF SeedsOK, Seeded
    <3>3. UpOK(p)'
      BY <3>1, <3>2 DEF UpOK
    <3> QED
      BY <1>8, <1>11, <3>1, <3>3, EmptyOK
  <2>2. CASE Existing(disk) = {}
    <3>1. /\ up'[p] = "seeding"
          /\ \A i \in DOMAIN t :
                /\ t[i].op = "put" => t[i].about \in Seeds \cup {Sentinel}
                /\ t[i].op # "lane"
                /\ t[i].op = "event" => t[i].about = Seed(1) /\ \E j \in DOMAIN t : j < i /\ Puts(t[j], Seed(1))
          /\ \A s \in Seeds : \E i \in DOMAIN t : Puts(t[i], s)
      BY <1>6, <1>8, <2>2
    <3>2. \A e \in Seeds \cup {Sentinel} : /\ Kind(e) \in {"seed", "sentinel"} /\ e # HeadNode
                                           /\ \A m \in 1..MaxUsage : e # Usage(m)
      BY EntityFacts
    <3>3. \A i \in DOMAIN t : ~Moves(t[i])' /\ \A m \in 1..MaxUsage : ~Puts(t[i], Usage(m))
      BY <3>1, <3>2 DEF Moves, Puts
    <3>4. \A i \in DOMAIN t : WriteOK(p, t[i])'
      <4> SUFFICES ASSUME NEW i \in DOMAIN t
                   PROVE  WriteOK(p, t[i])'
        OBVIOUS
      <4>0. PICK w : w = t[i]
        OBVIOUS
      <4>1. /\ w.op = "put" => w.about \in Seeds \cup {Sentinel}
            /\ w.op # "lane" /\ ~Moves(w)'
        BY <3>1, <3>3, <4>0
      <4>2. WriteOK(p, w)'
        BY <3>1, <3>2, <4>1 DEF WriteOK, Old
      <4> QED
        BY <4>0, <4>2
    <3>5. OrderOK(p)'
      <4>1. \A i \in DOMAIN t : t[i].op = "event" => Comes(p, t[i].about, i)'
        BY <1>8, <3>1 DEF Comes
      <4> QED
        BY <1>8, <3>3, <4>1 DEF OrderOK, Puts
    <3>6. UpOK(p)'
      <4>1. \A i \in DOMAIN t : i < Len(t) + 1
        BY <1>7
      <4> QED
        BY <1>8, <3>1, <4>1 DEF UpOK, Comes
    <3> QED
      BY <1>8, <1>11, <3>1, <3>4, <3>5, <3>6 DEF ProcOK
  <2> QED
    BY <2>1, <2>2
<1> QED
  BY <1>1, <1>2, <1>8, <1>9, <1>10, <1>12, <1>14, QuietKept DEF DiskChain

-------------------------------------------------------------------------------
(* One write.                                                                  *)

\* The write changes an entity.
Changes(p) == LET w == todo[p][1] IN w.op = "put" /\ ~Unchanged(p, w)

\* What the write w of p, the first of its list, finds and leaves.
Effect(p, w) ==
    /\ w \in W /\ WriteOK(p, w) /\ 1 \in DOMAIN todo[p] /\ p \in Procs
    /\ ProcOK(p) /\ MemoryOK(p) /\ UpOK(p) /\ up[p] \in {"seeding", "serving"}
    /\ todo[p] \in Seq(W) /\ todo'[p] = Tail(todo[p])
    /\ up'[p] = IF todo'[p] = <<>> THEN "serving" ELSE up[p]
    /\ UNCHANGED <<backend, torn, gkey, slipped, partly, done>>
    /\ \A q \in ProcsOf[backend] \ {p} :
          todo'[q] = todo[q] /\ up'[q] = up[q] /\ mem'[q] = mem[q] /\ lost'[q] = lost[q]
    /\ \A e \in Entities :
          /\ disk'[e] = IF Changes(p) /\ e = w.about THEN w.val ELSE disk[e]
          /\ mem'[p][e] = IF w.op = "load" THEN disk[e]
                          ELSE IF Changes(p) /\ e = w.about THEN w.val ELSE mem[p][e]
    /\ lost'[p] = IF w.op = "load" THEN {}
                  ELSE IF Changes(p) THEN lost[p] \ {w.about} ELSE lost[p]
    /\ lane' = IF w.op = "lane" THEN w.val ELSE lane
    /\ w.op # "event" => UNCHANGED <<events, eventSeq>>
    /\ w.op \in {"put", "lane"} => memEvents'[p] = memEvents[p]
    /\ w.op = "load" => memEvents'[p] = Cardinality(events)
    /\ w.op = "event" => PutEvent(p, w)
    /\ Changes(p) /\ backend = "kogwistar" => Revises(p, w)
    /\ ~(Changes(p) /\ backend = "kogwistar") => UNCHANGED <<revs, current>>
    /\ TypeInv'

\* The five kinds of write have such an effect, and keep the types.
LEMMA WriteEffects ==
    ASSUME OneWriter, GraphInv, NEW p \in ProcsOf[backend], Write(p), NEW w, w = todo[p][1]
    PROVE  Effect(p, w)
<1>1. /\ todo[p] # <<>> /\ todo' = [todo EXCEPT ![p] = Tail(@)]
      /\ up' = [up EXCEPT ![p] = IF Tail(todo[p]) = <<>> THEN "serving" ELSE @]
      /\ UNCHANGED <<backend, torn, gkey, slipped, partly, done>>
  BY DEF Write
<1>2. /\ p \in Procs /\ ProcsOf[backend] \subseteq Procs /\ TypeInv /\ ProcOK(p)
      /\ mem \in [Procs -> [Entities -> Payload]] /\ lost \in [Procs -> SUBSET Entities]
      /\ todo \in [Procs -> Seq(W)] /\ up \in [Procs -> {"down", "seeding", "serving"}]
      /\ gkey \in [Procs -> GraphKeys] /\ memEvents \in [Procs -> Nat]
      /\ disk \in [Entities -> Payload] /\ backend \in {"jsonl", "postgres", "kogwistar"}
  BY OneOrRelational, BackendsAssumption DEF GraphInv, TypeInv
<1>3. /\ todo[p] \in Seq(W) /\ Head(todo[p]) = w /\ 1 \in DOMAIN todo[p] /\ w \in W
      /\ Tail(todo[p]) \in Seq(W)
  BY <1>1, <1>2, TailFacts
<1>4. /\ WriteOK(p, w) /\ MemoryOK(p) /\ UpOK(p) /\ up[p] \in {"seeding", "serving"}
  BY <1>1, <1>2, <1>3 DEF ProcOK
<1>5. /\ todo'[p] = Tail(todo[p]) /\ up'[p] = IF todo'[p] = <<>> THEN "serving" ELSE up[p]
      /\ \A q \in ProcsOf[backend] \ {p} : todo'[q] = todo[q] /\ up'[q] = up[q]
      /\ todo' \in [Procs -> Seq(W)] /\ up' \in [Procs -> {"down", "seeding", "serving"}]
  BY <1>1, <1>2, <1>3
<1>6. /\ w.about \in Entities /\ (w.op # "event" => w.val \in Vals /\ w.val \in Payload)
      /\ w.op \in {"put", "event", "lane", "load"}
      /\ (w.op = "event" => w.val \in {"init", "access"})
  BY <1>3, BoundsAssumption DEF W, Vals, Payload, Absent
<1>7. /\ \/ w.op = "put" /\ PutEntity(p, w)
         \/ w.op = "event" /\ PutEvent(p, w)
         \/ w.op = "lane" /\ PutLane(w)
         \/ w.op = "load" /\ Loaded(p)
  BY <1>3 DEF Write
<1>8. w.op = "put" => Changes(p) = ~Unchanged(p, w)
  BY DEF Changes
<1>9. w.op # "put" => ~Changes(p)
  BY DEF Changes
<1>10. backend # "kogwistar" => ~Unchanged(p, w)
  BY DEF Unchanged
<1>11. CASE w.op = "put" /\ Unchanged(p, w)
  <2>1. UNCHANGED <<store, mem, memEvents, lost>> /\ ~Changes(p) /\ backend = "kogwistar"
    BY <1>7, <1>8, <1>10, <1>11 DEF PutEntity, PutJsonl, PutRelational, PutNode, PutEdge
  <2>2. TypeInv'
    BY <1>1, <1>2, <1>5, <2>1 DEF TypeInv, store
  <2> QED
    BY <1>1, <1>2, <1>3, <1>4, <1>5, <1>11, <2>1, <2>2 DEF store, Effect
<1>12. CASE w.op = "put" /\ ~Unchanged(p, w)
  <2>1. /\ Stores(p, w) /\ Changes(p)
        /\ IF backend = "kogwistar" THEN Revises(p, w) ELSE UNCHANGED <<revs, current>>
    BY <1>7, <1>8, <1>12 DEF PutEntity, PutJsonl, PutRelational, PutNode, PutEdge, Revises
  <2>2. /\ mem' = [mem EXCEPT ![p] = [mem[p] EXCEPT ![w.about] = w.val]]
        /\ lost' = [lost EXCEPT ![p] = lost[p] \ {w.about}]
        /\ disk' = [disk EXCEPT ![w.about] = w.val] /\ sealed' = sealed \cup {gkey[p]}
        /\ UNCHANGED <<events, lane, eventSeq, memEvents>>
    BY <2>1 DEF Stores
  <2>3. [mem[p] EXCEPT ![w.about] = w.val] \in [Entities -> Payload] /\ gkey[p] \in GraphKeys
    BY <1>2, <1>6, <1>12
  <2>4. mem' \in [Procs -> [Entities -> Payload]] /\ disk' \in [Entities -> Payload]
    BY <1>2, <1>6, <1>12, <2>2, <2>3
  <2>5. lost' \in [Procs -> SUBSET Entities]
    BY <1>2, <2>2
  <2>6. sealed' \subseteq GraphKeys
    BY <1>2, <2>2, <2>3 DEF TypeInv
  <2>7. /\ revs' \subseteq [seq : Nat \ {0}, of : Entities, prev : Nat] /\ IsFiniteSet(revs')
        /\ current' \in [Entities -> Nat]
    <3>1. CASE backend # "kogwistar"
      BY <1>2, <2>1, <3>1 DEF TypeInv
    <3>2. CASE backend = "kogwistar"
      <4>1. IsFiniteSet(revs) /\ revs \subseteq [seq : Nat \ {0}, of : Entities, prev : Nat]
            /\ current \in [Entities -> Nat]
        BY <1>2 DEF TypeInv
      <4>2. NextSeq \in Nat \ {0}
        <5>1. IsFiniteSet({r \in revs : r.prev # 0})
          BY <4>1, FS_Subset
        <5> QED
          BY <4>1, <5>1, FS_CardinalityType DEF NextSeq
      <4>3. Superseded(p, w.about) \in Nat
        BY <1>6, <4>1 DEF Superseded
      <4>4. PICK r : r = [seq |-> NextSeq, of |-> w.about, prev |-> Superseded(p, w.about)]
        OBVIOUS
      <4>5. r \in [seq : Nat \ {0}, of : Entities, prev : Nat]
        BY <1>6, <4>2, <4>3, <4>4
      <4>6. revs' = revs \cup {r} /\ current' = [current EXCEPT ![w.about] = NextSeq]
        BY <2>1, <3>2, <4>4 DEF Revises
      <4>7. IsFiniteSet(revs')
        BY <4>1, <4>6, FS_AddElement
      <4> QED
        BY <1>6, <4>1, <4>2, <4>5, <4>6, <4>7
    <3> QED
      BY <3>1, <3>2
  <2>8. TypeInv'
    BY <1>1, <1>2, <1>5, <2>2, <2>4, <2>5, <2>6, <2>7 DEF TypeInv
  <2>9. \A e \in Entities : /\ disk'[e] = IF e = w.about THEN w.val ELSE disk[e]
                            /\ mem'[p][e] = IF e = w.about THEN w.val ELSE mem[p][e]
    BY <1>2, <1>6, <2>2
  <2>10. lost'[p] = lost[p] \ {w.about}
         /\ \A q \in ProcsOf[backend] \ {p} : mem'[q] = mem[q] /\ lost'[q] = lost[q]
    BY <1>2, <2>2
  <2> QED
    BY <1>1, <1>2, <1>3, <1>4, <1>5, <1>12, <2>1, <2>2, <2>8, <2>9, <2>10 DEF Effect
<1>13. CASE w.op = "event"
  <2>1. PutEvent(p, w) /\ ~Changes(p)
    BY <1>7, <1>9, <1>13
  <2>2. PICK x : x = [kind |-> w.val, num |-> EventNumber(p), about |-> w.about]
    OBVIOUS
  <2>3. /\ events' = {e \in events : ~(e.kind = w.val /\ e.num = EventNumber(p))} \cup {x}
        /\ eventSeq' = (IF backend = "kogwistar" THEN eventSeq + 1 ELSE eventSeq)
        /\ memEvents' = [memEvents EXCEPT ![p] = @ + 1] /\ sealed' = sealed \cup {gkey[p]}
        /\ UNCHANGED <<disk, lane, revs, current, mem, lost>>
    BY <2>1, <2>2 DEF PutEvent
  <2>4. EventNumber(p) \in Nat \ {0} /\ eventSeq' \in Nat /\ memEvents' \in [Procs -> Nat]
    BY <1>2, <2>3 DEF EventNumber, TypeInv
  <2>5. x \in [kind : {"init", "access"}, num : Nat \ {0}, about : Entities]
    BY <1>6, <1>13, <2>2, <2>4
  <2>6. PICK F : F = {e \in events : ~(e.kind = w.val /\ e.num = EventNumber(p))}
    OBVIOUS
  <2>7. F \subseteq events /\ IsFiniteSet(F)
    BY <1>2, <2>6, FS_Subset DEF TypeInv
  <2>8. /\ events' \subseteq [kind : {"init", "access"}, num : Nat \ {0}, about : Entities]
        /\ IsFiniteSet(events')
    BY <1>2, <2>3, <2>5, <2>6, <2>7, FS_AddElement DEF TypeInv
  <2>9. sealed' \subseteq GraphKeys
    BY <1>2, <2>3 DEF TypeInv
  <2>10. TypeInv'
    BY <1>1, <1>2, <1>5, <2>3, <2>4, <2>8, <2>9 DEF TypeInv
  <2> QED
    BY <1>1, <1>2, <1>3, <1>4, <1>5, <1>13, <2>1, <2>3, <2>10 DEF Effect
<1>14. CASE w.op = "lane"
  <2>1. /\ lane' = w.val /\ ~Changes(p)
        /\ UNCHANGED <<disk, events, eventSeq, revs, current, sealed, mem, memEvents, lost>>
    BY <1>7, <1>9, <1>14 DEF PutLane
  <2>2. lane' \in 0..MaxUsage
    BY <1>4, <1>6, <1>14, <2>1, BoundsAssumption DEF WriteOK, Vals
  <2>3. TypeInv'
    BY <1>1, <1>2, <1>5, <2>1, <2>2 DEF TypeInv
  <2> QED
    BY <1>1, <1>2, <1>3, <1>4, <1>5, <1>14, <2>1, <2>3 DEF Effect
<1>15. CASE w.op = "load"
  <2>1. /\ mem' = [mem EXCEPT ![p] = disk] /\ lost' = [lost EXCEPT ![p] = {}]
        /\ memEvents' = [memEvents EXCEPT ![p] = Cardinality(events)]
        /\ UNCHANGED store /\ ~Changes(p)
    BY <1>7, <1>9, <1>15 DEF Loaded
  <2>2. Cardinality(events) \in Nat
    BY <1>2, FS_CardinalityType DEF TypeInv
  <2>3. mem' \in [Procs -> [Entities -> Payload]] /\ lost' \in [Procs -> SUBSET Entities]
    BY <1>2, <2>1
  <2>4. memEvents' \in [Procs -> Nat]
    BY <1>2, <2>1, <2>2
  <2>5. TypeInv'
    BY <1>1, <1>2, <1>5, <2>1, <2>3, <2>4 DEF TypeInv, store
  <2>6. mem'[p] = disk /\ lost'[p] = {} /\ memEvents'[p] = Cardinality(events)
        /\ \A q \in ProcsOf[backend] \ {p} : mem'[q] = mem[q] /\ lost'[q] = lost[q]
    BY <1>2, <2>1
  <2> QED
    BY <1>1, <1>2, <1>3, <1>4, <1>5, <1>15, <2>1, <2>5, <2>6 DEF store, Effect
<1> QED
  BY <1>6, <1>11, <1>12, <1>13, <1>14, <1>15

\* What a step leaves on disk, and what a write that is made puts there.  Once a
\* kogwistar commit has failed memory may hold what the disk does not, and a
\* write that changes nothing in memory is not made: seedings, ledger events and
\* conversations are not concerned.
Sure(p, e) == backend # "kogwistar" \/ ~slipped \/ up[p] = "seeding" \/ Kind(e) \in {"usage", "access"}

\* ... so a write of those is on disk once its step is done.
LEMMA Lands ==
    ASSUME OneWriter, GraphInv, NEW p \in ProcsOf[backend], Write(p)
    PROVE  /\ \A e \in Entities : On(e) => On(e)'
           /\ \A e \in Entities : Puts(todo[p][1], e) /\ Sure(p, e) => On(e)'
<1>1. PICK w : w = todo[p][1]
  OBVIOUS
<1>2. /\ w \in W /\ WriteOK(p, w) /\ MemoryOK(p)
      /\ \A e \in Entities : disk'[e] = IF Changes(p) /\ e = w.about THEN w.val ELSE disk[e]
  <2>1. Effect(p, w)
    BY <1>1, WriteEffects
  <2> QED
    BY <2>1 DEF Effect
<1>3. /\ w.op = "put" => w.about \in Entities /\ w.val \in Nat
      /\ Changes(p) => w.op = "put"
  BY <1>1, <1>2, BoundsAssumption DEF W, Vals, Changes
<1>4. \A e \in Entities : On(e) => On(e)'
  BY <1>2, <1>3 DEF On, Absent
<1>5. ASSUME NEW e \in Entities, Puts(w, e), Sure(p, e)
      PROVE  On(e)'
  <2>1. CASE Changes(p)
    BY <1>2, <1>3, <1>5, <2>1 DEF On, Absent, Puts
  <2>2. CASE ~Changes(p)
    <3>1. backend = "kogwistar" /\ mem[p][e] = w.val /\ w.val \in Nat /\ w.op = "put" /\ w.about = e
      BY <1>1, <1>3, <1>5, <2>2 DEF Changes, Unchanged, Puts
    <3>2. CASE Kind(e) \in {"usage", "access"}
      BY <1>2, <1>4, <3>1, <3>2 DEF WriteOK
    <3>3. CASE ~slipped \/ up[p] = "seeding"
      <4>1. lost[p] = {} /\ Alone
        BY <1>2, <3>1, <3>3, OneOrRelational DEF MemoryOK, GraphInv
      <4>2. mem[p][e] = disk[e]
        BY <1>2, <4>1 DEF MemoryOK
      <4>3. On(e)
        BY <3>1, <4>2 DEF On, Absent
      <4> QED
        BY <1>4, <4>3
    <3> QED
      BY <1>5, <3>1, <3>2, <3>3 DEF Sure
  <2> QED
    BY <2>1, <2>2
<1> QED
  BY <1>1, <1>4, <1>5

\* What was to come before a place of the list still does.
LEMMA ComesOn ==
    ASSUME OneWriter, GraphInv, NEW p \in ProcsOf[backend], Write(p),
           NEW e \in Entities, Sure(p, e), NEW i \in Nat, Comes(p, e, i + 1)
    PROVE  Comes(p, e, i)'
<1>1. PICK t : t = todo[p]
  OBVIOUS
<1>2. t \in Seq(W) /\ t # <<>> /\ todo'[p] = Tail(t)
  BY <1>1, WriteEffects DEF Effect, Write
<1>3. CASE On(e)
  BY <1>3, Lands DEF Comes
<1>4. CASE \E j \in DOMAIN t : j < i + 1 /\ Puts(t[j], e)
  <2>1. PICK j \in DOMAIN t : j < i + 1 /\ Puts(t[j], e)
    BY <1>4
  <2>2. CASE j = 1
    BY <1>1, <2>1, <2>2, Lands DEF Comes
  <2>3. CASE j # 1
    <3>1. j - 1 \in DOMAIN Tail(t) /\ Tail(t)[j - 1] = t[j] /\ j \in Nat
      BY <1>2, <2>1, <2>3, TailFacts
    <3>2. j - 1 < i
      BY <2>1, <3>1
    <3>3. Puts(t[j], e)'
      BY <1>1, <2>1, <3>1, <1>2 DEF Puts
    <3>4. \E x \in DOMAIN Tail(t) : x < i /\ Tail(t)[x].op = "put" /\ Tail(t)[x].about = e
      BY <2>1, <3>1, <3>2 DEF Puts
    <3> QED
      BY <1>2, <3>4 DEF Comes, Puts
  <2> QED
    BY <2>2, <2>3
<1> QED
  BY <1>1, <1>3, <1>4 DEF Comes

\* What had to be before the write is there.
LEMMA ComesFirst ==
    ASSUME NEW p, todo[p] \in Seq(W), NEW e, Comes(p, e, 1)
    PROVE  On(e)
<1>1. \A j \in DOMAIN todo[p] : ~(j < 1)
  OBVIOUS
<1> QED
  BY <1>1 DEF Comes

\* The head of the chain moves by the write that moves it, and only forwards.
LEMMA HeadMoves ==
    ASSUME OneWriter, GraphInv, NEW p \in ProcsOf[backend], Write(p), NEW w, w = todo[p][1]
    PROVE  /\ ChainHead' = IF Moves(w) THEN w.val ELSE ChainHead
           /\ ChainHead \in 0..MaxUsage /\ ChainHead' \in 0..MaxUsage /\ ChainHead' >= ChainHead
           /\ HeadSeq(p)' = ChainHead' \/ (HeadSeq(p)' = HeadSeq(p) /\ ChainHead' = ChainHead)
           /\ backend = "postgres" => disk'[HeadNode] = Absent /\ mem'[p][HeadNode] = Absent
<1>1. /\ w \in W /\ WriteOK(p, w) /\ MemoryOK(p) /\ ProcOK(p) /\ UNCHANGED backend /\ 1 \in DOMAIN todo[p]
      /\ lane' = (IF w.op = "lane" THEN w.val ELSE lane)
      /\ \A e \in Entities :
            /\ disk'[e] = IF Changes(p) /\ e = w.about THEN w.val ELSE disk[e]
            /\ mem'[p][e] = IF w.op = "load" THEN disk[e]
                            ELSE IF Changes(p) /\ e = w.about THEN w.val ELSE mem[p][e]
  <2>1. Effect(p, w)
    BY WriteEffects
  <2> QED
    BY <2>1 DEF Effect
<1>2. /\ HeadNode \in Entities /\ Kind(HeadNode) = "head"
      /\ DiskChain /\ backend \in {"jsonl", "postgres", "kogwistar"} /\ ChainHead \in 0..MaxUsage
  BY EntityFacts, BackendsAssumption DEF GraphInv, TypeInv, DiskChain
<1>3. /\ Changes(p) <=> w.op = "put" /\ ~Unchanged(p, w)
      /\ w.op # "event" => w.val \in Nat
  BY <1>1, BoundsAssumption DEF Changes, W, Vals
<1>4. /\ ChainHead' = (IF Moves(w) THEN w.val ELSE ChainHead)
      /\ HeadSeq(p)' = ChainHead' \/ (HeadSeq(p)' = HeadSeq(p) /\ ChainHead' = ChainHead)
      /\ backend = "postgres" => disk'[HeadNode] = Absent /\ mem'[p][HeadNode] = Absent
  <2>1. CASE backend = "kogwistar"
    BY <1>1, <2>1 DEF ChainHead, HeadSeq, Moves
  <2>2. CASE backend = "postgres"
    <3>1. /\ w.op = "put" => w.about # HeadNode
          /\ disk[HeadNode] = Absent /\ mem[p][HeadNode] = Absent
      BY <1>1, <1>2, <2>2 DEF WriteOK, DiskChain, MemoryOK
    <3>2. disk'[HeadNode] = Absent /\ mem'[p][HeadNode] = Absent /\ ~Moves(w)
      BY <1>1, <1>2, <1>3, <2>2, <3>1 DEF Moves, Puts
    <3> QED
      BY <1>1, <2>2, <3>1, <3>2 DEF ChainHead, HeadSeq
  <2>3. CASE backend = "jsonl"
    <3>1. ~Unchanged(p, w) /\ Moves(w) = Puts(w, HeadNode)
      BY <2>3 DEF Unchanged, Moves
    <3>2. CASE Puts(w, HeadNode)
      <4>1. disk'[HeadNode] = w.val /\ mem'[p][HeadNode] = w.val /\ w.val # Absent
        BY <1>1, <1>2, <1>3, <3>1, <3>2 DEF Puts, Absent
      <4> QED
        BY <1>1, <2>3, <3>1, <3>2, <4>1 DEF ChainHead, HeadSeq
    <3>3. CASE ~Puts(w, HeadNode)
      <4>1. disk'[HeadNode] = disk[HeadNode]
            /\ mem'[p][HeadNode] = IF w.op = "load" THEN disk[HeadNode] ELSE mem[p][HeadNode]
        BY <1>1, <1>2, <1>3, <3>3 DEF Puts
      <4> QED
        BY <1>1, <2>3, <3>1, <3>3, <4>1 DEF ChainHead, HeadSeq
    <3> QED
      BY <3>2, <3>3
  <2> QED
    BY <1>2, <2>1, <2>2, <2>3
<1>5. Moves(w) => w.val \in Nat /\ w.val <= MaxUsage /\ w.val >= ChainHead
  <2>1. Moves(w) => w.op # "event"
    BY DEF Moves, Puts
  <2> QED
    BY <1>1, <1>3, <2>1 DEF WriteOK, ProcOK, OrderOK
<1>6. ChainHead' \in 0..MaxUsage /\ ChainHead' >= ChainHead
  BY <1>2, <1>4, <1>5, BoundsAssumption
<1> QED
  BY <1>2, <1>4, <1>6

\* The chain on disk stays whole: the head moves to an event that is there.
LEMMA WriteChain ==
    ASSUME OneWriter, GraphInv, NEW p \in ProcsOf[backend], Write(p)
    PROVE  DiskChain'
<1>1. PICK w : w = todo[p][1]
  OBVIOUS
<1>2. /\ todo[p] \in Seq(W) /\ ProcOK(p) /\ 1 \in DOMAIN todo[p] /\ DiskChain
      /\ UNCHANGED <<backend, slipped>>
  BY <1>1, WriteEffects DEF Effect, GraphInv
<1>3. /\ ChainHead' = (IF Moves(w) THEN w.val ELSE ChainHead) /\ ChainHead' \in 0..MaxUsage
      /\ backend = "postgres" => disk'[HeadNode] = Absent
  BY <1>1, HeadMoves
<1>4. \A m \in 1..ChainHead' : On(Usage(m)) /\ (slipped \/ On(Edge(m)))
  <2>1. CASE Moves(w)
    <3>1. ChainComes(p, w.val, 1)
      BY <1>1, <1>2, <2>1 DEF ProcOK, OrderOK
    <3> QED
      BY <1>2, <1>3, <2>1, <3>1, ComesFirst DEF ChainComes
  <2>2. CASE ~Moves(w)
    BY <1>2, <1>3, <2>2 DEF DiskChain
  <2> QED
    BY <2>1, <2>2
<1>5. \A m \in 1..ChainHead' : m \in 1..MaxUsage
  BY <1>3, BoundsAssumption
<1>6. \A m \in 1..ChainHead' : On(Usage(m))' /\ (slipped' \/ On(Edge(m))')
  BY <1>2, <1>4, <1>5, EntityFacts, Lands
<1> QED
  BY <1>2, <1>3, <1>6 DEF DiskChain

\* The writes that are left are in order.
LEMMA WriteOrder ==
    ASSUME OneWriter, GraphInv, NEW p \in ProcsOf[backend], Write(p)
    PROVE  OrderOK(p)'
<1>1. PICK t, w : t = todo[p] /\ w = t[1]
  OBVIOUS
<1>2. /\ t \in Seq(W) /\ t # <<>> /\ todo'[p] = Tail(t) /\ ProcOK(p) /\ 1 \in DOMAIN t
      /\ UNCHANGED <<backend, slipped>>
  BY <1>1, WriteEffects DEF Effect, Write
<1>3. /\ ChainHead' = (IF Moves(w) THEN w.val ELSE ChainHead)
      /\ ChainHead' \in 0..MaxUsage /\ ChainHead \in 0..MaxUsage
  BY <1>1, HeadMoves
<1>4. \A x : Moves(x)' <=> Moves(x)
  BY <1>2 DEF Moves
<1>5. \A i \in DOMAIN Tail(t) : /\ i \in Nat \ {0} /\ i + 1 \in DOMAIN t /\ Tail(t)[i] = t[i + 1]
                                /\ t[i + 1] \in W
  BY <1>2, TailFacts
<1>6. \A i \in DOMAIN t : WriteOK(p, t[i])
  BY <1>1, <1>2 DEF ProcOK
<1>7. \A i \in DOMAIN t :
        /\ t[i].op = "event" => Comes(p, t[i].about, i)
        /\ Moves(t[i]) => t[i].val >= ChainHead /\ ChainComes(p, t[i].val, i)
        /\ \A m \in 1..MaxUsage : Puts(t[i], Usage(m)) => m > ChainHead
        /\ Moves(t[i]) => \A j \in DOMAIN t : j > i =>
              /\ Moves(t[j]) => t[j].val >= t[i].val
              /\ \A m \in 1..MaxUsage : Puts(t[j], Usage(m)) => m > t[i].val
  BY <1>1, <1>2 DEF ProcOK, OrderOK
<1>8. ASSUME NEW i \in DOMAIN Tail(t)
      PROVE  /\ t[i + 1].op = "event" => Comes(p, t[i + 1].about, i)'
             /\ Moves(t[i + 1]) => t[i + 1].val >= ChainHead' /\ ChainComes(p, t[i + 1].val, i)'
             /\ \A m \in 1..MaxUsage : Puts(t[i + 1], Usage(m)) => m > ChainHead'
  <2>1. PICK x : x = t[i + 1]
    OBVIOUS
  <2>2. x \in W /\ WriteOK(p, x) /\ i \in Nat /\ i + 1 \in DOMAIN t /\ i + 1 > 1 /\ x.about \in Entities
    BY <1>5, <1>6, <2>1 DEF W
  <2>3. x.op = "event" => Comes(p, x.about, i)'
    <3>1. x.op = "event" => Sure(p, x.about) /\ Comes(p, x.about, i + 1)
      BY <1>7, <2>1, <2>2 DEF WriteOK, Sure
    <3> QED
      BY <2>2, <3>1, ComesOn
  <2>4. Moves(x) => x.val >= ChainHead'
    BY <1>1, <1>2, <1>3, <1>7, <2>1, <2>2
  <2>5. ASSUME Moves(x)
        PROVE  ChainComes(p, x.val, i)'
    <3>1. ChainComes(p, x.val, i + 1) /\ x.val <= MaxUsage
      BY <1>7, <2>1, <2>2, <2>5 DEF WriteOK
    <3>2. x.val \in Nat
      BY <2>2, <2>5, BoundsAssumption DEF W, Vals, Moves, Puts
    <3>3. \A m \in 1..x.val : m \in 1..MaxUsage
      BY <3>1, <3>2, BoundsAssumption
    <3>4. ASSUME NEW m \in 1..x.val
          PROVE  Comes(p, Usage(m), i)' /\ (slipped' \/ Comes(p, Edge(m), i)')
      <4>1. Usage(m) \in Entities /\ Edge(m) \in Entities /\ Kind(Usage(m)) = "usage"
        BY <3>3, EntityFacts
      <4>2. Comes(p, Usage(m), i + 1) /\ (slipped \/ Comes(p, Edge(m), i + 1))
        BY <3>1 DEF ChainComes
      <4>3. Comes(p, Usage(m), i)'
        BY <2>2, <4>1, <4>2, ComesOn DEF Sure
      <4>4. slipped' \/ Comes(p, Edge(m), i)'
        BY <1>2, <2>2, <4>1, <4>2, ComesOn DEF Sure
      <4> QED
        BY <4>3, <4>4
    <3> QED
      BY <3>4 DEF ChainComes
  <2>6. \A m \in 1..MaxUsage : Puts(x, Usage(m)) => m > ChainHead'
    BY <1>1, <1>2, <1>3, <1>7, <2>1, <2>2
  <2> QED
    BY <2>1, <2>3, <2>4, <2>5, <2>6
<1>9. ASSUME NEW i \in DOMAIN Tail(t), NEW j \in DOMAIN Tail(t), j > i, Moves(t[i + 1])
      PROVE  /\ Moves(t[j + 1]) => t[j + 1].val >= t[i + 1].val
             /\ \A m \in 1..MaxUsage : Puts(t[j + 1], Usage(m)) => m > t[i + 1].val
  <2>1. i + 1 \in DOMAIN t /\ j + 1 \in DOMAIN t /\ j + 1 > i + 1
    BY <1>5, <1>9
  <2> QED
    BY <1>7, <1>9, <2>1
<1>10. \A i \in DOMAIN Tail(t) :
         LET x == Tail(t)[i] IN
         /\ x.op = "event" => Comes(p, x.about, i)'
         /\ Moves(x)' => x.val >= ChainHead' /\ ChainComes(p, x.val, i)'
         /\ \A m \in 1..MaxUsage : Puts(x, Usage(m)) => m > ChainHead'
         /\ Moves(x)' => \A j \in DOMAIN Tail(t) : j > i =>
               /\ Moves(Tail(t)[j])' => Tail(t)[j].val >= x.val
               /\ \A m \in 1..MaxUsage : Puts(Tail(t)[j], Usage(m)) => m > x.val
  BY <1>4, <1>5, <1>8, <1>9
<1> QED
  BY <1>2, <1>10 DEF OrderOK, Puts, Moves

\* Nothing newer than the counts is written.
LEMMA WriteOlds ==
    ASSUME OneWriter, GraphInv, NEW p \in ProcsOf[backend], Write(p)
    PROVE  OldOK'
<1>1. PICK w : w = todo[p][1]
  OBVIOUS
<1>2. Effect(p, w)
  BY <1>1, WriteEffects
<1>3. OldOK /\ UNCHANGED <<backend, done>> /\ WriteOK(p, w) /\ w \in W
  BY <1>2 DEF GraphInv, Effect
<1>4. \A e, v : Old(e, v)' <=> Old(e, v)
  BY <1>3 DEF Old
<1>5. ASSUME NEW e \in Entities
      PROVE  Old(e, disk[e])' /\ Old(e, mem[p][e])' /\ \A q \in ProcsOf[backend] \ {p} : Old(e, mem[q][e])'
  <2>1. /\ disk'[e] = (IF Changes(p) /\ e = w.about THEN w.val ELSE disk[e])
        /\ mem'[p][e] = (IF w.op = "load" THEN disk[e]
                         ELSE IF Changes(p) /\ e = w.about THEN w.val ELSE mem[p][e])
        /\ \A q \in ProcsOf[backend] \ {p} : mem'[q] = mem[q]
    BY <1>2 DEF Effect
  <2>2. Old(e, disk[e]) /\ \A q \in ProcsOf[backend] : Old(e, mem[q][e])
    BY <1>3 DEF OldOK
  <2>3. Changes(p) /\ e = w.about => Old(e, w.val)
    BY <1>1, <1>3 DEF Changes, WriteOK
  <2>4. Old(e, disk'[e]) /\ Old(e, mem'[p][e]) /\ \A q \in ProcsOf[backend] \ {p} : Old(e, mem'[q][e])
    BY <2>1, <2>2, <2>3
  <2> QED
    BY <1>3, <2>4 DEF Old
<1> QED
  BY <1>3, <1>5 DEF OldOK

\* A number no event has: of a JSONL log the number of its events, plus one, and
\* of the kogwistar store the counter plus one.
LEMMA WriteEvents ==
    ASSUME OneWriter, GraphInv, NEW p \in ProcsOf[backend], Write(p)
    PROVE  /\ EventsOK' /\ events \subseteq events'
           /\ backend = "jsonl" => memEvents'[p] = Cardinality(events')
<1>1. PICK w : w = todo[p][1]
  OBVIOUS
<1>2. Effect(p, w)
  BY <1>1, WriteEffects
<1>3. /\ EventsOK /\ UNCHANGED backend /\ MemoryOK(p) /\ TypeInv /\ ProcOK(p) /\ w \in W
      /\ p \in Procs /\ 1 \in DOMAIN todo[p] /\ todo[p] \in Seq(W) /\ WriteOK(p, w)
  BY <1>2 DEF GraphInv, Effect
<1>4. /\ events \subseteq [kind : {"init", "access"}, num : Nat \ {0}, about : Entities]
      /\ IsFiniteSet(events) /\ eventSeq \in Nat /\ memEvents \in [Procs -> Nat]
      /\ Cardinality(events) \in Nat
      /\ backend = "jsonl" => memEvents[p] = Cardinality(events)
  BY <1>3, FS_CardinalityType DEF TypeInv, MemoryOK
<1>5. \A e \in events : On(e.about)'
  BY <1>3, <1>4, Lands DEF EventsOK
<1>6. CASE w.op # "event"
  <2>1. /\ UNCHANGED <<events, eventSeq>> /\ (w.op \in {"put", "lane"} => memEvents'[p] = memEvents[p])
        /\ (w.op = "load" => memEvents'[p] = Cardinality(events)) /\ w.op \in {"put", "lane", "load", "event"}
    BY <1>2, <1>6 DEF Effect, W
  <2> QED
    BY <1>3, <1>4, <1>5, <1>6, <2>1 DEF EventsOK
<1>7. CASE w.op = "event"
  <2>1. PutEvent(p, w)
    BY <1>2, <1>7 DEF Effect
  <2>2. PICK x : x = [kind |-> w.val, num |-> EventNumber(p), about |-> w.about]
    OBVIOUS
  <2>3. /\ backend = "postgres" => ~Taken(p, w)
        /\ events' = {e \in events : ~(e.kind = w.val /\ e.num = EventNumber(p))} \cup {x}
        /\ eventSeq' = (IF backend = "kogwistar" THEN eventSeq + 1 ELSE eventSeq)
        /\ memEvents' = [memEvents EXCEPT ![p] = @ + 1]
    BY <2>1, <2>2 DEF PutEvent
  <2>4. /\ EventNumber(p) = 1 + (IF backend = "kogwistar" THEN eventSeq ELSE memEvents[p])
        /\ x.num = EventNumber(p) /\ x.about = w.about
    BY <2>2 DEF EventNumber
  <2>5. \A e \in events : e.kind = w.val => e.num # EventNumber(p)
    <3>1. \A e \in events : e.num \in Nat
      BY <1>4
    <3>2. CASE backend = "postgres"
      BY <2>3, <3>2 DEF Taken
    <3>3. CASE backend = "kogwistar"
      BY <1>3, <1>4, <2>4, <3>1, <3>3 DEF EventsOK
    <3>4. CASE backend = "jsonl"
      BY <1>3, <1>4, <2>4, <3>1, <3>4 DEF EventsOK
    <3> QED
      BY <1>3, <3>2, <3>3, <3>4, BackendsAssumption DEF TypeInv
  <2>6. events' = events \cup {x} /\ x \notin events
    <3>1. x.kind = w.val
      BY <2>2
    <3> QED
      BY <2>3, <2>4, <2>5, <3>1
  <2>7. Cardinality(events') = Cardinality(events) + 1
    BY <1>4, <2>6, FS_AddElement
  <2>8. On(w.about)'
    <3>1. Comes(p, w.about, 1) /\ w.about \in Entities
      BY <1>1, <1>3, <1>7 DEF ProcOK, OrderOK, W
    <3>2. On(w.about)
      BY <1>3, <3>1, ComesFirst
    <3> QED
      BY <3>1, <3>2, Lands
  <2>9. \A e \in events' : On(e.about)'
    BY <1>5, <2>4, <2>6, <2>8
  <2>10. backend = "jsonl" => \A e \in events' : e.num <= Cardinality(events')
    <3>1. ASSUME backend = "jsonl", NEW e \in events'
          PROVE  e.num <= Cardinality(events')
      <4>1. CASE e = x
        BY <1>4, <2>4, <2>7, <3>1, <4>1
      <4>2. CASE e \in events
        <5>1. e.num \in Nat /\ e.num <= Cardinality(events)
          BY <1>3, <1>4, <3>1, <4>2 DEF EventsOK
        <5> QED
          BY <1>4, <2>7, <5>1
      <4> QED
        BY <2>6, <4>1, <4>2
    <3> QED
      BY <3>1
  <2>11. backend = "kogwistar" => \A e \in events' : e.num <= eventSeq'
    <3>1. ASSUME backend = "kogwistar", NEW e \in events'
          PROVE  e.num <= eventSeq'
      <4>1. CASE e = x
        BY <1>4, <2>3, <2>4, <3>1, <4>1
      <4>2. CASE e \in events
        <5>1. e.num \in Nat /\ e.num <= eventSeq
          BY <1>3, <1>4, <3>1, <4>2 DEF EventsOK
        <5> QED
          BY <1>4, <2>3, <3>1, <5>1
      <4> QED
        BY <2>6, <4>1, <4>2
    <3> QED
      BY <3>1
  <2>12. backend = "jsonl" => memEvents'[p] = Cardinality(events')
    BY <1>3, <1>4, <2>3, <2>7
  <2> QED
    BY <1>3, <2>6, <2>9, <2>10, <2>11, <2>12 DEF EventsOK
<1> QED
  BY <1>6, <1>7

\* The memory of the process follows the disk.
LEMMA WriteMemory ==
    ASSUME OneWriter, GraphInv, NEW p \in ProcsOf[backend], Write(p)
    PROVE  MemoryOK(p)'
<1>1. PICK w : w = todo[p][1]
  OBVIOUS
<1>2. Effect(p, w)
  BY <1>1, WriteEffects
<1>3. /\ UNCHANGED <<backend, slipped>> /\ MemoryOK(p) /\ up[p] \in {"seeding", "serving"}
      /\ up'[p] = "seeding" => up[p] = "seeding"
      /\ lost'[p] = (IF w.op = "load" THEN {}
                     ELSE IF Changes(p) THEN lost[p] \ {w.about} ELSE lost[p])
  BY <1>2 DEF Effect
<1>4. /\ \A e \in Entities :
            /\ disk'[e] = IF Changes(p) /\ e = w.about THEN w.val ELSE disk[e]
            /\ mem'[p][e] = IF w.op = "load" THEN disk[e]
                            ELSE IF Changes(p) /\ e = w.about THEN w.val ELSE mem[p][e]
      /\ w \in W
  BY <1>2 DEF Effect
<1>5. /\ ChainHead' \in 0..MaxUsage /\ ChainHead \in 0..MaxUsage
      /\ HeadSeq(p)' = ChainHead' \/ (HeadSeq(p)' = HeadSeq(p) /\ ChainHead' = ChainHead)
      /\ backend = "postgres" => mem'[p][HeadNode] = Absent
  BY <1>1, HeadMoves
<1>6. Alone' <=> Alone
  BY <1>3 DEF Alone
<1>7. Changes(p) => w.op = "put" /\ w.val # Absent
  BY <1>1, <1>4, BoundsAssumption DEF Changes, W, Vals, Absent
<1>8. Alone => \A e \in Entities : /\ mem'[p][e] # disk'[e] => e \in lost'[p]
                                   /\ mem'[p][e] = Absent => disk'[e] = Absent
  <2> SUFFICES ASSUME Alone, NEW e \in Entities
               PROVE  /\ mem'[p][e] # disk'[e] => e \in lost'[p]
                      /\ mem'[p][e] = Absent => disk'[e] = Absent
    OBVIOUS
  <2>1. /\ mem[p][e] # disk[e] => e \in lost[p]
        /\ mem[p][e] = Absent => disk[e] = Absent
    BY <1>3 DEF MemoryOK
  <2>2. /\ disk'[e] = (IF Changes(p) /\ e = w.about THEN w.val ELSE disk[e])
        /\ mem'[p][e] = (IF w.op = "load" THEN disk[e]
                         ELSE IF Changes(p) /\ e = w.about THEN w.val ELSE mem[p][e])
    BY <1>4
  <2>3. CASE w.op = "load"
    BY <1>7, <2>2, <2>3
  <2>4. CASE w.op # "load" /\ Changes(p)
    BY <1>3, <1>7, <2>1, <2>2, <2>4
  <2>5. CASE w.op # "load" /\ ~Changes(p)
    BY <1>3, <2>1, <2>2, <2>5
  <2> QED
    BY <2>3, <2>4, <2>5
<1>9. backend = "kogwistar" /\ (~slipped \/ up'[p] = "seeding") => lost'[p] = {}
  BY <1>3 DEF MemoryOK
<1>10. backend = "jsonl" => memEvents'[p] = Cardinality(events')
  BY WriteEvents
<1>11. HeadSeq(p)' \in ChainHead'..MaxUsage
  <2>1. HeadSeq(p) \in ChainHead..MaxUsage
    BY <1>3 DEF MemoryOK
  <2> QED
    BY <1>5, <2>1, BoundsAssumption
<1>12. \A m \in 1..HeadSeq(p)' : On(Usage(m))' /\ (slipped' \/ On(Edge(m))')
  <2>1. CASE HeadSeq(p)' = ChainHead'
    BY <2>1, WriteChain DEF DiskChain
  <2>2. CASE HeadSeq(p)' = HeadSeq(p)
    <3>1. \A m \in 1..HeadSeq(p) : /\ m \in 1..MaxUsage /\ On(Usage(m)) /\ (slipped \/ On(Edge(m)))
      BY <1>3, <1>5, BoundsAssumption DEF MemoryOK
    <3> QED
      BY <1>3, <2>2, <3>1, EntityFacts, Lands
  <2> QED
    BY <1>5, <2>1, <2>2
<1> QED
  BY <1>3, <1>5, <1>6, <1>8, <1>9, <1>10, <1>11, <1>12 DEF MemoryOK

\* A seeding that has made its last write has put every policy entity.
LEMMA WriteUp ==
    ASSUME OneWriter, GraphInv, NEW p \in ProcsOf[backend], Write(p)
    PROVE  /\ UpOK(p)'
           /\ up[p] = "seeding" /\ up'[p] # "seeding" => \A s \in Seeds : On(s)'
<1>1. PICK w, t : t = todo[p] /\ w = t[1]
  OBVIOUS
<1>2. Effect(p, w)
  BY <1>1, WriteEffects
<1>3. /\ UpOK(p) /\ up[p] \in {"seeding", "serving"} /\ t \in Seq(W) /\ t # <<>>
      /\ todo'[p] = Tail(t) /\ up'[p] = (IF todo'[p] = <<>> THEN "serving" ELSE up[p])
  BY <1>1, <1>2 DEF Effect, Write
<1>4. Tail(t) \in Seq(W) /\ Len(t) = Len(Tail(t)) + 1 /\ Len(Tail(t)) \in Nat
  BY <1>3, TailFacts
<1>5. up[p] = "seeding" => \A s \in Seeds : Comes(p, s, Len(Tail(t)) + 1)'
  <2>1. \A s \in Seeds : s \in Entities
    BY EntityFacts
  <2> SUFFICES ASSUME up[p] = "seeding", NEW s \in Seeds
               PROVE  Comes(p, s, Len(Tail(t)) + 1)'
    OBVIOUS
  <2>2. PICK i : i = Len(Tail(t)) + 1
    OBVIOUS
  <2>3. i \in Nat /\ Comes(p, s, i + 1)
    BY <1>1, <1>3, <1>4, <2>2 DEF UpOK
  <2>4. Comes(p, s, i)'
    BY <2>1, <2>3, ComesOn DEF Sure
  <2> QED
    BY <2>2, <2>4
<1>6. up[p] = "seeding" /\ up'[p] # "seeding" => \A s \in Seeds : On(s)'
  <2> SUFFICES ASSUME up[p] = "seeding", up'[p] # "seeding", NEW s \in Seeds
               PROVE  On(s)'
    OBVIOUS
  <2>1. todo'[p] = <<>>
    BY <1>3
  <2>2. Comes(p, s, Len(Tail(t)) + 1)'
    BY <1>5
  <2>3. DOMAIN todo'[p] = {}
    BY <2>1
  <2> QED
    BY <2>2, <2>3 DEF Comes
<1>7. up'[p] = "serving" => Seeded'
  <2>1. CASE up[p] = "seeding"
    BY <1>6, <2>1, EntityFacts DEF Seeded
  <2>2. CASE up[p] = "serving"
    <3>1. PICK s \in Seeds : On(s)
      BY <1>3, <2>2 DEF UpOK, Seeded
    <3> QED
      BY <3>1, EntityFacts, Lands DEF Seeded
  <2> QED
    BY <1>3, <2>1, <2>2
<1>8. up'[p] = "seeding" => \A s \in Seeds : Comes(p, s, Len(todo[p]) + 1)'
  BY <1>3, <1>5
<1> QED
  BY <1>6, <1>7, <1>8 DEF UpOK

\* The writes that are left are sound.
LEMMA WriteWrites ==
    ASSUME OneWriter, GraphInv, NEW p \in ProcsOf[backend], Write(p)
    PROVE  \A i \in DOMAIN todo'[p] : WriteOK(p, todo[p][i])'
<1>1. PICK w, t : t = todo[p] /\ w = t[1]
  OBVIOUS
<1>2. Effect(p, w)
  BY <1>1, WriteEffects
<1>3. /\ t \in Seq(W) /\ t # <<>> /\ ProcOK(p) /\ UNCHANGED <<backend, done>>
      /\ todo'[p] = Tail(t) /\ up'[p] = (IF todo'[p] = <<>> THEN "serving" ELSE up[p])
  BY <1>1, <1>2 DEF Effect, Write
<1>4. /\ \A e \in Entities :
            /\ disk'[e] = IF Changes(p) /\ e = w.about THEN w.val ELSE disk[e]
            /\ mem'[p][e] = IF w.op = "load" THEN disk[e]
                            ELSE IF Changes(p) /\ e = w.about THEN w.val ELSE mem[p][e]
      /\ w \in W
  BY <1>2 DEF Effect
<1> SUFFICES ASSUME NEW i \in DOMAIN Tail(t)
             PROVE  WriteOK(p, Tail(t)[i])'
  BY <1>3
<1>5. PICK x : x = Tail(t)[i]
  OBVIOUS
<1>6. x \in W /\ WriteOK(p, x) /\ Tail(t) # <<>> /\ Tail(t) \in Seq(W)
  <2>1. i + 1 \in DOMAIN t /\ x = t[i + 1] /\ x \in W /\ Tail(t) \in Seq(W)
    BY <1>3, <1>5, TailFacts
  <2> QED
    BY <1>1, <1>3, <2>1 DEF ProcOK
<1>7. up'[p] = up[p]
  BY <1>3, <1>6
<1>8. x.op = "put" => x.about \in Entities /\ x.val \in Nat
  BY <1>6, BoundsAssumption DEF W, Vals
<1>9. x.op = "put" /\ backend = "kogwistar" /\ Kind(x.about) \in {"usage", "access"}
      /\ mem'[p][x.about] = x.val => On(x.about)'
  <2> SUFFICES ASSUME x.op = "put", backend = "kogwistar", Kind(x.about) \in {"usage", "access"},
                      mem'[p][x.about] = x.val
               PROVE  On(x.about)'
    OBVIOUS
  <2>1. PICK e \in Entities : e = x.about
    BY <1>8
  <2>2. /\ disk'[e] = (IF Changes(p) /\ e = w.about THEN w.val ELSE disk[e])
        /\ mem'[p][e] = (IF w.op = "load" THEN disk[e]
                         ELSE IF Changes(p) /\ e = w.about THEN w.val ELSE mem[p][e])
    BY <1>4
  <2>3. mem'[p][e] # Absent
    BY <1>8, <2>1 DEF Absent
  <2>4. mem[p][e] = x.val => disk[e] # Absent
    BY <1>6, <2>1 DEF WriteOK, On
  <2>5. Changes(p) => w.op = "put"
    BY <1>1 DEF Changes
  <2>6. disk'[e] # Absent
    BY <2>1, <2>2, <2>3, <2>4, <2>5
  <2> QED
    BY <2>1, <2>6 DEF On
<1>10. WriteOK(p, x)'
  BY <1>3, <1>6, <1>7, <1>9 DEF WriteOK, Old, Moves, Puts
<1> QED
  BY <1>5, <1>10

\* The policy graph is put by seedings, before anything else.
LEMMA WriteSeeds ==
    ASSUME OneWriter, GraphInv, NEW p \in ProcsOf[backend], Write(p)
    PROVE  SeedsOK'
<1>1. PICK w : w = todo[p][1]
  OBVIOUS
<1>2. Effect(p, w)
  BY <1>1, WriteEffects
<1>3. /\ SeedsOK /\ UNCHANGED <<backend, partly>> /\ WriteOK(p, w) /\ UpOK(p) /\ w \in W
      /\ up[p] \in {"seeding", "serving"}
      /\ \A q \in ProcsOf[backend] \ {p} : up'[q] = up[q]
      /\ \A e \in Entities : disk'[e] = IF Changes(p) /\ e = w.about THEN w.val ELSE disk[e]
  BY <1>2 DEF Effect, GraphInv
<1>4. Changes(p) => w.op = "put"
  BY <1>1 DEF Changes
<1>5. Seeded => Seeded'
  BY EntityFacts, Lands DEF Seeded
<1>6. ASSUME NEW e \in Entities \ {Sentinel}, On(e)'
      PROVE  Seeded'
  <2>1. CASE On(e)
    BY <1>3, <1>5, <2>1 DEF SeedsOK
  <2>2. CASE ~On(e)
    <3>1. e = w.about /\ w.op = "put"
      BY <1>3, <1>4, <1>6, <2>2 DEF On
    <3>2. CASE up[p] = "seeding"
      BY <1>3, <1>6, <3>1, <3>2 DEF WriteOK, Seeded
    <3>3. CASE up[p] = "serving"
      BY <1>3, <1>5, <3>3 DEF UpOK
    <3> QED
      BY <1>3, <3>2, <3>3
  <2> QED
    BY <2>1, <2>2
<1>7. ASSUME Seeded', ~partly
      PROVE  (\A s \in Seeds : On(s)') \/ \E q \in ProcsOf[backend] : up'[q] = "seeding"
  <2>1. CASE up[p] = "seeding"
    BY <2>1, WriteUp
  <2>2. CASE up[p] = "serving"
    <3>1. (\A s \in Seeds : On(s)) \/ \E q \in ProcsOf[backend] : up[q] = "seeding"
      BY <1>3, <1>7, <2>2 DEF UpOK, SeedsOK
    <3>2. CASE \A s \in Seeds : On(s)
      BY <3>2, EntityFacts, Lands
    <3>3. CASE \E q \in ProcsOf[backend] : up[q] = "seeding"
      BY <1>3, <2>2, <3>3
    <3> QED
      BY <3>1, <3>2, <3>3
  <2> QED
    BY <1>3, <2>1, <2>2
<1> QED
  BY <1>3, <1>6, <1>7 DEF SeedsOK

\* A revision gets a new number and supersedes the current one of its entity: what
\* a process alone with its store does not know is not there.
LEMMA WriteRevs ==
    ASSUME OneWriter, GraphInv, NEW p \in ProcsOf[backend], Write(p)
    PROVE  RevsOK'
<1>1. PICK w : w = todo[p][1]
  OBVIOUS
<1>2. Effect(p, w)
  BY <1>1, WriteEffects
<1>3. /\ RevsOK /\ UNCHANGED backend /\ MemoryOK(p) /\ w \in W /\ TypeInv
      /\ \A e \in Entities : disk'[e] = IF Changes(p) /\ e = w.about THEN w.val ELSE disk[e]
  BY <1>2 DEF Effect, GraphInv
<1>4. /\ revs \subseteq [seq : Nat \ {0}, of : Entities, prev : Nat] /\ IsFiniteSet(revs)
      /\ current \in [Entities -> Nat]
  BY <1>3 DEF TypeInv
<1>5. SUFFICES ASSUME backend = "kogwistar"
               PROVE  RevsOK'
  BY <1>3 DEF RevsOK
<1>6. CASE ~Changes(p)
  <2>1. UNCHANGED <<revs, current>> /\ \A e \in Entities : disk'[e] = disk[e]
    BY <1>2, <1>3, <1>6 DEF Effect
  <2> QED
    BY <1>3, <1>5, <2>1 DEF RevsOK, NextSeq
<1>7. CASE Changes(p)
  <2>1. PICK a, x, n : /\ a = w.about /\ n = NextSeq
                       /\ x = [seq |-> n, of |-> a, prev |-> Superseded(p, a)]
    OBVIOUS
  <2>2. /\ a \in Entities /\ w.val \in Nat /\ x.seq = n /\ x.of = a /\ x.prev = Superseded(p, a)
        /\ revs' = revs \cup {x} /\ current' = [current EXCEPT ![a] = n]
    <3>1. Revises(p, w) /\ w.op = "put"
      BY <1>1, <1>2, <1>5, <1>7 DEF Effect, Changes
    <3>2. w.about \in Entities /\ w.val \in Nat
      BY <1>3, <3>1, BoundsAssumption DEF W, Vals
    <3>3. revs' = revs \cup {x} /\ current' = [current EXCEPT ![a] = n]
      BY <2>1, <3>1 DEF Revises
    <3> QED
      BY <2>1, <3>2, <3>3
  <2>3. Alone
    BY <1>5, OneOrRelational, <1>3
  <2>4. x.prev = current[a] /\ n \in Nat /\ current[a] < n /\ current[a] \in Nat
    <3>1. mem[p][a] = Absent => current[a] = 0
      BY <1>3, <1>5, <2>2, <2>3 DEF MemoryOK, RevsOK
    <3>2. n \in Nat
      <4>1. IsFiniteSet({r \in revs : r.prev # 0})
        BY <1>4, FS_Subset
      <4> QED
        BY <1>4, <2>1, <4>1, FS_CardinalityType DEF NextSeq
    <3>3. current[a] < n
      BY <1>3, <1>5, <2>1, <2>2 DEF RevsOK
    <3> QED
      BY <1>4, <2>2, <3>1, <3>2, <3>3 DEF Superseded
  <2>5. \A r \in revs : r.seq \in Nat /\ r.prev \in Nat /\ r.seq < n /\ r.prev < n /\ r.seq # 0
    BY <1>3, <1>4, <1>5, <2>1 DEF RevsOK
  <2>6. x \notin revs
    BY <2>2, <2>4, <2>5
  <2>7. NextSeq' \in Nat /\ NextSeq' > n
    <3>1. PICK A, B : A = {r \in revs : r.prev # 0} /\ B = {r \in revs' : r.prev # 0}
      OBVIOUS
    <3>2. /\ IsFiniteSet(A) /\ Cardinality(A) \in Nat /\ Cardinality(revs) \in Nat
          /\ n = 1 + Cardinality(revs) + Cardinality(A)
      BY <1>4, <2>1, <3>1, FS_Subset, FS_CardinalityType DEF NextSeq
    <3>3. Cardinality(revs') = Cardinality(revs) + 1 /\ IsFiniteSet(revs')
      BY <1>4, <2>2, <2>6, FS_AddElement
    <3>4. IsFiniteSet(B) /\ A \subseteq B
      <4>1. B \subseteq revs' /\ A \subseteq B
        BY <2>2, <3>1
      <4> QED
        BY <3>3, <4>1, FS_Subset
    <3>5. Cardinality(B) \in Nat /\ Cardinality(A) <= Cardinality(B)
      BY <3>4, FS_Subset, FS_CardinalityType
    <3>6. NextSeq' = 1 + Cardinality(revs') + Cardinality(B)
      BY <3>1 DEF NextSeq
    <3> QED
      BY <3>2, <3>3, <3>5, <3>6
  <2>8. \A r \in revs' : r.seq < NextSeq' /\ r.prev < NextSeq'
    BY <2>2, <2>4, <2>5, <2>7
  <2>9. \A r, s \in revs' : r.seq = s.seq => r = s
    <3>1. \A r, s \in revs : r.seq = s.seq => r = s
      BY <1>3, <1>5 DEF RevsOK
    <3> QED
      BY <2>2, <2>4, <2>5, <3>1
  <2>10. ASSUME NEW e \in Entities
         PROVE  /\ current'[e] < NextSeq'
                /\ current'[e] = 0 => disk'[e] = Absent /\ \A r \in revs' : r.of # e
                /\ current'[e] # 0 => disk'[e] # Absent
                /\ \A r \in revs' : r.of = e =>
                      /\ r.prev # current'[e]
                      /\ r.seq = current'[e] \/ \E s \in revs' : s.of = e /\ s.prev = r.seq
                /\ \A r, s \in revs' : r.of = e /\ s.of = e /\ r.prev = s.prev => r = s
    <3>1. /\ current[e] < n /\ current[e] \in Nat
          /\ current[e] = 0 => disk[e] = Absent /\ \A r \in revs : r.of # e
          /\ current[e] # 0 => disk[e] # Absent
          /\ \A r \in revs : r.of = e =>
                /\ r.prev # current[e]
                /\ r.seq = current[e] \/ \E s \in revs : s.of = e /\ s.prev = r.seq
          /\ \A r, s \in revs : r.of = e /\ s.of = e /\ r.prev = s.prev => r = s
      BY <1>3, <1>4, <1>5, <2>1 DEF RevsOK
    <3>2. CASE e # a
      <4>1. current'[e] = current[e] /\ disk'[e] = disk[e] /\ x.of # e
        BY <1>3, <1>4, <2>1, <2>2, <3>2
      <4>2. current'[e] < NextSeq'
        BY <2>4, <2>7, <3>1, <4>1
      <4> QED
        BY <2>2, <3>1, <4>1, <4>2
    <3>3. CASE e = a
      <4>1. current'[e] = n /\ disk'[e] # Absent /\ n # 0 /\ x.of = e /\ x.prev = current[e] /\ x.seq = n
        BY <1>3, <1>4, <1>7, <2>1, <2>2, <2>4, <3>3 DEF Absent
      <4>2. ASSUME NEW r \in revs', r.of = e
            PROVE  /\ r.prev # n
                   /\ r.seq = n \/ \E s \in revs' : s.of = e /\ s.prev = r.seq
        <5>1. CASE r = x
          BY <3>1, <4>1, <5>1
        <5>2. CASE r \in revs
          <6>1. r.prev # n
            BY <2>4, <2>5, <5>2
          <6>2. CASE r.seq = current[e]
            BY <2>2, <4>1, <6>1, <6>2
          <6>3. CASE \E s \in revs : s.of = e /\ s.prev = r.seq
            BY <2>2, <6>1, <6>3
          <6> QED
            BY <3>1, <4>2, <5>2, <6>2, <6>3
        <5> QED
          BY <2>2, <5>1, <5>2
      <4>3. \A r, s \in revs' : r.of = e /\ s.of = e /\ r.prev = s.prev => r = s
        BY <2>2, <3>1, <4>1
      <4> QED
        BY <2>7, <4>1, <4>2, <4>3
    <3> QED
      BY <3>2, <3>3
  <2> QED
    BY <2>8, <2>9, <2>10 DEF RevsOK
<1> QED
  BY <1>6, <1>7

\* One write keeps the invariant.
LEMMA WriteKept ==
    ASSUME OneWriter, GraphInv, NEW p \in ProcsOf[backend], Write(p)
    PROVE  GraphInv'
<1>1. PICK w : w = todo[p][1]
  OBVIOUS
<1>2. Effect(p, w)
  BY <1>1, WriteEffects
<1>3. /\ TypeInv' /\ UNCHANGED <<backend, slipped, partly, done>> /\ p \in Procs
      /\ up[p] \in {"seeding", "serving"} /\ up'[p] \in {"seeding", "serving"}
      /\ \A q \in ProcsOf[backend] \ {p} :
            todo'[q] = todo[q] /\ up'[q] = up[q] /\ mem'[q] = mem[q] /\ lost'[q] = lost[q]
  BY <1>2 DEF Effect
<1>4. Leaves(p)
  <2>1. done.usage \in Int /\ done.access \in Int
    BY BoundsAssumption DEF GraphInv, TypeInv
  <2> QED
    BY <1>3, <2>1, Lands DEF Leaves
<1>5. DiskChain' /\ EventsOK' /\ SeedsOK' /\ RevsOK' /\ OldOK'
  BY WriteChain, WriteEvents, WriteSeeds, WriteRevs, WriteOlds
<1>6. ProcOK(p)'
  BY <1>3, WriteMemory, WriteUp, WriteWrites, WriteOrder DEF ProcOK
<1>7. \A q \in ProcsOf[backend] \ {p} : ProcOK(q)'
  BY <1>3, <1>4, <1>5, OthersKept
<1> QED
  BY <1>3, <1>5, <1>6, <1>7 DEF GraphInv

-------------------------------------------------------------------------------
(* The specification.                                                          *)

\* The store is empty and nobody is up.
LEMMA GraphInit == Init => GraphInv
<1> SUFFICES ASSUME Init
             PROVE  GraphInv
  OBVIOUS
<1>1. /\ backend \in Backends /\ disk = [e \in Entities |-> Absent] /\ events = {} /\ lane = 0
      /\ eventSeq = 0 /\ revs = {} /\ current = [e \in Entities |-> 0] /\ sealed = {}
      /\ torn = FALSE /\ up = [p \in Procs |-> "down"] /\ gkey \in [Procs -> GraphKeys]
      /\ mem = [p \in Procs |-> [e \in Entities |-> Absent]] /\ memEvents = [p \in Procs |-> 0]
      /\ todo = [p \in Procs |-> <<>>] /\ lost = [p \in Procs |-> {}]
      /\ slipped = FALSE /\ partly = FALSE
      /\ done = [usage |-> 0, access |-> 0, revise |-> 0, crash |-> 0, fail |-> 0]
  BY DEF Init
<1>2. /\ MaxUsage \in Nat /\ MaxAccess \in Nat /\ MaxRevises \in Nat /\ SeedSize \in Nat
      /\ ProcsOf[backend] \subseteq Procs /\ HeadNode \in Entities
  BY <1>1, BoundsAssumption, BackendsAssumption, EntityFacts DEF Procs, Range
<1>3. /\ TypeInv
  <2>1. IsFiniteSet({}) /\ Cardinality({}) = 0
    BY FS_EmptySet
  <2>2. Absent \in Payload /\ <<>> \in Seq(W)
    BY <1>2 DEF Payload, Absent
  <2>3. disk \in [Entities -> Payload] /\ mem \in [Procs -> [Entities -> Payload]]
    BY <1>1, <2>2
  <2>4. done \in [usage : 0..MaxUsage, access : 0..MaxAccess, revise : 0..MaxRevises,
                  crash : Nat, fail : Nat]
    BY <1>1, <1>2
  <2>5. /\ up \in [Procs -> {"down", "seeding", "serving"}] /\ memEvents \in [Procs -> Nat]
        /\ todo \in [Procs -> Seq(W)] /\ lost \in [Procs -> SUBSET Entities]
        /\ current \in [Entities -> Nat]
    BY <1>1, <2>2
  <2>6. lane \in 0..MaxUsage /\ eventSeq \in Nat
    BY <1>1, <1>2
  <2>7. torn \in BOOLEAN /\ slipped \in BOOLEAN /\ partly \in BOOLEAN /\ sealed \subseteq GraphKeys
    BY <1>1
  <2>8. /\ events \subseteq [kind : {"init", "access"}, num : Nat \ {0}, about : Entities]
        /\ revs \subseteq [seq : Nat \ {0}, of : Entities, prev : Nat]
        /\ IsFiniteSet(events) /\ IsFiniteSet(revs)
    BY <1>1, <2>1
  <2> QED
    BY <1>1, <2>3, <2>4, <2>5, <2>6, <2>7, <2>8 DEF TypeInv
<1>4. \A e \in Entities : ~On(e)
  BY <1>1 DEF On
<1>5. OldOK
  <2>1. done.usage = 0
    BY <1>1
  <2>2. \A e \in Entities : Old(e, Absent)
    BY <2>1 DEF Old, Absent
  <2>3. \A e \in Entities : disk[e] = Absent /\ \A q \in ProcsOf[backend] : mem[q][e] = Absent
    BY <1>1, <1>2
  <2> QED
    BY <2>2, <2>3 DEF OldOK
<1>6. ChainHead = 0
  BY <1>1, <1>2 DEF ChainHead
<1>7. DiskChain
  BY <1>1, <1>2, <1>6 DEF DiskChain
<1>8. EventsOK /\ RevsOK
  <2>1. NextSeq = 1
    <3>1. {r \in revs : r.prev # 0} = {} /\ Cardinality({}) = 0
      BY <1>1, FS_EmptySet
    <3> QED
      BY <1>1, <3>1 DEF NextSeq
  <2> QED
    BY <1>1, <2>1 DEF EventsOK, RevsOK
<1>9. SeedsOK
  BY <1>4, EntityFacts DEF SeedsOK, Seeded
<1>10. ASSUME NEW p \in ProcsOf[backend]
       PROVE  ProcOK(p)
  <2>1. up[p] = "down" /\ todo[p] = <<>> /\ DOMAIN todo[p] = {}
    BY <1>1, <1>2
  <2> QED
    BY <2>1 DEF ProcOK, OrderOK
<1> QED
  BY <1>3, <1>5, <1>7, <1>8, <1>9, <1>10 DEF GraphInv

\* Every step keeps the invariant, ...
LEMMA GraphNext == ASSUME OneWriter, GraphInv, [Next]_vars PROVE GraphInv'
<1>1. CASE UNCHANGED vars
  <2>1. UNCHANGED <<backend, disk, events, lane, eventSeq, revs, current, sealed, torn, up, gkey,
                    mem, memEvents, todo, lost, slipped, partly, done>>
    BY <1>1 DEF vars, store
  <2>2. TypeInv' /\ OldOK' /\ DiskChain' /\ EventsOK' /\ SeedsOK' /\ RevsOK'
    <3>1. TypeInv'
      BY <2>1 DEF GraphInv, TypeInv
    <3>2. OldOK'
      BY <2>1 DEF GraphInv, OldOK, Old
    <3>3. DiskChain' /\ EventsOK' /\ SeedsOK'
      BY <2>1 DEF GraphInv, DiskChain, ChainHead, EventsOK, SeedsOK, Seeded, On
    <3>4. RevsOK'
      BY <2>1 DEF GraphInv, RevsOK, NextSeq
    <3> QED
      BY <3>1, <3>2, <3>3, <3>4
  <2>3. \A p \in ProcsOf[backend] : ProcOK(p)'
    BY <2>1 DEF GraphInv, ProcOK, WriteOK, Old, On, Moves, Puts, OrderOK, Comes, ChainComes,
                ChainHead, MemoryOK, Alone, HeadSeq, UpOK, Seeded
  <2> QED
    BY <2>1, <2>2, <2>3 DEF GraphInv
<1>2. CASE Next
  BY <1>2, StartKept, WriteKept, PutFailsKept, EventFailsKept, LedgerBegun, ConversationKept,
     CrashKept, ReviseKept DEF Next
<1> QED
  BY <1>1, <1>2

\* ... so it holds through every crash, restart and failed write, if the JSONL log
\* and the kogwistar store belong to one process.
THEOREM GraphInvariant == ASSUME OneWriter PROVE Spec => []GraphInv
<1>1. Init => GraphInv
  BY GraphInit
<1>2. GraphInv /\ [Next]_vars => GraphInv'
  BY GraphNext
<1> QED
  BY <1>1, <1>2, PTL DEF Spec

-------------------------------------------------------------------------------
(* What follows from the invariant.                                            *)

\* Every variable keeps its type: the ledger head never runs past the last event,
\* and events and revisions are numbered from one.
THEOREM TypeCorrect == ASSUME OneWriter PROVE Spec => []TypeOK
<1>1. GraphInv => TypeOK
  BY DEF GraphInv, TypeInv, TypeOK
<1> QED
  BY <1>1, GraphInvariant, PTL

\* The ledger has no gap up to its head and every event is about a node that is
\* there, wherever the operation that writes them is interrupted
\* (append_usage_ledger_event, append_access_conversation_event).
THEOREM DanglesCorrect == ASSUME OneWriter PROVE Spec => []NothingDangles
<1>1. GraphInv => NothingDangles
  <2> SUFFICES ASSUME GraphInv
               PROVE  NothingDangles
    OBVIOUS
  <2>1. ChainSound
    BY DEF GraphInv, DiskChain, ChainSound, On
  <2>2. EventsAnchored
    BY DEF GraphInv, EventsOK, EventsAnchored, On
  <2> QED
    BY <2>1, <2>2 DEF NothingDangles
<1> QED
  BY <1>1, GraphInvariant, PTL

\* The store of a serving process holds the whole policy graph, unless a seeding
\* was interrupted after its first policy entity or is going on (from_policy).
THEOREM SeededCorrect == ASSUME OneWriter PROVE Spec => []SeededWhole
<1>1. GraphInv => SeededWhole
  <2> SUFFICES ASSUME GraphInv, NEW p \in ProcsOf[backend], up[p] = "serving", ~partly,
                      \A q \in ProcsOf[backend] : up[q] # "seeding"
               PROVE  \A s \in Seeds : disk[s] # Absent
    BY DEF SeededWhole
  <2>1. Seeded
    BY DEF GraphInv, ProcOK, UpOK
  <2> QED
    BY <2>1 DEF GraphInv, SeedsOK, On
<1> QED
  BY <1>1, GraphInvariant, PTL

\* What a process alone with its store has in memory, and answers from, is on disk,
\* but for entities whose last write raised.
THEOREM DurableCorrect == ASSUME OneWriter PROVE Spec => []AcknowledgedIsDurable
<1>1. GraphInv => AcknowledgedIsDurable
  BY DEF GraphInv, ProcOK, MemoryOK, AcknowledgedIsDurable
<1> QED
  BY <1>1, GraphInvariant, PTL

\* The revisions the kogwistar store keeps of an entity form one line that ends in
\* the current one: none has two successors, none but the last has none.
THEOREM RevisionsCorrect == ASSUME OneWriter PROVE Spec => []RevisionsLinear
<1>1. GraphInv => RevisionsLinear
  <2> SUFFICES ASSUME GraphInv, backend = "kogwistar"
               PROVE  /\ Cardinality({r.seq : r \in revs}) = Cardinality(revs)
                      /\ \A e \in Entities :
                            LET mine == {r \in revs : r.of = e} IN
                            /\ \A r, s \in mine : r # s => r.prev # s.prev
                            /\ \A r \in mine : r.seq = current[e] \/ \E s \in mine : s.prev = r.seq
    BY DEF RevisionsLinear
  <2>1. IsFiniteSet(revs) /\ RevsOK
    BY DEF GraphInv, TypeInv
  <2>2. Cardinality({r.seq : r \in revs}) = Cardinality(revs)
    <3>1. PICK T, f : T = {r.seq : r \in revs} /\ f = [r \in revs |-> r.seq]
      OBVIOUS
    <3>2. f \in Bijection(revs, T)
      <4>1. f \in [revs -> T] /\ \A r, s \in revs : f[r] = f[s] => r = s
        BY <2>1, <3>1 DEF RevsOK
      <4>2. \A y \in T : \E r \in revs : f[r] = y
        BY <3>1
      <4> QED
        BY <4>1, <4>2, Fun_IsBij
    <3>3. ExistsBijection(revs, T)
      BY <3>2 DEF ExistsBijection
    <3> QED
      BY <2>1, <3>1, <3>3, FS_Bijection
  <2>3. ASSUME NEW e \in Entities
        PROVE  LET mine == {r \in revs : r.of = e} IN
               /\ \A r, s \in mine : r # s => r.prev # s.prev
               /\ \A r \in mine : r.seq = current[e] \/ \E s \in mine : s.prev = r.seq
    BY <2>1 DEF RevsOK
  <2> QED
    BY <2>2, <2>3
<1> QED
  BY <1>1, GraphInvariant, PTL

\* What is recorded is append-only: the head never moves back, no ledger event up
\* to it is overwritten, though an interrupted append leaves its number to the next,
\* and no event is replaced by a later one.
THEOREM HistoryCorrect == ASSUME OneWriter PROVE Spec => HistoryKept
<1>1. ASSUME GraphInv, [Next]_vars
      PROVE  /\ [ChainHead' >= ChainHead
                 /\ \A n \in 1..ChainHead : disk'[Usage(n)] = disk[Usage(n)]]_vars
             /\ [events \subseteq events']_vars
  <2>1. CASE \E p \in ProcsOf[backend] : Write(p)
    <3>1. PICK p \in ProcsOf[backend] : Write(p)
      BY <2>1
    <3>2. PICK w : w = todo[p][1]
      OBVIOUS
    <3>3. Effect(p, w)
      BY <1>1, <3>1, <3>2, WriteEffects
    <3>4. ChainHead' >= ChainHead /\ ChainHead \in 0..MaxUsage
      BY <1>1, <3>1, <3>2, HeadMoves
    <3>5. ASSUME NEW n \in 1..ChainHead
          PROVE  disk'[Usage(n)] = disk[Usage(n)]
      <4>1. n \in 1..MaxUsage /\ ~(n > ChainHead)
        BY <3>4, BoundsAssumption
      <4>2. Usage(n) \in Entities
        BY <4>1, EntityFacts
      <4>3. OrderOK(p) /\ 1 \in DOMAIN todo[p]
        BY <3>3 DEF Effect, ProcOK
      <4>4. ~Puts(w, Usage(n))
        BY <3>2, <4>1, <4>3 DEF OrderOK
      <4>5. ~(Changes(p) /\ Usage(n) = w.about)
        BY <3>2, <4>4 DEF Changes, Puts
      <4>6. disk'[Usage(n)] = (IF Changes(p) /\ Usage(n) = w.about THEN w.val ELSE disk[Usage(n)])
        BY <3>3, <4>2 DEF Effect
      <4> QED
        BY <4>5, <4>6
    <3>6. events \subseteq events'
      BY <1>1, <3>1, WriteEvents
    <3> QED
      BY <3>4, <3>5, <3>6
  <2>2. CASE ~\E p \in ProcsOf[backend] : Write(p)
    <3>1. UNCHANGED <<backend, store>>
      BY <1>1, <2>2 DEF Next, Start, Loaded, PutFails, EventFails, Ledger, Conversation, Crash,
                        Revise, vars
    <3>2. ChainHead' = ChainHead /\ ChainHead \in Int
      BY <1>1, <3>1, BoundsAssumption DEF ChainHead, store, GraphInv, DiskChain
    <3> QED
      BY <3>1, <3>2 DEF store
  <2> QED
    BY <2>1, <2>2
<1> QED
  BY <1>1, GraphInvariant, PTL DEF Spec, HistoryKept, LedgerKept, EventsKept

===============================================================================
