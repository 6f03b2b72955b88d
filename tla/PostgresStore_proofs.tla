------------------------ MODULE PostgresStore_proofs ------------------------
(***************************************************************************)
(* Theorems about PostgresStore for every set of connections, processes and *)
(* keys, whichever of them are there to begin with, and every number of    *)
(* transactions.                                                           *)
(*                                                                         *)
(*   TypeCorrect      Spec => []TypeOK                                     *)
(*   CirclesCorrect   Spec => []CircleNeedsAbsentRow                       *)
(*   SwapCorrect      Spec => SwapReplacesWhatItRead                       *)
(*   LaneCorrect      Spec => LaneIsAppendOnly                             *)
(*                                                                         *)
(* The keys are a finite set of numbers; nothing is assumed of the others. *)
(***************************************************************************)
EXTENDS PostgresStore, FiniteSetTheorems, WellFoundedInduction, TLAPS

-----------------------------------------------------------------------------
(* The invariant.                                                          *)

Steps == {"idle", "ready", "scan", "write", "commit", "lock", "head", "store"}
Seen == UNION {[S -> Row] : S \in SUBSET Keys}
Tx == [op : Ops, id : 0..MaxTx, at : Steps, seen : Seen,
       todo : SUBSET Keys, absent : SUBSET Keys, head : 0..MaxTx]
Lane == [head : 0..MaxTx, node : [1..MaxTx -> 0..MaxTx], link : SUBSET (1..MaxTx)]

TypeInv ==
    /\ table \in [Keys -> Row]
    /\ lane \in Lane
    /\ tx \in [Conns -> Tx]
    /\ row \in [Locks -> Conns \union {None}]
    /\ begun \in 0..MaxTx
    /\ firsts \subseteq {ProcOf[c] : c \in Conns} /\ IsFiniteSet(firsts)
    /\ doubled \subseteq Keys

\* The rows a transaction has behind it: compared, if it compares any.
Behind(t) == DOMAIN t.seen \ (IF t.at \in {"ready", "scan"} THEN t.todo ELSE {})

\* What a transaction is at each of its steps.
Shape(t) ==
    /\ t.at = "idle" <=> t.op = "none"
    /\ t.op = "none" => t = Idle
    /\ t.op # "none" => t.id \in 1..begun
    /\ t.op = "append" => /\ t.at \in {"lock", "head", "store", "commit"}
                          /\ DOMAIN t.seen = {} /\ t.absent = {}
    /\ t.op \in {"replace", "clear"} =>
          /\ t.at \in {"write", "commit"} /\ t.absent = {}
          /\ \E k \in Cleared : DOMAIN t.seen = {k}
          /\ t.at = "write" => t.todo = DOMAIN t.seen
    /\ t.op = "cas" => /\ t.at \in {"ready", "scan", "write", "commit"}
                       /\ t.absent \subseteq Behind(t)
    /\ t.at \in {"ready", "scan", "write"} => t.todo # {} /\ t.todo \subseteq DOMAIN t.seen
    /\ t.at = "ready" => t.todo = DOMAIN t.seen
    /\ t.at = "scan" => \A i \in Behind(t), j \in t.todo : i < j

\* The rows c holds are rows it has behind it, ...
Holds(c) ==
    LET t == tx[c] IN
    /\ \A k \in Keys : row[k] = c =>
          /\ k \in Behind(t) /\ t.at \in {"scan", "write", "commit"}
          /\ t.op \in {"replace", "clear"} => t.at = "commit"
    /\ row[LaneRow] = c => t.op = "append" /\ t.at \in {"store", "commit"}

\* ... every one it has compared, save the absent ones, and every one it writes,
\* save those a delete did not find.
Covers(c) ==
    LET t == tx[c] IN
    /\ t.op = "cas" => \A k \in Behind(t) :
          IF k \in t.absent THEN t.seen[k].writer = 0
          ELSE /\ row[k] = c /\ Present(k)
               /\ t.seen[k].writer # 0 /\ table[k].seq = t.seen[k].seq
    /\ t.op = "cas" /\ t.at \in {"write", "commit"} =>
          \A k \in DOMAIN t.seen \ (IF t.at = "write" THEN t.todo ELSE {}) : row[k] = c
    /\ t.op = "replace" /\ t.at = "commit" => \A k \in DOMAIN t.seen : row[k] = c

\* An absent row is blank, and numbers count transactions.
Blank(r) == r.writer = 0 => r = NoRow
RowsOK == \A k \in Keys : Blank(table[k]) /\ table[k].seq <= begun

\* A row that is only ever swapped is not older than what c has read, and of
\* the same number only if it is what c has read.
Coherent(c) ==
    \A k \in DOMAIN tx[c].seen :
        LET seen == tx[c].seen[k] IN
        /\ Blank(seen) /\ seen.seq < tx[c].id
        /\ k \notin Cleared \union doubled /\ seen.writer # 0 =>
              /\ Present(k) /\ seen.seq <= table[k].seq
              /\ seen.seq = table[k].seq => seen = table[k]

\* An append goes on from the head it has read: under its lock it is the head
\* of the lane, and a lane without one was found by c's process.
AppendOK(c) ==
    LET t == tx[c] IN
    t.op = "append" /\ t.at \in {"store", "commit"} =>
        /\ t.head # 0 => t.head = lane.head /\ row[LaneRow] = c
        /\ t.head = 0 => ProcOf[c] \in firsts
        /\ Cardinality(firsts) <= 1 => t.head = lane.head
        /\ t.at = "commit" => row[LaneRow] = c

\* Connections of one process append one at a time, and transactions have
\* numbers of their own.
Apart ==
    \A c \in Conns : \A d \in Conns \ {c} :
        /\ ProcOf[c] = ProcOf[d] /\ tx[c].op = "append" /\ tx[d].op = "append" =>
              tx[c].at = "lock" \/ tx[d].at = "lock"
        /\ tx[c].op # "none" => tx[c].id # tx[d].id

\* The lane has an event at every place up to its head, none behind it as long
\* as one process alone found it empty, and each transaction that ended well
\* has one place at most.
LaneOK ==
    /\ \A n \in 1..lane.head : lane.node[n] # 0 /\ n \in lane.link
    /\ Cardinality(firsts) <= 1 => \A n \in 1..MaxTx : n > lane.head => lane.node[n] = 0
    /\ \A n \in 1..MaxTx : lane.node[n] # 0 =>
          /\ \A m \in 1..MaxTx : lane.node[m] = lane.node[n] => m = n
          /\ \A c \in Conns : tx[c].id # lane.node[n]
          /\ lane.node[n] <= begun

Part(c) == Shape(tx[c]) /\ Holds(c) /\ Covers(c) /\ Coherent(c) /\ AppendOK(c)

StoreInv == TypeInv /\ RowsOK /\ LaneOK /\ Apart /\ \A c \in Conns : Part(c)

-----------------------------------------------------------------------------
(* Numbers and rows.                                                       *)

Less == {ss \in Nat \X Nat : ss[1] < ss[2]}

\* Every set of numbers that is not empty has a least element, ...
LEMMA LeastNumber ==
    ASSUME NEW T, T \subseteq Nat, T # {}
    PROVE  \E m \in T : \A n \in T : m <= n
<1>1. IsWellFoundedOn(Less, Nat)
  BY NatLessThanWellFounded DEF OpToRel, Less
<1>2. PICK m \in T : \A n \in T : <<n, m>> \notin Less
  BY <1>1, WFMin
<1>3. \A n \in T : ~ n < m
  BY <1>2 DEF Less
<1> QED
  BY <1>3

\* ... so the next row of a transaction is the least of those it has to do.
LEMMA NextIsLeast ==
    ASSUME NEW S \in SUBSET Keys, S # {}
    PROVE  Min(S) \in S /\ \A k \in S : Min(S) <= k
<1>1. \E m \in S : \A k \in S : m <= k
  BY LeastNumber, ConstantsAssumption
<1> QED
  BY <1>1 DEF Min

\* Two members of a set of at most one are the same.
LEMMA OnlyOne ==
    ASSUME NEW S, IsFiniteSet(S), NEW T \in SUBSET S, Cardinality(S) <= 1
    PROVE  /\ Cardinality(T) <= 1
           /\ \A x, y \in S : x = y
<1>1. Cardinality(T) <= Cardinality(S) /\ Cardinality(T) \in Nat /\ Cardinality(S) \in Nat
  BY FS_Subset, FS_CardinalityType
<1>2. ASSUME NEW x \in S, NEW y \in S, x # y
      PROVE  FALSE
  <2>1. {x} \in SUBSET S /\ {x} # S /\ Cardinality({x}) = 1
    BY <1>2, FS_Singleton
  <2>2. Cardinality({x}) <= Cardinality(S) /\ Cardinality({x}) # Cardinality(S)
    BY <2>1, FS_Subset
  <2> QED
    BY <1>1, <2>1, <2>2
<1> QED
  BY <1>1, <1>2

\* The row a transaction waits for is the one it goes on with.
LEMMA WantsNext ==
    ASSUME TypeInv, NEW c \in Conns, Shape(tx[c])
    PROVE  /\ tx[c].at = "scan" =>
                 Wants(c) = IF Present(Min(tx[c].todo)) THEN Min(tx[c].todo) ELSE None
           /\ tx[c].at = "write" =>
                 Wants(c) = IF tx[c].op = "clear" /\ ~Present(Min(tx[c].todo)) THEN None
                            ELSE Min(tx[c].todo)
           /\ tx[c].at \in {"scan", "write"} => Min(tx[c].todo) \in tx[c].todo
           /\ Wants(c) \in Locks \union {None}
           /\ None \notin Locks /\ None \notin Conns
<1>1. tx[c] \in Tx
  BY DEF TypeInv
<1>2. tx[c].at \in {"scan", "write"} => tx[c].todo \in SUBSET Keys /\ tx[c].todo # {}
  BY <1>1 DEF Shape, Tx
<1>3. tx[c].at \in {"scan", "write"} => Min(tx[c].todo) \in tx[c].todo
  BY <1>2, NextIsLeast
<1>4. None \notin Locks /\ None \notin Conns
  BY ConstantsAssumption DEF None, Locks, LaneRow
<1> QED
  BY <1>1, <1>2, <1>3, <1>4 DEF Wants, NextRow, Locks, LaneRow

-----------------------------------------------------------------------------
(* What a step of one connection leaves to the others.                     *)

Alone(c) ==
    \A d \in Conns \ {c} :
        tx'[d] = tx[d] /\ \A k \in Locks : row'[k] = d <=> row[k] = d

\* It changes rows it holds, an uncleared one only by counting it up, and the
\* head of the lane only if it holds that.
Keeps(c) ==
    /\ Alone(c)
    /\ begun' >= begun /\ firsts \subseteq firsts' /\ doubled \subseteq doubled'
    /\ \A k \in Keys :
          \/ table'[k] = table[k]
          \/ /\ row[k] = c
             /\ k \notin Cleared \union doubled' =>
                   \/ table[k].writer = 0
                   \/ table'[k].writer # 0 /\ table'[k].seq > table[k].seq
    /\ \/ lane'.head = lane.head
       \/ /\ row[LaneRow] = c /\ tx[c].op = "append" /\ tx[c].at = "commit"
          /\ firsts' = firsts

\* ... and with that the part of every other connection holds on.
LEMMA PartKept ==
    ASSUME StoreInv, TypeInv', NEW c \in Conns, Keeps(c), NEW d \in Conns \ {c}
    PROVE  Part(d)'
<1> DEFINE t == tx[d]
<1>1. /\ tx'[d] = t /\ \A k \in Locks : row'[k] = d <=> row[k] = d
      /\ \A k \in Keys : row[k] = d => table'[k] = table[k]
      /\ t \in Tx /\ begun \in Nat /\ begun' \in Nat /\ begun' >= begun
  BY DEF Keeps, Alone, StoreInv, TypeInv
<1>2. Shape(t) /\ Holds(d) /\ Covers(d) /\ Coherent(d) /\ AppendOK(d)
  BY DEF StoreInv, Part
<1>3. DOMAIN t.seen \subseteq Keys /\ Keys \subseteq Locks /\ LaneRow \in Locks
      /\ \A k \in DOMAIN t.seen : t.seen[k] \in Row
  BY <1>1 DEF Tx, Seen, Locks
<1>4. Shape(tx[d])'
  BY <1>1, <1>2 DEF Shape, Behind, Idle
<1>5. Holds(d)'
  BY <1>1, <1>2, <1>3 DEF Holds, Behind
<1>6. Covers(d)'
  BY <1>1, <1>2, <1>3 DEF Covers, Behind, Present
<1>7. Coherent(d)'
  <2> SUFFICES ASSUME NEW k \in DOMAIN t.seen, k \notin Cleared \union doubled', t.seen[k].writer # 0
               PROVE  /\ table'[k].writer # 0 /\ t.seen[k].seq <= table'[k].seq
                      /\ t.seen[k].seq = table'[k].seq => t.seen[k] = table'[k]
    BY <1>1, <1>2 DEF Coherent, Present
  <2>1. k \in Keys /\ k \notin Cleared \union doubled
    BY <1>3 DEF Keeps
  <2>2. /\ table[k].writer # 0 /\ t.seen[k].seq <= table[k].seq
        /\ t.seen[k].seq = table[k].seq => t.seen[k] = table[k]
    BY <1>2, <2>1 DEF Coherent, Present
  <2>3. \/ table'[k] = table[k]
        \/ table'[k].writer # 0 /\ table'[k].seq > table[k].seq
    BY <2>1, <2>2 DEF Keeps
  <2>4. table[k].seq \in Nat /\ table'[k].seq \in Nat /\ t.seen[k].seq \in Nat
    BY <1>3, <2>1 DEF StoreInv, TypeInv, Row
  <2> QED
    BY <2>2, <2>3, <2>4
<1>8. AppendOK(d)'
  <2> SUFFICES ASSUME t.op = "append", t.at \in {"store", "commit"}
               PROVE  /\ t.head # 0 => t.head = lane'.head /\ row'[LaneRow] = d
                      /\ t.head = 0 => ProcOf[d] \in firsts'
                      /\ Cardinality(firsts') <= 1 => t.head = lane'.head
                      /\ t.at = "commit" => row'[LaneRow] = d
    BY <1>1 DEF AppendOK
  <2>1. /\ t.head # 0 => t.head = lane.head /\ row[LaneRow] = d
        /\ t.head = 0 => ProcOf[d] \in firsts
        /\ Cardinality(firsts) <= 1 => t.head = lane.head
        /\ t.at = "commit" => row[LaneRow] = d
    BY <1>2 DEF AppendOK
  <2>2. firsts \subseteq firsts' /\ IsFiniteSet(firsts')
    BY DEF Keeps, TypeInv
  <2>3. Cardinality(firsts') <= 1 => t.head = lane.head
    BY <2>1, <2>2, OnlyOne
  <2>4. CASE lane'.head = lane.head
    BY <1>1, <1>3, <2>1, <2>2, <2>3, <2>4
  <2>5. CASE /\ row[LaneRow] = c /\ tx[c].op = "append" /\ tx[c].at = "commit"
             /\ firsts' = firsts
    <3>1. t.head = 0 /\ ProcOf[d] \in firsts /\ t.at # "commit"
      BY <2>1, <2>5
    <3>2. ASSUME Cardinality(firsts) <= 1
          PROVE  FALSE
      <4>1. AppendOK(c)
        BY DEF StoreInv, Part
      <4>2. tx[c].head = 0
        BY <2>1, <2>5, <3>1, <3>2, <4>1 DEF AppendOK
      <4>3. ProcOf[c] \in firsts
        BY <2>5, <4>1, <4>2 DEF AppendOK
      <4>4. ProcOf[c] = ProcOf[d]
        BY <2>2, <2>5, <3>1, <3>2, <4>3, OnlyOne
      <4>5. ProcOf[d] = ProcOf[c] /\ tx[d].op = "append" /\ tx[c].op = "append" =>
               tx[d].at = "lock" \/ tx[c].at = "lock"
        BY DEF StoreInv, Apart
      <4> QED
        BY <2>5, <4>4, <4>5
    <3> QED
      BY <1>1, <1>3, <2>1, <2>2, <2>5, <3>1, <3>2
  <2> QED
    BY <2>4, <2>5 DEF Keeps
<1> QED
  BY <1>4, <1>5, <1>6, <1>7, <1>8 DEF Part

\* A transaction begins, goes on or ends.
Moves(c) ==
    \/ tx'[c] = Idle
    \/ /\ tx'[c].op = tx[c].op /\ tx'[c].id = tx[c].id
       /\ tx[c].op = "append" => tx[c].at # "lock" \/ AdvisoryFree(c)
    \/ tx'[c].id = begun + 1 /\ (tx'[c].op = "append" => tx'[c].at = "lock")

\* Such a step keeps transactions apart: their numbers, and the appends of a
\* process.
LEMMA ApartKept ==
    ASSUME StoreInv, NEW c \in Conns, Alone(c), Moves(c)
    PROVE  Apart'
<1>1. ASSUME NEW d \in Conns \ {c}
      PROVE  /\ ProcOf[c] = ProcOf[d] /\ tx'[c].op = "append" /\ tx[d].op = "append" =>
                   tx'[c].at = "lock" \/ tx[d].at = "lock"
             /\ tx'[c].op # "none" => tx'[c].id # tx[d].id
             /\ tx[d].op # "none" => tx'[c].id # tx[d].id
  <2>1. /\ tx[d].op = "none" => tx[d].id = 0
        /\ tx[d].op # "none" => tx[d].id \in 1..begun
        /\ begun \in Nat
    BY DEF StoreInv, Part, Shape, Idle, TypeInv
  <2>2. /\ ProcOf[c] = ProcOf[d] /\ tx[c].op = "append" /\ tx[d].op = "append" =>
              tx[c].at = "lock" \/ tx[d].at = "lock"
        /\ tx[c].op # "none" => tx[c].id # tx[d].id
        /\ tx[d].op # "none" => tx[d].id # tx[c].id
    BY DEF StoreInv, Apart
  <2>3. CASE tx'[c] = Idle
    BY <2>1, <2>3 DEF Idle
  <2>4. CASE /\ tx'[c].op = tx[c].op /\ tx'[c].id = tx[c].id
             /\ tx[c].op = "append" => tx[c].at # "lock" \/ AdvisoryFree(c)
    BY <2>2, <2>4 DEF AdvisoryFree
  <2>5. CASE tx'[c].id = begun + 1 /\ (tx'[c].op = "append" => tx'[c].at = "lock")
    BY <2>1, <2>5
  <2> QED
    BY <2>3, <2>4, <2>5 DEF Moves
<1>2. ASSUME NEW d \in Conns \ {c}, NEW e \in Conns \ {c, d}
      PROVE  /\ ProcOf[d] = ProcOf[e] /\ tx[d].op = "append" /\ tx[e].op = "append" =>
                   tx[d].at = "lock" \/ tx[e].at = "lock"
             /\ tx[d].op # "none" => tx[d].id # tx[e].id
  BY DEF StoreInv, Apart
<1> QED
  BY <1>1, <1>2 DEF Apart, Alone

\* A step that leaves the lane as it is keeps what is true of it.
LEMMA LaneKept ==
    ASSUME StoreInv, NEW c \in Conns, Alone(c), Moves(c), lane' = lane,
           begun' \in Nat, begun' >= begun, firsts \subseteq firsts', IsFiniteSet(firsts')
    PROVE  LaneOK'
<1>1. begun \in Nat /\ lane \in Lane
  BY DEF StoreInv, TypeInv
<1>2. ASSUME NEW n \in 1..MaxTx, lane.node[n] # 0
      PROVE  tx'[c].id # lane.node[n] /\ lane.node[n] <= begun'
  <2>1. lane.node[n] <= begun /\ tx[c].id # lane.node[n] /\ lane.node[n] \in Nat
    BY <1>1, <1>2, ConstantsAssumption DEF StoreInv, LaneOK, Lane
  <2> QED
    BY <1>1, <1>2, <2>1 DEF Moves, Idle
<1>3. \A n \in 1..MaxTx, d \in Conns \ {c} : lane.node[n] # 0 => tx'[d].id # lane.node[n]
  BY DEF Alone, StoreInv, LaneOK
<1>4. LaneOK
  BY DEF StoreInv
<1>5. Cardinality(firsts') <= 1 => Cardinality(firsts) <= 1
  BY OnlyOne
<1> QED
  BY <1>2, <1>3, <1>4, <1>5 DEF LaneOK

\* A step that leaves the lane as it is keeps the invariant if it keeps c's part.
LEMMA StepKept ==
    ASSUME StoreInv, TypeInv', NEW c \in Conns, Keeps(c), Moves(c), lane' = lane,
           RowsOK', Part(c)'
    PROVE  StoreInv'
<1>1. \A d \in Conns : Part(d)'
  BY PartKept
<1>2. Apart'
  BY ApartKept DEF Keeps
<1>3. LaneOK'
  BY LaneKept DEF Keeps, TypeInv
<1> QED
  BY <1>1, <1>2, <1>3 DEF StoreInv

\* ... in particular one that changes no row.
LEMMA QuietKept ==
    ASSUME StoreInv, TypeInv', NEW c \in Conns, Alone(c), Moves(c), UNCHANGED <<table, lane, doubled>>,
           begun' >= begun, firsts \subseteq firsts', Part(c)'
    PROVE  StoreInv'
<1>1. Keeps(c)
  BY DEF Keeps
<1>2. RowsOK'
  <2>1. begun \in Nat /\ begun' \in Nat /\ \A k \in Keys : table[k].seq \in Nat
    BY ConstantsAssumption DEF StoreInv, TypeInv, Row
  <2> QED
    BY <2>1 DEF StoreInv, RowsOK
<1> QED
  BY <1>1, <1>2, StepKept

\* No transaction is a transaction without rows.
LEMMA IdleTyped ==
    Idle \in Tx /\ DOMAIN Idle.seen = {} /\ Idle.id = 0 /\ Idle.absent = {}
<1>1. [k \in {} |-> NoRow] \in [{} -> Row] /\ {} \in SUBSET Keys
  OBVIOUS
<1>2. [k \in {} |-> NoRow] \in Seen
  BY <1>1 DEF Seen
<1> QED
  BY <1>2, ConstantsAssumption DEF Idle, Tx, Ops, Steps

\* The end of a transaction, however it ends.
LEMMA EndFacts ==
    ASSUME StoreInv, NEW c \in Conns, End(c)
    PROVE  /\ Alone(c) /\ Moves(c) /\ Part(c)'
           /\ tx' \in [Conns -> Tx] /\ row' \in [Locks -> Conns \union {None}]
           /\ tx'[c] = Idle
<1>1. tx \in [Conns -> Tx] /\ row \in [Locks -> Conns \union {None}] /\ None \notin Conns
  BY ConstantsAssumption DEF StoreInv, TypeInv, None
<1>2. Idle \in Tx
  BY IdleTyped
<1>3. tx'[c] = Idle /\ \A d \in Conns \ {c} : tx'[d] = tx[d]
  BY <1>1 DEF End
<1>4. \A k \in Locks : row'[k] = IF row[k] = c THEN None ELSE row[k]
  BY DEF End, Unlocked
<1>5. Alone(c) /\ Moves(c)
  BY <1>1, <1>3, <1>4 DEF Alone, Moves
<1>6. tx' \in [Conns -> Tx] /\ row' \in [Locks -> Conns \union {None}]
  BY <1>1, <1>2 DEF End, Unlocked
<1>7. Part(c)'
  <2>1. /\ Idle.op = "none" /\ Idle.at = "idle" /\ DOMAIN Idle.seen = {} /\ Idle.absent = {}
        /\ Idle.id = 0
    BY DEF Idle
  <2>2. \A k \in Locks : row'[k] # c
    BY <1>1, <1>4
  <2>3. Shape(tx[c])'
    BY <1>3, <2>1 DEF Shape
  <2>4. Holds(c)' /\ Covers(c)' /\ Coherent(c)' /\ AppendOK(c)'
    BY <1>3, <2>1, <2>2 DEF Holds, Covers, Coherent, AppendOK, Behind, Locks
  <2> QED
    BY <2>3, <2>4 DEF Part
<1> QED
  BY <1>3, <1>5, <1>6, <1>7

\* A transaction that is rolled back keeps the invariant.
LEMMA EndKept ==
    ASSUME StoreInv, NEW c \in Conns, End(c), UNCHANGED <<table, lane, begun, firsts, doubled>>
    PROVE  StoreInv'
<1>1. TypeInv'
  BY EndFacts DEF StoreInv, TypeInv
<1>2. begun' >= begun
  BY DEF StoreInv, TypeInv
<1> QED
  BY <1>1, <1>2, EndFacts, QuietKept

-----------------------------------------------------------------------------
(* The steps.                                                              *)

\* A transaction that begins has what it begins with, and holds nothing.
LEMMA OpenFacts ==
    ASSUME StoreInv, NEW c \in Conns, NEW t \in Tx, Open(c, t), t.op = "append" => t.at = "lock"
    PROVE  /\ Alone(c) /\ Moves(c) /\ TypeInv' /\ begun' >= begun
           /\ UNCHANGED <<table, lane, firsts, doubled>>
           /\ tx'[c] = [t EXCEPT !.id = begun + 1] /\ begun' = begun + 1
           /\ tx'[c].op = t.op /\ tx'[c].at = t.at /\ tx'[c].seen = t.seen /\ tx'[c].head = t.head
           /\ tx'[c].todo = t.todo /\ tx'[c].absent = t.absent /\ tx'[c].id = begun + 1
           /\ \A k \in Locks : row'[k] # c
<1>1. /\ tx \in [Conns -> Tx] /\ begun \in 0..MaxTx /\ begun < MaxTx
      /\ tx' = [tx EXCEPT ![c] = [t EXCEPT !.id = begun + 1]]
      /\ begun' = begun + 1 /\ UNCHANGED <<table, lane, row, firsts, doubled>>
  BY DEF Open, StoreInv, TypeInv
<1>2. begun' \in 0..MaxTx /\ begun' >= begun
  BY <1>1, ConstantsAssumption
<1>3. [t EXCEPT !.id = begun + 1] \in Tx
  BY <1>1, <1>2 DEF Tx
<1>4. TypeInv'
  BY <1>1, <1>2, <1>3 DEF StoreInv, TypeInv
<1>5. /\ tx'[c] = [t EXCEPT !.id = begun + 1] /\ \A d \in Conns \ {c} : tx'[d] = tx[d]
  BY <1>1
<1>6. /\ tx'[c].op = t.op /\ tx'[c].at = t.at /\ tx'[c].seen = t.seen /\ tx'[c].head = t.head
      /\ tx'[c].todo = t.todo /\ tx'[c].absent = t.absent /\ tx'[c].id = begun + 1
  BY <1>5 DEF Tx
<1>7. \A k \in Locks : row[k] # c
  BY DEF Open, StoreInv, Part, Holds, Behind, Idle, Locks
<1> QED
  BY <1>1, <1>2, <1>4, <1>5, <1>6, <1>7 DEF Alone, Moves

\* Whatever kind of transaction begins, its part of the invariant holds.
LEMMA OpenKept ==
    ASSUME StoreInv, NEW c \in Conns,
           NEW op \in {"cas", "replace", "clear", "append"}, NEW at \in {"ready", "write", "lock"},
           NEW S \in SUBSET Keys,
           NEW t \in Tx, t.op = op, t.at = at, DOMAIN t.seen = S, t.absent = {}, Open(c, t),
           op = "append" => at = "lock" /\ S = {},
           op # "append" => S # {} /\ t.todo = S,
           op = "cas" <=> at = "ready",
           op \in {"replace", "clear"} <=> at = "write",
           op \in {"replace", "clear"} => \E k \in Cleared : S = {k},
           \A k \in S : t.seen[k] = IF op = "cas" THEN table[k] ELSE NoRow
    PROVE  StoreInv'
<1>1. /\ Alone(c) /\ Moves(c) /\ TypeInv' /\ begun' >= begun
      /\ UNCHANGED <<table, lane, firsts, doubled>> /\ begun' = begun + 1
      /\ tx'[c].op = op /\ tx'[c].at = at /\ tx'[c].seen = t.seen /\ tx'[c].todo = t.todo
      /\ tx'[c].absent = {} /\ tx'[c].id = begun + 1
      /\ \A k \in Locks : row'[k] # c
  BY OpenFacts
<1>2. /\ begun \in Nat /\ table \in [Keys -> Row]
      /\ Keys \subseteq Nat /\ Cleared \subseteq Keys
  BY ConstantsAssumption DEF StoreInv, TypeInv
<1>3. Shape(tx[c])'
  <2>1. tx'[c].id \in 1..begun'
    BY <1>1, <1>2
  <2>2. Behind(tx'[c]) = IF op = "cas" THEN {} ELSE S
    BY <1>1 DEF Behind
  <2>3. CASE op = "cas"
    BY <1>1, <2>1, <2>2, <2>3 DEF Shape, Behind
  <2>4. CASE op \in {"replace", "clear"}
    BY <1>1, <2>1, <2>2, <2>4 DEF Shape
  <2>5. CASE op = "append"
    BY <1>1, <2>1, <2>2, <2>5 DEF Shape
  <2> QED
    BY <2>3, <2>4, <2>5
<1>4. Holds(c)'
  BY <1>1 DEF Holds, Locks
<1>5. Covers(c)' /\ AppendOK(c)'
  BY <1>1 DEF Covers, AppendOK, Behind
<1>6. Coherent(c)'
  <2>1. ASSUME NEW k \in S
        PROVE  /\ Blank(t.seen[k]) /\ t.seen[k].seq < begun + 1
               /\ k \notin Cleared \union doubled /\ t.seen[k].writer # 0 =>
                     /\ Present(k) /\ t.seen[k].seq <= table[k].seq
                     /\ t.seen[k] = table[k]
    <3>1. Blank(table[k]) /\ table[k].seq <= begun /\ table[k].seq \in Nat
      <4>1. k \in Keys /\ table[k] \in Row
        BY <1>2
      <4>2. table[k].seq \in Nat
        BY <4>1, ConstantsAssumption DEF Row
      <4> QED
        BY <4>1, <4>2 DEF StoreInv, RowsOK
    <3>2. Blank(NoRow) /\ NoRow.seq = 0 /\ NoRow.writer = 0
      BY DEF Blank, NoRow
    <3>3. t.seen[k] = IF op = "cas" THEN table[k] ELSE NoRow
      OBVIOUS
    <3> QED
      BY <1>2, <3>1, <3>2, <3>3 DEF Present
  <2> QED
    BY <1>1, <2>1 DEF Coherent, Present, Blank
<1> QED
  BY <1>1, <1>3, <1>4, <1>5, <1>6, QuietKept DEF Part

\* Every transaction begins so.
LEMMA BeginKept ==
    ASSUME StoreInv, NEW c \in Conns, Begin(c)
    PROVE  StoreInv'
<1>1. /\ table \in [Keys -> Row] /\ NoRow \in Row /\ Cleared \subseteq Keys
      /\ {"cas", "replace", "clear", "append"} \subseteq Ops
      /\ {"ready", "write", "lock"} \subseteq Steps
  BY ConstantsAssumption DEF StoreInv, TypeInv, NoRow, Row, Ops, Steps
<1>2. ASSUME NEW S \in SUBSET Keys, BeginCas(c, S)
      PROVE  StoreInv'
  <2>1. PICK seen : seen = [k \in S |-> table[k]]
    OBVIOUS
  <2>2. PICK t : t = [Idle EXCEPT !.op = "cas", !.at = "ready", !.todo = S, !.seen = seen]
    OBVIOUS
  <2>3. S # {} /\ Open(c, t)
    BY <1>2, <2>1, <2>2 DEF BeginCas
  <2>4. seen \in Seen /\ DOMAIN seen = S /\ \A k \in S : seen[k] = table[k]
    BY <1>1, <2>1 DEF Seen
  <2>5. /\ t \in Tx
        /\ t.op = "cas" /\ t.at = "ready" /\ t.seen = seen /\ t.todo = S /\ t.absent = {}
    BY <1>1, <2>2, <2>4, IdleTyped DEF Tx
  <2> QED
    BY <2>3, <2>4, <2>5, OpenKept
<1>3. ASSUME NEW k \in Cleared, NEW op \in {"replace", "clear"},
             Open(c, [Idle EXCEPT !.op = op, !.at = "write", !.todo = {k},
                                  !.seen = [i \in {k} |-> NoRow]])
      PROVE  StoreInv'
  <2>1. PICK seen : seen = [i \in {k} |-> NoRow]
    OBVIOUS
  <2>2. PICK t : t = [Idle EXCEPT !.op = op, !.at = "write", !.todo = {k}, !.seen = seen]
    OBVIOUS
  <2>3. Open(c, t)
    BY <1>3, <2>1, <2>2
  <2>4. /\ {k} \in SUBSET Keys /\ {k} \subseteq Cleared /\ {k} # {}
        /\ DOMAIN seen = {k} /\ \A i \in {k} : seen[i] = NoRow
    BY <1>1, <2>1
  <2>5. seen \in Seen
    BY <1>1, <2>1, <2>4 DEF Seen
  <2>6. /\ t \in Tx
        /\ t.op = op /\ t.at = "write" /\ t.seen = seen /\ t.todo = {k} /\ t.absent = {}
    BY <1>1, <2>2, <2>4, <2>5, IdleTyped DEF Tx
  <2> QED
    BY <2>3, <2>4, <2>6, OpenKept
<1>4. ASSUME BeginAppend(c)
      PROVE  StoreInv'
  <2>1. PICK t : t = [Idle EXCEPT !.op = "append", !.at = "lock"]
    OBVIOUS
  <2>2. Open(c, t)
    BY <1>4, <2>1 DEF BeginAppend
  <2>3. /\ t \in Tx /\ t.op = "append" /\ t.at = "lock" /\ DOMAIN t.seen = {} /\ t.absent = {}
    BY <1>1, <2>1, IdleTyped DEF Tx
  <2> QED
    BY <2>2, <2>3, OpenKept
<1> QED
  BY <1>2, <1>3, <1>4 DEF Begin, BeginReplace, BeginClear

\* A swap turns from its caller's reads to its own.
LEMMA EnterKept ==
    ASSUME StoreInv, NEW c \in Conns, EnterCas(c)
    PROVE  StoreInv'
<1> DEFINE t == tx[c]
<1>1. /\ tx \in [Conns -> Tx] /\ t \in Tx /\ t.at = "ready"
      /\ UNCHANGED <<table, lane, row, begun, firsts, doubled>>
      /\ tx' = [tx EXCEPT ![c] = [t EXCEPT !.at = "scan"]]
  BY DEF EnterCas, StoreInv, TypeInv
<1>2. [t EXCEPT !.at = "scan"] \in Tx
  BY <1>1 DEF Tx, Steps
<1>3. /\ tx'[c].op = t.op /\ tx'[c].id = t.id /\ tx'[c].at = "scan" /\ tx'[c].seen = t.seen
      /\ tx'[c].todo = t.todo /\ tx'[c].absent = t.absent /\ tx'[c].head = t.head
      /\ \A d \in Conns \ {c} : tx'[d] = tx[d]
  BY <1>1 DEF Tx
<1>4. Part(c)
  BY DEF StoreInv
<1>5. TypeInv' /\ begun' >= begun
  BY <1>1, <1>2 DEF StoreInv, TypeInv
<1>6. Shape(tx[c])'
  BY <1>1, <1>3, <1>4 DEF Part, Shape, Behind
<1>7. Holds(c)' /\ Covers(c)' /\ Coherent(c)' /\ AppendOK(c)'
  BY <1>1, <1>3, <1>4 DEF Part, Holds, Covers, Coherent, AppendOK, Behind, Present, Blank
<1> QED
  BY <1>1, <1>3, <1>5, <1>6, <1>7, QuietKept DEF Part, Alone, Moves

\* A statement that need not wait has the lock it wants, and takes none from
\* another.
LEMMA LockFacts ==
    ASSUME StoreInv, NEW c \in Conns, Granted(c), tx[c].at # "lock", row' = Locked(c)
    PROVE  /\ row' \in [Locks -> Conns \union {None}]
           /\ \A k \in Locks : row'[k] = IF k = Wants(c) THEN c ELSE row[k]
           /\ \A d \in Conns \ {c} : \A k \in Locks : row'[k] = d <=> row[k] = d
           /\ Wants(c) # None => row[Wants(c)] \in {c, None}
<1>1. /\ row \in [Locks -> Conns \union {None}] /\ Wants(c) \in Locks \union {None}
      /\ None \notin Locks /\ None \notin Conns
  BY WantsNext DEF StoreInv, TypeInv, Part
<1>2. Wants(c) # None => row[Wants(c)] \in {c, None}
  BY <1>1 DEF Granted, Blocker
<1>3. /\ row' \in [Locks -> Conns \union {None}]
      /\ \A k \in Locks : row'[k] = IF k = Wants(c) THEN c ELSE row[k]
  BY <1>1 DEF Locked
<1> QED
  BY <1>1, <1>2, <1>3

\* A swap locks and compares its next row, or gives up.
LEMMA ScanKept ==
    ASSUME StoreInv, NEW c \in Conns, Scan(c)
    PROVE  StoreInv'
<1> DEFINE t == tx[c]
           k == Min(t.todo)
<1>1. /\ tx \in [Conns -> Tx] /\ t \in Tx /\ t.at = "scan" /\ Granted(c)
      /\ UNCHANGED <<table, lane, begun, firsts, doubled>>
  BY DEF Scan, StoreInv, TypeInv
<1>2. /\ Shape(t) /\ Holds(c) /\ Covers(c) /\ Coherent(c)
      /\ t.op = "cas" /\ k \in t.todo /\ t.todo \subseteq DOMAIN t.seen
      /\ DOMAIN t.seen \subseteq Keys /\ Keys \subseteq Nat
      /\ \A j \in t.todo : k <= j
      /\ t.todo \in SUBSET Keys /\ t.seen \in Seen /\ t.absent \in SUBSET Keys
  <2>1. Part(c)
    BY DEF StoreInv
  <2>2. t.op = "cas" /\ t.todo # {} /\ t.todo \subseteq DOMAIN t.seen
    BY <1>1, <2>1 DEF Part, Shape, Tx, Ops
  <2>3. t.todo \in SUBSET Keys /\ t.seen \in Seen /\ t.absent \in SUBSET Keys
    BY <1>1 DEF Tx
  <2>4. k \in t.todo /\ \A j \in t.todo : k <= j
    BY <2>2, <2>3, NextIsLeast
  <2> QED
    BY <2>1, <2>2, <2>3, <2>4, ConstantsAssumption DEF Part, Seen
<1>3. CASE ~Matches(t.seen[k], k)
  BY <1>1, <1>3, EndKept DEF Scan, NextRow
<1>4. CASE Matches(t.seen[k], k)
  <2> HIDE DEF k
  <2>1. /\ row' = Locked(c)
        /\ tx' = [tx EXCEPT
                   ![c].todo = IF t.todo = {k} THEN DOMAIN t.seen ELSE t.todo \ {k},
                   ![c].at = IF t.todo = {k} THEN "write" ELSE "scan",
                   ![c].absent = IF Present(k) THEN @ ELSE @ \union {k}]
    BY <1>4 DEF Scan, NextRow, k
  <2>2. /\ tx'[c].op = t.op /\ tx'[c].id = t.id /\ tx'[c].seen = t.seen /\ tx'[c].head = t.head
        /\ tx'[c].at = IF t.todo = {k} THEN "write" ELSE "scan"
        /\ tx'[c].todo = IF t.todo = {k} THEN DOMAIN t.seen ELSE t.todo \ {k}
        /\ tx'[c].absent = IF Present(k) THEN t.absent ELSE t.absent \union {k}
        /\ \A d \in Conns \ {c} : tx'[d] = tx[d]
    BY <1>1, <2>1 DEF Tx
  <2>3. tx'[c] \in Tx
    BY <1>1, <1>2, <2>1 DEF Tx, Steps
  <2>4. /\ \A j \in Locks : row'[j] = IF j = Wants(c) THEN c ELSE row[j]
        /\ row' \in [Locks -> Conns \union {None}]
        /\ \A d \in Conns \ {c} : \A j \in Locks : row'[j] = d <=> row[j] = d
        /\ Wants(c) = IF Present(k) THEN k ELSE None
        /\ k \in Locks /\ k # LaneRow /\ None \notin Locks
    BY <1>1, <1>2, <2>1, LockFacts, WantsNext, ConstantsAssumption DEF k, StoreInv, Locks
  <2>5. tx' \in [Conns -> Tx]
    BY <1>1, <2>1, <2>3
  <2>6. TypeInv' /\ begun' >= begun
    BY <1>1, <2>4, <2>5 DEF StoreInv, TypeInv
  <2>7. Behind(tx'[c]) = Behind(t) \union {k} /\ k \notin Behind(t) /\ Behind(t) \subseteq Keys
    BY <1>1, <1>2, <2>2 DEF Behind
  <2>8. Shape(tx[c])'
    <3>1. t.id \in 1..begun' /\ t.absent \subseteq Behind(t)
      BY <1>1, <1>2 DEF Shape
    <3>2. tx'[c].at = "scan" => \A i \in Behind(tx'[c]), j \in tx'[c].todo : i < j
      <4>1. ASSUME NEW i \in Behind(t) \union {k}, NEW j \in t.todo \ {k}
            PROVE  i < j
        <5>1. i \in Behind(t) => i < j
          BY <1>1, <1>2 DEF Shape
        <5>2. k \in Nat /\ j \in Nat /\ k <= j /\ k # j
          BY <1>2
        <5> QED
          BY <5>1, <5>2
      <4> QED
        BY <2>2, <2>7, <4>1
    <3>3. tx'[c].todo # {} /\ tx'[c].todo \subseteq DOMAIN t.seen
      BY <1>2, <2>2
    <3> QED
      BY <1>2, <2>2, <2>7, <3>1, <3>2, <3>3 DEF Shape, Behind
  <2>9. Holds(c)'
    <3>1. ASSUME NEW j \in Keys, row'[j] = c
          PROVE  j \in Behind(tx'[c])
      BY <1>2, <2>4, <2>7, <3>1 DEF Holds, Locks
    <3>2. row'[LaneRow] # c
      BY <1>2, <2>4 DEF Holds, Locks
    <3> QED
      BY <1>2, <2>2, <3>1, <3>2 DEF Holds, Behind
  <2>10. Covers(c)'
    <3>1. ASSUME NEW j \in Behind(t) \union {k}
          PROVE  IF j \in tx'[c].absent THEN t.seen[j].writer = 0
                 ELSE /\ row'[j] = c /\ Present(j)
                      /\ t.seen[j].writer # 0 /\ table[j].seq = t.seen[j].seq
      <4>1. CASE j = k
        BY <1>2, <1>4, <2>2, <2>4, <2>7, <4>1 DEF Matches, Shape
      <4>2. CASE j \in Behind(t)
        <5>1. j \in tx'[c].absent <=> j \in t.absent
          BY <2>2, <2>7, <4>2
        <5>2. j \in Locks
          BY <2>7, <4>2 DEF Locks
        <5> QED
          BY <1>2, <2>4, <4>2, <5>1, <5>2 DEF Covers
      <4> QED
        BY <4>1, <4>2
    <3> QED
      BY <1>1, <1>2, <2>2, <2>7, <3>1 DEF Covers, Present, Behind
  <2>11. Coherent(c)' /\ AppendOK(c)'
    BY <1>1, <1>2, <2>2 DEF Coherent, AppendOK, Present, Blank
  <2> QED
    BY <1>1, <2>2, <2>4, <2>6, <2>8, <2>9, <2>10, <2>11, QuietKept DEF Part, Alone, Moves
<1> QED
  BY <1>3, <1>4

\* A statement writes its next row.
LEMMA WriteKept ==
    ASSUME StoreInv, NEW c \in Conns, Write(c)
    PROVE  StoreInv'
<1> DEFINE t == tx[c]
           k == Min(t.todo)
<1>1. /\ tx \in [Conns -> Tx] /\ t \in Tx /\ t.at = "write" /\ Granted(c)
      /\ UNCHANGED <<table, lane, begun, firsts, doubled>>
  BY DEF Write, StoreInv, TypeInv
<1>2. /\ Shape(t) /\ Holds(c) /\ Covers(c) /\ Coherent(c)
      /\ t.op \in {"cas", "replace", "clear"} /\ k \in t.todo /\ t.todo \subseteq DOMAIN t.seen
      /\ DOMAIN t.seen \subseteq Keys
      /\ t.todo \in SUBSET Keys /\ t.seen \in Seen
  <2>1. Part(c)
    BY DEF StoreInv
  <2>2. t.op \in {"cas", "replace", "clear"} /\ t.todo # {} /\ t.todo \subseteq DOMAIN t.seen
    BY <1>1, <2>1 DEF Part, Shape, Tx, Ops
  <2>3. t.todo \in SUBSET Keys /\ t.seen \in Seen
    BY <1>1 DEF Tx
  <2>4. k \in t.todo
    BY <2>2, <2>3, NextIsLeast
  <2> QED
    BY <2>1, <2>2, <2>3, <2>4 DEF Part, Seen
<1>3. /\ row' = Locked(c)
      /\ tx' = [tx EXCEPT ![c].todo = t.todo \ {k},
                          ![c].at = IF t.todo \ {k} = {} THEN "commit" ELSE "write"]
  BY DEF Write, NextRow
<1> HIDE DEF k
<1>4. /\ tx'[c].op = t.op /\ tx'[c].id = t.id /\ tx'[c].seen = t.seen /\ tx'[c].head = t.head
      /\ tx'[c].at = IF t.todo \ {k} = {} THEN "commit" ELSE "write"
      /\ tx'[c].todo = t.todo \ {k} /\ tx'[c].absent = t.absent
      /\ \A d \in Conns \ {c} : tx'[d] = tx[d]
  BY <1>1, <1>3 DEF Tx
<1>5. tx'[c] \in Tx
  BY <1>1, <1>2, <1>3 DEF Tx, Steps
<1>6. /\ \A j \in Locks : row'[j] = IF j = Wants(c) THEN c ELSE row[j]
      /\ row' \in [Locks -> Conns \union {None}]
      /\ \A d \in Conns \ {c} : \A j \in Locks : row'[j] = d <=> row[j] = d
      /\ Wants(c) = IF t.op = "clear" /\ ~Present(k) THEN None ELSE k
      /\ k \in Locks /\ k # LaneRow /\ None \notin Locks
  <2>1. TypeInv /\ t.at # "lock"
    BY <1>1 DEF StoreInv
  <2>2. Wants(c) = IF t.op = "clear" /\ ~Present(k) THEN None ELSE k
    BY <1>1, <1>2, <2>1, WantsNext DEF k
  <2>3. k \in Locks /\ k # LaneRow /\ None \notin Locks
    BY <1>2, <2>1, WantsNext, ConstantsAssumption DEF Locks
  <2> QED
    BY <1>1, <1>3, <2>1, <2>2, <2>3, LockFacts
<1>7. TypeInv' /\ begun' >= begun
  <2>1. tx' \in [Conns -> Tx]
    BY <1>1, <1>3, <1>5
  <2> QED
    BY <1>1, <1>6, <2>1 DEF StoreInv, TypeInv
<1>8. Behind(tx'[c]) = Behind(t) /\ Behind(t) = DOMAIN t.seen
  BY <1>1, <1>4 DEF Behind
<1>9. Shape(tx[c])'
  <2>1. CASE t.op = "cas"
    BY <1>1, <1>2, <1>4, <1>8, <2>1 DEF Shape
  <2>2. CASE t.op \in {"replace", "clear"}
    <3>1. t.todo \ {k} = {} /\ t.id \in 1..begun
      BY <1>1, <1>2, <2>2 DEF Shape
    <3>2. t.absent = {} /\ \E j \in Cleared : DOMAIN t.seen = {j}
      BY <1>2, <2>2 DEF Shape
    <3> QED
      BY <1>1, <1>4, <2>2, <3>1, <3>2 DEF Shape
  <2> QED
    BY <1>2, <2>1, <2>2
<1>10. Holds(c)'
  <2>1. ASSUME NEW j \in Keys, row'[j] = c
        PROVE  /\ j \in DOMAIN t.seen
               /\ t.op \in {"replace", "clear"} => tx'[c].at = "commit"
    <3>1. t.op \in {"replace", "clear"} => t.todo \ {k} = {}
      BY <1>1, <1>2 DEF Shape
    <3>2. row'[j] = IF j = Wants(c) THEN c ELSE row[j]
      BY <1>6 DEF Locks
    <3>3. row[j] = c => j \in DOMAIN t.seen
      BY <1>2, <1>8 DEF Holds
    <3>4. j = Wants(c) => j \in DOMAIN t.seen
      BY <1>2, <1>6 DEF Locks
    <3> QED
      BY <1>4, <2>1, <3>1, <3>2, <3>3, <3>4
  <2>2. row'[LaneRow] # c
    BY <1>1, <1>2, <1>6 DEF Holds, Locks
  <2> QED
    BY <1>4, <1>8, <2>1, <2>2 DEF Holds
<1>11. Covers(c)'
  <2>1. ASSUME NEW j \in DOMAIN t.seen, row[j] = c
        PROVE  row'[j] = c
    BY <1>2, <1>6, <2>1 DEF Locks
  <2>2. t.op = "cas" => \A j \in Behind(t) :
          IF j \in t.absent THEN t.seen[j].writer = 0
          ELSE /\ row'[j] = c /\ Present(j)
               /\ t.seen[j].writer # 0 /\ table[j].seq = t.seen[j].seq
    BY <1>2, <1>8, <2>1 DEF Covers
  <2>3. t.op = "cas" =>
          \A j \in DOMAIN t.seen \ (t.todo \ {k}) : row'[j] = c
    BY <1>1, <1>2, <1>6, <2>1 DEF Covers
  <2>4. t.op = "replace" /\ tx'[c].at = "commit" => \A j \in DOMAIN t.seen : row'[j] = c
    BY <1>1, <1>2, <1>4, <1>6 DEF Shape
  <2> QED
    BY <1>1, <1>4, <1>8, <2>2, <2>3, <2>4 DEF Covers, Present
<1>12. Coherent(c)' /\ AppendOK(c)'
  BY <1>1, <1>2, <1>4 DEF Coherent, AppendOK, Present, Blank
<1> QED
  BY <1>1, <1>4, <1>6, <1>7, <1>9, <1>10, <1>11, <1>12, QuietKept DEF Part, Alone, Moves

\* What a commit writes: rows it holds, by its own number, one up on what it
\* read in a row it compared.
LEMMA CommitFacts ==
    ASSUME StoreInv, NEW c \in Conns, Commit(c), NEW k \in DOMAIN tx[c].seen
    PROVE  /\ k \in Keys
           /\ table'[k] \in Row /\ Blank(table'[k]) /\ table'[k].seq <= begun
           /\ table'[k] = table[k] \/ row[k] = c
           /\ k \notin Cleared \union doubled' =>
                 \/ table[k].writer = 0
                 \/ table'[k].writer # 0 /\ table'[k].seq > table[k].seq
<1> DEFINE t == tx[c]
<1>1. /\ t \in Tx /\ t.at = "commit" /\ t.op # "append" /\ begun \in 0..MaxTx /\ MaxTx \in Nat
      /\ Shape(t) /\ Holds(c) /\ Covers(c) /\ Coherent(c) /\ RowsOK /\ table \in [Keys -> Row]
  BY ConstantsAssumption DEF Commit, StoreInv, TypeInv, Part
<1>2. k \in Keys /\ t.seen[k] \in Row
  BY <1>1 DEF Tx, Seen
<1>3. t.op \in {"cas", "replace", "clear"} /\ t.id \in 1..begun /\ t.id \in Nat
  BY <1>1 DEF Shape, Tx, Ops
<1>4. /\ table'[k] = Written(c, k)
      /\ doubled' = doubled \union {i \in t.absent : t.op = "cas" /\ Present(i)}
  BY <1>2 DEF Commit
<1>5. /\ table[k] \in Row /\ Blank(table[k]) /\ table[k].seq <= begun
      /\ Blank(NoRow) /\ NoRow \in Row /\ NoRow.seq = 0 /\ 0 <= begun
  BY <1>1, <1>2 DEF RowsOK, Blank, NoRow, Row
<1>6. CASE t.op = "cas"
  <2>1. row[k] = c
    BY <1>1, <1>6 DEF Covers
  <2>2. t.seen[k].seq < t.id /\ t.seen[k].seq \in Nat
    BY <1>1, <1>2 DEF Coherent, Row
  <2>3. CASE t.seen[k].writer # 0
    <3>1. Written(c, k) = [writer |-> t.id, seq |-> t.seen[k].seq + 1]
      BY <1>6, <2>3 DEF Written
    <3>2. t.seen[k].seq + 1 \in 0..MaxTx /\ t.id \in 0..MaxTx /\ t.seen[k].seq + 1 <= begun
      BY <1>1, <1>3, <2>2
    <3>3. /\ table'[k] \in Row /\ Blank(table'[k]) /\ table'[k].seq <= begun
          /\ table'[k].writer # 0 /\ table'[k].seq = t.seen[k].seq + 1
      BY <1>3, <1>4, <3>1, <3>2 DEF Row, Blank
    <3>4. k \in Behind(t) /\ k \notin t.absent /\ table[k].seq = t.seen[k].seq
      BY <1>1, <1>6, <2>3 DEF Covers, Behind
    <3> QED
      BY <1>2, <2>1, <2>2, <3>3, <3>4
  <2>4. CASE t.seen[k].writer = 0
    <3>1. Written(c, k) = [writer |-> t.id, seq |-> 0]
      BY <1>6, <2>4 DEF Written
    <3>2. t.id \in 0..MaxTx /\ 0 \in 0..MaxTx
      BY <1>1, <1>3
    <3>3. table'[k] \in Row /\ Blank(table'[k]) /\ table'[k].seq <= begun
      BY <1>3, <1>4, <1>5, <3>1, <3>2 DEF Row, Blank
    <3>4. k \in t.absent
      BY <1>1, <1>6, <2>4 DEF Covers, Behind
    <3>5. k \notin doubled' => table[k].writer = 0
      BY <1>4, <1>6, <3>4 DEF Present
    <3> QED
      BY <1>2, <2>1, <3>3, <3>5
  <2> QED
    BY <2>3, <2>4
<1>7. CASE t.op = "replace"
  <2>1. k \in Cleared /\ row[k] = c
    BY <1>1, <1>7 DEF Shape, Covers
  <2>2. Written(c, k) = [writer |-> t.id, seq |-> 0]
    BY <1>7 DEF Written
  <2>3. t.id \in 0..MaxTx /\ 0 \in 0..MaxTx
    BY <1>1, <1>3
  <2>4. table'[k] \in Row /\ Blank(table'[k]) /\ table'[k].seq <= begun
    BY <1>3, <1>4, <1>5, <2>2, <2>3 DEF Row, Blank
  <2> QED
    BY <1>2, <2>1, <2>4
<1>8. CASE t.op = "clear"
  <2>1. k \in Cleared
    BY <1>1, <1>8 DEF Shape
  <2>2. Written(c, k) = IF row[k] = c THEN NoRow ELSE table[k]
    BY <1>8 DEF Written
  <2> QED
    BY <1>2, <1>4, <1>5, <2>1, <2>2
<1> QED
  BY <1>3, <1>6, <1>7, <1>8

\* The rows are committed: nobody else has them behind it.
LEMMA CommitKept ==
    ASSUME StoreInv, NEW c \in Conns, Commit(c)
    PROVE  StoreInv'
<1>1. /\ End(c) /\ UNCHANGED <<lane, begun, firsts>>
      /\ table' = [k \in Keys |-> IF k \in DOMAIN tx[c].seen THEN Written(c, k) ELSE table[k]]
      /\ doubled \subseteq doubled' /\ doubled' \subseteq doubled \union tx[c].absent
  BY DEF Commit
<1>2. /\ Alone(c) /\ Moves(c) /\ Part(c)' /\ tx' \in [Conns -> Tx]
      /\ row' \in [Locks -> Conns \union {None}]
  BY <1>1, EndFacts
<1>3. /\ table \in [Keys -> Row] /\ begun \in Nat /\ doubled' \subseteq Keys
      /\ \A k \in Keys : Blank(table[k]) /\ table[k].seq <= begun
  BY <1>1, ConstantsAssumption DEF StoreInv, TypeInv, RowsOK, Tx
<1>4. ASSUME NEW k \in Keys
      PROVE  /\ table'[k] \in Row /\ Blank(table'[k]) /\ table'[k].seq <= begun
             /\ \/ table'[k] = table[k]
                \/ /\ row[k] = c
                   /\ k \notin Cleared \union doubled' =>
                         \/ table[k].writer = 0
                         \/ table'[k].writer # 0 /\ table'[k].seq > table[k].seq
  <2>1. CASE k \in DOMAIN tx[c].seen
    BY <2>1, CommitFacts
  <2>2. CASE k \notin DOMAIN tx[c].seen
    BY <1>1, <1>3, <2>2
  <2> QED
    BY <2>1, <2>2
<1>5. table' \in [Keys -> Row]
  <2>1. table' = [k \in Keys |-> table'[k]]
    BY <1>1
  <2> QED
    BY <1>4, <2>1
<1>6. TypeInv'
  BY <1>1, <1>2, <1>3, <1>5 DEF StoreInv, TypeInv
<1>7. RowsOK'
  BY <1>1, <1>4 DEF RowsOK, Blank
<1>8. Keeps(c)
  BY <1>1, <1>2, <1>3, <1>4 DEF Keeps
<1> QED
  BY <1>1, <1>2, <1>6, <1>7, <1>8, StepKept

\* An append takes the advisory lock of its process: no other of it has it.
LEMMA AdvisoryKept ==
    ASSUME StoreInv, NEW c \in Conns, TakeAdvisory(c)
    PROVE  StoreInv'
<1> DEFINE t == tx[c]
<1>1. /\ tx \in [Conns -> Tx] /\ t \in Tx /\ t.at = "lock" /\ Granted(c)
      /\ UNCHANGED <<table, lane, row, begun, firsts, doubled>>
      /\ tx' = [tx EXCEPT ![c] = [t EXCEPT !.at = "head"]]
  BY DEF TakeAdvisory, StoreInv, TypeInv
<1>2. [t EXCEPT !.at = "head"] \in Tx
  BY <1>1 DEF Tx, Steps
<1>3. /\ tx'[c].op = t.op /\ tx'[c].id = t.id /\ tx'[c].at = "head" /\ tx'[c].seen = t.seen
      /\ tx'[c].todo = t.todo /\ tx'[c].absent = t.absent /\ tx'[c].head = t.head
      /\ \A d \in Conns \ {c} : tx'[d] = tx[d]
  BY <1>1 DEF Tx
<1>4. Part(c) /\ t.op = "append"
  BY <1>1 DEF StoreInv, Part, Shape, Tx, Ops
<1>5. AdvisoryFree(c)
  <2>1. ASSUME ~AdvisoryFree(c)
        PROVE  FALSE
    <3>1. \E d \in Conns \ {c} : ProcOf[d] = ProcOf[c] /\ tx[d].op = "append" /\ tx[d].at # "lock"
      BY <2>1 DEF AdvisoryFree
    <3>2. Blocker(c) \in Conns
      BY <1>1, <2>1, <3>1 DEF Blocker
    <3> QED
      BY <1>1, <3>2, ConstantsAssumption DEF Granted, None
  <2> QED
    BY <2>1
<1>6. TypeInv' /\ begun' >= begun
  BY <1>1, <1>2 DEF StoreInv, TypeInv
<1>7. Shape(tx[c])'
  BY <1>1, <1>3, <1>4 DEF Part, Shape
<1>8. Holds(c)' /\ Covers(c)' /\ Coherent(c)' /\ AppendOK(c)'
  BY <1>1, <1>3, <1>4 DEF Part, Shape, Holds, Covers, Coherent, AppendOK
<1> QED
  BY <1>1, <1>3, <1>4, <1>5, <1>6, <1>7, <1>8, QuietKept DEF Part, Alone, Moves

\* An append reads the head of the lane, and locks it if there is one.
LEMMA ReadHeadKept ==
    ASSUME StoreInv, NEW c \in Conns, ReadHead(c)
    PROVE  StoreInv'
<1> DEFINE t == tx[c]
<1>1. /\ tx \in [Conns -> Tx] /\ t \in Tx /\ t.at = "head" /\ Granted(c) /\ row' = Locked(c)
      /\ UNCHANGED <<table, lane, begun, doubled>>
      /\ tx' = [tx EXCEPT ![c].head = lane.head, ![c].at = "store"]
      /\ lane.head \in 0..MaxTx
  BY DEF ReadHead, StoreInv, TypeInv, Lane
<1>2. tx'[c] \in Tx
  BY <1>1 DEF Tx, Steps
<1>3. /\ tx'[c].op = t.op /\ tx'[c].id = t.id /\ tx'[c].at = "store" /\ tx'[c].seen = t.seen
      /\ tx'[c].todo = t.todo /\ tx'[c].absent = t.absent /\ tx'[c].head = lane.head
      /\ \A d \in Conns \ {c} : tx'[d] = tx[d]
  BY <1>1 DEF Tx
<1>4. Part(c) /\ t.op = "append"
  BY <1>1 DEF StoreInv, Part, Shape, Tx, Ops
<1>5. /\ row' \in [Locks -> Conns \union {None}]
      /\ \A k \in Locks : row'[k] = IF k = Wants(c) THEN c ELSE row[k]
      /\ \A d \in Conns \ {c} : \A k \in Locks : row'[k] = d <=> row[k] = d
      /\ Wants(c) = IF lane.head # 0 THEN LaneRow ELSE None
      /\ None \notin Locks /\ LaneRow \in Locks /\ LaneRow \notin Keys /\ Keys \subseteq Locks
  <2>1. TypeInv /\ t.at # "lock" /\ Shape(t)
    BY <1>1, <1>4 DEF StoreInv, Part
  <2>2. None \notin Locks
    BY <2>1, WantsNext
  <2>3. Wants(c) = IF lane.head # 0 THEN LaneRow ELSE None
    BY <1>1 DEF Wants
  <2> QED
    BY <1>1, <2>1, <2>2, <2>3, LockFacts, ConstantsAssumption DEF Locks
<1>6. /\ firsts \subseteq firsts' /\ firsts' \subseteq {ProcOf[d] : d \in Conns} /\ IsFiniteSet(firsts')
      /\ lane.head = 0 => ProcOf[c] \in firsts'
  BY FS_AddElement DEF ReadHead, StoreInv, TypeInv
<1>7. TypeInv' /\ begun' >= begun
  <2>1. tx' \in [Conns -> Tx]
    BY <1>1, <1>2
  <2> QED
    BY <1>1, <1>5, <1>6, <2>1 DEF StoreInv, TypeInv
<1>8. Shape(tx[c])'
  BY <1>1, <1>3, <1>4 DEF Part, Shape
<1>9. Holds(c)' /\ Covers(c)' /\ Coherent(c)'
  <2>1. \A k \in Keys : row'[k] # c
    BY <1>1, <1>4, <1>5 DEF Part, Holds
  <2> QED
    BY <1>1, <1>3, <1>4, <2>1 DEF Part, Shape, Holds, Covers, Coherent
<1>10. AppendOK(c)'
  BY <1>1, <1>3, <1>5, <1>6 DEF AppendOK
<1> QED
  BY <1>1, <1>3, <1>4, <1>5, <1>6, <1>7, <1>8, <1>9, <1>10, QuietKept DEF Part, Alone, Moves

\* An append writes the head row, and holds it from then on.
LEMMA StoreEventKept ==
    ASSUME StoreInv, NEW c \in Conns, StoreEvent(c)
    PROVE  StoreInv'
<1> DEFINE t == tx[c]
<1>1. /\ tx \in [Conns -> Tx] /\ t \in Tx /\ t.at = "store" /\ Granted(c) /\ row' = Locked(c)
      /\ UNCHANGED <<table, lane, begun, firsts, doubled>>
      /\ tx' = [tx EXCEPT ![c] = [t EXCEPT !.at = "commit"]]
  BY DEF StoreEvent, StoreInv, TypeInv
<1>2. [t EXCEPT !.at = "commit"] \in Tx
  BY <1>1 DEF Tx, Steps
<1>3. /\ tx'[c].op = t.op /\ tx'[c].id = t.id /\ tx'[c].at = "commit" /\ tx'[c].seen = t.seen
      /\ tx'[c].todo = t.todo /\ tx'[c].absent = t.absent /\ tx'[c].head = t.head
      /\ \A d \in Conns \ {c} : tx'[d] = tx[d]
  BY <1>1 DEF Tx
<1>4. Part(c) /\ t.op = "append"
  BY <1>1 DEF StoreInv, Part, Shape, Tx, Ops
<1>5. /\ row' \in [Locks -> Conns \union {None}]
      /\ \A k \in Locks : row'[k] = IF k = LaneRow THEN c ELSE row[k]
      /\ \A d \in Conns \ {c} : \A k \in Locks : row'[k] = d <=> row[k] = d
      /\ LaneRow \in Locks /\ LaneRow \notin Keys /\ Keys \subseteq Locks
  <2>1. Wants(c) = LaneRow /\ t.at # "lock"
    BY <1>1 DEF Wants
  <2> QED
    BY <1>1, <2>1, LockFacts, ConstantsAssumption DEF Locks
<1>6. TypeInv' /\ begun' >= begun
  <2>1. tx' \in [Conns -> Tx]
    BY <1>1, <1>2
  <2> QED
    BY <1>1, <1>5, <2>1 DEF StoreInv, TypeInv
<1>7. Shape(tx[c])'
  BY <1>1, <1>3, <1>4 DEF Part, Shape
<1>8. Holds(c)' /\ Covers(c)' /\ Coherent(c)'
  <2>1. \A k \in Keys : row'[k] # c
    BY <1>1, <1>4, <1>5 DEF Part, Holds
  <2> QED
    BY <1>1, <1>3, <1>4, <2>1 DEF Part, Shape, Holds, Covers, Coherent
<1>9. AppendOK(c)'
  BY <1>1, <1>3, <1>4, <1>5 DEF AppendOK, Part
<1> QED
  BY <1>1, <1>3, <1>4, <1>5, <1>6, <1>7, <1>8, <1>9, QuietKept DEF Part, Alone, Moves

\* An append never runs out of places: the transactions of the events on the
\* lane are as many, and none of them is its own.
LEMMA RoomOnLane ==
    ASSUME StoreInv, NEW c \in Conns, tx[c].op = "append", tx[c].at = "commit"
    PROVE  tx[c].head + 1 \in 1..MaxTx
<1> DEFINE t == tx[c]
           h == lane.head
<1>1. /\ t \in Tx /\ lane \in Lane /\ MaxTx \in Nat \ {0} /\ begun \in 0..MaxTx
      /\ t.head \in 0..MaxTx /\ h \in 0..MaxTx
  BY ConstantsAssumption DEF StoreInv, TypeInv, Tx, Lane
<1>2. t.id \in 1..MaxTx
  <2>1. t.id \in 1..begun
    BY DEF StoreInv, Part, Shape
  <2> QED
    BY <1>1, <2>1
<1>3. \A n \in 1..h : lane.node[n] \in (1..MaxTx) \ {t.id}
  <2> SUFFICES ASSUME NEW n \in 1..h
               PROVE  lane.node[n] \in (1..MaxTx) \ {t.id}
    OBVIOUS
  <2>1. n \in 1..MaxTx
    BY <1>1
  <2>2. lane.node[n] # 0
    BY DEF StoreInv, LaneOK
  <2>3. lane.node[n] \in 0..MaxTx
    BY <1>1, <2>1 DEF Lane
  <2>4. lane.node[n] # t.id
    BY <2>1, <2>2 DEF StoreInv, LaneOK
  <2> QED
    BY <2>2, <2>3, <2>4, <1>1
<1>4. \A n, m \in 1..h : lane.node[n] = lane.node[m] => n = m
  <2> SUFFICES ASSUME NEW n \in 1..h, NEW m \in 1..h, lane.node[n] = lane.node[m]
               PROVE  n = m
    OBVIOUS
  <2>1. n \in 1..MaxTx /\ m \in 1..MaxTx /\ lane.node[m] # 0
    BY <1>1, <1>3, ConstantsAssumption
  <2> QED
    BY <2>1 DEF StoreInv, LaneOK
<1>5. h <= MaxTx - 1
  <2> DEFINE S == 1..h
             T == (1..MaxTx) \ {t.id}
             f == [n \in S |-> lane.node[n]]
  <2>1. IsFiniteSet(1..MaxTx) /\ Cardinality(1..MaxTx) = MaxTx
    BY <1>1, FS_Interval
  <2>2. IsFiniteSet(T) /\ Cardinality(T) = MaxTx - 1
    BY <1>2, <2>1, FS_RemoveElement
  <2>3. IsFiniteSet(S) /\ Cardinality(S) = h
    <3>1. h \in Int /\ 1 \in Int /\ (1 > h => h = 0) /\ h - 1 + 1 = h
      BY <1>1
    <3> HIDE DEF h
    <3> QED
      BY <3>1, FS_Interval
  <2>4. f \in Injection(S, T)
    BY <1>3, <1>4 DEF Injection, IsInjective
  <2> QED
    BY <2>2, <2>3, <2>4, FS_Injection
<1>6. t.head = 0 \/ t.head = h
  BY DEF StoreInv, Part, AppendOK
<1> QED
  BY <1>1, <1>5, <1>6

\* What an append leaves: one more event, at the place after the head it read.
LEMMA AppendFacts ==
    ASSUME StoreInv, NEW c \in Conns, CommitAppend(c)
    PROVE  /\ lane' \in Lane /\ LaneOK'
           /\ lane'.head = tx[c].head + 1
           /\ \A m \in 1..MaxTx :
                 lane'.node[m] = IF m = tx[c].head + 1 THEN tx[c].id ELSE lane.node[m]
<1> DEFINE t == tx[c]
           n == t.head + 1
<1>1. /\ t \in Tx /\ lane \in Lane /\ MaxTx \in Nat \ {0} /\ t.head \in Nat
      /\ t.at = "commit" /\ t.op = "append" /\ End(c) /\ begun' = begun /\ begun \in 0..MaxTx
      /\ lane' = [head |-> n, node |-> [lane.node EXCEPT ![n] = t.id], link |-> lane.link \union {n}]
  BY ConstantsAssumption DEF CommitAppend, Appended, StoreInv, TypeInv, Tx
<1>2. n \in 1..MaxTx
  BY <1>1, RoomOnLane
<1>3. t.id \in 1..begun /\ t.id \in 1..MaxTx
  <2>1. t.id \in 1..begun
    BY <1>1 DEF StoreInv, Part, Shape
  <2> QED
    BY <1>1, <2>1
<1> HIDE DEF n
<1>4. lane' \in Lane
  BY <1>1, <1>2, <1>3 DEF Lane
<1>5. /\ lane'.head = n /\ lane'.link = lane.link \union {n}
      /\ \A m \in 1..MaxTx : lane'.node[m] = IF m = n THEN t.id ELSE lane.node[m]
  BY <1>1 DEF Lane
<1>6. LaneOK /\ Apart /\ (t.head # 0 => t.head = lane.head)
  BY <1>1 DEF StoreInv, Part, AppendOK
<1>7. \A m \in 1..n : lane'.node[m] # 0 /\ m \in lane'.link
  <2> SUFFICES ASSUME NEW m \in 1..n
               PROVE  lane'.node[m] # 0 /\ m \in lane'.link
    BY <1>5
  <2>1. m \in 1..MaxTx
    BY <1>1, <1>2
  <2>2. CASE m = n
    BY <1>3, <1>5, <2>1, <2>2
  <2>3. CASE m # n
    <3>1. m \in 1..t.head
      BY <1>1, <2>3 DEF n
    <3>2. m \in 1..lane.head
      BY <1>1, <1>6, <3>1
    <3> QED
      BY <1>5, <1>6, <2>1, <2>3, <3>2 DEF LaneOK
  <2> QED
    BY <2>2, <2>3
<1>8. \A d \in Conns : tx'[d].id = IF d = c THEN 0 ELSE tx[d].id
  <2>1. tx'[c] = Idle /\ \A d \in Conns \ {c} : tx'[d] = tx[d]
    BY <1>1, EndFacts DEF Alone
  <2> QED
    BY <2>1, IdleTyped
<1>9. ASSUME NEW m \in 1..MaxTx, lane'.node[m] # 0
      PROVE  /\ \A j \in 1..MaxTx : lane'.node[j] = lane'.node[m] => j = m
             /\ \A d \in Conns : tx'[d].id # lane'.node[m]
             /\ lane'.node[m] <= begun'
  <2>1. CASE m = n
    <3>1. lane'.node[m] = t.id
      BY <1>5, <2>1
    <3>2. ASSUME NEW j \in 1..MaxTx, j # n
          PROVE  lane.node[j] # t.id
      BY <1>3, <1>6 DEF LaneOK
    <3>3. \A d \in Conns \ {c} : tx[d].id # t.id
      BY <1>1, <1>6 DEF Apart
    <3> QED
      BY <1>1, <1>3, <1>5, <1>8, <2>1, <3>1, <3>2, <3>3
  <2>2. CASE m # n
    <3>1. lane'.node[m] = lane.node[m] /\ lane.node[m] # 0
      BY <1>5, <1>9, <2>2
    <3>2. /\ \A j \in 1..MaxTx : lane.node[j] = lane.node[m] => j = m
          /\ \A d \in Conns : tx[d].id # lane.node[m]
          /\ lane.node[m] <= begun
      BY <1>6, <3>1 DEF LaneOK
    <3> QED
      BY <1>1, <1>5, <1>8, <2>2, <3>1, <3>2
  <2> QED
    BY <2>1, <2>2
<1>10. ASSUME Cardinality(firsts') <= 1, NEW m \in 1..MaxTx, m > n
       PROVE  lane'.node[m] = 0
  <2>1. firsts' = firsts
    BY DEF CommitAppend
  <2>2. t.head = lane.head
    BY <1>1, <1>10, <2>1 DEF StoreInv, Part, AppendOK
  <2>3. m > lane.head /\ m # n
    BY <1>1, <1>2, <1>10, <2>2 DEF n
  <2> QED
    BY <1>5, <1>6, <1>10, <2>1, <2>3 DEF LaneOK
<1>11. LaneOK'
  BY <1>5, <1>7, <1>9, <1>10 DEF LaneOK
<1> QED
  BY <1>4, <1>5, <1>11 DEF n

\* The append is committed.
LEMMA CommitAppendKept ==
    ASSUME StoreInv, NEW c \in Conns, CommitAppend(c)
    PROVE  StoreInv'
<1>1. /\ End(c) /\ UNCHANGED <<table, begun, firsts, doubled>>
      /\ tx[c].op = "append" /\ tx[c].at = "commit"
  BY DEF CommitAppend
<1>2. /\ Alone(c) /\ Moves(c) /\ Part(c)' /\ tx' \in [Conns -> Tx]
      /\ row' \in [Locks -> Conns \union {None}]
  BY <1>1, EndFacts
<1>3. lane' \in Lane /\ LaneOK'
  BY AppendFacts
<1>4. TypeInv'
  BY <1>1, <1>2, <1>3 DEF StoreInv, TypeInv
<1>5. row[LaneRow] = c /\ begun' >= begun
  BY <1>1 DEF StoreInv, TypeInv, Part, AppendOK
<1>6. Keeps(c)
  BY <1>1, <1>2, <1>5 DEF Keeps
<1>7. \A d \in Conns : Part(d)'
  BY <1>2, <1>4, <1>6, PartKept
<1>8. Apart'
  BY <1>2, ApartKept
<1>9. RowsOK'
  BY <1>1 DEF StoreInv, RowsOK, Blank
<1> QED
  BY <1>3, <1>4, <1>7, <1>8, <1>9 DEF StoreInv

-----------------------------------------------------------------------------
(* The invariant holds.                                                    *)

\* Nothing has been begun.
LEMMA StoreInit == Init => StoreInv
<1> SUFFICES ASSUME Init
             PROVE  StoreInv
  OBVIOUS
<1>1. /\ MaxTx \in Nat \ {0} /\ None \notin Conns /\ Keys \subseteq Locks
      /\ table = [k \in Keys |-> IF k \in Born THEN [writer |-> MaxTx, seq |-> 0] ELSE NoRow]
      /\ lane = EmptyLane /\ tx = [c \in Conns |-> Idle] /\ row = [k \in Locks |-> None]
      /\ begun = 0 /\ firsts = {} /\ doubled = {}
  BY ConstantsAssumption DEF Init, None, Locks
<1>2. \A k \in Keys : table[k] \in Row /\ Blank(table[k]) /\ table[k].seq = 0
  BY <1>1 DEF Row, NoRow, Blank
<1>3. lane \in Lane /\ lane.head = 0 /\ \A n \in 1..MaxTx : lane.node[n] = 0
  BY <1>1 DEF EmptyLane, Lane
<1>4. TypeInv
  <2>1. table \in [Keys -> Row]
    BY <1>1, <1>2
  <2>2. tx \in [Conns -> Tx]
    BY <1>1, IdleTyped
  <2>3. row \in [Locks -> Conns \union {None}]
    BY <1>1
  <2>4. begun \in 0..MaxTx /\ IsFiniteSet({})
    BY <1>1, FS_EmptySet
  <2> QED
    BY <1>1, <1>3, <2>1, <2>2, <2>3, <2>4 DEF TypeInv
<1>5. RowsOK
  BY <1>1, <1>2 DEF RowsOK
<1>6. LaneOK
  BY <1>3 DEF LaneOK
<1>7. Apart
  BY <1>1 DEF Apart, Idle
<1>8. ASSUME NEW c \in Conns
      PROVE  Part(c)
  <2>1. tx[c] = Idle /\ DOMAIN Idle.seen = {} /\ Idle.op = "none" /\ Idle.at = "idle"
    BY <1>1, IdleTyped DEF Idle
  <2>2. \A k \in Locks : row[k] # c
    BY <1>1
  <2>3. Shape(tx[c])
    BY <2>1 DEF Shape
  <2>4. Holds(c) /\ Covers(c) /\ Coherent(c) /\ AppendOK(c)
    BY <2>1, <2>2 DEF Holds, Covers, Coherent, AppendOK, Locks
  <2> QED
    BY <2>3, <2>4 DEF Part
<1> QED
  BY <1>4, <1>5, <1>6, <1>7, <1>8 DEF StoreInv

\* Every step keeps the invariant, ...
LEMMA StoreNext == StoreInv /\ [Next]_vars => StoreInv'
<1> SUFFICES ASSUME StoreInv, [Next]_vars
             PROVE  StoreInv'
  OBVIOUS
<1>1. CASE UNCHANGED vars
  BY <1>1 DEF vars, StoreInv, TypeInv, RowsOK, LaneOK, Apart, Part, Shape, Behind, Holds,
              Covers, Coherent, AppendOK, Present
<1>2. CASE Next
  <2>1. PICK c \in Conns : Begin(c) \/ Step(c) \/ Victim(c) \/ Break(c)
    BY <1>2 DEF Next
  <2>2. CASE Step(c)
    BY <2>2, EnterKept, ScanKept, WriteKept, CommitKept, AdvisoryKept, ReadHeadKept,
       StoreEventKept, CommitAppendKept DEF Step
  <2>3. CASE Victim(c) \/ Break(c)
    BY <2>3, EndKept DEF Victim, Break
  <2> QED
    BY <2>1, <2>2, <2>3, BeginKept
<1> QED
  BY <1>1, <1>2

\* ... so it holds whatever is begun, whoever waits, and wherever a transaction
\* ends: the rows a transaction has compared or written are its own until then.
THEOREM StoreInvariant == Spec => []StoreInv
<1> QED
  BY StoreInit, StoreNext, PTL DEF Spec

-----------------------------------------------------------------------------
(* What follows from it.                                                   *)

\* Types are kept, and a connection that holds a lock is in a transaction: the
\* end of a transaction, by return, exception or break, leaves no lock behind.
THEOREM TypeCorrect == Spec => []TypeOK
<1>1. StoreInv => TypeOK
  <2> SUFFICES ASSUME StoreInv
               PROVE  TypeOK
    OBVIOUS
  <2>1. \A c \in Conns : /\ tx[c].op \in Ops /\ tx[c].id \in 0..MaxTx
                         /\ tx[c].todo \subseteq Keys /\ DOMAIN tx[c].seen \subseteq Keys
    BY DEF StoreInv, TypeInv, Tx, Seen
  <2>2. ASSUME NEW k \in Locks, row[k] # None
        PROVE  tx[row[k]] # Idle
    <3>1. row[k] \in Conns
      BY <2>2 DEF StoreInv, TypeInv
    <3>2. Holds(row[k])
      BY <3>1 DEF StoreInv, Part
    <3> QED
      BY <3>2 DEF Holds, Idle, Locks
  <2> QED
    BY <2>1, <2>2 DEF TypeOK, StoreInv, TypeInv, Lane
<1> QED
  BY <1>1, StoreInvariant, PTL

\* A member of a circle waits for a row, and the one that holds it is a swap
\* that has still rows to compare, all of them with larger keys.
LEMMA CircleGoesUp ==
    ASSUME StoreInv, NEW S \in SUBSET Conns, Circle(S), \A c \in S : tx[c].absent = {}
    PROVE  \A c \in S : Wants(c) \in Keys /\ \E d \in S : Wants(d) \in Keys /\ Wants(c) < Wants(d)
<1>1. \A c \in S : Blocker(c) \in S /\ Blocker(c) # None
  BY ConstantsAssumption DEF Circle, None
<1>2. \A c \in Conns : tx[c] \in Tx /\ Part(c)
  BY DEF StoreInv, TypeInv
<1>3. \A c \in S : tx[c].at \in {"scan", "write", "lock", "head", "store"}
  BY <1>1, <1>2 DEF Blocker, Wants, Tx, Steps
<1>4. \A c \in S : tx[c].at \notin {"head", "store"}
  <2> SUFFICES ASSUME NEW c \in S, tx[c].at \in {"head", "store"}
               PROVE  FALSE
    OBVIOUS
  <2>1. Wants(c) \in {LaneRow, None}
    BY DEF Wants
  <2>2. Blocker(c) = row[LaneRow] /\ row[LaneRow] \in S
    BY <1>1, <2>1 DEF Blocker
  <2>3. PICK d \in S : d = row[LaneRow]
    BY <2>2
  <2>4. tx[d].at \in {"store", "commit"}
    BY <1>2, <2>3 DEF Part, Holds
  <2>5. tx[d].at = "store"
    BY <1>3, <2>4
  <2>6. Wants(d) = LaneRow
    BY <2>5 DEF Wants
  <2>7. Blocker(d) = None
    BY <2>3, <2>5, <2>6 DEF Blocker
  <2> QED
    BY <1>1, <2>7
<1>5. \A c \in S : tx[c].at \in {"scan", "write"}
  <2> SUFFICES ASSUME NEW c \in S, tx[c].at = "lock"
               PROVE  FALSE
    BY <1>3, <1>4
  <2>1. ~AdvisoryFree(c)
    BY <1>1 DEF Blocker
  <2>2. \E d \in Conns \ {c} : ProcOf[d] = ProcOf[c] /\ tx[d].op = "append" /\ tx[d].at # "lock"
    BY <2>1 DEF AdvisoryFree
  <2>3. Blocker(c) = CHOOSE d \in Conns \ {c} :
                       ProcOf[d] = ProcOf[c] /\ tx[d].op = "append" /\ tx[d].at # "lock"
    BY <2>1 DEF Blocker
  <2>4. PICK d \in S : d = Blocker(c)
    BY <1>1
  <2>5. d \in Conns \ {c} /\ tx[d].op = "append" /\ tx[d].at # "lock"
    BY <2>2, <2>3, <2>4
  <2>6. tx[d].at \in {"head", "store", "commit"}
    BY <1>2, <2>5 DEF Part, Shape
  <2> QED
    BY <1>3, <1>4, <2>6
<1> SUFFICES ASSUME NEW c \in S
             PROVE  Wants(c) \in Keys /\ \E d \in S : Wants(d) \in Keys /\ Wants(c) < Wants(d)
  OBVIOUS
<1>6. ASSUME NEW d \in S
      PROVE  Wants(d) \in tx[d].todo /\ tx[d].todo \subseteq Keys /\ Wants(d) \in Keys
             /\ row[Wants(d)] # d /\ row[Wants(d)] \in S
  <2>1. TypeInv /\ Shape(tx[d])
    BY <1>2 DEF StoreInv, Part
  <2>2. Wants(d) \in tx[d].todo \union {None}
    BY <1>5, <2>1, WantsNext
  <2>3. Wants(d) # None /\ row[Wants(d)] # d /\ Blocker(d) = row[Wants(d)]
    BY <1>1, <1>5 DEF Blocker
  <2> QED
    BY <1>1, <1>2, <2>2, <2>3 DEF Tx
<1>7. PICK d \in S : d = row[Wants(c)]
  BY <1>6
<1>8. Wants(c) \in Behind(tx[d]) /\ tx[d].op = "cas"
  <2>1. /\ Wants(c) \in Behind(tx[d])
        /\ tx[d].op \in {"replace", "clear"} => tx[d].at = "commit"
    BY <1>2, <1>6, <1>7 DEF Part, Holds
  <2>2. tx[d].op \notin {"none", "append"}
    BY <1>2, <1>5 DEF Part, Shape
  <2> QED
    BY <1>2, <1>5, <2>1, <2>2 DEF Tx, Ops
<1>9. tx[d].at = "scan"
  <2> SUFFICES ASSUME tx[d].at = "write"
               PROVE  FALSE
    BY <1>5
  <2>1. Wants(d) \in Behind(tx[d])
    BY <1>2, <1>6 DEF Behind, Part, Shape
  <2>2. row[Wants(d)] = d
    BY <1>2, <1>8, <2>1 DEF Part, Covers
  <2> QED
    BY <1>6, <2>2
<1>10. Wants(c) < Wants(d)
  BY <1>2, <1>6, <1>8, <1>9 DEF Part, Shape
<1> QED
  BY <1>6, <1>10

\* Transactions wait for each other in a circle only when one of them has
\* compared a row that was not there: all others take their locks in key order.
THEOREM CirclesCorrect == Spec => []CircleNeedsAbsentRow
<1>1. StoreInv => CircleNeedsAbsentRow
  <2> SUFFICES ASSUME StoreInv, NEW S \in SUBSET Conns, Circle(S), \A c \in S : tx[c].absent = {}
               PROVE  FALSE
    BY DEF CircleNeedsAbsentRow
  <2> DEFINE Above(c) == {j \in Keys : j > Wants(c)}
             T == {Cardinality(Above(c)) : c \in S}
  <2>1. \A c \in S : Wants(c) \in Keys /\ \E d \in S : Wants(d) \in Keys /\ Wants(c) < Wants(d)
    BY CircleGoesUp
  <2>2. \A c \in S : IsFiniteSet(Above(c)) /\ Cardinality(Above(c)) \in Nat
    <3> SUFFICES ASSUME NEW c \in S
                 PROVE  IsFiniteSet(Above(c)) /\ Cardinality(Above(c)) \in Nat
      OBVIOUS
    <3>1. Above(c) \in SUBSET Keys /\ IsFiniteSet(Keys)
      BY ConstantsAssumption
    <3> QED
      BY <3>1, FS_Subset, FS_CardinalityType
  <2>3. \E m \in T : \A n \in T : m <= n
    <3>1. T \subseteq Nat /\ T # {}
      BY <2>2 DEF Circle
    <3> HIDE DEF T
    <3> QED
      BY <3>1, LeastNumber
  <2>4. PICK c \in S : \A d \in S : Cardinality(Above(c)) <= Cardinality(Above(d))
    <3>1. PICK m \in T : \A n \in T : m <= n
      BY <2>3
    <3>2. PICK c \in S : m = Cardinality(Above(c))
      BY <3>1
    <3>3. \A d \in S : Cardinality(Above(d)) \in T
      OBVIOUS
    <3> HIDE DEF T, Above
    <3> QED
      BY <3>1, <3>2, <3>3
  <2>5. PICK d \in S : Wants(d) \in Keys /\ Wants(c) < Wants(d)
    BY <2>1
  <2>6. Above(d) \in SUBSET Above(c) /\ Above(d) # Above(c)
    <3>1. Wants(c) \in Nat /\ Wants(d) \in Nat /\ Keys \subseteq Nat
      BY <2>1, <2>5, ConstantsAssumption
    <3>2. Wants(d) \in Above(c) /\ Wants(d) \notin Above(d)
      BY <2>5, <3>1
    <3>3. ASSUME NEW j \in Keys, j > Wants(d)
          PROVE  j > Wants(c)
      BY <2>5, <3>1, <3>3
    <3> QED
      BY <3>2, <3>3
  <2>7. Cardinality(Above(d)) <= Cardinality(Above(c)) /\ Cardinality(Above(d)) # Cardinality(Above(c))
    BY <2>2, <2>6, FS_Subset
  <2> HIDE DEF Above
  <2> QED
    BY <2>2, <2>4, <2>7
<1> QED
  BY <1>1, StoreInvariant, PTL

\* Only a step of c ends its transaction.
LEMMA NextChanges ==
    ASSUME StoreInv, Next, NEW c \in Conns, tx[c] # Idle, tx'[c] = Idle, table' # table
    PROVE  Commit(c)
<1>1. PICK d \in Conns : Begin(d) \/ Step(d) \/ Victim(d) \/ Break(d)
  BY DEF Next
<1>2. Commit(d)
  BY <1>1 DEF Begin, BeginCas, BeginReplace, BeginClear, BeginAppend, Open, Step, EnterCas, Scan,
              Write, TakeAdvisory, ReadHead, StoreEvent, CommitAppend, Victim, Break
<1>3. c \in Conns \ {d} => tx'[c] = tx[c]
  BY <1>2, EndFacts DEF Commit, Alone
<1> QED
  BY <1>2, <1>3

\* A swap that succeeds replaces the very rows its caller had read, except where
\* sequence numbers start again: rows also deleted or replaced, and rows two
\* swaps inserted one over the other.
THEOREM SwapCorrect == Spec => SwapReplacesWhatItRead
<1>1. StoreInv /\ [Next]_vars =>
        [\A c \in Conns :
          tx[c].op = "cas" /\ tx[c].at = "commit" /\ table' # table /\ tx'[c] = Idle =>
              \A k \in DOMAIN tx[c].seen \ (Cleared \union doubled') :
                  table[k] = tx[c].seen[k]]_vars
  <2> SUFFICES ASSUME StoreInv, Next, NEW c \in Conns,
                      tx[c].op = "cas", tx[c].at = "commit", table' # table, tx'[c] = Idle,
                      NEW k \in DOMAIN tx[c].seen \ (Cleared \union doubled')
               PROVE  table[k] = tx[c].seen[k]
    BY DEF vars
  <2>1. Commit(c)
    BY NextChanges DEF Idle
  <2>2. /\ Covers(c) /\ Coherent(c) /\ tx[c] \in Tx /\ RowsOK /\ k \in Behind(tx[c])
    BY DEF StoreInv, Part, TypeInv, Behind
  <2>3. k \in Keys /\ k \notin Cleared \union doubled /\ (k \in tx[c].absent => ~Present(k))
    BY <2>1, <2>2 DEF Commit, Tx, Seen
  <2>4. CASE k \in tx[c].absent
    <3>1. tx[c].seen[k].writer = 0 /\ table[k].writer = 0
      BY <2>2, <2>3, <2>4 DEF Covers, Present
    <3> QED
      BY <2>2, <2>3, <3>1 DEF Coherent, RowsOK, Blank
  <2>5. CASE k \notin tx[c].absent
    <3>1. tx[c].seen[k].writer # 0 /\ table[k].seq = tx[c].seen[k].seq
      BY <2>2, <2>5 DEF Covers
    <3> QED
      BY <2>2, <2>3, <3>1 DEF Coherent
  <2> QED
    BY <2>4, <2>5
<1> QED
  BY <1>1, StoreInvariant, PTL DEF Spec, SwapReplacesWhatItRead

\* The usage lane has an event at every place up to its head, and as long as one
\* process alone ever found it empty no event is overwritten and the head does
\* not move back.
THEOREM LaneCorrect == Spec => LaneIsAppendOnly
<1> DEFINE Grows ==
      /\ \A n \in 1..lane'.head : lane'.node[n] # 0 /\ n \in lane'.link
      /\ Cardinality(firsts') <= 1 =>
            /\ lane'.head >= lane.head
            /\ \A n \in 1..MaxTx : lane.node[n] # 0 => lane'.node[n] = lane.node[n]
<1>1. StoreInv /\ [Next]_vars => [Grows]_vars
  <2> SUFFICES ASSUME StoreInv, Next
               PROVE  Grows
    BY DEF vars
  <2>1. LaneOK'
    BY StoreNext DEF StoreInv
  <2>2. PICK c \in Conns : Begin(c) \/ Step(c) \/ Victim(c) \/ Break(c)
    BY DEF Next
  <2>3. lane.head \in Nat /\ \A n \in 1..MaxTx : n \in Nat
    BY ConstantsAssumption DEF StoreInv, TypeInv, Lane
  <2>4. CASE lane' = lane
    BY <2>1, <2>3, <2>4 DEF LaneOK
  <2>5. CASE CommitAppend(c)
    <3>1. lane'.head = tx[c].head + 1 /\ firsts' = firsts
          /\ \A n \in 1..MaxTx : lane'.node[n] = IF n = tx[c].head + 1 THEN tx[c].id ELSE lane.node[n]
      BY <2>5, AppendFacts DEF CommitAppend
    <3>2. Cardinality(firsts) <= 1 => tx[c].head = lane.head
      BY <2>5 DEF CommitAppend, StoreInv, Part, AppendOK
    <3>3. Cardinality(firsts) <= 1 => \A n \in 1..MaxTx : n > lane.head => lane.node[n] = 0
      BY DEF StoreInv, LaneOK
    <3>4. lane.head + 1 > lane.head
      BY <2>3
    <3> QED
      BY <2>1, <2>3, <3>1, <3>2, <3>3, <3>4 DEF LaneOK
  <2>6. lane' = lane \/ CommitAppend(c)
    BY <2>2 DEF Begin, BeginCas, BeginReplace, BeginClear, BeginAppend, Open, Step, EnterCas, Scan,
                Write, Commit, TakeAdvisory, ReadHead, StoreEvent, Victim, Break
  <2> QED
    BY <2>4, <2>5, <2>6
<1> QED
  BY <1>1, StoreInvariant, PTL DEF Spec, LaneIsAppendOnly
=============================================================================
