---------------------------- MODULE PostgresStore ----------------------------
(***************************************************************************)
(* The transactions of modelkeyguard/postgres_state.py: the compare-and-   *)
(* swap of several named projections, the unconditional replace, the       *)
(* delete, and the append to a usage lane.  Every statement that may wait  *)
(* for a lock is a step of its own.                                        *)
(*                                                                         *)
(* External: PostgreSQL at READ COMMITTED.  SELECT ... FOR UPDATE waits    *)
(* for and locks a committed row and locks nothing when there is none;     *)
(* INSERT ... ON CONFLICT waits for whoever inserted the same key.  Locks  *)
(* end with the transaction, and of transactions that wait for each other  *)
(* in a circle the server aborts one.                                      *)
(***************************************************************************)
EXTENDS Naturals, FiniteSets, FiniteSetsExt

CONSTANTS
    Conns,       \* connections, numbered; one transaction each
    ProcOf,      \* ProcOf[c]: the process that opened c
    Keys,        \* named projections, numbered in (namespace, key) order
    Cleared,     \* those of them the gateway also deletes (idempotency keys)
    Born,        \* the keys that have a row to begin with
    MaxTx        \* bound: transactions in one behaviour

None == 0                     \* nobody, and no row
LaneRow == 100                 \* the head of the usage lane, a projection too
Locks == Keys \union {LaneRow}

ASSUME ConstantsAssumption ==
    /\ Keys \subseteq Nat \ {0} /\ IsFiniteSet(Keys) /\ LaneRow \notin Keys
    /\ Cleared \subseteq Keys /\ Born \subseteq Keys
    /\ Conns \subseteq Nat \ {0}
    /\ MaxTx \in Nat \ {0}

VARIABLES
    table,    \* committed rows
    lane,     \* the committed lane: head row, usage nodes and edges
    tx,       \* tx[c]: the transaction open on c
    row,      \* row[k]: the connection that holds the lock on k
    begun,    \* transactions begun
    firsts,   \* processes that found the lane without a head row
    doubled   \* keys inserted by a swap over a row it had not seen

vars == <<table, lane, tx, row, begun, firsts, doubled>>

\* A stored row: who wrote it last, and its two sequence numbers, always equal.
Row == [writer : 0..MaxTx, seq : 0..MaxTx]
NoRow == [writer |-> 0, seq |-> 0]
Present(k) == table[k].writer # 0

\* node[n]: the transaction whose usage event is node n of the lane; link:
\* the nodes an edge leads to.
EmptyLane == [head |-> 0, node |-> [n \in 1..MaxTx |-> 0], link |-> {}]

Ops == {"none", "cas", "replace", "clear", "append"}
Idle == [op |-> "none", id |-> 0, at |-> "idle", seen |-> [k \in {} |-> NoRow],
         todo |-> {}, absent |-> {}, head |-> 0]

-----------------------------------------------------------------------------
(* Locks.                                                                  *)

\* Mutant: rows are locked in the order the caller lists them.
NextRow_Unsorted(c, S) == IF tx[c].id % 2 = 0 THEN Max(S) ELSE Min(S)

\* rows = sorted(updates, key=(namespace, key))
NextRow(c, S) == Min(S)

\* Mutant: a process does not serialise its own appends.
AdvisoryFree_Always(c) == TRUE

\* pg_advisory_xact_lock of abs(hash(...)) % 2**31: str hashes are salted per
\* process, so only connections of one process ask for the same lock.
AdvisoryFree(c) ==
    \A d \in Conns \ {c} : ~ /\ ProcOf[d] = ProcOf[c]
                             /\ tx[d].op = "append" /\ tx[d].at # "lock"

\* The row whose lock the next statement of c takes; None when it takes none.
Wants(c) ==
    LET t == tx[c] IN
    CASE t.at = "scan"  -> LET k == NextRow(c, t.todo)
                           IN  IF Present(k) THEN k ELSE None
      [] t.at = "write" -> IF t.op = "clear" /\ ~Present(Min(t.todo)) THEN None
                           ELSE NextRow(c, t.todo)
      [] t.at = "head"  -> IF lane.head # 0 THEN LaneRow ELSE None
      [] t.at = "store" -> LaneRow
      [] OTHER -> None

Blocker(c) ==
    IF tx[c].at = "lock"
    THEN IF AdvisoryFree(c) THEN None
         ELSE CHOOSE d \in Conns \ {c} : ProcOf[d] = ProcOf[c]
                                         /\ tx[d].op = "append" /\ tx[d].at # "lock"
    ELSE IF Wants(c) = None THEN None
    ELSE IF row[Wants(c)] = c THEN None ELSE row[Wants(c)]

Granted(c) == Blocker(c) = None

\* Connections each of which waits for another of them.
Circle(S) == S # {} /\ \A c \in S : Blocker(c) \in S

\* Mutant: a return without a commit leaves the transaction open.
Unlocked_Kept(c) == row

\* Every lock of c ends with its transaction.
Unlocked(c) == [k \in Locks |-> IF row[k] = c THEN None ELSE row[k]]

Locked(c) ==
    IF Wants(c) = None THEN row ELSE [row EXCEPT ![Wants(c)] = c]

-----------------------------------------------------------------------------
(* Beginning a transaction.                                                *)

\* A connection is opened for each transaction, so the first idle one will do.
Open(c, t) ==
    /\ tx[c] = Idle /\ begun < MaxTx
    /\ \A d \in Conns : ProcOf[d] = ProcOf[c] /\ d < c => tx[d] # Idle
    /\ tx' = [tx EXCEPT ![c] = [t EXCEPT !.id = begun + 1]]
    /\ begun' = begun + 1
    /\ UNCHANGED <<table, lane, row, firsts, doubled>>

\* The caller reads the rows one by one before it asks for the swap; here it
\* reads them together, and the swap may begin any time later.
BeginCas(c, S) ==
    /\ S # {}
    /\ Open(c, [Idle EXCEPT !.op = "cas", !.at = "ready", !.todo = S,
                            !.seen = [k \in S |-> table[k]]])

BeginReplace(c, k) == Open(c, [Idle EXCEPT !.op = "replace", !.at = "write",
                                           !.todo = {k}, !.seen = [i \in {k} |-> NoRow]])
BeginClear(c, k) == Open(c, [Idle EXCEPT !.op = "clear", !.at = "write",
                                         !.todo = {k}, !.seen = [i \in {k} |-> NoRow]])
BeginAppend(c) == Open(c, [Idle EXCEPT !.op = "append", !.at = "lock"])

-----------------------------------------------------------------------------
(* compare_and_swap_named_projections.                                     *)

\* if not updates: return True is the empty case.
EnterCas(c) ==
    /\ tx[c].at = "ready"
    /\ tx' = [tx EXCEPT ![c].at = "scan"]
    /\ UNCHANGED <<table, lane, row, begun, firsts, doubled>>

\* Mutant: only rows that are there are compared.
Matches_PresentOnly(seen, k) == ~Present(k) \/ seen.writer # 0

\* A row that was absent must be absent; otherwise both sequence numbers must
\* be the ones that were read.
Matches(seen, k) ==
    IF seen.writer = 0 THEN ~Present(k)
    ELSE Present(k) /\ table[k].seq = seen.seq

End(c) == tx' = [tx EXCEPT ![c] = Idle] /\ row' = Unlocked(c)

\* SELECT ... FOR UPDATE of the next row, and its comparison.
Scan(c) ==
    LET t == tx[c]
        k == NextRow(c, t.todo)
    IN
    /\ t.at = "scan" /\ Granted(c)
    /\ IF ~Matches(t.seen[k], k)
       THEN End(c)
       ELSE /\ row' = Locked(c)
            /\ tx' = [tx EXCEPT
                      ![c].todo = IF t.todo = {k} THEN DOMAIN t.seen ELSE t.todo \ {k},
                      ![c].at = IF t.todo = {k} THEN "write" ELSE "scan",
                      ![c].absent = IF Present(k) THEN @ ELSE @ \union {k}]
    /\ UNCHANGED <<table, lane, begun, firsts, doubled>>

\* INSERT ... ON CONFLICT DO UPDATE, or DELETE, of the next row.  A delete
\* that finds no row locks nothing.
Write(c) ==
    LET t == tx[c] IN
    /\ t.at = "write" /\ Granted(c)
    /\ row' = Locked(c)
    /\ LET left == t.todo \ {NextRow(c, t.todo)}
       IN  tx' = [tx EXCEPT ![c].todo = left,
                            ![c].at = IF left = {} THEN "commit" ELSE "write"]
    /\ UNCHANGED <<table, lane, begun, firsts, doubled>>

\* What c leaves in row k: a swap counts up from what it read, a replace
\* starts again at 0, and a delete that found no row leaves what came since.
Written(c, k) ==
    LET t == tx[c] IN
    CASE t.op = "cas" /\ t.seen[k].writer # 0 ->
             [writer |-> t.id, seq |-> t.seen[k].seq + 1]
      [] t.op = "clear" -> IF row[k] = c THEN NoRow ELSE table[k]
      [] OTHER -> [writer |-> t.id, seq |-> 0]

Commit(c) ==
    LET t == tx[c] IN
    /\ t.at = "commit" /\ t.op # "append"
    /\ table' = [k \in Keys |-> IF k \in DOMAIN t.seen THEN Written(c, k) ELSE table[k]]
    /\ doubled' = doubled \union {k \in t.absent : t.op = "cas" /\ Present(k)}
    /\ End(c)
    /\ UNCHANGED <<lane, begun, firsts>>

-----------------------------------------------------------------------------
(* append_usage_ledger_event: one transaction.                             *)

TakeAdvisory(c) ==
    /\ tx[c].at = "lock" /\ Granted(c)
    /\ tx' = [tx EXCEPT ![c].at = "head"]
    /\ UNCHANGED <<table, lane, row, begun, firsts, doubled>>

\* The head row is read FOR UPDATE; without one the lane is empty.
ReadHead(c) ==
    /\ tx[c].at = "head" /\ Granted(c)
    /\ row' = Locked(c)
    /\ tx' = [tx EXCEPT ![c].head = lane.head, ![c].at = "store"]
    /\ firsts' = IF lane.head = 0 THEN firsts \union {ProcOf[c]} ELSE firsts
    /\ UNCHANGED <<table, lane, begun, doubled>>

\* The usage node, the edge that leads to it and the head row; every insert
\* but that of the edge overwrites.
StoreEvent(c) ==
    /\ tx[c].at = "store" /\ Granted(c)
    /\ row' = Locked(c)
    /\ tx' = [tx EXCEPT ![c].at = "commit"]
    /\ UNCHANGED <<table, lane, begun, firsts, doubled>>

Appended(t) ==
    LET n == t.head + 1
    IN  [head |-> n, node |-> [lane.node EXCEPT ![n] = t.id],
         link |-> lane.link \union {n}]

CommitAppend(c) ==
    /\ tx[c].at = "commit" /\ tx[c].op = "append"
    /\ lane' = Appended(tx[c])
    /\ End(c)
    /\ UNCHANGED <<table, begun, firsts, doubled>>

-----------------------------------------------------------------------------
(* Failures.                                                               *)

\* The server ends one transaction of a circle; its caller gets an exception.
Victim(c) ==
    /\ \E S \in SUBSET Conns : c \in S /\ Circle(S)
    /\ End(c)
    /\ UNCHANGED <<table, lane, begun, firsts, doubled>>

\* The process dies or the connection breaks: everything is rolled back.
Break(c) ==
    /\ tx[c] # Idle
    /\ End(c)
    /\ UNCHANGED <<table, lane, begun, firsts, doubled>>

Begin(c) ==
    \/ \E S \in SUBSET Keys : BeginCas(c, S)
    \/ \E k \in Cleared : BeginReplace(c, k) \/ BeginClear(c, k)
    \/ BeginAppend(c)

Step(c) ==
    \/ EnterCas(c) \/ Scan(c) \/ Write(c) \/ Commit(c)
    \/ TakeAdvisory(c) \/ ReadHead(c) \/ StoreEvent(c) \/ CommitAppend(c)

Next == \E c \in Conns : Begin(c) \/ Step(c) \/ Victim(c) \/ Break(c)

Init ==
    /\ table = [k \in Keys |-> IF k \in Born THEN [writer |-> MaxTx, seq |-> 0]
                               ELSE NoRow]
    /\ lane = EmptyLane
    /\ tx = [c \in Conns |-> Idle]
    /\ row = [k \in Locks |-> None]
    /\ begun = 0
    /\ firsts = {} /\ doubled = {}

\* A statement that need not wait is executed, and the server finds circles.
Fairness == \A c \in Conns : WF_vars(Step(c)) /\ WF_vars(Victim(c))

Spec == Init /\ [][Next]_vars /\ Fairness

-----------------------------------------------------------------------------
(* Properties.                                                             *)

\* Types; a connection that is idle holds no lock.
TypeOK ==
    /\ table \in [Keys -> Row]
    /\ lane \in [head : 0..MaxTx, node : [1..MaxTx -> 0..MaxTx], link : SUBSET (1..MaxTx)]
    /\ \A c \in Conns : /\ tx[c].op \in Ops /\ tx[c].id \in 0..MaxTx
                        /\ tx[c].todo \subseteq Keys /\ DOMAIN tx[c].seen \subseteq Keys
    /\ row \in [Locks -> Conns \union {None}]
    /\ \A k \in Locks : row[k] # None => tx[row[k]] # Idle
    /\ begun \in 0..MaxTx /\ firsts \subseteq {ProcOf[c] : c \in Conns}
    /\ doubled \subseteq Keys

\* "Rows lock in deterministic namespace/key order" (postgres_state.py:169):
\* transactions can wait for each other in a circle only when one of them has
\* compared a row that was not there, and so locked it late.
CircleNeedsAbsentRow ==
    \A S \in SUBSET Conns : Circle(S) => \E c \in S : tx[c].absent # {}

\* A swap that succeeds replaces, in every row it compared under its lock, the
\* very row its caller had read.  Left out are rows that are also deleted or
\* replaced, and rows two swaps have inserted one over the other: sequence
\* numbers start again at 0 there.
SwapReplacesWhatItRead ==
    [][\A c \in Conns :
          tx[c].op = "cas" /\ tx[c].at = "commit" /\ table' # table /\ tx'[c] = Idle =>
              \A k \in DOMAIN tx[c].seen \ (Cleared \union doubled') :
                  table[k] = tx[c].seen[k]]_vars

\* The usage lane is a list without gaps up to its head, and as long as one
\* process alone ever found it empty, no event on it is overwritten and the
\* head never moves back (the advisory lock of that process sees to it).
LaneIsAppendOnly ==
    [][/\ \A n \in 1..lane'.head : lane'.node[n] # 0 /\ n \in lane'.link
       /\ Cardinality(firsts') <= 1 =>
              /\ lane'.head >= lane.head
              /\ \A n \in 1..MaxTx : lane.node[n] # 0 => lane'.node[n] = lane.node[n]]_vars

\* Every transaction ends, whatever the others wait for.
TransactionsEnd == \A c \in Conns : tx[c] # Idle ~> tx[c] = Idle
=============================================================================
