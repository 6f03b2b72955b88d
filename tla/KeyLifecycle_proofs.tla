------------------------- MODULE KeyLifecycle_proofs -------------------------
(*****************************************************************************)
(* Theorems about KeyLifecycle for every set of processes, every terms and   *)
(* callers, and every number of secrets, revocations, failures and crashes.  *)
(*                                                                           *)
(*   TypeCorrect      Spec => []TypeOK                                       *)
(*   RevokedCorrect   Spec => []RevokedIsDead                                *)
(*   TermsCorrect     Spec => []TermsHold                                    *)
(*   SecretsCorrect   Spec => []SecretsFollowKey                             *)
(*   ServesCorrect    Spec => []KeyServes                                    *)
(*****************************************************************************)
EXTENDS KeyLifecycle, FiniteSetTheorems, TLAPS

-----------------------------------------------------------------------------
(* What a process still has to write.                                        *)

Ops == {"secret", "key", "edge", "event", "register", "reregister", "unregister",
        "created", "rotated", "revoked"}

Writes ==
    {w \in [op : Ops, ref : Ref, status : Status] :
        /\ w.op = "secret" => w.ref \in Refs
        /\ w.op = "key" => w.status \in {"active", "revoked"}}

Activates(w) == w.op = "key" /\ w.status = "active"
Disowns(w) == w.op = "key" /\ w.status = "revoked"
Makes(w) == w.op = "secret" /\ w.status = "active"
Retires(w) == w.op = "secret" /\ w.status # "active"
Names(w) == w.op \in {"secret", "key"}

Todo(p) == 1..Len(todo[p])

\* Only a process that serves has something to write, and the key only once.
TodoOK ==
    /\ todo \in [Procs -> Seq(Writes)]
    /\ \A p \in Procs : todo[p] # <<>> => up[p] /\ p \in writers
    /\ \A p \in Procs : \A i, j \in Todo(p) :
          todo[p][i].op = "key" /\ todo[p][j].op = "key" => i = j

Base == TypeOK /\ TodoOK

\* A sequence of writes is made of writes.
LEMMA EightWrites ==
    ASSUME NEW a \in Writes, NEW b \in Writes, NEW c \in Writes, NEW d \in Writes,
           NEW e \in Writes, NEW f \in Writes, NEW g \in Writes, NEW h \in Writes
    PROVE  /\ <<a, b, c, d, e, f, g, h>> \in Seq(Writes)
           /\ Len(<<a, b, c, d, e, f, g, h>>) = 8
           /\ <<a, b, c, d, e, f, g>> \in Seq(Writes)
           /\ Len(<<a, b, c, d, e, f, g>>) = 7
           /\ <<a, b, c, d, e>> \in Seq(Writes)
           /\ Len(<<a, b, c, d, e>>) = 5
           /\ <<a, b, c, d>> \in Seq(Writes)
           /\ Len(<<a, b, c, d>>) = 4
OBVIOUS

\* The writes of an operation that makes a secret.
Making(p) == Create(p) \/ Rotate(p)

\* What they are: the secret, the key that names it, and the end of the old secret.
MakesSecret(p, s) ==
    /\ todo' = [todo EXCEPT ![p] = s]
    /\ Len(s) \in Nat /\ Len(s) > 4
    /\ s[1] = SetSecret(NextRef, "active")
    /\ s[3] = SetKey([status |-> "active", ref |-> NextRef])
    /\ \A i \in 1..Len(s) :
          /\ s[i].op \notin {"unregister", "revoked"}
          /\ s[i].ref \in {NextRef, mem[p].key.ref, Env}
          /\ Names(s[i]) =>
                \/ i = 1 \/ i = 3
                \/ i = 5 /\ s[5] = SetSecret(mem[p].key.ref, "rotated")
    /\ mem[p].key.ref \in Refs /\ mem[p].key.status = "active" =>
          s[5] = SetSecret(mem[p].key.ref, "rotated")

LEMMA MakingWrites ==
    ASSUME Base, NEW p \in Procs, Making(p)
    PROVE  NextRef \in Refs /\ \E s \in Seq(Writes) : MakesSecret(p, s)
<1> USE DEF SetSecret, SetKey, Note, Writes, Ops, Status, Names
<1>1. NextRef \in Refs /\ Env \in Ref /\ NextRef \in Ref
  BY DEF Making, Create, Rotate, Ref
<1>2. mem[p].key \in KeyNode /\ mem[p].key.ref \in Ref
  BY DEF Base, TypeOK, Store, KeyNode
<1>3. CASE Create(p)
  <2> DEFINE s == CreateWrites(NextRef)
  <2>1. s \in Seq(Writes) /\ Len(s) = 8
    BY <1>1 DEF CreateWrites
  <2>2. /\ s[1] = SetSecret(NextRef, "active") /\ s[2] = Note("event")
        /\ s[3] = SetKey([status |-> "active", ref |-> NextRef])
        /\ s[4] = Note("edge") /\ s[5] = Note("event") /\ s[6] = Note("register")
        /\ s[7] = Note("edge") /\ s[8] = Note("created")
    BY DEF CreateWrites
  <2>3. todo' = [todo EXCEPT ![p] = s] /\ mem[p].key.status = "absent"
    BY <1>3 DEF Create
  <2> HIDE DEF s
  <2>4. ASSUME NEW i \in 1..Len(s)
        PROVE  /\ s[i].op \notin {"unregister", "revoked"}
               /\ s[i].ref \in {NextRef, mem[p].key.ref, Env}
               /\ Names(s[i]) => i = 1 \/ i = 3
    <3>1. i = 1 \/ i = 2 \/ i = 3 \/ i = 4 \/ i = 5 \/ i = 6 \/ i = 7 \/ i = 8
      BY <2>1
    <3> QED
      BY <2>2, <3>1
  <2> QED
    <3> HIDE DEF SetSecret, SetKey, Note, Writes, Ops, Status, Names
    <3>1. Len(s) \in Nat /\ s \in Seq(Writes)
      BY <2>1
    <3>2. \A i \in 1..Len(s) :
             /\ s[i].op \notin {"unregister", "revoked"}
             /\ s[i].ref \in {NextRef, mem[p].key.ref, Env}
             /\ Names(s[i]) => i = 1 \/ i = 3
      BY <2>4
    <3>3. MakesSecret(p, s)
      BY <1>1, <2>1, <2>2, <2>3, <2>4, <3>1, <3>2 DEF MakesSecret
    <3> QED
      BY <1>1, <3>1, <3>3
<1>4. CASE Rotate(p) /\ mem[p].key.ref \in Refs
  <2> DEFINE s == RotateWrites(mem[p], NextRef)
  <2>1. SetKey([mem[p].key EXCEPT !.ref = NextRef])
          = SetKey([status |-> "active", ref |-> NextRef])
    BY <1>2, <1>4 DEF Rotate, KeyNode
  <2>2. s \in Seq(Writes) /\ Len(s) = 8
    <3>1. /\ SetSecret(NextRef, "active") \in Writes /\ Note("event") \in Writes
          /\ SetKey([mem[p].key EXCEPT !.ref = NextRef]) \in Writes
          /\ Note("edge") \in Writes /\ SetSecret(mem[p].key.ref, "rotated") \in Writes
          /\ Note("reregister") \in Writes /\ Note("rotated") \in Writes
      BY <1>1, <1>2, <1>4, <2>1
    <3> HIDE DEF SetSecret, SetKey, Note, Writes
    <3> QED
      BY <1>4, <3>1, EightWrites DEF RotateWrites
  <2>3. /\ s[1] = SetSecret(NextRef, "active") /\ s[2] = Note("event")
        /\ s[3] = SetKey([status |-> "active", ref |-> NextRef])
        /\ s[4] = Note("edge") /\ s[5] = SetSecret(mem[p].key.ref, "rotated")
        /\ s[6] = Note("event") /\ s[7] = Note("reregister") /\ s[8] = Note("rotated")
    <3> HIDE DEF SetSecret, SetKey, Note
    <3> QED
      BY <1>4, <2>1 DEF RotateWrites
  <2>4. todo' = [todo EXCEPT ![p] = s]
    BY <1>4 DEF Rotate
  <2> HIDE DEF s
  <2>5. ASSUME NEW i \in 1..Len(s)
        PROVE  /\ s[i].op \notin {"unregister", "revoked"}
               /\ s[i].ref \in {NextRef, mem[p].key.ref, Env}
               /\ Names(s[i]) => i = 1 \/ i = 3 \/ i = 5
    <3>1. i = 1 \/ i = 2 \/ i = 3 \/ i = 4 \/ i = 5 \/ i = 6 \/ i = 7 \/ i = 8
      BY <2>2
    <3> QED
      BY <2>3, <3>1
  <2> QED
    <3> HIDE DEF SetSecret, SetKey, Note, Writes, Ops, Status, Names
    <3>1. Len(s) \in Nat /\ s \in Seq(Writes)
      BY <2>2
    <3>2. \A i \in 1..Len(s) :
             /\ s[i].op \notin {"unregister", "revoked"}
             /\ s[i].ref \in {NextRef, mem[p].key.ref, Env}
             /\ Names(s[i]) => i = 1 \/ i = 3 \/ i = 5
      BY <2>5
    <3>3. MakesSecret(p, s)
      BY <1>1, <2>2, <2>3, <2>4, <2>5, <3>1, <3>2 DEF MakesSecret
    <3> QED
      BY <1>1, <3>1, <3>3
<1>5. CASE Rotate(p) /\ mem[p].key.ref \notin Refs
  <2> DEFINE s == RotateWrites(mem[p], NextRef)
  <2>1. SetKey([mem[p].key EXCEPT !.ref = NextRef])
          = SetKey([status |-> "active", ref |-> NextRef])
    BY <1>2, <1>5 DEF Rotate, KeyNode
  <2>2. s \in Seq(Writes) /\ Len(s) = 7
    <3>1. /\ SetSecret(NextRef, "active") \in Writes /\ Note("event") \in Writes
          /\ SetKey([mem[p].key EXCEPT !.ref = NextRef]) \in Writes
          /\ Note("edge") \in Writes
          /\ Note("reregister") \in Writes /\ Note("rotated") \in Writes
      BY <1>1, <2>1
    <3> HIDE DEF SetSecret, SetKey, Note, Writes
    <3> QED
      BY <1>5, <3>1, EightWrites DEF RotateWrites
  <2>3. /\ s[1] = SetSecret(NextRef, "active") /\ s[2] = Note("event")
        /\ s[3] = SetKey([status |-> "active", ref |-> NextRef])
        /\ s[4] = Note("edge") /\ s[5] = Note("event") /\ s[6] = Note("reregister")
        /\ s[7] = Note("rotated")
    <3> HIDE DEF SetSecret, SetKey, Note
    <3> QED
      BY <1>5, <2>1 DEF RotateWrites
  <2>4. todo' = [todo EXCEPT ![p] = s]
    BY <1>5 DEF Rotate
  <2> HIDE DEF s
  <2>5. ASSUME NEW i \in 1..Len(s)
        PROVE  /\ s[i].op \notin {"unregister", "revoked"}
               /\ s[i].ref \in {NextRef, mem[p].key.ref, Env}
               /\ Names(s[i]) => i = 1 \/ i = 3
    <3>1. i = 1 \/ i = 2 \/ i = 3 \/ i = 4 \/ i = 5 \/ i = 6 \/ i = 7
      BY <2>2
    <3> QED
      BY <2>3, <3>1
  <2> QED
    <3> HIDE DEF SetSecret, SetKey, Note, Writes, Ops, Status, Names
    <3>1. Len(s) \in Nat /\ s \in Seq(Writes)
      BY <2>2
    <3>2. \A i \in 1..Len(s) :
             /\ s[i].op \notin {"unregister", "revoked"}
             /\ s[i].ref \in {NextRef, mem[p].key.ref, Env}
             /\ Names(s[i]) => i = 1 \/ i = 3
      BY <2>5
    <3>3. MakesSecret(p, s)
      BY <1>1, <1>5, <2>2, <2>3, <2>4, <2>5, <3>1, <3>2 DEF MakesSecret
    <3> QED
      BY <1>1, <3>1, <3>3
<1> QED
  BY <1>1, <1>3, <1>4, <1>5 DEF Making

\* Those of a revocation: the key, then its secret.
RevokesKey(p, s) ==
    /\ todo' = [todo EXCEPT ![p] = s]
    /\ Len(s) \in Nat /\ Len(s) > 3
    /\ s[1] = SetKey([status |-> "revoked", ref |-> mem[p].key.ref])
    /\ \A i \in 1..Len(s) :
          /\ s[i].op \notin {"register", "reregister"}
          /\ s[i].ref \in {mem[p].key.ref, Env}
          /\ Names(s[i]) =>
                \/ i = 1
                \/ i = 2 /\ s[2] = SetSecret(mem[p].key.ref, "revoked")
    /\ mem[p].key.ref \in Refs => s[2] = SetSecret(mem[p].key.ref, "revoked")

LEMMA RevokingWrites ==
    ASSUME Base, NEW p \in Procs, Revoke(p)
    PROVE  \E s \in Seq(Writes) : RevokesKey(p, s)
<1> USE DEF SetSecret, SetKey, Note, Writes, Ops, Status, Names
<1>1. mem[p].key \in KeyNode /\ mem[p].key.ref \in Ref /\ Env \in Ref
  BY DEF Base, TypeOK, Store, KeyNode, Ref
<1>2. SetKey([mem[p].key EXCEPT !.status = "revoked"])
        = SetKey([status |-> "revoked", ref |-> mem[p].key.ref])
  BY <1>1 DEF KeyNode
<1> DEFINE s == RevokeWrites(mem[p])
<1>3. CASE mem[p].key.ref \in Refs
  <2>1. s \in Seq(Writes) /\ Len(s) = 5
    BY <1>1, <1>2, <1>3 DEF RevokeWrites
  <2>2. /\ s[1] = SetKey([status |-> "revoked", ref |-> mem[p].key.ref])
        /\ s[2] = SetSecret(mem[p].key.ref, "revoked")
        /\ s[3] = Note("event") /\ s[4] = Note("unregister") /\ s[5] = Note("revoked")
    <3> HIDE DEF SetSecret, SetKey, Note
    <3> QED
      BY <1>2, <1>3 DEF RevokeWrites
  <2>3. todo' = [todo EXCEPT ![p] = s]
    BY DEF Revoke
  <2> HIDE DEF s
  <2>4. ASSUME NEW i \in 1..Len(s)
        PROVE  /\ s[i].op \notin {"register", "reregister"}
               /\ s[i].ref \in {mem[p].key.ref, Env}
               /\ Names(s[i]) => i = 1 \/ i = 2
    <3>1. i = 1 \/ i = 2 \/ i = 3 \/ i = 4 \/ i = 5
      BY <2>1
    <3> QED
      BY <2>2, <3>1
  <2> QED
    <3> HIDE DEF SetSecret, SetKey, Note, Writes, Ops, Status, Names
    <3>1. Len(s) \in Nat /\ s \in Seq(Writes)
      BY <2>1
    <3>2. \A i \in 1..Len(s) :
             /\ s[i].op \notin {"register", "reregister"}
             /\ s[i].ref \in {mem[p].key.ref, Env}
             /\ Names(s[i]) => i = 1 \/ i = 2
      BY <2>4
    <3>3. RevokesKey(p, s)
      BY <1>3, <2>1, <2>2, <2>3, <2>4, <3>1, <3>2 DEF RevokesKey
    <3> QED
      BY <1>1, <3>1, <3>3
<1>4. CASE mem[p].key.ref \notin Refs
  <2>1. s \in Seq(Writes) /\ Len(s) = 4
    BY <1>1, <1>2, <1>4 DEF RevokeWrites
  <2>2. /\ s[1] = SetKey([status |-> "revoked", ref |-> mem[p].key.ref])
        /\ s[2] = Note("event")
        /\ s[3] = Note("unregister") /\ s[4] = Note("revoked")
    <3> HIDE DEF SetSecret, SetKey, Note
    <3> QED
      BY <1>2, <1>4 DEF RevokeWrites
  <2>3. todo' = [todo EXCEPT ![p] = s]
    BY DEF Revoke
  <2> HIDE DEF s
  <2>4. ASSUME NEW i \in 1..Len(s)
        PROVE  /\ s[i].op \notin {"register", "reregister"}
               /\ s[i].ref \in {mem[p].key.ref, Env}
               /\ Names(s[i]) => i = 1
    <3>1. i = 1 \/ i = 2 \/ i = 3 \/ i = 4
      BY <2>1
    <3> QED
      BY <2>2, <3>1
  <2> QED
    <3> HIDE DEF SetSecret, SetKey, Note, Writes, Ops, Status, Names
    <3>1. Len(s) \in Nat /\ s \in Seq(Writes)
      BY <2>1
    <3>2. \A i \in 1..Len(s) :
             /\ s[i].op \notin {"register", "reregister"}
             /\ s[i].ref \in {mem[p].key.ref, Env}
             /\ Names(s[i]) => i = 1
      BY <2>4
    <3>3. RevokesKey(p, s)
      <4>1. Len(s) > 3 /\ s[1] = SetKey([status |-> "revoked", ref |-> mem[p].key.ref])
        BY <2>1, <2>2
      <4>2. mem[p].key.ref \in Refs => s[2] = SetSecret(mem[p].key.ref, "revoked")
        BY <1>4
      <4> QED
        BY <2>3, <3>1, <3>2, <4>1, <4>2 DEF RevokesKey
    <3> QED
      BY <1>1, <3>1, <3>3
<1> QED
  BY <1>3, <1>4

\* The head of what a process has to write, and what stays.
LEMMA HeadWrite ==
    ASSUME TodoOK, NEW p \in Procs, todo[p] # <<>>
    PROVE  /\ Len(todo[p]) \in Nat /\ Len(todo[p]) > 0
           /\ Head(todo[p]) = todo[p][1] /\ Head(todo[p]) \in Writes
           /\ Tail(todo[p]) \in Seq(Writes)
           /\ Len(Tail(todo[p])) = Len(todo[p]) - 1
           /\ \A i \in 1..Len(todo[p]) - 1 : Tail(todo[p])[i] = todo[p][i + 1]
<1>1. todo[p] \in Seq(Writes)
  BY DEF TodoOK
<1> QED
  BY <1>1

\* A write that raises leaves the store alone, and at most puts the write in the
\* memory of its process.
LEMMA Failing ==
    ASSUME Base, NEW p \in Procs, Fails(p)
    PROVE  /\ 1 \in Todo(p) /\ todo[p][1] \in Writes
           /\ todo'[p] = <<>> /\ (\A q \in Procs \ {p} : todo'[q] = todo[q])
           /\ cut'[p] /\ (\A q \in Procs \ {p} : cut'[q] = cut[q]) /\ anyCut'
           /\ UNCHANGED <<origin, terms, key, secrets, guard, acl, asks, up, dead, revoked, writers>>
           /\ done'.secrets = done.secrets
           /\ mem' \in [Procs -> Store] /\ \A q \in Procs \ {p} : mem'[q] = mem[q]
           /\ \/ mem' = mem
              \/ /\ todo[p][1].op = "secret" /\ mem'[p].key = mem[p].key
                 /\ mem'[p].secrets = [mem[p].secrets EXCEPT ![todo[p][1].ref] = todo[p][1].status]
              \/ /\ todo[p][1].op = "key" /\ mem'[p].secrets = mem[p].secrets
                 /\ mem'[p].key = [status |-> todo[p][1].status, ref |-> todo[p][1].ref]
<1>1. todo[p] # <<>> /\ todo' = [todo EXCEPT ![p] = <<>>] /\ cut' = [cut EXCEPT ![p] = TRUE]
  BY DEF Fails
<1>2. Len(todo[p]) \in Nat /\ Len(todo[p]) > 0 /\ Head(todo[p]) = todo[p][1]
      /\ Head(todo[p]) \in Writes
  BY <1>1, HeadWrite DEF Base
<1>3. todo \in [Procs -> Seq(Writes)] /\ cut \in [Procs -> BOOLEAN] /\ mem \in [Procs -> Store]
      /\ done \in [secrets : 0..MaxSecrets, revokes : 0..MaxRevokes,
                   failures : 0..MaxFailures, crashes : 0..MaxCrashes]
  BY DEF Base, TodoOK, TypeOK
<1>4. PICK w \in Writes : w = todo[p][1]
  BY <1>2
<1>5. mem' = mem \/ mem' = [mem EXCEPT ![p] = Remembered(mem[p], w)]
  BY <1>2, <1>4 DEF Fails
<1>6. CASE w.op = "secret"
  <2>1. Remembered(mem[p], w) = [mem[p] EXCEPT !.secrets[w.ref] = w.status]
    BY <1>6 DEF Remembered
  <2> DEFINE new == [mem[p].secrets EXCEPT ![w.ref] = w.status]
  <2>a. mem[p] \in Store /\ w.status \in Status
    BY <1>3 DEF Writes
  <2>b. new \in [Refs -> Status]
    BY <2>a DEF Store
  <2>c. mem[p] = [key |-> mem[p].key, secrets |-> mem[p].secrets] /\ mem[p].key \in KeyNode
    BY <2>a DEF Store
  <2>d. [mem[p] EXCEPT !.secrets[w.ref] = w.status] = [key |-> mem[p].key, secrets |-> new]
    BY <2>c
  <2> HIDE DEF new
  <2>e. [key |-> mem[p].key, secrets |-> new] \in Store
    BY <2>b, <2>c DEF Store
  <2>2. /\ Remembered(mem[p], w) = [key |-> mem[p].key, secrets |-> new]
        /\ Remembered(mem[p], w) \in Store
    BY <2>1, <2>d, <2>e
  <2>3. \/ mem' = mem
        \/ /\ mem'[p].key = mem[p].key
           /\ mem'[p].secrets = new
    BY <1>3, <1>5, <2>2
  <2>4. mem' \in [Procs -> Store] /\ \A q \in Procs \ {p} : mem'[q] = mem[q]
    BY <1>3, <1>5, <2>2
  <2> QED
    BY <1>1, <1>2, <1>3, <1>4, <1>6, <2>3, <2>4 DEF Fails, Todo, new
<1>7. CASE w.op = "key"
  <2> DEFINE node == [status |-> w.status, ref |-> w.ref]
  <2>1. Remembered(mem[p], w) = [mem[p] EXCEPT !.key = node]
    BY <1>7 DEF Remembered
  <2>2. node \in KeyNode
    BY <1>7 DEF Writes, KeyNode
  <2> HIDE DEF node
  <2>3. /\ Remembered(mem[p], w) = [key |-> node, secrets |-> mem[p].secrets]
        /\ Remembered(mem[p], w) \in Store
    BY <1>3, <2>1, <2>2 DEF Store
  <2>4. mem' = mem \/ (mem'[p].key = node /\ mem'[p].secrets = mem[p].secrets)
    BY <1>3, <1>5, <2>3
  <2>5. mem' \in [Procs -> Store] /\ \A q \in Procs \ {p} : mem'[q] = mem[q]
    BY <1>3, <1>5, <2>3
  <2> QED
    BY <1>1, <1>2, <1>3, <1>4, <1>7, <2>4, <2>5 DEF Fails, Todo, node
<1>8. CASE w.op \notin {"secret", "key"}
  <2>1. Remembered(mem[p], w) = mem[p]
    BY <1>8 DEF Remembered
  <2>2. mem' = mem
    BY <1>3, <1>5, <2>1
  <2> QED
    BY <1>1, <1>2, <1>3, <2>2 DEF Fails, Todo
<1> QED
  BY <1>6, <1>7, <1>8

\* A step is a step of one process.
LEMMA Actions ==
    ASSUME Next
    PROVE  \E p \in Procs : \/ Making(p) \/ Revoke(p) \/ Write(p) \/ Fails(p)
                            \/ Lookup(p) \/ Crash(p) \/ Start(p)
BY DEF Next, Making

-----------------------------------------------------------------------------
(* Types.                                                                    *)

\* The access terms of the key make a record.
LEMMA RecordTyped ==
    ASSUME terms \in Terms
    PROVE  /\ Record(terms, "") \in AclRecord /\ Record(terms, Administrator) \in AclRecord
           /\ Rehydrated \in AclRecord /\ NoRecord \in AclRecord
<1>1. /\ terms \in [mode : Modes, ns : STRING, principals : SUBSET STRING,
                     groups : SUBSET STRING]
      /\ terms.mode \in Modes /\ terms.ns \in STRING
      /\ terms.principals \in SUBSET STRING /\ terms.groups \in SUBSET STRING
  BY TermsAssumption
<1> DEFINE bare == [terms EXCEPT !.principals = {}, !.groups = {}]
<1>2. /\ bare.mode = terms.mode /\ bare.ns = terms.ns
      /\ bare.principals = {} /\ bare.groups = {}
  BY <1>1
<1> HIDE DEF bare
<1>3. Record(bare, "") \in AclRecord
  BY <1>1, <1>2 DEF Record, AclRecord
<1>4. Record(terms, "") \in AclRecord
  BY <1>1 DEF Record, AclRecord
<1>5. Record(terms, Administrator) \in AclRecord
  BY <1>1 DEF Record, AclRecord
<1>6. NoRecord \in AclRecord
  BY DEF AclRecord
<1> QED
  BY <1>3, <1>4, <1>5, <1>6 DEF Rehydrated, bare

\* Making and revoking leave most alone, and make operators writers.
LEMMA Beginning ==
    ASSUME Base, NEW p \in Procs, Making(p) \/ Revoke(p)
    PROVE  /\ UNCHANGED <<origin, terms, key, secrets, mem, guard, acl, asks, up, dead,
                          revoked, cut, anyCut>>
           /\ up[p] /\ todo[p] = <<>> /\ writers' = writers \cup {p}
           /\ done' \in [secrets : 0..MaxSecrets, revokes : 0..MaxRevokes,
                         failures : 0..MaxFailures, crashes : 0..MaxCrashes]
           /\ done'.secrets >= done.secrets
           /\ Making(p) => NextRef = done.secrets + 1 /\ done'.secrets = NextRef
BY BoundsAssumption DEF Making, Create, Rotate, Revoke, Idle, Base, TypeOK, NextRef, Refs

\* Every step keeps the types.
LEMMA TypeStep ==
    ASSUME Base, [Next]_vars
    PROVE  TypeOK'
<1> USE BoundsAssumption
<1>1. ASSUME NEW p \in Procs, Making(p) \/ Revoke(p)
      PROVE  TypeOK'
  BY <1>1, Beginning DEF Base, TypeOK
<1>2. ASSUME NEW p \in Procs, Write(p)
      PROVE  TypeOK'
  <2> DEFINE w == Head(todo[p])
  <2>1. w \in Writes /\ UNCHANGED <<origin, terms, up, done, cut, anyCut, writers>>
    BY <1>2, HeadWrite DEF Write, Base
  <2> HIDE DEF w
  <2>2. WriteSecret(p, w) \/ WriteKey(p, w) \/ WriteGuard(p, w) \/ WriteRest(p, w)
    BY <1>2 DEF Write, w
  <2>3. CASE WriteSecret(p, w)
    BY <2>1, <2>3 DEF WriteSecret, Writes, Base, TypeOK, Store
  <2>4. CASE WriteKey(p, w)
    BY <2>1, <2>4 DEF WriteKey, Writes, Base, TypeOK, Store, KeyNode
  <2>5. CASE WriteGuard(p, w)
    BY <2>1, <2>5, RecordTyped DEF WriteGuard, Writes, Base, TypeOK, Store, KeyNode
  <2>6. CASE WriteRest(p, w)
    BY <2>1, <2>6 DEF WriteRest, Writes, Base, TypeOK
  <2> QED
    BY <2>2, <2>3, <2>4, <2>5, <2>6
<1>3. ASSUME NEW p \in Procs, Fails(p)
      PROVE  TypeOK'
  <2>1. /\ mem' \in [Procs -> Store]
        /\ UNCHANGED <<origin, terms, key, secrets, guard, acl, asks, up, dead, revoked, writers>>
    BY <1>3, Failing
  <2>2. done' \in [secrets : 0..MaxSecrets, revokes : 0..MaxRevokes,
                  failures : 0..MaxFailures, crashes : 0..MaxCrashes]
    BY <1>3 DEF Fails, Base, TypeOK
  <2>3. cut' \in [Procs -> BOOLEAN] /\ anyCut' \in BOOLEAN
    BY <1>3 DEF Fails, Base, TypeOK
  <2> QED
    BY <2>1, <2>2, <2>3 DEF Base, TypeOK
<1>4. ASSUME NEW p \in Procs, Lookup(p)
      PROVE  TypeOK'
  <2>1. ForwardRef(p) \in Ref \cup {Unregistered}
    BY DEF ForwardRef, Base, TypeOK, Store, KeyNode
  <2> QED
    BY <1>4, <2>1, RecordTyped DEF Lookup, Base, TypeOK
<1>5. ASSUME NEW p \in Procs, Crash(p)
      PROVE  TypeOK'
  BY <1>5 DEF Crash, Base, TypeOK
<1>6. ASSUME NEW p \in Procs, Start(p)
      PROVE  TypeOK'
  <2>1. Durable \in Store /\ key.ref \in Ref
    BY DEF Durable, Store, Base, TypeOK, KeyNode
  <2>2. guard' \in [Procs -> Ref \cup {Unregistered}]
    BY <1>6, <2>1 DEF Start, Base, TypeOK, Ref
  <2>3. acl' \in [Procs -> AclRecord]
    BY <1>6, RecordTyped DEF Start, Base, TypeOK
  <2> QED
    BY <1>6, <2>1, <2>2, <2>3 DEF Start, Base, TypeOK
<1>7. CASE UNCHANGED vars
  BY <1>7 DEF vars, Base, TypeOK
<1> QED
  BY <1>1, <1>2, <1>3, <1>4, <1>5, <1>6, <1>7, Actions

\* What a process has to write after one of its writes.
LEMMA NextWrites ==
    ASSUME Base, NEW p \in Procs, Write(p)
    PROVE  /\ todo' = [todo EXCEPT ![p] = Tail(todo[p])]
           /\ \A q \in Procs \ {p} : todo'[q] = todo[q]
           /\ todo'[p] \in Seq(Writes)
           /\ Len(todo[p]) \in Nat /\ Len(todo[p]) > 0
           /\ Len(todo'[p]) = Len(todo[p]) - 1
           /\ \A i \in 1..Len(todo'[p]) : i + 1 \in Todo(p) /\ todo'[p][i] = todo[p][i + 1]
           /\ todo[p] # <<>> /\ 1 \in Todo(p) /\ todo[p][1] \in Writes
           /\ \/ WriteSecret(p, todo[p][1]) \/ WriteKey(p, todo[p][1])
              \/ WriteGuard(p, todo[p][1]) \/ WriteRest(p, todo[p][1])
           /\ UNCHANGED <<origin, terms, up, done, cut, anyCut, writers>>
<1>1. todo[p] # <<>> /\ todo' = [todo EXCEPT ![p] = Tail(todo[p])]
      /\ UNCHANGED <<origin, terms, up, done, cut, anyCut, writers>>
  BY DEF Write
<1>2. /\ Len(todo[p]) \in Nat /\ Len(todo[p]) > 0
      /\ Head(todo[p]) = todo[p][1] /\ Head(todo[p]) \in Writes
      /\ Tail(todo[p]) \in Seq(Writes)
      /\ Len(Tail(todo[p])) = Len(todo[p]) - 1
      /\ \A i \in 1..Len(todo[p]) - 1 : Tail(todo[p])[i] = todo[p][i + 1]
  BY <1>1, HeadWrite DEF Base
<1>3. todo \in [Procs -> Seq(Writes)]
  BY DEF Base, TodoOK
<1>4. todo'[p] = Tail(todo[p]) /\ \A q \in Procs \ {p} : todo'[q] = todo[q]
  BY <1>1, <1>3
<1>5. \/ WriteSecret(p, todo[p][1]) \/ WriteKey(p, todo[p][1])
      \/ WriteGuard(p, todo[p][1]) \/ WriteRest(p, todo[p][1])
  BY <1>2 DEF Write
<1> QED
  <2>1. \A i \in 1..Len(todo'[p]) : i + 1 \in Todo(p) /\ todo'[p][i] = todo[p][i + 1]
    BY <1>2, <1>4 DEF Todo
  <2>2. 1 \in Todo(p) /\ todo[p][1] \in Writes /\ Len(todo'[p]) = Len(todo[p]) - 1
        /\ todo'[p] \in Seq(Writes)
    BY <1>2, <1>4 DEF Todo
  <2> QED
    BY <1>1, <1>2, <1>4, <1>5, <2>1, <2>2

\* Every step keeps what processes have to write in order.
LEMMA TodoStep ==
    ASSUME Base, [Next]_vars
    PROVE  TodoOK'
<1>0. todo \in [Procs -> Seq(Writes)]
  BY DEF Base, TodoOK
<1>1. ASSUME NEW p \in Procs, Making(p) \/ Revoke(p)
      PROVE  TodoOK'
  <2>1. PICK s \in Seq(Writes) : MakesSecret(p, s) \/ RevokesKey(p, s)
    BY <1>1, MakingWrites, RevokingWrites
  <2>2. todo' = [todo EXCEPT ![p] = s]
    BY <2>1 DEF MakesSecret, RevokesKey
  <2>3. \A i, j \in 1..Len(s) : s[i].op = "key" /\ s[j].op = "key" => i = j
    <3>1. CASE MakesSecret(p, s)
      BY <3>1 DEF MakesSecret, SetSecret, SetKey, Names
    <3>2. CASE RevokesKey(p, s)
      BY <3>2 DEF RevokesKey, SetSecret, SetKey, Names
    <3> QED
      BY <2>1, <3>1, <3>2
  <2>4. up' = up /\ up[p] /\ writers' = writers \cup {p}
    BY <1>1, Beginning
  <2>5. todo'[p] = s /\ \A q \in Procs \ {p} : todo'[q] = todo[q]
    BY <1>0, <2>2
  <2>6. todo' \in [Procs -> Seq(Writes)]
    BY <1>0, <2>2
  <2> QED
    BY <2>3, <2>4, <2>5, <2>6 DEF Base, TodoOK, Todo
<1>2. ASSUME NEW p \in Procs, Write(p)
      PROVE  TodoOK'
  <2>1. todo' \in [Procs -> Seq(Writes)]
    BY <1>0, <1>2, NextWrites
  <2>2. ASSUME NEW q \in Procs, todo'[q] # <<>>
        PROVE  up'[q] /\ q \in writers'
    BY <1>2, <2>2, NextWrites DEF Base, TodoOK
  <2>3. ASSUME NEW q \in Procs, NEW i \in 1..Len(todo'[q]), NEW j \in 1..Len(todo'[q]),
               todo'[q][i].op = "key", todo'[q][j].op = "key"
        PROVE  i = j
    <3>1. CASE q = p
      <4>1. i + 1 \in Todo(p) /\ j + 1 \in Todo(p)
            /\ todo[p][i + 1].op = "key" /\ todo[p][j + 1].op = "key"
        BY <1>2, <2>3, <3>1, NextWrites
      <4>2. i + 1 = j + 1
        BY <4>1 DEF Base, TodoOK
      <4> QED
        BY <4>2
    <3>2. CASE q # p
      BY <1>2, <2>3, <3>2, NextWrites DEF Base, TodoOK, Todo
    <3> QED
      BY <3>1, <3>2
  <2> QED
    BY <2>1, <2>2, <2>3 DEF TodoOK, Todo
<1>3. ASSUME NEW p \in Procs, Fails(p) \/ Crash(p)
      PROVE  TodoOK'
  <2>1. todo' = [todo EXCEPT ![p] = <<>>] /\ writers' = writers
    BY <1>3 DEF Fails, Crash
  <2>2. todo' \in [Procs -> Seq(Writes)]
    BY <1>0, <2>1
  <2>3. \A q \in Procs : q # p => up'[q] = up[q] /\ todo'[q] = todo[q]
    BY <1>3, <1>0 DEF Fails, Crash, Base, TypeOK
  <2>4. todo'[p] = <<>> /\ Len(todo'[p]) = 0
    BY <1>0, <2>1
  <2> QED
    BY <2>1, <2>2, <2>3, <2>4 DEF Base, TodoOK, Todo
<1>4. ASSUME NEW p \in Procs, Lookup(p) \/ Start(p)
      PROVE  TodoOK'
  <2>1. todo' = todo /\ writers' = writers /\ \A q \in Procs : up[q] => up'[q]
    BY <1>4 DEF Lookup, Start, Base, TypeOK
  <2> QED
    BY <2>1 DEF Base, TodoOK, Todo
<1>5. CASE UNCHANGED vars
  BY <1>5 DEF vars, Base, TodoOK, Todo
<1> QED
  BY <1>1, <1>2, <1>3, <1>4, <1>5, Actions

-----------------------------------------------------------------------------
(* Revocation.                                                               *)

\* A revocation a process has been told of is in its memory; whoever has one to
\* finish has written the key, or will first, and writes it active no more.
Gone(p) ==
    /\ dead[p] => mem[p].key.status = "revoked"
    /\ \A i \in Todo(p) :
          /\ Activates(todo[p][i]) => mem[p].key.status # "revoked"
          /\ todo[p][i].op \in {"unregister", "revoked"} =>
                /\ \/ mem[p].key.status = "revoked"
                   \/ \E j \in Todo(p) : j < i /\ Disowns(todo[p][j])
                /\ \A j \in Todo(p) : ~Activates(todo[p][j])

GoneInv == (revoked => key.status = "revoked") /\ \A p \in Procs : Gone(p)

\* A process without anything to write.
LEMMA GoneIdle ==
    ASSUME NEW p \in Procs, todo'[p] = <<>>, dead'[p] => mem'[p].key.status = "revoked"
    PROVE  Gone(p)'
<1>1. Len(todo'[p]) = 0
  OBVIOUS
<1> QED
  BY <1>1 DEF Gone, Todo

\* A process none of whose variables changes.
LEMMA GoneQuiet ==
    ASSUME NEW p \in Procs, Gone(p), todo'[p] = todo[p], dead'[p] = dead[p],
           mem'[p].key = mem[p].key
    PROVE  Gone(p)'
BY DEF Gone, Todo

\* A write.
LEMMA GoneWrite ==
    ASSUME Base, GoneInv, NEW p \in Procs, Write(p)
    PROVE  GoneInv'
<1> DEFINE w == todo[p][1]
<1>1. w \in Writes /\ 1 \in Todo(p)
  BY NextWrites
<1>2. /\ Len(todo'[p]) = Len(todo[p]) - 1 /\ Len(todo[p]) \in Nat
      /\ \A i \in 1..Len(todo'[p]) : i + 1 \in Todo(p) /\ todo'[p][i] = todo[p][i + 1]
  BY NextWrites
<1>3. Gone(p) /\ (revoked => key.status = "revoked")
  BY DEF GoneInv
<1>4. /\ WriteSecret(p, w) \/ WriteKey(p, w) \/ WriteGuard(p, w) \/ WriteRest(p, w)
      /\ \A q \in Procs \ {p} : todo'[q] = todo[q]
  BY NextWrites
<1>5. mem \in [Procs -> Store] /\ dead \in [Procs -> BOOLEAN]
  BY DEF Base, TypeOK
<1> HIDE DEF w
<1>6. ASSUME NEW q \in Procs \ {p}
      PROVE  Gone(q)'
  <2>1. mem'[q] = mem[q] /\ dead'[q] = dead[q]
    BY <1>4, <1>5 DEF WriteSecret, WriteKey, WriteGuard, WriteRest
  <2> QED
    BY <1>4, <2>1, GoneQuiet DEF GoneInv
<1>7. CASE WriteKey(p, w)
  <2>1. /\ mem'[p].key.status = w.status /\ dead' = dead
        /\ w.op = "key" /\ key'.status = w.status /\ revoked' = (revoked /\ w.status = "revoked")
    BY <1>5, <1>7 DEF WriteKey
  <2>2. w.status \in {"active", "revoked"}
    BY <1>1, <2>1 DEF Writes
  <2>3. CASE w.status = "active"
    <3>1. Activates(w) /\ mem[p].key.status # "revoked" /\ ~dead[p]
      BY <1>1, <1>3, <2>1, <2>3 DEF Gone, Activates, w
    <3>2. \A i \in Todo(p) : todo[p][i].op \notin {"unregister", "revoked"}
      BY <1>1, <1>3, <3>1 DEF Gone, w
    <3> QED
      <4>1. ASSUME NEW i \in 1..Len(todo'[p])
            PROVE  todo'[p][i].op \notin {"unregister", "revoked"}
        BY <1>2, <3>2
      <4>2. Gone(p)'
        BY <2>1, <2>3, <3>1, <4>1 DEF Gone, Todo
      <4>3. revoked' => key'.status = "revoked"
        BY <2>1, <2>3
      <4> QED
        BY <1>6, <4>2, <4>3 DEF GoneInv
  <2>4. CASE w.status = "revoked"
    <3>1. \A i \in Todo(p) : i # 1 => ~Activates(todo[p][i])
      BY <1>1, <2>1 DEF Base, TodoOK, Activates, w
    <3>2. \A i \in 1..Len(todo'[p]) : ~Activates(todo'[p][i])
      BY <1>2, <3>1
    <3>3. Gone(p)'
      BY <2>1, <2>4, <3>2 DEF Gone, Todo
    <3> QED
      BY <2>1, <2>4, <3>3, <1>6 DEF GoneInv
  <2> QED
    BY <2>2, <2>3, <2>4
<1>8. CASE WriteSecret(p, w) \/ WriteGuard(p, w) \/ WriteRest(p, w)
  <2>1. mem'[p].key = mem[p].key /\ key' = key /\ w.op # "key"
    BY <1>5, <1>8 DEF WriteSecret, WriteGuard, WriteRest, Store
  <2>2. dead'[p] => mem'[p].key.status = "revoked"
    <3>1. CASE WriteRest(p, w) /\ w.op = "revoked"
      BY <1>1, <1>3, <2>1, <3>1 DEF Gone, Todo, w
    <3>2. CASE ~(WriteRest(p, w) /\ w.op = "revoked")
      BY <1>3, <1>5, <1>8, <2>1, <3>2 DEF Gone, WriteSecret, WriteGuard, WriteRest
    <3> QED
      BY <3>1, <3>2
  <2>3. revoked' => key'.status = "revoked"
    BY <1>3, <1>8, <2>1 DEF WriteSecret, WriteGuard, WriteRest
  <2>4. ASSUME NEW i \in 1..Len(todo'[p])
        PROVE  /\ Activates(todo'[p][i]) => mem'[p].key.status # "revoked"
               /\ todo'[p][i].op \in {"unregister", "revoked"} =>
                     /\ \/ mem'[p].key.status = "revoked"
                        \/ \E j \in 1..Len(todo'[p]) : j < i /\ Disowns(todo'[p][j])
                     /\ \A j \in 1..Len(todo'[p]) : ~Activates(todo'[p][j])
    <3>1. i + 1 \in Todo(p) /\ todo'[p][i] = todo[p][i + 1]
      BY <1>2
    <3>2. Activates(todo'[p][i]) => mem'[p].key.status # "revoked"
      BY <1>3, <2>1, <3>1 DEF Gone
    <3>3. ASSUME todo'[p][i].op \in {"unregister", "revoked"}
          PROVE  \A j \in 1..Len(todo'[p]) : ~Activates(todo'[p][j])
      BY <1>2, <1>3, <3>1, <3>3 DEF Gone
    <3>4. ASSUME todo'[p][i].op \in {"unregister", "revoked"}, mem'[p].key.status # "revoked"
          PROVE  \E j \in 1..Len(todo'[p]) : j < i /\ Disowns(todo'[p][j])
      <4>1. PICK k \in Todo(p) : k < i + 1 /\ Disowns(todo[p][k])
        BY <1>3, <2>1, <3>1, <3>4 DEF Gone
      <4>2. k # 1
        BY <2>1, <4>1 DEF Disowns, w
      <4>3. k - 1 \in 1..Len(todo'[p]) /\ todo'[p][k - 1] = todo[p][k] /\ k - 1 < i
        <5>1. k - 1 \in 1..Len(todo'[p])
          BY <1>2, <4>1, <4>2 DEF Todo
        <5>2. todo'[p][k - 1] = todo[p][(k - 1) + 1]
          BY <1>2, <5>1
        <5> QED
          BY <4>1, <5>1, <5>2 DEF Todo
      <4> QED
        BY <4>1, <4>3
    <3> QED
      BY <3>2, <3>3, <3>4
  <2>5. Gone(p)'
    BY <2>2, <2>4 DEF Gone, Todo
  <2> QED
    BY <2>3, <2>5, <1>6 DEF GoneInv
<1> QED
  BY <1>4, <1>7, <1>8

\* Every step keeps what processes know of revocations.
LEMMA GoneStep ==
    ASSUME Base, GoneInv, [Next]_vars
    PROVE  GoneInv'
<1>0. /\ todo \in [Procs -> Seq(Writes)] /\ mem \in [Procs -> Store]
      /\ dead \in [Procs -> BOOLEAN]
      /\ (revoked => key.status = "revoked") /\ \A q \in Procs : Gone(q)
  BY DEF GoneInv, Base, TodoOK, TypeOK
<1>1. ASSUME NEW p \in Procs, Making(p)
      PROVE  GoneInv'
  <2>1. PICK s \in Seq(Writes) : MakesSecret(p, s)
    BY <1>1, MakingWrites
  <2>2. mem[p].key.status # "revoked"
    BY <1>1 DEF Making, Create, Rotate
  <2>3. todo'[p] = s /\ (\A q \in Procs \ {p} : todo'[q] = todo[q])
        /\ UNCHANGED <<mem, dead, revoked, key>>
    BY <1>0, <1>1, <2>1, Beginning DEF MakesSecret
  <2>4. \A i \in 1..Len(s) : s[i].op \notin {"unregister", "revoked"}
    BY <2>1 DEF MakesSecret
  <2>5. Gone(p)'
    BY <1>0, <2>2, <2>3, <2>4 DEF Gone, Todo
  <2>6. \A q \in Procs \ {p} : Gone(q)'
    BY <1>0, <2>3, GoneQuiet
  <2> QED
    BY <1>0, <2>3, <2>5, <2>6 DEF GoneInv
<1>2. ASSUME NEW p \in Procs, Revoke(p)
      PROVE  GoneInv'
  <2>1. PICK s \in Seq(Writes) : RevokesKey(p, s)
    BY <1>2, RevokingWrites
  <2>2. todo'[p] = s /\ (\A q \in Procs \ {p} : todo'[q] = todo[q])
        /\ UNCHANGED <<mem, dead, revoked, key>>
    BY <1>0, <1>2, <2>1, Beginning DEF RevokesKey
  <2>3. \A i \in 1..Len(s) : ~Activates(s[i])
    BY <2>1 DEF RevokesKey, Activates, Names, SetKey, SetSecret
  <2>4. Disowns(s[1]) /\ s[1].op = "key" /\ 1 \in 1..Len(s)
    BY <2>1 DEF RevokesKey, Disowns, SetKey
  <2>5. \A i \in 1..Len(s) : s[i].op \in {"unregister", "revoked"} => 1 < i
    BY <2>4
  <2>6. Gone(p)'
    BY <1>0, <2>2, <2>3, <2>4, <2>5 DEF Gone, Todo
  <2>7. \A q \in Procs \ {p} : Gone(q)'
    BY <1>0, <2>2, GoneQuiet
  <2> QED
    BY <1>0, <2>2, <2>6, <2>7 DEF GoneInv
<1>3. ASSUME NEW p \in Procs, Fails(p) \/ Crash(p)
      PROVE  GoneInv'
  <2>1. todo'[p] = <<>> /\ (\A q \in Procs \ {p} : todo'[q] = todo[q] /\ mem'[q] = mem[q])
        /\ UNCHANGED <<dead, revoked, key>>
    BY <1>0, <1>3, Failing DEF Crash
  <2>2. dead'[p] => mem'[p].key.status = "revoked"
    <3>1. CASE Crash(p)
      BY <1>0, <3>1 DEF Crash, Gone
    <3>2. CASE Fails(p)
      <4>1. /\ 1 \in Todo(p) /\ todo[p][1] \in Writes
            /\ \/ mem'[p].key = mem[p].key
               \/ /\ todo[p][1].op = "key"
                  /\ mem'[p].key = [status |-> todo[p][1].status, ref |-> todo[p][1].ref]
        BY <3>2, Failing
      <4>2. Activates(todo[p][1]) => mem[p].key.status # "revoked"
        BY <1>0, <4>1 DEF Gone
      <4> QED
        BY <1>0, <2>1, <4>1, <4>2 DEF Gone, Activates, Writes
    <3> QED
      BY <1>3, <3>1, <3>2
  <2>3. Gone(p)' /\ \A q \in Procs \ {p} : Gone(q)'
    BY <1>0, <2>1, <2>2, GoneIdle, GoneQuiet
  <2> QED
    BY <1>0, <2>1, <2>3 DEF GoneInv
<1>4. ASSUME NEW p \in Procs, Start(p)
      PROVE  GoneInv'
  <2>1. todo[p] = <<>> /\ todo' = todo /\ UNCHANGED <<revoked, key>>
        /\ mem'[p] = Durable /\ dead'[p] = revoked
        /\ \A q \in Procs \ {p} : mem'[q] = mem[q] /\ dead'[q] = dead[q]
    BY <1>0, <1>4 DEF Start, Base, TodoOK
  <2>2. Gone(p)'
    BY <1>0, <2>1, GoneIdle DEF Durable
  <2>3. \A q \in Procs \ {p} : Gone(q)'
    BY <1>0, <2>1, GoneQuiet
  <2> QED
    BY <1>0, <2>1, <2>2, <2>3 DEF GoneInv
<1>5. ASSUME NEW p \in Procs, Lookup(p)
      PROVE  GoneInv'
  BY <1>5 DEF Lookup, GoneInv, Gone, Todo
<1>6. CASE UNCHANGED vars
  BY <1>6 DEF vars, GoneInv, Gone, Todo
<1> QED
  BY <1>1, <1>2, <1>3, <1>4, <1>5, <1>6, GoneWrite, Actions

-----------------------------------------------------------------------------
(* Access terms.                                                             *)

\* A process asks for approval of a policy file's key unless it has changed it,
\* a registered key has a record with its terms, and only a revocation takes a
\* policy file's key from a guard.
TermsInv ==
    \A p \in Procs :
       /\ origin = "runtime" => ~asks[p]
       /\ origin = "policy" => asks[p] \/ p \in writers
       /\ guard[p] # Unregistered => acl[p] \in {Record(terms, ""), Record(terms, Administrator)}
       /\ origin = "policy" =>
             /\ mem[p].key.status # "absent" /\ key.status # "absent"
             /\ guard[p] = Unregistered => mem[p].key.status = "revoked"

\* Every step keeps what processes know of the terms.
LEMMA TermsStep ==
    ASSUME Base, GoneInv, TermsInv, [Next]_vars
    PROVE  TermsInv'
<1>0. /\ mem \in [Procs -> Store] /\ guard \in [Procs -> Ref \cup {Unregistered}]
      /\ acl \in [Procs -> AclRecord] /\ asks \in [Procs -> BOOLEAN]
      /\ Unregistered \notin Ref /\ origin \in {"runtime", "policy"}
  BY OriginsAssumption DEF Base, TypeOK, Ref, Refs, Unregistered, Env
<1>1. ASSUME NEW p \in Procs, Making(p) \/ Revoke(p)
      PROVE  TermsInv'
  BY <1>1, Beginning DEF TermsInv, Record
<1>2. ASSUME NEW p \in Procs, Write(p)
      PROVE  TermsInv'
  <2> DEFINE w == todo[p][1]
  <2>1. /\ w \in Writes /\ 1 \in Todo(p) /\ p \in writers
        /\ UNCHANGED <<origin, terms, writers>>
        /\ WriteSecret(p, w) \/ WriteKey(p, w) \/ WriteGuard(p, w) \/ WriteRest(p, w)
    BY <1>2, NextWrites DEF Base, TodoOK
  <2>2. w.op = "unregister" => mem[p].key.status = "revoked"
    BY <2>1 DEF GoneInv, Gone, Todo
  <2>3. Activates(w) => mem[p].key.status # "revoked"
    BY <2>1 DEF GoneInv, Gone
  <2> HIDE DEF w
  <2>4. CASE WriteSecret(p, w) \/ WriteRest(p, w)
    <3>1. key' = key /\ UNCHANGED <<guard, acl, asks>>
          /\ \A q \in Procs : mem'[q].key = mem[q].key
      <4>1. CASE WriteSecret(p, w)
        BY <1>0, <4>1 DEF WriteSecret, Store
      <4>2. CASE WriteRest(p, w)
        BY <4>2 DEF WriteRest
      <4> QED
        BY <2>4, <4>1, <4>2
    <3> QED
      BY <2>1, <3>1 DEF TermsInv, Record
  <2>5. CASE WriteKey(p, w)
    <3>1. /\ UNCHANGED <<guard, acl, asks>> /\ key'.status = w.status
          /\ w.status \in {"active", "revoked"}
          /\ mem'[p].key.status = w.status
          /\ \A q \in Procs \ {p} : mem'[q] = mem[q]
      BY <1>0, <2>1, <2>5 DEF WriteKey, Writes
    <3>2. origin = "policy" /\ guard[p] = Unregistered => w.status = "revoked"
      BY <2>3, <2>5, <3>1 DEF TermsInv, Activates, WriteKey
    <3> QED
      BY <2>1, <3>1, <3>2 DEF TermsInv, Record
  <2>6. CASE WriteGuard(p, w)
    <3>1. /\ UNCHANGED <<key, mem>>
          /\ \A q \in Procs \ {p} : guard'[q] = guard[q] /\ acl'[q] = acl[q] /\ asks'[q] = asks[q]
      BY <1>0, <2>6 DEF WriteGuard
    <3>2. asks'[p] => asks[p]
      BY <1>0, <2>6 DEF WriteGuard
    <3>3. mem[p].key.ref \in Ref
      BY <1>0 DEF Store, KeyNode
    <3>4. guard'[p] = Unregistered => w.op = "unregister" \/ guard[p] = Unregistered
      BY <1>0, <2>6, <3>3 DEF WriteGuard
    <3>5. guard'[p] # Unregistered =>
             acl'[p] = Record(terms, Administrator) \/ (guard[p] # Unregistered /\ acl'[p] = acl[p])
      BY <1>0, <2>6 DEF WriteGuard
    <3> QED
      BY <2>1, <2>2, <3>1, <3>2, <3>4, <3>5 DEF TermsInv, Record
  <2> QED
    BY <2>1, <2>4, <2>5, <2>6
<1>3. ASSUME NEW p \in Procs, Fails(p) \/ Crash(p)
      PROVE  TermsInv'
  <2>1. CASE Crash(p)
    BY <2>1 DEF Crash, TermsInv, Record
  <2>2. CASE Fails(p)
    <3>1. /\ UNCHANGED <<origin, terms, key, guard, acl, asks, writers>>
          /\ 1 \in Todo(p) /\ todo[p][1] \in Writes
          /\ \A q \in Procs \ {p} : mem'[q] = mem[q]
          /\ \/ mem'[p].key = mem[p].key
             \/ /\ todo[p][1].op = "key"
                /\ mem'[p].key = [status |-> todo[p][1].status, ref |-> todo[p][1].ref]
      BY <2>2, Failing
    <3>2. Activates(todo[p][1]) => mem[p].key.status # "revoked"
      BY <3>1 DEF GoneInv, Gone
    <3>3. origin = "policy" => /\ mem'[p].key.status # "absent"
                               /\ guard[p] = Unregistered => mem'[p].key.status = "revoked"
      <4>1. CASE mem'[p].key = mem[p].key
        BY <4>1 DEF TermsInv
      <4>2. CASE todo[p][1].op = "key" /\ mem'[p].key.status = todo[p][1].status
        <5>1. todo[p][1].status \in {"active", "revoked"}
          BY <3>1, <4>2 DEF Writes
        <5>2. todo[p][1].status = "active" => mem[p].key.status # "revoked"
          BY <3>2, <4>2 DEF Activates
        <5> QED
          BY <4>2, <5>1, <5>2 DEF TermsInv
      <4> QED
        BY <3>1, <4>1, <4>2
    <3> QED
      BY <3>1, <3>3 DEF TermsInv, Record
  <2> QED
    BY <1>3, <2>1, <2>2
<1>4. ASSUME NEW p \in Procs, Lookup(p)
      PROVE  TermsInv'
  <2>1. /\ guard[p] = Unregistered /\ mem[p].key.status = "active"
        /\ UNCHANGED <<origin, terms, key, mem, writers>>
        /\ \A q \in Procs \ {p} : guard'[q] = guard[q] /\ acl'[q] = acl[q] /\ asks'[q] = asks[q]
    BY <1>0, <1>4 DEF Lookup, Registrable
  <2>2. origin = "runtime"
    BY <1>0, <2>1 DEF TermsInv
  <2>3. acl'[p] = Record(terms, "") /\ asks'[p] = FALSE
    BY <1>0, <1>4, <2>2 DEF Lookup, Rehydrated
  <2> QED
    BY <2>1, <2>2, <2>3 DEF TermsInv, Record
<1>5. ASSUME NEW p \in Procs, Start(p)
      PROVE  TermsInv'
  <2>1. /\ UNCHANGED <<origin, terms, key, writers>> /\ mem'[p].key = key
        /\ \A q \in Procs \ {p} : guard'[q] = guard[q] /\ acl'[q] = acl[q] /\ asks'[q] = asks[q]
                                  /\ mem'[q] = mem[q]
    BY <1>0, <1>5 DEF Start, Durable
  <2>2. asks'[p] = (origin = "policy")
    BY <1>0, <1>5 DEF Start
  <2>3. /\ key.ref \in Ref /\ Env \in Ref
        /\ guard'[p] = IF Registrable(Durable) THEN key.ref
                       ELSE IF origin = "policy" THEN Env ELSE Unregistered
        /\ acl'[p] = IF origin = "policy" THEN Record(terms, "")
                     ELSE IF Registrable(Durable) THEN Rehydrated ELSE NoRecord
    BY <1>0, <1>5 DEF Start, Base, TypeOK, KeyNode, Ref
  <2>4. origin = "policy" => guard'[p] # Unregistered
    BY <1>0, <2>3
  <2>5. guard'[p] # Unregistered => acl'[p] = Record(terms, "")
    BY <1>0, <2>3 DEF Rehydrated
  <2> QED
    BY <2>1, <2>2, <2>4, <2>5 DEF TermsInv, Record
<1>6. CASE UNCHANGED vars
  BY <1>6 DEF vars, TermsInv, Record
<1> QED
  BY <1>1, <1>2, <1>3, <1>4, <1>5, <1>6, Actions

-----------------------------------------------------------------------------
(* Theorems about revocation and terms.                                      *)

IInv == Base /\ GoneInv /\ TermsInv

\* The key starts with the invariant.
LEMMA InitHolds == Init => IInv
<1> SUFFICES ASSUME Init PROVE IInv
  OBVIOUS
<1>1. TypeOK
  <2>1. key \in KeyNode /\ secrets \in [Refs -> Status]
    BY DEF Init, KeyNode, Ref, Status
  <2>2. mem \in [Procs -> Store]
    BY <2>1 DEF Init, Durable, Store
  <2>3. acl \in [Procs -> AclRecord] /\ origin \in Origins /\ terms \in Terms
    BY RecordTyped DEF Init
  <2>4. guard \in [Procs -> Ref \cup {Unregistered}]
    BY DEF Init, Ref
  <2>5. done \in [secrets : 0..MaxSecrets, revokes : 0..MaxRevokes,
                  failures : 0..MaxFailures, crashes : 0..MaxCrashes]
    <3>1. MaxSecrets \in Nat /\ MaxRevokes \in Nat /\ MaxFailures \in Nat /\ MaxCrashes \in Nat
      BY BoundsAssumption
    <3>2. done = [secrets |-> 0, revokes |-> 0, failures |-> 0, crashes |-> 0]
      BY DEF Init
    <3> QED
      BY <3>1, <3>2
  <2> QED
    BY <2>1, <2>2, <2>3, <2>4, <2>5 DEF Init, TypeOK
<1>2. \A p \in Procs : todo[p] = <<>> /\ Len(todo[p]) = 0 /\ Todo(p) = {}
  <2>1. Len(<<>>) = 0 /\ 1..0 = {}
    OBVIOUS
  <2> QED
    BY <2>1 DEF Init, Todo
<1>3. TodoOK
  <2>1. todo \in [Procs -> Seq(Writes)]
    <3>1. <<>> \in Seq(Writes)
      OBVIOUS
    <3>2. todo = [p \in Procs |-> <<>>]
      BY DEF Init
    <3> QED
      BY <3>1, <3>2
  <2> QED
    BY <1>2, <2>1 DEF TodoOK
<1>4. GoneInv
  BY <1>2 DEF Init, GoneInv, Gone
<1>5. TermsInv
  <2>1. \A p \in Procs : mem[p].key.status = IF origin = "policy" THEN "active" ELSE "absent"
    BY DEF Init, Durable
  <2>2. key.status = IF origin = "policy" THEN "active" ELSE "absent"
    BY DEF Init
  <2> QED
    <3>1. ASSUME NEW p \in Procs
          PROVE  /\ origin = "policy" => asks[p]
                 /\ origin = "runtime" => ~asks[p]
                 /\ origin = "policy" => guard[p] # Unregistered
                 /\ guard[p] # Unregistered => acl[p] = Record(terms, "")
      <4>1. asks[p] = (origin = "policy")
        BY DEF Init
      <4>2. origin = "policy" => guard[p] # Unregistered
        <5>1. origin = "policy" => guard[p] = Env
          BY DEF Init
        <5>2. Env # Unregistered
          BY DEF Env, Unregistered
        <5> QED
          BY <5>1, <5>2
      <4>3. guard[p] # Unregistered => acl[p] = Record(terms, "")
        BY DEF Init
      <4>4. origin = "runtime" => origin # "policy"
        OBVIOUS
      <4> QED
        BY <4>1, <4>2, <4>3, <4>4, Zenon
    <3> QED
      BY <2>1, <2>2, <3>1 DEF TermsInv
<1> QED
  BY <1>1, <1>3, <1>4, <1>5 DEF IInv, Base

\* The invariant holds in every reachable state.
THEOREM InvCorrect == Spec => []IInv
<1>1. IInv /\ [Next]_vars => IInv'
  BY TypeStep, TodoStep, GoneStep, TermsStep DEF IInv, Base
<1> QED
  BY InitHolds, <1>1, PTL DEF Spec

\* Every variable keeps its type, and no bound is passed (key_manager.py:29).
THEOREM TypeCorrect == Spec => []TypeOK
<1>1. IInv => TypeOK
  BY DEF IInv, Base
<1> QED
  BY InvCorrect, <1>1, PTL

\* A revocation that a process has been told of holds in it, whatever the other
\* processes do to the key (key_manager.py:132).
THEOREM RevokedCorrect == Spec => []RevokedIsDead
<1>1. IInv => RevokedIsDead
  BY DEF IInv, GoneInv, Gone, RevokedIsDead, Serves, Listed
<1> QED
  BY InvCorrect, <1>1, PTL

\* Every process decides as the key's terms say, whether it made the key, found
\* it in the graph or was restarted (core.py:104, gateway.py:390).
THEOREM TermsCorrect == Spec => []TermsHold
<1>1. ASSUME IInv, NEW p \in Procs, NEW c \in Callers, guard[p] # Unregistered
      PROVE  \/ Decision(p, c) = Due(c)
             \/ p \in writers /\ Decision(p, c) = "allowed" /\ Due(c) = "approval"
  <2>1. c.id # Administrator /\ c.id # ""
    BY CallersAssumption
  <2>2. acl[p] = Record(terms, "") \/ acl[p] = Record(terms, Administrator)
    BY <1>1 DEF IInv, TermsInv
  <2>3. Visible(Record(terms, Administrator), c) <=> Visible(Record(terms, ""), c)
    BY <2>1 DEF Visible, Record
  <2>4. Permitted(p, c) <=> Visible(Record(terms, ""), c)
    BY <2>2, <2>3 DEF Permitted
  <2>5. /\ origin = "runtime" => ~asks[p]
        /\ origin = "policy" => asks[p] \/ p \in writers
        /\ origin \in {"runtime", "policy"}
    BY <1>1, OriginsAssumption DEF IInv, Base, TypeOK, TermsInv
  <2> QED
    BY <1>1, <2>4, <2>5 DEF Decision, Due
<1>2. IInv => TermsHold
  BY <1>1 DEF TermsHold
<1> QED
  BY InvCorrect, <1>2, PTL

-----------------------------------------------------------------------------
(* Secrets.                                                                  *)

\* No number is used that was not given out.
NumbersInv ==
    /\ key.ref <= done.secrets
    /\ \A p \in Procs : /\ mem[p].key.ref <= done.secrets
                        /\ \A i \in Todo(p) : todo[p][i].ref <= done.secrets

\* The secret a process will make the key's: no node names it and nobody else
\* will write it, and it can be used or will be before.
Fresh(p, i) ==
    LET r == todo[p][i].ref IN
    /\ r # Env /\ key.ref # r /\ \A q \in Procs : mem[q].key.ref # r
    /\ \A q \in Procs : \A j \in Todo(q) :
          Names(todo[q][j]) /\ todo[q][j].ref = r =>
             q = p /\ (j = i \/ Makes(todo[q][j]))
    /\ \/ secrets[r] = "active"
       \/ \E j \in Todo(p) : j < i /\ Makes(todo[p][j]) /\ todo[p][j].ref = r

FreshInv == \A p \in Procs : \A i \in Todo(p) : Activates(todo[p][i]) => Fresh(p, i)

\* The secret a process will retire: the key is revoked, or names another one, or
\* will before.
Passed(p, i) ==
    \/ key.status = "revoked"
    \/ key.ref # todo[p][i].ref
    \/ \E j \in Todo(p) :
          /\ j < i /\ todo[p][j].op = "key"
          /\ Disowns(todo[p][j]) \/ todo[p][j].ref # todo[p][i].ref

RetireInv == \A p \in Procs : \A i \in Todo(p) : Retires(todo[p][i]) => Passed(p, i)

KeptInv == NumbersInv /\ FreshInv /\ RetireInv /\ SecretUsable

\* Where a write of a process is after it has made one, and where it was before.
Before(p, q, i) == IF q = p THEN i + 1 ELSE i
After(p, q, i) == IF q = p THEN i - 1 ELSE i

LEMMA Shift ==
    ASSUME Base, NEW p \in Procs, Write(p), NEW q \in Procs, NEW i \in 1..Len(todo'[q])
    PROVE  /\ Before(p, q, i) \in Todo(q)
           /\ todo'[q][i] = todo[q][Before(p, q, i)]
<1>1. CASE q = p
  BY <1>1, NextWrites DEF Before
<1>2. CASE q # p
  BY <1>2, NextWrites DEF Before, Todo
<1> QED
  BY <1>1, <1>2

LEMMA Unshift ==
    ASSUME Base, NEW p \in Procs, Write(p), NEW q \in Procs, NEW i \in Todo(q), q = p => i # 1
    PROVE  /\ After(p, q, i) \in 1..Len(todo'[q])
           /\ todo'[q][After(p, q, i)] = todo[q][i]
<1>1. CASE q = p
  <2>1. i - 1 \in 1..Len(todo'[p]) /\ (i - 1) + 1 = i
    BY <1>1, NextWrites DEF Todo
  <2>2. todo'[p][i - 1] = todo[p][(i - 1) + 1]
    BY <2>1, NextWrites
  <2> QED
    BY <1>1, <2>1, <2>2 DEF After
<1>2. CASE q # p
  BY <1>2, NextWrites DEF After, Todo
<1> QED
  BY <1>1, <1>2

\* A write changes the key only if it is one of the key, and a secret's status
\* only if it is one of that secret.
Effect(p, w) ==
    /\ w.op = "key" => /\ key' = [status |-> w.status, ref |-> w.ref]
                       /\ mem'[p].key = [status |-> w.status, ref |-> w.ref]
                       /\ mem'[p].secrets = mem[p].secrets
                       /\ secrets' = secrets
    /\ w.op # "key" => key' = key /\ mem'[p].key = mem[p].key
    /\ w.op = "secret" =>
          /\ \A r \in Refs : secrets'[r] = IF r = w.ref THEN w.status ELSE secrets[r]
          /\ mem[p].secrets = secrets => mem'[p].secrets = secrets'
    /\ w.op # "secret" => secrets' = secrets /\ mem'[p].secrets = mem[p].secrets
    /\ \A q \in Procs \ {p} : mem'[q] = mem[q]
    /\ mem' \in [Procs -> Store]

LEMMA WriteEffect ==
    ASSUME Base, NEW p \in Procs, Write(p)
    PROVE  /\ Effect(p, todo[p][1]) /\ todo[p][1] \in Writes
           /\ 1 \in Todo(p) /\ p \in writers
<1> DEFINE w == todo[p][1]
<1>1. /\ w \in Writes /\ 1 \in Todo(p) /\ p \in writers
      /\ WriteSecret(p, w) \/ WriteKey(p, w) \/ WriteGuard(p, w) \/ WriteRest(p, w)
  BY NextWrites DEF Base, TodoOK
<1> HIDE DEF w
<1>2. mem \in [Procs -> Store] /\ secrets \in [Refs -> Status]
  BY DEF Base, TypeOK
<1>3. TypeOK'
  <2>1. Next
    BY DEF Next
  <2> QED
    BY <2>1, TypeStep
<1>4. mem' \in [Procs -> Store]
  BY <1>3 DEF TypeOK
<1>5. ASSUME WriteSecret(p, w)
      PROVE  Effect(p, w)
  <2>1. w.op = "secret" /\ key' = key /\ secrets' = [secrets EXCEPT ![w.ref] = w.status]
        /\ mem' = [mem EXCEPT ![p].secrets[w.ref] = w.status]
    BY <1>5 DEF WriteSecret
  <2>2. mem'[p].key = mem[p].key
        /\ mem'[p].secrets = [mem[p].secrets EXCEPT ![w.ref] = w.status]
        /\ \A q \in Procs \ {p} : mem'[q] = mem[q]
    BY <1>2, <2>1 DEF Store
  <2> QED
    BY <1>1, <1>2, <1>4, <2>1, <2>2 DEF Effect
<1>6. ASSUME WriteKey(p, w)
      PROVE  Effect(p, w)
  BY <1>1, <1>2, <1>4, <1>6 DEF WriteKey, Store, Effect
<1>7. ASSUME WriteGuard(p, w) \/ WriteRest(p, w)
      PROVE  Effect(p, w)
  BY <1>1, <1>4, <1>7 DEF WriteGuard, WriteRest, Effect
<1> QED
  BY <1>1, <1>5, <1>6, <1>7 DEF w

\* Nothing that the secrets depend on changes, but that a process forgets what it
\* had to write.
LEMMA KeptQuiet ==
    ASSUME Base, KeptInv,
           UNCHANGED <<key, secrets>>, done'.secrets = done.secrets,
           \A q \in Procs : mem'[q].key = mem[q].key \/ mem'[q].key = key,
           \A q \in Procs : todo'[q] = todo[q] \/ todo'[q] = <<>>
    PROVE  KeptInv'
<1>1. \A q \in Procs : \A i \in 1..Len(todo'[q]) : i \in Todo(q) /\ todo'[q] = todo[q]
  <2>1. \A q \in Procs : todo'[q] = <<>> => Len(todo'[q]) = 0
    OBVIOUS
  <2> QED
    BY <2>1 DEF Todo
<1>2. NumbersInv'
  BY <1>1 DEF KeptInv, NumbersInv, Todo
<1>3. ASSUME NEW p \in Procs, NEW i \in 1..Len(todo'[p]), Activates(todo'[p][i])
      PROVE  Fresh(p, i)'
  <2>1. Fresh(p, i) /\ todo'[p] = todo[p]
    BY <1>1, <1>3 DEF KeptInv, FreshInv
  <2> QED
    BY <1>1, <2>1 DEF Fresh, Todo
<1>4. ASSUME NEW p \in Procs, NEW i \in 1..Len(todo'[p]), Retires(todo'[p][i])
      PROVE  Passed(p, i)'
  BY <1>1, <1>4 DEF KeptInv, RetireInv, Passed, Todo
<1>5. SecretUsable'
  BY DEF KeptInv, SecretUsable
<1> QED
  BY <1>2, <1>3, <1>4, <1>5 DEF KeptInv, FreshInv, RetireInv, Todo

\* An operation begins.
LEMMA KeptBegin ==
    ASSUME Base, KeptInv, NEW p \in Procs, Making(p) \/ Revoke(p)
    PROVE  KeptInv'
<1>0. /\ UNCHANGED <<key, secrets, mem>> /\ done.secrets \in Nat /\ done'.secrets \in Nat
      /\ done'.secrets >= done.secrets
      /\ Making(p) => NextRef = done.secrets + 1 /\ done'.secrets = NextRef
      /\ todo \in [Procs -> Seq(Writes)] /\ \A q \in Procs : mem[q].key.ref \in Int
      /\ key.ref \in Int
  <2>1. \A x \in Ref : x \in Int
    BY BoundsAssumption DEF Ref, Refs, Env
  <2>2. done.secrets \in Nat
    BY BoundsAssumption DEF Base, TypeOK
  <2>3. done'.secrets \in Nat
    BY BoundsAssumption, Beginning
  <2> QED
    BY <2>1, <2>2, <2>3, Beginning DEF Base, TypeOK, TodoOK, Store, KeyNode
<1>1. PICK s \in Seq(Writes) : (Making(p) /\ MakesSecret(p, s)) \/ RevokesKey(p, s)
  BY MakingWrites, RevokingWrites
<1>2. todo'[p] = s /\ \A q \in Procs \ {p} : todo'[q] = todo[q]
  BY <1>0, <1>1 DEF MakesSecret, RevokesKey
<1>3. \A w \in Writes : w.ref \in Int
  BY BoundsAssumption DEF Writes, Ref, Refs, Env
<1>4. \A q \in Procs : \A i \in Todo(q) : todo[q][i].ref \in Int
  BY <1>0, <1>3 DEF Todo
<1>5. \A i \in 1..Len(s) : Names(s[i]) =>
         s[i].ref = mem[p].key.ref \/ (Making(p) /\ s[i].ref = NextRef)
  <2>1. ASSUME MakesSecret(p, s), Making(p), NEW i \in 1..Len(s), Names(s[i])
        PROVE  s[i].ref = mem[p].key.ref \/ s[i].ref = NextRef
    <3>1. i = 1 \/ i = 3 \/ (i = 5 /\ s[5] = SetSecret(mem[p].key.ref, "rotated"))
      BY <2>1 DEF MakesSecret
    <3>2. s[1].ref = NextRef /\ s[3].ref = NextRef
      BY <2>1 DEF MakesSecret, SetSecret, SetKey
    <3> QED
      BY <3>1, <3>2 DEF SetSecret
  <2>2. ASSUME RevokesKey(p, s), NEW i \in 1..Len(s), Names(s[i])
        PROVE  s[i].ref = mem[p].key.ref
    BY <2>2 DEF RevokesKey, SetSecret, SetKey
  <2> QED
    BY <1>1, <2>1, <2>2
<1>6. NumbersInv'
  <2>1. \A i \in 1..Len(s) : s[i].ref <= done'.secrets
    <3>1. mem[p].key.ref <= done'.secrets /\ Env <= done'.secrets
          /\ (Making(p) => NextRef <= done'.secrets)
      BY <1>0 DEF KeptInv, NumbersInv, Env
    <3>2. \A i \in 1..Len(s) :
             s[i].ref \in {mem[p].key.ref, Env} \/ (Making(p) /\ s[i].ref = NextRef)
      BY <1>1 DEF MakesSecret, RevokesKey
    <3> QED
      BY <3>1, <3>2
  <2>2. \A q \in Procs : mem[q].key.ref <= done'.secrets
    BY <1>0 DEF KeptInv, NumbersInv
  <2>3. \A q \in Procs : \A i \in Todo(q) : todo[q][i].ref <= done'.secrets
    BY <1>0, <1>4 DEF KeptInv, NumbersInv
  <2>4. key.ref <= done'.secrets
    BY <1>0 DEF KeptInv, NumbersInv
  <2> QED
    BY <1>0, <1>2, <2>1, <2>2, <2>3, <2>4 DEF NumbersInv, Todo
<1>7. ASSUME NEW q \in Procs, NEW i \in 1..Len(todo'[q]), Activates(todo'[q][i])
      PROVE  Fresh(q, i)'
  <2>1. CASE q = p
    <3>1. Making(p) /\ MakesSecret(p, s)
      BY <1>1, <1>2, <1>7, <2>1 DEF RevokesKey, Activates, Names, SetKey, SetSecret
    <3>2. i = 3 /\ s[i].ref = NextRef
      BY <1>2, <1>7, <2>1, <3>1 DEF MakesSecret, Activates, Names, SetKey, SetSecret
    <3>3. /\ NextRef # Env /\ key.ref # NextRef
          /\ \A x \in Procs : mem[x].key.ref # NextRef
          /\ \A x \in Procs : \A j \in Todo(x) : todo[x][j].ref # NextRef
      BY <1>0, <1>4, <3>1 DEF KeptInv, NumbersInv, Env
    <3>4. \A j \in 1..Len(s) : Names(s[j]) /\ s[j].ref = NextRef => j = 3 \/ Makes(s[j])
      BY <3>1, <3>3 DEF MakesSecret, Makes, SetSecret, SetKey
    <3>5. 1 \in 1..Len(s) /\ 1 < 3 /\ Makes(s[1]) /\ s[1].ref = NextRef
      BY <3>1 DEF MakesSecret, Makes, SetSecret
    <3> QED
      <4>1. todo'[q] = s /\ todo'[q][i].ref = NextRef
        BY <1>2, <2>1, <3>2
      <4>2. ASSUME NEW x \in Procs, NEW j \in 1..Len(todo'[x]),
                   Names(todo'[x][j]), todo'[x][j].ref = NextRef
            PROVE  x = q /\ (j = i \/ Makes(todo'[x][j]))
        <5>1. x = p
          BY <1>2, <3>3, <4>2 DEF Todo
        <5> QED
          BY <1>2, <2>1, <3>2, <3>4, <4>2, <5>1
      <4>3. \E j \in 1..Len(todo'[q]) : j < i /\ Makes(todo'[q][j]) /\ todo'[q][j].ref = NextRef
        BY <3>2, <3>5, <4>1
      <4>4. key'.ref # NextRef /\ \A x \in Procs : mem'[x].key.ref # NextRef
        BY <1>0, <3>3
      <4> HIDE DEF NextRef
      <4> QED
        BY <3>3, <4>1, <4>2, <4>3, <4>4 DEF Fresh, Todo
  <2>2. CASE q # p
    <3>1. todo'[q] = todo[q] /\ i \in Todo(q) /\ Fresh(q, i)
      BY <1>2, <1>7, <2>2 DEF KeptInv, FreshInv, Todo
    <3>2. \A j \in 1..Len(s) : Names(s[j]) => s[j].ref # todo[q][i].ref
      BY <1>0, <1>4, <1>5, <3>1 DEF KeptInv, NumbersInv, Fresh
    <3> QED
      BY <1>0, <1>2, <2>2, <3>1, <3>2 DEF Fresh, Todo
  <2> QED
    BY <2>1, <2>2
<1>8. ASSUME NEW q \in Procs, NEW i \in 1..Len(todo'[q]), Retires(todo'[q][i])
      PROVE  Passed(q, i)'
  <2>1. CASE q # p
    <3>1. todo'[q] = todo[q] /\ i \in Todo(q) /\ Passed(q, i)
      BY <1>2, <1>8, <2>1 DEF KeptInv, RetireInv, Todo
    <3> QED
      BY <1>0, <3>1 DEF Passed, Todo
  <2>2. CASE q = p /\ Making(p) /\ MakesSecret(p, s)
    <3>1. i = 5 /\ s[i].ref = mem[p].key.ref
      BY <1>2, <1>8, <2>2 DEF MakesSecret, Retires, Names, SetKey, SetSecret
    <3>2. 3 \in 1..Len(s) /\ s[3].op = "key" /\ s[3].ref = NextRef
      BY <2>2 DEF MakesSecret, SetKey
    <3>3. NextRef # mem[p].key.ref
      BY <1>0, <2>2 DEF KeptInv, NumbersInv
    <3> QED
      BY <1>2, <2>2, <3>1, <3>2, <3>3 DEF Passed, Todo
  <2>3. CASE q = p /\ RevokesKey(p, s)
    <3>1. i = 2
      BY <1>2, <1>8, <2>3 DEF RevokesKey, Retires, Names, SetKey, SetSecret
    <3>2. 1 \in 1..Len(s) /\ Disowns(s[1]) /\ s[1].op = "key"
      BY <2>3 DEF RevokesKey, Disowns, SetKey
    <3> QED
      BY <1>2, <2>3, <3>1, <3>2 DEF Passed, Todo
  <2> QED
    BY <1>1, <2>1, <2>2, <2>3
<1>9. SecretUsable'
  BY <1>0 DEF KeptInv, SecretUsable
<1> QED
  BY <1>6, <1>7, <1>8, <1>9 DEF KeptInv, FreshInv, RetireInv, Todo

\* A write.
LEMMA KeptWrite ==
    ASSUME Base, KeptInv, NEW p \in Procs, Write(p)
    PROVE  KeptInv'
<1> DEFINE w == todo[p][1]
<1>1. /\ w \in Writes /\ 1 \in Todo(p) /\ done' = done
      /\ w.op = "key" => key'.status = w.status /\ key'.ref = w.ref /\ mem'[p].key.ref = w.ref
                         /\ secrets' = secrets
      /\ w.op # "key" => key' = key /\ mem'[p].key = mem[p].key
      /\ w.op = "secret" =>
            \A r \in Refs : secrets'[r] = IF r = w.ref THEN w.status ELSE secrets[r]
      /\ w.op # "secret" => secrets' = secrets
      /\ \A q \in Procs \ {p} : mem'[q] = mem[q]
  <2>1. done' = done
    BY NextWrites
  <2>2. Effect(p, w) /\ w \in Writes /\ 1 \in Todo(p)
    BY WriteEffect
  <2> HIDE DEF w
  <2> QED
    BY <2>1, <2>2 DEF Effect
<1>2. \A q \in Procs : \A i \in 1..Len(todo'[q]) :
         Before(p, q, i) \in Todo(q) /\ todo'[q][i] = todo[q][Before(p, q, i)]
  BY Shift
<1>3. \A q \in Procs : \A i \in Todo(q) : (q = p => i # 1) =>
         After(p, q, i) \in 1..Len(todo'[q]) /\ todo'[q][After(p, q, i)] = todo[q][i]
  BY Unshift
<1>4. \A q \in Procs : \A r \in Ref : r # Env => r \in Refs
  BY DEF Ref
<1>5. \A q \in Procs : \A i \in Todo(q) : todo[q][i] \in Writes /\ todo[q][i].ref \in Ref
  <2>1. ASSUME NEW q \in Procs, NEW i \in Todo(q)
        PROVE  todo[q][i] \in Writes
    <3>1. todo[q] \in Seq(Writes)
      BY DEF Base, TodoOK
    <3> QED
      BY <2>1, <3>1 DEF Todo
  <2> QED
    BY <2>1 DEF Writes
<1> HIDE DEF w
<1>6. NumbersInv'
  <2>1. w.ref <= done.secrets
    BY <1>1 DEF KeptInv, NumbersInv, w
  <2>2. key'.ref <= done.secrets /\ \A q \in Procs : mem'[q].key.ref <= done.secrets
    BY <1>1, <2>1 DEF KeptInv, NumbersInv
  <2>3. \A q \in Procs : \A i \in 1..Len(todo'[q]) : todo'[q][i].ref <= done.secrets
    BY <1>2 DEF KeptInv, NumbersInv
  <2> QED
    BY <1>1, <2>2, <2>3 DEF NumbersInv, Todo
<1>7. ASSUME NEW q \in Procs, NEW i \in 1..Len(todo'[q]), Activates(todo'[q][i])
      PROVE  Fresh(q, i)'
  <2> DEFINE k == Before(p, q, i)
             r == todo[q][k].ref
  <2>1. k \in Todo(q) /\ todo'[q][i] = todo[q][k] /\ Activates(todo[q][k]) /\ Fresh(q, k)
        /\ (q = p => k # 1)
    BY <1>2, <1>7 DEF KeptInv, FreshInv, Before
  <2>2. r # Env /\ r \in Refs /\ key.ref # r /\ \A x \in Procs : mem[x].key.ref # r
    BY <1>4, <1>5, <2>1 DEF Fresh
  <2>3. \A x \in Procs : \A j \in Todo(x) :
           Names(todo[x][j]) /\ todo[x][j].ref = r => x = q /\ (j = k \/ Makes(todo[x][j]))
    BY <2>1 DEF Fresh
  <2>4. Names(w) /\ w.ref = r => Makes(w) /\ p = q
    BY <1>1, <2>1, <2>3 DEF w
  <2>5. key'.ref # r /\ \A x \in Procs : mem'[x].key.ref # r
    BY <1>1, <2>2, <2>4 DEF Names, Makes
  <2>6. ASSUME NEW x \in Procs, NEW j \in 1..Len(todo'[x]),
               Names(todo'[x][j]), todo'[x][j].ref = r
        PROVE  x = q /\ (j = i \/ Makes(todo'[x][j]))
    <3>1. x = q /\ (Before(p, x, j) = k \/ Makes(todo'[x][j]))
      BY <1>2, <2>3, <2>6
    <3>2. Before(p, q, j) = Before(p, q, i) => j = i
      BY <3>1 DEF Before
    <3> QED
      BY <3>1, <3>2
  <2>7. secrets'[r] = "active" \/ \E j \in 1..Len(todo'[q]) :
           j < i /\ Makes(todo'[q][j]) /\ todo'[q][j].ref = r
    <3>1. CASE secrets[r] = "active"
      BY <1>1, <2>2, <2>4, <3>1 DEF Names, Makes
    <3>2. CASE secrets[r] # "active"
      <4>1. PICK j \in Todo(q) : j < k /\ Makes(todo[q][j]) /\ todo[q][j].ref = r
        BY <2>1, <3>2 DEF Fresh
      <4>2. CASE q = p /\ j = 1
        BY <1>1, <2>2, <4>1, <4>2 DEF Makes, w
      <4>3. CASE ~(q = p /\ j = 1)
        <5>1. After(p, q, j) \in 1..Len(todo'[q]) /\ todo'[q][After(p, q, j)] = todo[q][j]
          BY <1>3, <4>3
        <5>2. After(p, q, j) < i
          BY <4>1 DEF After, Before, Todo
        <5> QED
          BY <4>1, <5>1, <5>2
      <4> QED
        BY <4>2, <4>3
    <3> QED
      BY <3>1, <3>2
  <2>8. todo'[q][i].ref = r
    BY <2>1
  <2> HIDE DEF k, r
  <2> QED
    BY <2>2, <2>5, <2>6, <2>7, <2>8 DEF Fresh, Todo
<1>8. ASSUME NEW q \in Procs, NEW i \in 1..Len(todo'[q]), Retires(todo'[q][i])
      PROVE  Passed(q, i)'
  <2> DEFINE k == Before(p, q, i)
  <2>1. k \in Todo(q) /\ todo'[q][i] = todo[q][k] /\ Retires(todo[q][k]) /\ Passed(q, k)
        /\ (q = p => k # 1)
    BY <1>2, <1>8 DEF KeptInv, RetireInv, Before
  <2>2. CASE Disowns(w)
    BY <1>1, <2>2 DEF Disowns, Passed
  <2>3. CASE Activates(w)
    <3>1. Fresh(p, 1)
      BY <1>1, <2>3 DEF KeptInv, FreshInv, w
    <3>2. todo[q][k].ref # w.ref
      BY <2>1, <2>3, <3>1 DEF Fresh, Names, Retires, Makes, Activates, w
    <3> QED
      BY <1>1, <2>1, <2>3, <3>2 DEF Passed, Activates
  <2>4. CASE w.op # "key"
    <3>1. CASE key.status = "revoked" \/ key.ref # todo[q][k].ref
      BY <1>1, <2>1, <2>4, <3>1 DEF Passed
    <3>2. CASE ~(key.status = "revoked" \/ key.ref # todo[q][k].ref)
      <4>1. PICK j \in Todo(q) : /\ j < k /\ todo[q][j].op = "key"
                                 /\ Disowns(todo[q][j]) \/ todo[q][j].ref # todo[q][k].ref
        BY <2>1, <3>2 DEF Passed
      <4>2. q = p => j # 1
        BY <2>4, <4>1 DEF w
      <4>3. After(p, q, j) \in 1..Len(todo'[q]) /\ todo'[q][After(p, q, j)] = todo[q][j]
        BY <1>3, <4>2
      <4>4. After(p, q, j) < i
        BY <4>1 DEF After, Before, Todo
      <4> HIDE DEF k
      <4> QED
        BY <2>1, <4>1, <4>3, <4>4 DEF Passed, Todo
    <3> QED
      BY <3>1, <3>2
  <2> QED
    BY <1>1, <2>2, <2>3, <2>4 DEF Activates, Disowns, Writes
<1>9. SecretUsable'
  <2>1. CASE w.op = "key"
    <3>1. CASE w.status = "active"
      <4>1. Fresh(p, 1)
        BY <1>1, <2>1, <3>1 DEF KeptInv, FreshInv, Activates, w
      <4>2. secrets[w.ref] = "active"
        BY <4>1 DEF Fresh, Todo, w
      <4> QED
        BY <1>1, <2>1, <4>2 DEF SecretUsable
    <3>2. CASE w.status # "active"
      BY <1>1, <2>1, <3>2 DEF SecretUsable
    <3> QED
      BY <3>1, <3>2
  <2>2. CASE w.op = "secret"
    <3>1. key.status = "active" /\ key.ref # Env => key.ref \in Refs /\ secrets[key.ref] = "active"
      BY <1>4 DEF KeptInv, SecretUsable, Base, TypeOK, KeyNode
    <3>2. Retires(w) => key.status = "revoked" \/ key.ref # w.ref
      BY <1>1 DEF KeptInv, RetireInv, Passed, Todo, w
    <3> QED
      BY <1>1, <2>2, <3>1, <3>2 DEF SecretUsable, Retires
  <2>3. CASE w.op \notin {"key", "secret"}
    BY <1>1, <2>3 DEF KeptInv, SecretUsable
  <2> QED
    BY <2>1, <2>2, <2>3
<1> QED
  BY <1>6, <1>7, <1>8, <1>9 DEF KeptInv, FreshInv, RetireInv, Todo

\* A write that raises: its process may have the key's new secret in memory.
LEMMA KeptFails ==
    ASSUME Base, KeptInv, NEW p \in Procs, Fails(p)
    PROVE  KeptInv'
<1>1. /\ UNCHANGED <<key, secrets>> /\ done'.secrets = done.secrets
      /\ 1 \in Todo(p) /\ todo'[p] = <<>>
      /\ \A q \in Procs \ {p} : todo'[q] = todo[q] /\ mem'[q] = mem[q]
      /\ \/ mem'[p].key = mem[p].key
         \/ /\ todo[p][1].op = "key"
            /\ mem'[p].key = [status |-> todo[p][1].status, ref |-> todo[p][1].ref]
  BY Failing
<1>0. 1..Len(todo'[p]) = {}
  <2>1. Len(<<>>) = 0 /\ 1..0 = {}
    OBVIOUS
  <2> QED
    BY <1>1, <2>1
<1>2. \A q \in Procs : \A i \in 1..Len(todo'[q]) :
         q # p /\ i \in Todo(q) /\ todo'[q] = todo[q] /\ Todo(q)' = Todo(q)
  BY <1>0, <1>1 DEF Todo
<1>3. NumbersInv'
  <2>1. mem'[p].key.ref <= done.secrets /\ key.ref <= done.secrets
    BY <1>1 DEF KeptInv, NumbersInv
  <2> QED
    BY <1>1, <1>2, <2>1 DEF KeptInv, NumbersInv, Todo
<1>4. ASSUME NEW q \in Procs, NEW i \in 1..Len(todo'[q]), Activates(todo'[q][i])
      PROVE  Fresh(q, i)'
  <2>1. Fresh(q, i) /\ todo'[q] = todo[q] /\ q # p
    BY <1>2, <1>4 DEF KeptInv, FreshInv
  <2>2. mem'[p].key.ref # todo[q][i].ref
    BY <1>1, <2>1 DEF Fresh, Names
  <2>3. \A x \in Procs : mem'[x].key.ref # todo[q][i].ref
    BY <1>1, <2>1, <2>2 DEF Fresh
  <2>4. ASSUME NEW x \in Procs, NEW j \in 1..Len(todo'[x]),
               Names(todo'[x][j]), todo'[x][j].ref = todo[q][i].ref
        PROVE  x = q /\ (j = i \/ Makes(todo'[x][j]))
    <3>1. j \in Todo(x) /\ todo'[x] = todo[x]
      BY <1>2
    <3> QED
      BY <2>1, <2>4, <3>1 DEF Fresh
  <2>5. \/ secrets[todo[q][i].ref] = "active"
        \/ \E j \in 1..Len(todo'[q]) :
              j < i /\ Makes(todo'[q][j]) /\ todo'[q][j].ref = todo[q][i].ref
    BY <2>1 DEF Fresh, Todo
  <2> QED
    BY <1>1, <2>1, <2>3, <2>4, <2>5 DEF Fresh, Todo
<1>5. ASSUME NEW q \in Procs, NEW i \in 1..Len(todo'[q]), Retires(todo'[q][i])
      PROVE  Passed(q, i)'
  <2>1. i \in Todo(q) /\ todo'[q] = todo[q] /\ Todo(q)' = Todo(q) /\ key' = key
    BY <1>1, <1>2
  <2>2. Passed(q, i)
    BY <1>5, <2>1 DEF KeptInv, RetireInv
  <2> QED
    BY <2>1, <2>2 DEF Passed
<1>6. SecretUsable'
  BY <1>1 DEF KeptInv, SecretUsable
<1> QED
  BY <1>3, <1>4, <1>5, <1>6 DEF KeptInv, FreshInv, RetireInv, Todo

\* Every step keeps the order of the writes of secrets.
LEMMA KeptStep ==
    ASSUME Base, KeptInv, [Next]_vars
    PROVE  KeptInv'
<1>0. /\ todo \in [Procs -> Seq(Writes)] /\ mem \in [Procs -> Store]
      /\ done \in [secrets : 0..MaxSecrets, revokes : 0..MaxRevokes,
                   failures : 0..MaxFailures, crashes : 0..MaxCrashes]
  BY DEF Base, TypeOK, TodoOK
<1>fails. ASSUME NEW p \in Procs, Fails(p)
          PROVE  KeptInv'
  BY <1>fails, KeptFails
<1>1. ASSUME NEW p \in Procs, Crash(p)
      PROVE  KeptInv'
  <2>1. UNCHANGED <<key, secrets, mem>> /\ done'.secrets = done.secrets
        /\ todo' = [todo EXCEPT ![p] = <<>>]
    BY <1>0, <1>1 DEF Crash
  <2>2. \A q \in Procs : todo'[q] = todo[q] \/ todo'[q] = <<>>
    BY <1>0, <2>1
  <2> QED
    BY <2>1, <2>2, KeptQuiet
<1>2. ASSUME NEW p \in Procs, Lookup(p) \/ Start(p)
      PROVE  KeptInv'
  <2>1. UNCHANGED <<key, secrets, todo, done>>
        /\ \A q \in Procs : mem'[q] = mem[q] \/ mem'[q] = Durable
    BY <1>0, <1>2 DEF Lookup, Start
  <2>2. \A q \in Procs : mem'[q].key = mem[q].key \/ mem'[q].key = key
    BY <2>1 DEF Durable
  <2> QED
    BY <2>1, <2>2, KeptQuiet
<1>3. CASE UNCHANGED vars
  BY <1>3, KeptQuiet DEF vars
<1> QED
  BY <1>fails, <1>1, <1>2, <1>3, KeptBegin, KeptWrite, Actions

\* One process at most manages the key, and nothing it began was cut short.
Calm == ~anyCut /\ \A p, q \in writers : p = q

\* Then the one that does knows what is stored; a secret that can be used is the
\* key's, or will be, or will be retired; and a write of a new secret is followed
\* by that of the key, and that by the end of the old one.
Owned(r) ==
    \/ key.status = "active" /\ key.ref = r
    \/ \E p \in writers : \E i \in Todo(p) :
          todo[p][i].ref = r /\ (Activates(todo[p][i]) \/ Retires(todo[p][i]))

Followed(p, i) ==
    /\ Makes(todo[p][i]) =>
          \E j \in Todo(p) : j > i /\ Activates(todo[p][j]) /\ todo[p][j].ref = todo[p][i].ref
    /\ todo[p][i].op = "key" /\ key.ref # Env /\ key.status = "active" =>
          \E j \in Todo(p) : j > i /\ Retires(todo[p][j]) /\ todo[p][j].ref = key.ref

Known(p) == mem[p].key = key /\ mem[p].secrets = secrets

CalmInv ==
    Calm => /\ \A p \in Procs : writers \subseteq {p} => Known(p)
            /\ \A r \in Refs : secrets[r] = "active" => Owned(r)
            /\ \A p \in writers : \A i \in Todo(p) : Followed(p, i)

\* An operation begins.
LEMMA CalmBegin ==
    ASSUME Base, NumbersInv, CalmInv, NEW p \in Procs, Making(p) \/ Revoke(p)
    PROVE  CalmInv'
<1> SUFFICES ASSUME Calm'
             PROVE  /\ \A q \in Procs : writers' \subseteq {q} => Known(q)'
                    /\ \A r \in Refs : secrets'[r] = "active" => Owned(r)'
                    /\ \A q \in writers' : \A i \in 1..Len(todo'[q]) : Followed(q, i)'
  BY DEF CalmInv, Todo
<1>0. /\ UNCHANGED <<key, secrets, mem, anyCut>> /\ todo[p] = <<>>
      /\ writers' = writers \cup {p} /\ todo \in [Procs -> Seq(Writes)]
      /\ writers \subseteq Procs
  BY Beginning DEF Base, TypeOK, TodoOK
<1>1. Calm /\ writers' = {p} /\ writers \subseteq {p}
  BY <1>0 DEF Calm
<1>2. Known(p)
  BY <1>1 DEF CalmInv
<1>3. ASSUME NEW q \in Procs, writers' \subseteq {q}
      PROVE  Known(q)'
  BY <1>0, <1>1, <1>2, <1>3 DEF Known
<1>4. ASSUME NEW r \in Refs, secrets'[r] = "active"
      PROVE  Owned(r)'
  <2>1. Owned(r)
    BY <1>0, <1>1, <1>4 DEF CalmInv
  <2>2. \A q \in writers : Todo(q) = {}
    <3>1. Len(todo[p]) = 0
      BY <1>0
    <3> QED
      BY <1>1, <3>1 DEF Todo
  <2>3. key.status = "active" /\ key.ref = r
    BY <2>1, <2>2 DEF Owned
  <2> QED
    BY <1>0, <2>3 DEF Owned
<1>5. ASSUME NEW i \in 1..Len(todo'[p])
      PROVE  Followed(p, i)'
  <2>0. key.ref # Env => key.ref \in Refs
    BY DEF Base, TypeOK, KeyNode, Ref
  <2>1. CASE Making(p)
    <3>1. PICK s \in Seq(Writes) : MakesSecret(p, s)
      BY <2>1, MakingWrites
    <3>2. todo'[p] = s
      BY <1>0, <3>1 DEF MakesSecret
    <3>3. /\ Len(s) \in Nat /\ Len(s) > 4 /\ Makes(s[1]) /\ s[1].ref = NextRef
          /\ Activates(s[3]) /\ s[3].ref = NextRef
      BY <3>1 DEF MakesSecret, Makes, Activates, SetSecret, SetKey
    <3>4. Makes(s[i]) => i = 1
      BY <3>1, <3>2, <3>3 DEF MakesSecret, Makes, Names, SetSecret, Activates
    <3>5. s[i].op = "key" => i = 3
      BY <3>1, <3>2, <3>3 DEF MakesSecret, Makes, Names, SetSecret
    <3>6. key.ref # Env /\ key.status = "active" => Retires(s[5]) /\ s[5].ref = key.ref
      BY <1>2, <2>0, <3>1 DEF Known, MakesSecret, Retires, SetSecret
    <3>7. Makes(s[i]) =>
             \E j \in 1..Len(s) : j > i /\ Activates(s[j]) /\ s[j].ref = s[i].ref
      <4>1. 3 \in 1..Len(s)
        BY <3>3
      <4> QED
        BY <3>3, <3>4, <4>1
    <3>8. s[i].op = "key" /\ key.ref # Env /\ key.status = "active" =>
             \E j \in 1..Len(s) : j > i /\ Retires(s[j]) /\ s[j].ref = key.ref
      <4>1. 5 \in 1..Len(s)
        BY <3>3
      <4> QED
        BY <3>5, <3>6, <4>1
    <3> QED
      BY <1>0, <3>2, <3>7, <3>8 DEF Followed, Todo
  <2>2. CASE Revoke(p)
    <3>1. PICK s \in Seq(Writes) : RevokesKey(p, s)
      BY <2>2, RevokingWrites
    <3>2. todo'[p] = s
      BY <1>0, <3>1 DEF RevokesKey
    <3>3. Len(s) \in Nat /\ Len(s) > 3 /\ s[1].op = "key"
      BY <3>1 DEF RevokesKey, SetKey
    <3>4. ~Makes(s[i])
      BY <3>1, <3>2, <3>3 DEF RevokesKey, Makes, Names, SetSecret
    <3>5. s[i].op = "key" => i = 1
      BY <3>1, <3>2 DEF RevokesKey, Names, SetSecret
    <3>6. key.ref # Env => Retires(s[2]) /\ s[2].ref = key.ref
      BY <1>2, <2>0, <3>1 DEF Known, RevokesKey, Retires, SetSecret
    <3>7. s[i].op = "key" /\ key.ref # Env /\ key.status = "active" =>
             \E j \in 1..Len(s) : j > i /\ Retires(s[j]) /\ s[j].ref = key.ref
      <4>1. 2 \in 1..Len(s)
        BY <3>3
      <4> QED
        BY <3>5, <3>6, <4>1
    <3> QED
      BY <1>0, <3>2, <3>4, <3>7 DEF Followed, Todo
  <2> QED
    BY <2>1, <2>2
<1> QED
  BY <1>1, <1>3, <1>4, <1>5

\* A write.
LEMMA CalmWrite ==
    ASSUME Base, CalmInv, NEW p \in Procs, Write(p)
    PROVE  CalmInv'
<1> SUFFICES ASSUME Calm'
             PROVE  /\ \A q \in Procs : writers' \subseteq {q} => Known(q)'
                    /\ \A r \in Refs : secrets'[r] = "active" => Owned(r)'
                    /\ \A q \in writers' : \A i \in 1..Len(todo'[q]) : Followed(q, i)'
  BY DEF CalmInv, Todo
<1> DEFINE w == todo[p][1]
<1>1. /\ Effect(p, w) /\ w \in Writes /\ 1 \in Todo(p) /\ p \in writers
      /\ writers' = writers /\ anyCut' = anyCut
  BY WriteEffect, NextWrites
<1>2. Calm /\ writers = {p}
  BY <1>1 DEF Calm
<1>3. Known(p)
  BY <1>2 DEF CalmInv
<1>4. Followed(p, 1)
  BY <1>1, <1>2 DEF CalmInv
<1>5. \A i \in 1..Len(todo'[p]) : i + 1 \in Todo(p) /\ todo'[p][i] = todo[p][i + 1]
  BY NextWrites
<1>6. \A i \in Todo(p) : i # 1 => i - 1 \in 1..Len(todo'[p]) /\ todo'[p][i - 1] = todo[p][i]
  BY Unshift DEF After
<1>7. w.op = "key" => \A i \in Todo(p) : i # 1 => todo[p][i].op # "key"
  BY <1>1 DEF Base, TodoOK
<1> HIDE DEF w
<1>8. ASSUME NEW q \in Procs, writers' \subseteq {q}
      PROVE  Known(q)'
  <2>1. q = p
    BY <1>1, <1>2, <1>8
  <2>2. mem'[p].key = key' /\ mem'[p].secrets = secrets'
    <3>1. CASE w.op = "key"
      BY <1>1, <1>3, <3>1 DEF Effect, Known
    <3>2. CASE w.op = "secret"
      BY <1>1, <1>3, <3>2 DEF Effect, Known
    <3>3. CASE w.op \notin {"key", "secret"}
      BY <1>1, <1>3, <3>3 DEF Effect, Known
    <3> QED
      BY <3>1, <3>2, <3>3
  <2> QED
    BY <2>1, <2>2 DEF Known
<1>9. ASSUME NEW i \in Todo(p), i # 1, Activates(todo[p][i]) \/ Retires(todo[p][i]),
             NEW r, todo[p][i].ref = r
      PROVE  Owned(r)'
  <2>1. i - 1 \in 1..Len(todo'[p]) /\ todo'[p][i - 1] = todo[p][i] /\ p \in writers'
    BY <1>1, <1>6, <1>9
  <2> QED
    BY <1>9, <2>1 DEF Owned, Todo
<1>10. ASSUME NEW r \in Refs, secrets'[r] = "active"
       PROVE  Owned(r)'
  <2>1. CASE w.op = "secret" /\ r = w.ref
    <3>1. Makes(w)
      BY <1>1, <1>10, <2>1 DEF Effect, Makes
    <3>2. PICK j \in Todo(p) : j > 1 /\ Activates(todo[p][j]) /\ todo[p][j].ref = r
      BY <1>4, <2>1, <3>1 DEF Followed, w
    <3> QED
      BY <1>9, <3>2
  <2>2. CASE ~(w.op = "secret" /\ r = w.ref)
    <3>1. Owned(r)
      BY <1>1, <1>2, <1>10, <2>2 DEF CalmInv, Effect
    <3>2. CASE key.status = "active" /\ key.ref = r
      <4>1. CASE w.op = "key"
        <5>1. r # Env
          BY DEF Refs, Env
        <5>2. PICK j \in Todo(p) : j > 1 /\ Retires(todo[p][j]) /\ todo[p][j].ref = r
          BY <1>4, <3>2, <4>1, <5>1 DEF Followed, w
        <5> QED
          BY <1>9, <5>2
      <4>2. CASE w.op # "key"
        BY <1>1, <3>2, <4>2 DEF Effect, Owned
      <4> QED
        BY <4>1, <4>2
    <3>3. CASE ~(key.status = "active" /\ key.ref = r)
      <4>1. PICK j \in Todo(p) :
               todo[p][j].ref = r /\ (Activates(todo[p][j]) \/ Retires(todo[p][j]))
        BY <1>2, <3>1, <3>3 DEF Owned
      <4>2. CASE j = 1
        <5>1. Activates(w) /\ w.ref = r
          BY <2>2, <4>1, <4>2 DEF w, Retires
        <5> QED
          BY <1>1, <5>1 DEF Effect, Owned, Activates
      <4>3. CASE j # 1
        BY <1>9, <4>1, <4>3
      <4> QED
        BY <4>2, <4>3
    <3> QED
      BY <3>2, <3>3
  <2> QED
    BY <2>1, <2>2
<1>11. ASSUME NEW i \in 1..Len(todo'[p])
       PROVE  Followed(p, i)'
  <2>1. /\ i + 1 \in Todo(p) /\ todo'[p][i] = todo[p][i + 1] /\ Followed(p, i + 1)
        /\ i \in Int /\ i + 1 # 1
    BY <1>2, <1>5 DEF CalmInv
  <2>2. ASSUME NEW j \in Todo(p), j > i + 1
        PROVE  j - 1 \in 1..Len(todo'[p]) /\ todo'[p][j - 1] = todo[p][j] /\ j - 1 > i
    BY <1>6, <2>1, <2>2 DEF Todo
  <2>3. Makes(todo'[p][i]) => \E j \in 1..Len(todo'[p]) :
           j > i /\ Activates(todo'[p][j]) /\ todo'[p][j].ref = todo'[p][i].ref
    BY <2>1, <2>2 DEF Followed
  <2>4. ASSUME todo'[p][i].op = "key", key'.ref # Env, key'.status = "active"
        PROVE  \E j \in 1..Len(todo'[p]) :
                  j > i /\ Retires(todo'[p][j]) /\ todo'[p][j].ref = key'.ref
    <3>1. w.op # "key"
      BY <1>7, <2>1, <2>4
    <3>2. key' = key
      BY <1>1, <3>1 DEF Effect
    <3>3. PICK j \in Todo(p) : j > i + 1 /\ Retires(todo[p][j]) /\ todo[p][j].ref = key.ref
      BY <2>1, <2>4, <3>2 DEF Followed
    <3> QED
      BY <2>2, <3>2, <3>3
  <2> QED
    BY <2>3, <2>4 DEF Followed, Todo
<1> QED
  BY <1>1, <1>2, <1>8, <1>10, <1>11

\* Every step keeps the secrets owned, while one process manages the key.
LEMMA CalmStep ==
    ASSUME Base, NumbersInv, CalmInv, [Next]_vars
    PROVE  CalmInv'
<1>0. todo \in [Procs -> Seq(Writes)] /\ mem \in [Procs -> Store]
  BY DEF Base, TypeOK, TodoOK
<1>1. ASSUME UNCHANGED <<key, secrets, todo, writers, anyCut>>,
             \A q \in Procs : mem'[q] = mem[q] \/ mem'[q] = Durable
      PROVE  CalmInv'
  <2>1. \A q \in Procs : Known(q) => Known(q)'
    BY <1>1 DEF Known, Durable
  <2>2. \A r \in Refs : Owned(r) => Owned(r)'
    BY <1>1 DEF Owned, Todo
  <2>3. \A q \in writers : \A i \in Todo(q) : Followed(q, i) => Followed(q, i)'
    BY <1>1 DEF Followed, Todo
  <2>4. Calm' => Calm
    BY <1>1 DEF Calm
  <2> QED
    BY <1>1, <2>1, <2>2, <2>3, <2>4 DEF CalmInv, Todo
<1>2. ASSUME NEW p \in Procs, Fails(p) \/ (Crash(p) /\ todo[p] # <<>>)
      PROVE  CalmInv'
  BY <1>2 DEF Fails, Crash, CalmInv, Calm
<1>3. ASSUME NEW p \in Procs, Crash(p), todo[p] = <<>>
      PROVE  CalmInv'
  <2>1. todo' = todo /\ anyCut' = anyCut /\ UNCHANGED <<key, secrets, writers, mem>>
    BY <1>0, <1>3 DEF Crash, Base, TypeOK
  <2> QED
    BY <1>1, <2>1
<1>4. ASSUME NEW p \in Procs, Lookup(p) \/ Start(p)
      PROVE  CalmInv'
  <2>1. UNCHANGED <<key, secrets, todo, writers, anyCut>>
        /\ \A q \in Procs : mem'[q] = mem[q] \/ mem'[q] = Durable
    BY <1>0, <1>4 DEF Lookup, Start
  <2> QED
    BY <1>1, <2>1
<1>5. CASE UNCHANGED vars
  BY <1>1, <1>5 DEF vars
<1> QED
  BY <1>2, <1>3, <1>4, <1>5, CalmBegin, CalmWrite, Actions

\* The key starts with its secrets in order.
LEMMA SecretsStart == Init => KeptInv /\ CalmInv
<1> SUFFICES ASSUME Init PROVE KeptInv /\ CalmInv
  OBVIOUS
<1>1. \A p \in Procs : Todo(p) = {}
  <2>1. Len(<<>>) = 0 /\ 1..0 = {}
    OBVIOUS
  <2> QED
    BY <2>1 DEF Init, Todo
<1>2. key.ref = Env /\ (\A p \in Procs : mem[p] = Durable) /\ writers = {}
  BY DEF Init
<1>3. secrets = [r \in Refs |-> "absent"] /\ done.secrets = 0
  BY DEF Init
<1>4. NumbersInv
  BY <1>1, <1>2, <1>3 DEF NumbersInv, Durable, Env
<1>5. KeptInv
  BY <1>1, <1>2, <1>4 DEF KeptInv, FreshInv, RetireInv, SecretUsable
<1>6. CalmInv
  BY <1>1, <1>2, <1>3 DEF CalmInv, Known, Durable
<1> QED
  BY <1>5, <1>6

\* Wherever operations are interrupted and whatever several processes do to the
\* key: an active key names a secret that can be used; and if one process manages
\* it and nothing was interrupted, no other secret can be used (key_manager.py:110).
THEOREM SecretsCorrect == Spec => []SecretsFollowKey
<1>1. IInv /\ KeptInv /\ CalmInv /\ [Next]_vars => (KeptInv /\ CalmInv)'
  BY KeptStep, CalmStep DEF IInv, KeptInv
<1>2. ASSUME IInv, KeptInv, CalmInv
      PROVE  SecretsFollowKey
  <2>1. ASSUME Cardinality(writers) <= 1
        PROVE  \A p, q \in writers : p = q
    <3>1. writers \subseteq Procs /\ IsFiniteSet(writers)
      BY <1>2, ProcsAssumption, FS_Subset DEF IInv, Base, TypeOK
    <3>2. ASSUME NEW p \in writers, NEW q \in writers, p # q
          PROVE  FALSE
      <4>1. IsFiniteSet({p, q}) /\ Cardinality({p, q}) = 2
        <5>1. IsFiniteSet({p}) /\ Cardinality({p}) = 1
          BY FS_Singleton
        <5>2. /\ IsFiniteSet({p} \cup {q})
              /\ Cardinality({p} \cup {q}) =
                   IF q \in {p} THEN Cardinality({p}) ELSE Cardinality({p}) + 1
          BY <5>1, FS_AddElement
        <5>3. q \notin {p}
          BY <3>2
        <5>4. {p, q} = {p} \cup {q}
          OBVIOUS
        <5>. QED
          BY <5>1, <5>2, <5>3, <5>4
      <4>2. Cardinality({p, q}) <= Cardinality(writers)
        BY <3>1, FS_Subset
      <4>3. Cardinality(writers) \in Nat
        BY <3>1, FS_CardinalityType
      <4> QED
        BY <2>1, <4>1, <4>2, <4>3
    <3> QED
      BY <3>2
  <2>2. ASSUME Cardinality(writers) <= 1, ~anyCut, \A p \in Procs : Idle(p),
               NEW r \in Refs, secrets[r] = "active"
        PROVE  key.status = "active" /\ key.ref = r
    <3>1. Owned(r)
      BY <1>2, <2>1, <2>2 DEF CalmInv, Calm
    <3>2. \A p \in writers : Todo(p) = {}
      <4>1. Len(<<>>) = 0 /\ 1..0 = {}
        OBVIOUS
      <4>2. \A p \in writers : todo[p] = <<>>
        BY <1>2, <2>2 DEF Idle, IInv, Base, TypeOK
      <4> QED
        BY <4>1, <4>2 DEF Todo
    <3> QED
      BY <3>1, <3>2 DEF Owned
  <2>3. OthersRetired
    BY <2>2 DEF OthersRetired
  <2> QED
    BY <1>2, <2>3 DEF SecretsFollowKey, KeptInv
<1>3. Spec => [](KeptInv /\ CalmInv)
  BY InvCorrect, SecretsStart, <1>1, PTL DEF Spec
<1>4. IInv /\ KeptInv /\ CalmInv => SecretsFollowKey
  BY <1>2
<1> QED
  BY InvCorrect, <1>3, <1>4, PTL

-----------------------------------------------------------------------------
(* Serving.                                                                  *)

\* A process knows of its key's secret that it can be used; a secret it will
\* make the key's it knows, or will before, as usable, and one it will retire as
\* not the key's, or will before; and if the guard holds an older secret, a
\* registration of the newer one is still to come.
Registers(w) == w.op \in {"register", "reregister"}

Usable(p) ==
    mem[p].key.status = "active" /\ mem[p].key.ref # Env =>
        mem[p].secrets[mem[p].key.ref] = "active"

Follows(p, i) == \E j \in Todo(p) : j > i /\ Registers(todo[p][j])

Ready(p, i) ==
    \/ mem[p].secrets[todo[p][i].ref] = "active"
    \/ \E j \in Todo(p) : j < i /\ Makes(todo[p][j]) /\ todo[p][j].ref = todo[p][i].ref

Left(p, i) ==
    \/ mem[p].key.status = "revoked"
    \/ mem[p].key.ref # todo[p][i].ref
    \/ \E j \in Todo(p) :
          /\ j < i /\ todo[p][j].op = "key"
          /\ Disowns(todo[p][j]) \/ todo[p][j].ref # todo[p][i].ref

Planned(p) ==
    \A i \in Todo(p) :
        /\ Activates(todo[p][i]) => Follows(p, i) /\ Ready(p, i)
        /\ Retires(todo[p][i]) => Left(p, i)

Current(p) ==
    /\ up[p] /\ ~cut[p] /\ mem[p].key.status = "active"
    /\ guard[p] \notin {Unregistered, Env, mem[p].key.ref}
    => \E i \in Todo(p) : Registers(todo[p][i])

Answers(p) == Usable(p) /\ Planned(p) /\ Current(p)

ServesInv == \A p \in Procs : Answers(p)

\* A process none of whose variables changes.
LEMMA AnswersQuiet ==
    ASSUME NEW p \in Procs, Answers(p), mem'[p] = mem[p], todo'[p] = todo[p],
           guard'[p] = guard[p], up'[p] = up[p], cut'[p] = cut[p]
    PROVE  Answers(p)'
BY DEF Answers, Usable, Planned, Current, Follows, Ready, Left, Todo

\* A process with nothing to write.
LEMMA AnswersIdle ==
    ASSUME NEW p \in Procs, todo'[p] = <<>>, Usable(p)',
           \/ ~up'[p] \/ cut'[p] \/ mem'[p].key.status # "active"
           \/ guard'[p] \in {Unregistered, Env, mem'[p].key.ref}
    PROVE  Answers(p)'
<1>1. 1..Len(todo'[p]) = {}
  <2>1. Len(<<>>) = 0 /\ 1..0 = {}
    OBVIOUS
  <2> QED
    BY <2>1
<1>2. Planned(p)'
  BY <1>1 DEF Planned, Todo
<1>3. Current(p)'
  BY DEF Current
<1> QED
  BY <1>2, <1>3 DEF Answers

\* What an operation that makes a secret writes last.
LEMMA MakingRegisters ==
    ASSUME Base, NEW p \in Procs, Making(p)
    PROVE  \E j \in 1..Len(todo'[p]) : j > 3 /\ Registers(todo'[p][j])
<1>0. todo \in [Procs -> Seq(Writes)]
  BY DEF Base, TodoOK
<1>1. CASE Create(p)
  <2>1. todo'[p] = CreateWrites(NextRef)
    BY <1>0, <1>1 DEF Create
  <2>2. Len(CreateWrites(NextRef)) = 8 /\ CreateWrites(NextRef)[6] = Note("register")
    BY DEF CreateWrites
  <2>3. 6 \in 1..8 /\ 6 > 3
    OBVIOUS
  <2> QED
    BY <2>1, <2>2, <2>3 DEF Registers, Note
<1>2. CASE Rotate(p) /\ mem[p].key.ref \in Refs
  <2> DEFINE s == RotateWrites(mem[p], NextRef)
  <2>1. todo'[p] = s
    BY <1>0, <1>2 DEF Rotate
  <2>2. Len(s) = 8 /\ s[7] = Note("reregister")
    BY <1>2 DEF RotateWrites
  <2>3. 7 \in 1..8 /\ 7 > 3
    OBVIOUS
  <2> QED
    BY <2>1, <2>2, <2>3 DEF Registers, Note
<1>3. CASE Rotate(p) /\ mem[p].key.ref \notin Refs
  <2> DEFINE s == RotateWrites(mem[p], NextRef)
  <2>1. todo'[p] = s
    BY <1>0, <1>3 DEF Rotate
  <2>2. Len(s) = 7 /\ s[6] = Note("reregister")
    BY <1>3 DEF RotateWrites
  <2>3. 6 \in 1..7 /\ 6 > 3
    OBVIOUS
  <2> QED
    BY <2>1, <2>2, <2>3 DEF Registers, Note
<1> QED
  BY <1>1, <1>2, <1>3 DEF Making

\* An operation begins.
LEMMA AnswersBegin ==
    ASSUME Base, NumbersInv, ServesInv, NEW p \in Procs, Making(p) \/ Revoke(p)
    PROVE  ServesInv'
<1>0. /\ UNCHANGED <<mem, guard, up, cut>> /\ todo[p] = <<>>
      /\ todo \in [Procs -> Seq(Writes)]
  BY Beginning DEF Base, TodoOK
<1>1. PICK s \in Seq(Writes) : (Making(p) /\ MakesSecret(p, s)) \/ RevokesKey(p, s)
  BY MakingWrites, RevokingWrites
<1>2. todo'[p] = s /\ \A q \in Procs \ {p} : todo'[q] = todo[q]
  BY <1>0, <1>1 DEF MakesSecret, RevokesKey
<1>3. ASSUME NEW q \in Procs, q # p
      PROVE  Answers(q)'
  BY <1>0, <1>2, <1>3, AnswersQuiet DEF ServesInv
<1>4. Usable(p)'
  BY <1>0 DEF ServesInv, Answers, Usable
<1>5. Current(p)'
  <2>1. Todo(p) = {}
    BY <1>0 DEF Todo
  <2> QED
    BY <1>0, <2>1 DEF ServesInv, Answers, Current
<1>6. ASSUME NEW i \in 1..Len(s), Activates(s[i])
      PROVE  Follows(p, i)' /\ Ready(p, i)'
  <2>1. Making(p) /\ MakesSecret(p, s)
    BY <1>1, <1>6 DEF RevokesKey, Activates, Names, SetKey, SetSecret
  <2>2. i = 3 /\ s[i].ref = NextRef
    BY <1>6, <2>1 DEF MakesSecret, Activates, Names, SetKey, SetSecret
  <2>3. 1 \in 1..Len(s) /\ 1 < 3 /\ Makes(s[1]) /\ s[1].ref = NextRef
    BY <2>1 DEF MakesSecret, Makes, SetSecret
  <2>4. Ready(p, i)'
    BY <1>2, <2>2, <2>3 DEF Ready, Todo
  <2> QED
    BY <1>2, <2>1, <2>2, <2>4, MakingRegisters DEF Follows, Todo
<1>7. ASSUME NEW i \in 1..Len(s), Retires(s[i])
      PROVE  Left(p, i)'
  <2>1. CASE Making(p) /\ MakesSecret(p, s)
    <3>1. i = 5 /\ s[i].ref = mem[p].key.ref
      BY <1>7, <2>1 DEF MakesSecret, Retires, Names, SetKey, SetSecret
    <3>2. 3 \in 1..Len(s) /\ s[3].op = "key" /\ s[3].ref = NextRef
      BY <2>1 DEF MakesSecret, SetKey
    <3>3. NextRef # mem[p].key.ref
      <4>1. mem[p].key.ref \in Int /\ done.secrets \in Int
        BY BoundsAssumption DEF Base, TypeOK, Store, KeyNode, Ref, Refs, Env
      <4>2. NextRef = done.secrets + 1
        BY <2>1, Beginning
      <4> QED
        BY <4>1, <4>2 DEF NumbersInv
    <3> QED
      BY <1>2, <3>1, <3>2, <3>3 DEF Left, Todo
  <2>2. CASE RevokesKey(p, s)
    <3>1. i = 2
      BY <1>7, <2>2 DEF RevokesKey, Retires, Names, SetKey, SetSecret
    <3>2. 1 \in 1..Len(s) /\ Disowns(s[1]) /\ s[1].op = "key"
      BY <2>2 DEF RevokesKey, Disowns, SetKey
    <3> QED
      BY <1>2, <3>1, <3>2 DEF Left, Todo
  <2> QED
    BY <1>1, <2>1, <2>2
<1>8. Answers(p)'
  BY <1>2, <1>4, <1>5, <1>6, <1>7 DEF Answers, Planned, Todo
<1> QED
  BY <1>3, <1>8 DEF ServesInv

\* A write.
LEMMA AnswersWrite ==
    ASSUME Base, FreshInv, ServesInv, NEW p \in Procs, Write(p)
    PROVE  ServesInv'
<1> DEFINE w == todo[p][1]
<1>1. /\ UNCHANGED <<up, cut>> /\ \A q \in Procs \ {p} : todo'[q] = todo[q]
      /\ Len(todo'[p]) = Len(todo[p]) - 1 /\ Len(todo[p]) \in Nat
      /\ WriteSecret(p, w) \/ WriteKey(p, w) \/ WriteGuard(p, w) \/ WriteRest(p, w)
  BY NextWrites
<1>2. Effect(p, w) /\ w \in Writes /\ 1 \in Todo(p)
  BY WriteEffect
<1>3. \A i \in 1..Len(todo'[p]) : i + 1 \in Todo(p) /\ todo'[p][i] = todo[p][i + 1]
  BY NextWrites
<1>4. \A i \in Todo(p) : i # 1 => i - 1 \in 1..Len(todo'[p]) /\ todo'[p][i - 1] = todo[p][i]
  BY Unshift DEF After
<1>5. Answers(p)
  BY DEF ServesInv
<1>6. mem \in [Procs -> Store] /\ guard \in [Procs -> Ref \cup {Unregistered}]
  BY DEF Base, TypeOK
<1>7. guard' = guard \/ Registers(w) \/ w.op = "unregister"
  BY <1>1 DEF WriteSecret, WriteKey, WriteGuard, WriteRest, Registers
<1>8. \A i \in Todo(p) : i \in Int /\ i >= 1
  BY DEF Todo
<1> HIDE DEF w
<1>9. ASSUME NEW q \in Procs, q # p
      PROVE  Answers(q)'
  <2>1. guard'[q] = guard[q]
    BY <1>1, <1>6, <1>9 DEF WriteSecret, WriteKey, WriteGuard, WriteRest
  <2> QED
    BY <1>1, <1>2, <1>9, <2>1, AnswersQuiet DEF ServesInv, Effect
<1>10. w.op = "secret" =>
          \A r \in Refs : mem'[p].secrets[r] = IF r = w.ref THEN w.status ELSE mem[p].secrets[r]
  <2>1. ASSUME w.op = "secret"
        PROVE  mem' = [mem EXCEPT ![p].secrets[w.ref] = w.status]
    BY <1>1, <2>1 DEF WriteSecret, WriteKey, WriteGuard, WriteRest
  <2>2. mem[p].secrets \in [Refs -> Status]
    BY <1>6 DEF Store
  <2> QED
    BY <1>6, <2>1, <2>2 DEF Store
<1>11. ASSUME NEW i \in Todo(p), Activates(todo[p][i])
       PROVE  /\ todo[p][i].ref \in Refs
              /\ \A j \in Todo(p) : Names(todo[p][j]) /\ todo[p][j].ref = todo[p][i].ref =>
                    j = i \/ Makes(todo[p][j])
  <2>1. Fresh(p, i)
    BY <1>11 DEF FreshInv
  <2>2. todo[p][i] \in Writes
    BY <1>11 DEF Base, TodoOK, Todo
  <2>3. todo[p][i].ref \in Refs
    BY <2>1, <2>2 DEF Fresh, Writes, Ref
  <2> QED
    BY <2>1, <2>3 DEF Fresh
<1>12. Usable(p)'
  <2>1. CASE Activates(w)
    <3>1. Ready(p, 1) /\ w.ref \in Refs
      BY <1>2, <1>5, <1>11, <2>1 DEF Answers, Planned, w
    <3>2. mem[p].secrets[w.ref] = "active"
      BY <1>8, <3>1 DEF Ready, w
    <3> QED
      BY <1>2, <2>1, <3>2 DEF Usable, Effect, Activates
  <2>2. CASE w.op = "key" /\ w.status # "active"
    BY <1>2, <2>2 DEF Usable, Effect
  <2>3. CASE w.op = "secret"
    <3>1. mem'[p].key = mem[p].key /\ mem[p].key \in KeyNode
      BY <1>2, <1>6, <2>3 DEF Effect, Store
    <3>2. mem[p].key.ref # Env => mem[p].key.ref \in Refs
      BY <3>1 DEF KeyNode, Ref
    <3>3. Retires(w) => mem[p].key.status = "revoked" \/ mem[p].key.ref # w.ref
      BY <1>2, <1>5, <1>8 DEF Answers, Planned, Left, w
    <3>4. Usable(p) /\ (Retires(w) \/ w.status = "active")
      BY <1>5, <2>3 DEF Answers, Retires
    <3> QED
      BY <1>10, <2>3, <3>1, <3>2, <3>3, <3>4 DEF Usable
  <2>4. CASE w.op \notin {"key", "secret"}
    BY <1>2, <1>5, <2>4 DEF Answers, Usable, Effect
  <2> QED
    BY <2>1, <2>2, <2>3, <2>4 DEF Activates
<1>13. ASSUME NEW i \in 1..Len(todo'[p]), Activates(todo'[p][i])
       PROVE  Follows(p, i)' /\ Ready(p, i)'
  <2> DEFINE k == i + 1
             r == todo[p][k].ref
  <2>1. /\ k \in Todo(p) /\ todo'[p][i] = todo[p][k] /\ Activates(todo[p][k])
        /\ k > 1 /\ k - 1 = i /\ i \in Int
    BY <1>3, <1>13
  <2>2. Follows(p, k) /\ Ready(p, k)
    BY <1>5, <2>1 DEF Answers, Planned
  <2> HIDE DEF k
  <2>3. Follows(p, i)'
    <3>1. PICK j \in Todo(p) : j > k /\ Registers(todo[p][j])
      BY <2>2 DEF Follows
    <3>2. j # 1 /\ j - 1 > i
      BY <1>8, <2>1, <3>1
    <3> QED
      BY <1>4, <3>1, <3>2 DEF Follows, Todo
  <2>4. r \in Refs /\ (Names(w) /\ w.ref = r => Makes(w))
    BY <1>2, <1>11, <2>1 DEF w
  <2>5. mem'[p].secrets[r] = "active" \/ \E j \in 1..Len(todo'[p]) :
           j < i /\ Makes(todo'[p][j]) /\ todo'[p][j].ref = r
    <3>1. CASE mem[p].secrets[r] = "active"
      <4>1. CASE w.op = "secret"
        BY <1>10, <2>4, <3>1, <4>1 DEF Names, Makes
      <4>2. CASE w.op # "secret"
        BY <1>2, <3>1, <4>2 DEF Effect
      <4> QED
        BY <4>1, <4>2
    <3>2. CASE mem[p].secrets[r] # "active"
      <4>1. PICK j \in Todo(p) : j < k /\ Makes(todo[p][j]) /\ todo[p][j].ref = r
        BY <2>2, <3>2 DEF Ready
      <4>2. CASE j = 1
        BY <1>10, <2>4, <4>1, <4>2 DEF Makes, w
      <4>3. CASE j # 1
        <5>1. j - 1 < i
          BY <1>8, <2>1, <4>1
        <5> QED
          BY <1>4, <4>1, <4>3, <5>1
      <4> QED
        BY <4>2, <4>3
    <3> QED
      BY <3>1, <3>2
  <2>6. todo'[p][i].ref = r
    BY <2>1
  <2> HIDE DEF r
  <2> QED
    BY <2>3, <2>5, <2>6 DEF Ready, Todo
<1>14. ASSUME NEW i \in 1..Len(todo'[p]), Retires(todo'[p][i])
       PROVE  Left(p, i)'
  <2> DEFINE k == i + 1
  <2>1. /\ k \in Todo(p) /\ todo'[p][i] = todo[p][k] /\ Retires(todo[p][k])
        /\ k > 1 /\ k - 1 = i /\ i \in Int
    BY <1>3, <1>14
  <2>2. Left(p, k)
    BY <1>5, <2>1 DEF Answers, Planned
  <2> HIDE DEF k
  <2>3. CASE Disowns(w)
    BY <1>2, <2>3 DEF Disowns, Left, Effect
  <2>4. CASE Activates(w)
    <3>1. todo[p][k].ref # w.ref
      BY <1>2, <1>11, <2>1, <2>4 DEF Names, Retires, Makes, Activates, w
    <3> QED
      BY <1>2, <2>1, <2>4, <3>1 DEF Left, Effect, Activates
  <2>5. CASE w.op # "key"
    <3>1. mem'[p].key = mem[p].key
      BY <1>2, <2>5 DEF Effect
    <3>2. CASE mem[p].key.status = "revoked" \/ mem[p].key.ref # todo[p][k].ref
      BY <2>1, <3>1, <3>2 DEF Left
    <3>3. CASE ~(mem[p].key.status = "revoked" \/ mem[p].key.ref # todo[p][k].ref)
      <4>1. PICK j \in Todo(p) : /\ j < k /\ todo[p][j].op = "key"
                                 /\ Disowns(todo[p][j]) \/ todo[p][j].ref # todo[p][k].ref
        BY <2>2, <3>3 DEF Left
      <4>2. j # 1 /\ j - 1 < i
        BY <1>8, <2>1, <2>5, <4>1 DEF w
      <4> QED
        BY <1>4, <2>1, <4>1, <4>2 DEF Left, Todo
    <3> QED
      BY <3>2, <3>3
  <2> QED
    BY <1>2, <2>3, <2>4, <2>5 DEF Activates, Disowns, Writes
<1>15. Current(p)'
  <2>1. CASE Registers(w) \/ w.op = "unregister"
    <3>1. guard'[p] \in {Unregistered, mem[p].key.ref} /\ mem'[p].key = mem[p].key
      <4>1. WriteGuard(p, w)
        BY <1>1, <2>1 DEF WriteSecret, WriteKey, WriteRest, Registers
      <4>2. w.op # "key"
        BY <2>1 DEF Registers
      <4> QED
        BY <1>2, <1>6, <4>1, <4>2 DEF WriteGuard, Effect
    <3> QED
      BY <3>1 DEF Current
  <2>2. CASE ~(Registers(w) \/ w.op = "unregister")
    <3>1. CASE Activates(w)
      <4>1. PICK j \in Todo(p) : j > 1 /\ Registers(todo[p][j])
        BY <1>2, <1>5, <3>1 DEF Answers, Planned, Follows, w
      <4>2. j # 1
        BY <1>8, <4>1
      <4> QED
        BY <1>4, <4>1, <4>2 DEF Current, Todo
    <3>2. CASE Disowns(w)
      BY <1>2, <3>2 DEF Current, Effect, Disowns
    <3>3. CASE w.op # "key"
      <4>1. mem'[p].key = mem[p].key /\ guard' = guard
        BY <1>2, <1>7, <2>2, <3>3 DEF Effect
      <4>2. \A i \in Todo(p) : Registers(todo[p][i]) => i # 1
        BY <2>2 DEF w
      <4> QED
        BY <1>1, <1>4, <1>5, <4>1, <4>2 DEF Answers, Current, Todo
    <3> QED
      BY <1>2, <3>1, <3>2, <3>3 DEF Activates, Disowns, Writes
  <2> QED
    BY <2>1, <2>2
<1>16. Answers(p)'
  BY <1>12, <1>13, <1>14, <1>15 DEF Answers, Planned, Todo
<1> QED
  BY <1>9, <1>16 DEF ServesInv

\* A write that raises: what its process has in memory of it is of a secret that
\* is ready, or not the key's.
LEMMA AnswersFails ==
    ASSUME Base, ServesInv, NEW p \in Procs, Fails(p)
    PROVE  ServesInv'
<1> DEFINE w == todo[p][1]
<1>1. /\ 1 \in Todo(p) /\ w \in Writes /\ todo'[p] = <<>> /\ cut'[p] /\ UNCHANGED <<guard, up>>
      /\ \A q \in Procs \ {p} : todo'[q] = todo[q] /\ mem'[q] = mem[q] /\ cut'[q] = cut[q]
      /\ \/ mem' = mem
         \/ /\ w.op = "secret" /\ mem'[p].key = mem[p].key
            /\ mem'[p].secrets = [mem[p].secrets EXCEPT ![w.ref] = w.status]
         \/ /\ w.op = "key" /\ mem'[p].secrets = mem[p].secrets
            /\ mem'[p].key = [status |-> w.status, ref |-> w.ref]
  BY Failing
<1>2. /\ Usable(p)
      /\ Activates(w) => Ready(p, 1)
      /\ Retires(w) => Left(p, 1)
  BY <1>1 DEF ServesInv, Answers, Planned
<1>3. \A j \in Todo(p) : ~(j < 1)
  BY DEF Todo
<1>4. Activates(w) => mem[p].secrets[w.ref] = "active"
  BY <1>2, <1>3 DEF Ready
<1>5. Retires(w) => mem[p].key.status = "revoked" \/ mem[p].key.ref # w.ref
  BY <1>2, <1>3 DEF Left
<1>6. mem[p].secrets \in [Refs -> Status] /\ mem[p].key.ref \in Ref
  BY DEF Base, TypeOK, Store, KeyNode
<1> HIDE DEF w
<1>7. Usable(p)'
  <2>1. CASE mem' = mem
    BY <1>2, <2>1 DEF Usable
  <2>2. CASE w.op = "secret" /\ mem'[p].key = mem[p].key
             /\ mem'[p].secrets = [mem[p].secrets EXCEPT ![w.ref] = w.status]
    <3>1. SUFFICES ASSUME mem[p].key.status = "active", mem[p].key.ref # Env
                   PROVE  mem'[p].secrets[mem[p].key.ref] = "active"
      BY <2>2 DEF Usable
    <3>2. mem[p].secrets[mem[p].key.ref] = "active" /\ mem[p].key.ref \in Refs
      BY <1>2, <1>6, <3>1 DEF Usable, Ref
    <3>3. w.status = "active" \/ w.ref # mem[p].key.ref
      BY <1>5, <2>2, <3>1 DEF Retires
    <3> QED
      BY <1>6, <2>2, <3>2, <3>3
  <2>3. CASE w.op = "key" /\ mem'[p].secrets = mem[p].secrets
             /\ mem'[p].key = [status |-> w.status, ref |-> w.ref]
    BY <1>4, <2>3 DEF Usable, Activates
  <2> QED
    BY <1>1, <2>1, <2>2, <2>3
<1>8. Answers(p)'
  BY <1>1, <1>7, AnswersIdle
<1>9. \A q \in Procs \ {p} : Answers(q)'
  BY <1>1, AnswersQuiet DEF ServesInv
<1> QED
  BY <1>8, <1>9 DEF ServesInv

\* Every step keeps what a process needs to serve.
LEMMA AnswersStep ==
    ASSUME Base, NumbersInv, FreshInv, SecretUsable, ServesInv, [Next]_vars
    PROVE  ServesInv'
<1>0. /\ todo \in [Procs -> Seq(Writes)] /\ mem \in [Procs -> Store]
      /\ guard \in [Procs -> Ref \cup {Unregistered}]
      /\ up \in [Procs -> BOOLEAN] /\ cut \in [Procs -> BOOLEAN]
  BY DEF Base, TypeOK, TodoOK
<1>fails. ASSUME NEW p \in Procs, Fails(p)
          PROVE  ServesInv'
  BY <1>fails, AnswersFails
<1>1. ASSUME NEW p \in Procs, Crash(p)
      PROVE  ServesInv'
  <2>1. UNCHANGED <<mem, guard>> /\ todo'[p] = <<>> /\ ~up'[p]
    BY <1>0, <1>1 DEF Crash
  <2>2. \A q \in Procs \ {p} : todo'[q] = todo[q] /\ up'[q] = up[q] /\ cut'[q] = cut[q]
    BY <1>0, <1>1 DEF Crash
  <2>3. Usable(p)'
    BY <2>1 DEF ServesInv, Answers, Usable
  <2>4. Answers(p)'
    BY <2>1, <2>3, AnswersIdle
  <2>5. \A q \in Procs \ {p} : Answers(q)'
    BY <2>1, <2>2, AnswersQuiet DEF ServesInv
  <2> QED
    BY <2>4, <2>5 DEF ServesInv
<1>2. ASSUME NEW p \in Procs, Lookup(p)
      PROVE  ServesInv'
  <2>1. UNCHANGED <<mem, todo, up, cut>> /\ todo[p] = <<>> /\ guard'[p] = mem[p].key.ref
        /\ \A q \in Procs \ {p} : guard'[q] = guard[q]
    BY <1>0, <1>2 DEF Lookup, Idle, ForwardRef
  <2>2. Usable(p)'
    BY <2>1 DEF ServesInv, Answers, Usable
  <2>3. Answers(p)'
    BY <2>1, <2>2, AnswersIdle
  <2>4. \A q \in Procs \ {p} : Answers(q)'
    BY <2>1, AnswersQuiet DEF ServesInv
  <2> QED
    BY <2>3, <2>4 DEF ServesInv
<1>3. ASSUME NEW p \in Procs, Start(p)
      PROVE  ServesInv'
  <2>1. todo' = todo /\ todo[p] = <<>> /\ mem'[p] = Durable
        /\ guard'[p] \in {Unregistered, Env, key.ref}
    BY <1>0, <1>3 DEF Start, Base, TodoOK
  <2>2. \A q \in Procs \ {p} : mem'[q] = mem[q] /\ guard'[q] = guard[q]
                               /\ up'[q] = up[q] /\ cut'[q] = cut[q]
    BY <1>0, <1>3 DEF Start
  <2>3. Usable(p)'
    BY <2>1 DEF SecretUsable, Usable, Durable
  <2>4. Answers(p)'
    BY <2>1, <2>3, AnswersIdle DEF Durable
  <2>5. \A q \in Procs \ {p} : Answers(q)'
    BY <2>1, <2>2, AnswersQuiet DEF ServesInv
  <2> QED
    BY <2>4, <2>5 DEF ServesInv
<1>4. CASE UNCHANGED vars
  BY <1>4, AnswersQuiet DEF vars, ServesInv
<1> QED
  BY <1>fails, <1>1, <1>2, <1>3, <1>4, AnswersBegin, AnswersWrite, Actions

\* The processes start with the policy file's key, or with none.
LEMMA AnswersStart == Init => ServesInv
<1> SUFFICES ASSUME Init, NEW p \in Procs PROVE Answers(p)
  BY DEF ServesInv
<1>1. Todo(p) = {}
  <2>1. Len(<<>>) = 0 /\ 1..0 = {}
    OBVIOUS
  <2> QED
    BY <2>1 DEF Init, Todo
<1>2. mem[p].key.ref = Env
  BY DEF Init, Durable
<1>3. guard[p] \in {Unregistered, Env}
  BY DEF Init
<1> QED
  BY <1>1, <1>2, <1>3 DEF Answers, Usable, Planned, Current

\* A process that knows its key as active, and had none of its operations on it
\* interrupted, forwards requests for it, whatever the other processes do
\* (gateway.py:369, routers/admin_keys.py:120).
THEOREM ServesCorrect == Spec => []KeyServes
<1>1. IInv /\ KeptInv /\ ServesInv /\ [Next]_vars => ServesInv'
  BY AnswersStep DEF IInv, KeptInv
<1>2. ASSUME IInv, ServesInv, NEW p \in Procs, Idle(p), ~cut[p], mem[p].key.status = "active"
      PROVE  Serves(p)
  <2>1. Todo(p) = {}
    <3>1. Len(<<>>) = 0 /\ 1..0 = {}
      OBVIOUS
    <3> QED
      BY <1>2, <3>1 DEF Idle, Todo
  <2>2. guard[p] \in {Unregistered, Env, mem[p].key.ref} /\ up[p]
    BY <1>2, <2>1 DEF ServesInv, Answers, Current, Idle
  <2>3. ForwardRef(p) \in {Env, mem[p].key.ref}
    BY <1>2, <2>2 DEF ForwardRef, Registrable
  <2>4. mem[p].key.ref # Unregistered /\ Env # Unregistered
    <3>1. mem[p].key.ref \in Ref
      BY <1>2 DEF IInv, Base, TypeOK, Store, KeyNode
    <3>2. \A r \in Ref : r >= 0
      BY BoundsAssumption DEF Ref, Refs, Env
    <3> QED
      BY <3>1, <3>2 DEF Env, Unregistered
  <2> QED
    BY <1>2, <2>2, <2>3, <2>4 DEF Serves, Listed, ServesInv, Answers, Usable
<1>3. IInv /\ ServesInv => KeyServes
  BY <1>2 DEF KeyServes
<1>4. Spec => []KeptInv
  <2>1. IInv /\ KeptInv /\ [Next]_vars => KeptInv'
    BY KeptStep DEF IInv
  <2> QED
    BY InvCorrect, SecretsStart, <2>1, PTL DEF Spec
<1> QED
  BY InvCorrect, AnswersStart, <1>1, <1>3, <1>4, PTL DEF Spec

==============================================================================
