------------------------------ MODULE KeyLifecycle ------------------------------
(* A provider key: created, rotated and revoked by administrators, registered  *)
(* with the guard of every gateway process, found again after a restart, and   *)
(* resolved to its secret when a request is forwarded (key_manager.py,         *)
(* routers/admin_keys.py, gateway.py build_guard, rehydrate_runtime_key and    *)
(* resolve_secret); and who may use it on which terms (core.py grant and       *)
(* check, kogwistar_acl_adapter.py).                                           *)
(*                                                                             *)
(* The key is a node that names its active secret, and every secret a node     *)
(* with a status.  An operation writes several of them one by one, through the *)
(* process' memory; it may raise and its process may be lost after any write.  *)
(* Secrets are numbered; a secret's expiry and the quotas of the key are left  *)
(* out.                                                                        *)
EXTENDS Integers, FiniteSets, Sequences

CONSTANTS
    Procs,         \* gateway processes on one store
    Origins,       \* where the key may come from: "runtime", "policy"
    Terms,         \* access terms the key may be given: an ACL mode and its subjects
    Callers,       \* who asks for the key: an id, a namespace, groups
    MaxSecrets,    \* bound: secrets made
    MaxRevokes,    \* bound: revocations begun
    MaxFailures,   \* bound: writes that raise
    MaxCrashes     \* bound: processes lost

ASSUME ProcsAssumption == IsFiniteSet(Procs)
ASSUME OriginsAssumption == Origins \subseteq {"runtime", "policy"}
Modes == {"private", "shared", "scope", "group", "public"}
Administrator == "admin:web"

ASSUME TermsAssumption ==
    Terms \subseteq [mode : Modes, ns : STRING, principals : SUBSET STRING, groups : SUBSET STRING]
\* No principal has the id an administrator's changes are signed with, or none.
ASSUME CallersAssumption ==
    Callers \subseteq [id : STRING \ {Administrator, ""}, ns : STRING, groups : SUBSET STRING]
ASSUME BoundsAssumption == {MaxSecrets, MaxRevokes, MaxFailures, MaxCrashes} \subseteq Nat

VARIABLES
    origin,        \* made by an administrator, or listed in the policy file
    terms,         \* the access terms it is made with
    key,           \* the durable key node
    secrets,       \* durable status of every secret
    mem,           \* a process' copy of both
    guard,         \* the secret the key is registered with in a process, or Unregistered
    acl,           \* a process' latest ACL record of the key, or NoRecord
    asks,          \* whether the registered key asks for approval of a dear request
    todo,          \* writes the operation of a process still has to make
    up,            \* whether a process serves
    done,          \* secrets made, revocations begun, failures, crashes
    dead,          \* history: the key is revoked for good, as far as a process has been told
    revoked,       \* history: a revocation was acknowledged and no other process undid it
    cut,           \* history: an operation of the process was interrupted since it started
    anyCut,        \* history: some operation was interrupted
    writers        \* history: the processes that began an operation

vars == <<origin, terms, key, secrets, mem, guard, acl, asks, todo, up, done, dead, revoked,
          cut, anyCut, writers>>

Unregistered == -1
NoRecord == [mode |-> "none", owner |-> "", ns |-> "", principals |-> {}, groups |-> {}]
Env == 0                \* the environment variable a policy file names
Refs == 1..MaxSecrets
Ref == {Env} \cup Refs

KeyNode == [status : {"absent", "active", "revoked"}, ref : Ref]
Status == {"absent", "active", "rotated", "revoked"}
Store == [key : KeyNode, secrets : [Refs -> Status]]
Durable == [key |-> key, secrets |-> secrets]

\* A write: a secret's status, the key node, or an edge or event.
SetSecret(r, s) == [op |-> "secret", ref |-> r, status |-> s]
SetKey(k) == [op |-> "key", ref |-> k.ref, status |-> k.status]
Note(w) == [op |-> w, ref |-> Env, status |-> "absent"]

-------------------------------------------------------------------------------
(* The operations, as the writes they make.                                    *)

\* create_key, with _create_secret_payload, and what admin_create_key does with
\* the guard afterwards.
CreateWrites(r) ==
    <<SetSecret(r, "active"), Note("event"), SetKey([status |-> "active", ref |-> r]),
      Note("edge"), Note("event"), Note("register"), Note("edge"), Note("created")>>

\* Fault: the old secret is retired before the key names the new one.
RotateWrites_RetireFirst(m, r) ==
    (IF m.key.ref \in Refs THEN <<SetSecret(m.key.ref, "rotated")>> ELSE <<>>)
    \o <<SetSecret(r, "active"), Note("event"), SetKey([m.key EXCEPT !.ref = r]), Note("edge"),
         Note("event"), Note("reregister"), Note("rotated")>>

\* Fault: the guard keeps the secret it has.
RotateWrites_NoRegister(m, r) ==
    <<SetSecret(r, "active"), Note("event"), SetKey([m.key EXCEPT !.ref = r]), Note("edge")>>
    \o (IF m.key.ref \in Refs THEN <<SetSecret(m.key.ref, "rotated")>> ELSE <<>>)
    \o <<Note("event"), Note("rotated")>>

\* rotate_key, and what admin_rotate_key does with the guard afterwards.
RotateWrites(m, r) ==
    IF m.key.ref \in Refs
    THEN <<SetSecret(r, "active"), Note("event"), SetKey([m.key EXCEPT !.ref = r]), Note("edge"),
           SetSecret(m.key.ref, "rotated"), Note("event"), Note("reregister"), Note("rotated")>>
    ELSE <<SetSecret(r, "active"), Note("event"), SetKey([m.key EXCEPT !.ref = r]), Note("edge"),
           Note("event"), Note("reregister"), Note("rotated")>>

\* Fault: only the secret is revoked, and the key node stays as it is.
RevokeWrites_SecretOnly(m) ==
    (IF m.key.ref \in Refs THEN <<SetSecret(m.key.ref, "revoked")>> ELSE <<>>)
    \o <<Note("event"), Note("unregister"), Note("revoked")>>

\* revoke_key, and what admin_revoke_key does with the guard afterwards.
RevokeWrites(m) ==
    IF m.key.ref \in Refs
    THEN <<SetKey([m.key EXCEPT !.status = "revoked"]), SetSecret(m.key.ref, "revoked"),
           Note("event"), Note("unregister"), Note("revoked")>>
    ELSE <<SetKey([m.key EXCEPT !.status = "revoked"]),
           Note("event"), Note("unregister"), Note("revoked")>>

Idle(p) == up[p] /\ todo[p] = <<>>

\* A secret's reference holds the second and the number of nodes, and is new.
NextRef == done.secrets + 1

Create(p) ==
    /\ Idle(p) /\ mem[p].key.status = "absent" /\ NextRef \in Refs
    /\ todo' = [todo EXCEPT ![p] = CreateWrites(NextRef)]
    /\ done' = [done EXCEPT !.secrets = @ + 1]
    /\ writers' = writers \cup {p}
    /\ UNCHANGED <<origin, terms, key, secrets, mem, guard, acl, asks, up, dead, revoked,
                   cut, anyCut>>

\* Refused for a key the process knows to be revoked.
Rotate(p) ==
    /\ Idle(p) /\ mem[p].key.status = "active" /\ NextRef \in Refs
    /\ todo' = [todo EXCEPT ![p] = RotateWrites(mem[p], NextRef)]
    /\ done' = [done EXCEPT !.secrets = @ + 1]
    /\ writers' = writers \cup {p}
    /\ UNCHANGED <<origin, terms, key, secrets, mem, guard, acl, asks, up, dead, revoked,
                   cut, anyCut>>

Revoke(p) ==
    /\ Idle(p) /\ mem[p].key.status # "absent" /\ done.revokes < MaxRevokes
    /\ todo' = [todo EXCEPT ![p] = RevokeWrites(mem[p])]
    /\ done' = [done EXCEPT !.revokes = @ + 1]
    /\ writers' = writers \cup {p}
    /\ UNCHANGED <<origin, terms, key, secrets, mem, guard, acl, asks, up, dead, revoked,
                   cut, anyCut>>

-------------------------------------------------------------------------------
(* Access terms.                                                               *)

AclRecord == {NoRecord} \cup
    [mode : Modes, owner : {Administrator, ""}, ns : STRING,
     principals : SUBSET STRING, groups : SUBSET STRING]

\* grant: a record with a version of its own, which makes it the latest.
Record(t, owner) ==
    [mode |-> t.mode, owner |-> owner, ns |-> t.ns, principals |-> t.principals, groups |-> t.groups]

\* Fault: a rehydrated key is shared with nobody.
Rehydrated_Alone == Record([terms EXCEPT !.principals = {}, !.groups = {}], "")

\* The grant of a key found in the graph: from its node, which a policy file's
\* key does not carry its terms in, or from the edge to its namespace, which
\* names no principals and no groups.
Rehydrated ==
    IF origin = "policy" THEN Record([terms EXCEPT !.principals = {}, !.groups = {}], "")
    ELSE Record(terms, "")

\* decide: whether a record lets a caller use the key.
Visible(r, c) ==
    \/ r.mode = "public"
    \/ r.owner = c.id
    \/ r.mode = "scope" /\ c.ns = r.ns
    \/ r.mode = "shared" /\ c.id \in r.principals
    \/ r.mode = "group" /\ c.groups \cap r.groups # {}

\* _acl_decide: by the latest record a process has.
Permitted(p, c) == Visible(acl[p], c)

\* check, but for the quotas: what a process answers to a caller's dear request.
Decision(p, c) ==
    IF guard[p] = Unregistered THEN "unregistered"
    ELSE IF ~Permitted(p, c) THEN "denied"
    ELSE IF asks[p] THEN "approval" ELSE "allowed"

-------------------------------------------------------------------------------
(* One write of an operation.                                                  *)

WriteSecret(p, w) ==
    /\ w.op = "secret"
    /\ secrets' = [secrets EXCEPT ![w.ref] = w.status]
    /\ mem' = [mem EXCEPT ![p].secrets[w.ref] = w.status]
    /\ UNCHANGED <<key, guard, acl, asks, dead, revoked>>

\* A process that has not heard of a revocation writes the key active again.
WriteKey(p, w) ==
    /\ w.op = "key"
    /\ key' = [status |-> w.status, ref |-> w.ref]
    /\ mem' = [mem EXCEPT ![p].key = [status |-> w.status, ref |-> w.ref]]
    /\ revoked' = (revoked /\ w.status = "revoked")
    /\ UNCHANGED <<secrets, guard, acl, asks, dead>>

\* register_key after a rotation if the guard has the key, after a creation
\* always, with a grant; a revocation takes the key from the guard, and leaves
\* its ACL record.  A registration by an administrator sets no threshold above
\* which the key asks for approval, whatever the key had.
WriteGuard(p, w) ==
    /\ w.op \in {"register", "reregister", "unregister"}
    /\ guard' = [guard EXCEPT ![p] =
                    IF w.op = "unregister" \/ (w.op = "reregister" /\ @ = Unregistered)
                    THEN Unregistered ELSE mem[p].key.ref]
    /\ acl' = IF w.op = "register" THEN [acl EXCEPT ![p] = Record(terms, Administrator)] ELSE acl
    /\ asks' = [asks EXCEPT ![p] = @ /\ w.op = "unregister"]
    /\ UNCHANGED <<key, secrets, mem, dead, revoked>>

\* Edges, events, and the answer to the administrator.
WriteRest(p, w) ==
    /\ w.op \in {"edge", "event", "created", "rotated", "revoked"}
    /\ dead' = [dead EXCEPT ![p] = @ \/ w.op = "revoked"]
    /\ revoked' = (revoked \/ (w.op = "revoked" /\ key.status = "revoked"))
    /\ UNCHANGED <<key, secrets, mem, guard, acl, asks>>

Write(p) ==
    /\ todo[p] # <<>>
    /\ LET w == Head(todo[p]) IN
       WriteSecret(p, w) \/ WriteKey(p, w) \/ WriteGuard(p, w) \/ WriteRest(p, w)
    /\ todo' = [todo EXCEPT ![p] = Tail(@)]
    /\ UNCHANGED <<origin, terms, up, done, cut, anyCut, writers>>

\* A process' memory with a write in it.
Remembered(m, w) ==
    CASE w.op = "secret" -> [m EXCEPT !.secrets[w.ref] = w.status]
      [] w.op = "key" -> [m EXCEPT !.key = [status |-> w.status, ref |-> w.ref]]
      [] OTHER -> m

\* A write to the store raises: the handler answers an error, and what came
\* before stays.  The stores on a file and on Postgres have the write in memory
\* by then, a kogwistar store has not.
Fails(p) ==
    /\ todo[p] # <<>> /\ done.failures < MaxFailures
    /\ Head(todo[p]).op \in {"secret", "key", "edge", "event"}
    /\ mem' \in {mem, [mem EXCEPT ![p] = Remembered(@, Head(todo[p]))]}
    /\ done' = [done EXCEPT !.failures = @ + 1]
    /\ todo' = [todo EXCEPT ![p] = <<>>]
    /\ cut' = [cut EXCEPT ![p] = TRUE] /\ anyCut' = TRUE
    /\ UNCHANGED <<origin, terms, key, secrets, guard, acl, asks, up, dead, revoked, writers>>

-------------------------------------------------------------------------------
(* Requests.                                                                   *)

\* Whether the graph's node is one to register: of an active key.
Registrable(m) == m.key.status = "active"

\* _iter_model_keys: the policy file's keys, and the active ones of the graph.
Listed(p) == origin = "policy" \/ mem[p].key.status = "active"

\* The secret a request for the key is forwarded with: that of the guard, into
\* which rehydrate_runtime_key puts a key it does not have.
ForwardRef(p) ==
    IF guard[p] # Unregistered THEN guard[p]
    ELSE IF Registrable(mem[p]) THEN mem[p].key.ref ELSE Unregistered

\* Whether a request is forwarded with a secret; if not it ends as 403.
Serves(p) ==
    /\ up[p] /\ Listed(p) /\ ForwardRef(p) # Unregistered
    /\ ForwardRef(p) # Env => mem[p].secrets[ForwardRef(p)] = "active"

\* The first request for a key the guard does not have.
Lookup(p) ==
    /\ Idle(p) /\ Listed(p)
    /\ guard[p] = Unregistered /\ Registrable(mem[p])
    /\ guard' = [guard EXCEPT ![p] = ForwardRef(p)]
    /\ acl' = [acl EXCEPT ![p] = Rehydrated]
    /\ asks' = [asks EXCEPT ![p] = FALSE]
    /\ UNCHANGED <<origin, terms, key, secrets, mem, todo, up, done, dead, revoked, cut, anyCut,
                   writers>>

-------------------------------------------------------------------------------
(* Processes.                                                                  *)

Crash(p) ==
    /\ up[p] /\ done.crashes < MaxCrashes
    /\ done' = [done EXCEPT !.crashes = @ + 1]
    /\ up' = [up EXCEPT ![p] = FALSE]
    /\ anyCut' = (anyCut \/ todo[p] # <<>>)
    /\ todo' = [todo EXCEPT ![p] = <<>>]
    /\ UNCHANGED <<origin, terms, key, secrets, mem, guard, acl, asks, dead, revoked, cut, writers>>

\* build_guard: the policy file's key with the file's secret, over which an
\* active node of the graph registers its own.
Start(p) ==
    /\ ~up[p]
    /\ up' = [up EXCEPT ![p] = TRUE]
    /\ mem' = [mem EXCEPT ![p] = Durable]
    /\ guard' = [guard EXCEPT ![p] =
                    IF Registrable(Durable) THEN key.ref
                    ELSE IF origin = "policy" THEN Env ELSE Unregistered]
    /\ acl' = [acl EXCEPT ![p] = IF origin = "policy" THEN Record(terms, "")
                                 ELSE IF Registrable(Durable) THEN Rehydrated ELSE NoRecord]
    /\ asks' = [asks EXCEPT ![p] = origin = "policy"]
    /\ dead' = [dead EXCEPT ![p] = revoked]
    /\ cut' = [cut EXCEPT ![p] = FALSE]
    /\ UNCHANGED <<origin, terms, key, secrets, todo, done, revoked, anyCut, writers>>

Init ==
    /\ origin \in Origins /\ terms \in Terms
    /\ key = [status |-> IF origin = "policy" THEN "active" ELSE "absent", ref |-> Env]
    /\ secrets = [r \in Refs |-> "absent"]
    /\ mem = [p \in Procs |-> Durable]
    /\ guard = [p \in Procs |-> IF origin = "policy" THEN Env ELSE Unregistered]
    /\ acl = [p \in Procs |-> IF origin = "policy" THEN Record(terms, "") ELSE NoRecord]
    /\ asks = [p \in Procs |-> origin = "policy"]
    /\ todo = [p \in Procs |-> <<>>]
    /\ up = [p \in Procs |-> TRUE]
    /\ done = [secrets |-> 0, revokes |-> 0, failures |-> 0, crashes |-> 0]
    /\ dead = [p \in Procs |-> FALSE] /\ revoked = FALSE
    /\ cut = [p \in Procs |-> FALSE] /\ anyCut = FALSE /\ writers = {}

Next ==
    \E p \in Procs :
        \/ Create(p) \/ Rotate(p) \/ Revoke(p)
        \/ Write(p) \/ Fails(p) \/ Lookup(p)
        \/ Crash(p) \/ Start(p)

Spec == Init /\ [][Next]_vars

-------------------------------------------------------------------------------
(* Properties.                                                                 *)

\* Every variable keeps its type.
TypeOK ==
    /\ origin \in Origins /\ terms \in Terms
    /\ acl \in [Procs -> AclRecord] /\ asks \in [Procs -> BOOLEAN]
    /\ key \in KeyNode /\ secrets \in [Refs -> Status]
    /\ mem \in [Procs -> Store]
    /\ guard \in [Procs -> Ref \cup {Unregistered}]
    /\ up \in [Procs -> BOOLEAN]
    /\ done \in [secrets : 0..MaxSecrets, revokes : 0..MaxRevokes,
                 failures : 0..MaxFailures, crashes : 0..MaxCrashes]
    /\ dead \in [Procs -> BOOLEAN] /\ revoked \in BOOLEAN
    /\ cut \in [Procs -> BOOLEAN] /\ anyCut \in BOOLEAN
    /\ writers \subseteq Procs

\* Wherever operations are interrupted, and whatever several processes with
\* stale memories do to the key: an active key names a secret that can be used,
\* so that a process started now serves it.
SecretUsable == key.status = "active" /\ key.ref # Env => secrets[key.ref] = "active"

\* A process that serves a key it knows as active and had none of its operations
\* on it interrupted forwards requests for it, also right after a rotation.
KeyServes ==
    \A p \in Procs : Idle(p) /\ ~cut[p] /\ mem[p].key.status = "active" => Serves(p)

\* A revocation that was acknowledged holds in the process that made it and in
\* every one started later, until a process that has not heard of it rotates the
\* key.  It takes a key that an administrator made: one of the policy file is
\* registered again at every start.
RevokedIsDead ==
    origin = "runtime" => \A p \in Procs : Idle(p) /\ dead[p] => ~Serves(p)

\* What the key's maker or the policy file has laid down for a caller.
Due(c) == IF ~Visible(Record(terms, ""), c) THEN "denied"
          ELSE IF origin = "policy" THEN "approval" ELSE "allowed"

\* Every process that has the key registered decides about a caller as the key's
\* terms say, whether it made the key, found it in the graph or was restarted,
\* and whoever has rotated it since; only the process that changed a policy
\* file's key may have dropped its approval threshold (docs/adr/0004, "a soft
\* gate distinct from quota exhaustion").
TermsHold ==
    \A p \in Procs, c \in Callers : guard[p] # Unregistered =>
        \/ Decision(p, c) = Due(c)
        \/ p \in writers /\ Decision(p, c) = "allowed" /\ Due(c) = "approval"

\* If one process manages the key and none of its operations was interrupted,
\* the key's active secret is the only one that can be used, and there is none
\* of a revoked key.
OthersRetired ==
    (Cardinality(writers) <= 1 /\ ~anyCut /\ \A p \in Procs : Idle(p)) =>
        \A r \in Refs : secrets[r] = "active" => key.status = "active" /\ key.ref = r

\* The usable secrets are those of the active key: its own always is, and no
\* other one, where nothing was interrupted.
SecretsFollowKey == SecretUsable /\ OthersRetired

===============================================================================
