--------------------------- MODULE MCIdempotency ---------------------------
(* Small instances of Idempotency for TLC. *)
EXTENDS Idempotency, TLC

CONSTANTS r1, r2, r3,   \* requests
          p1, p2            \* payloads

\* r3 reuses the key with another payload.
PayloadOf2 == [r \in Requests |-> IF r = r3 THEN p2 ELSE p1]
OneKey == [r \in Requests |-> CHOOSE k \in Keys : TRUE]

WorkerSymmetry == Permutations(Workers)
=============================================================================
