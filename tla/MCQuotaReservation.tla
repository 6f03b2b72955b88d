------------------------- MODULE MCQuotaReservation -------------------------
(* Small instances of QuotaReservation for TLC. *)
EXTENDS QuotaReservation, TLC

CONSTANTS r1, r2, r3,       \* requests
          principal, user   \* lanes

\* Every request is on the lane of one principal; r2 is made on behalf of a
\* user as well, a lane the operator cannot rebuild.
Lanes2 == {principal, user}
LanesOf2 == [r \in Requests |-> IF r = r2 THEN {principal, user} ELSE {principal}]
BareLanes2 == [r \in Requests |-> {principal}]
EstOne == [r \in Requests |-> 1]
EstMixed == [r \in Requests |-> IF r = r2 THEN 2 ELSE 1]
\* The period of the principal's lane ends once, the user's never.
PeriodsOne == [l \in Lanes |-> IF l = principal THEN 1 ELSE 0]
PeriodsNone == [l \in Lanes |-> 0]
LimitOne == [l \in Lanes |-> 1]
LimitThree == [l \in Lanes |-> 3]

WorkerSymmetry == Permutations(Workers \ DryWorkers)
=============================================================================
