-------------------------- MODULE SettlementLedger --------------------------
(***************************************************************************)
(* What settlement promises, whatever processes, retries and crashes stand *)
(* behind it: a request is charged in one indivisible step, to every quota *)
(* lane it is settled on, with one and the same cost, at most once, and a  *)
(* charge is never taken back (core.py, settle_reservation: "Atomically    *)
(* settle reservation plus all quota projections").                        *)
(***************************************************************************)
EXTENDS Naturals

CONSTANTS Requests,   \* request identifiers
          Lanes,      \* quota lanes: one (lane, subject, period) address each
          Costs       \* the amounts a request can be charged

VARIABLES
    charge,    \* charge[l][r]: what lane l was charged for request r
    charged    \* the requests that have been settled

vars == <<charge, charged>>

Init ==
    /\ charge = [l \in Lanes |-> [r \in Requests |-> 0]]
    /\ charged = {}

\* Charge request r the cost c on exactly the lanes L.
Settle(r, c, L) ==
    /\ r \notin charged
    /\ charged' = charged \union {r}
    /\ charge' = [l \in Lanes |->
                    IF l \in L THEN [charge[l] EXCEPT ![r] = c] ELSE charge[l]]

Next == \E r \in Requests, c \in Costs, L \in SUBSET Lanes : Settle(r, c, L)

Spec == Init /\ [][Next]_vars

=============================================================================
