--------------------------- MODULE MCUsageReview ---------------------------
(* Small instances of UsageReview for TLC. *)
EXTENDS UsageReview

\* Every request costs one.
SpendOne == [i \in Rows |-> 1]
=============================================================================
