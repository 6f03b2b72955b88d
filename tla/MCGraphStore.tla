----------------------------- MODULE MCGraphStore -----------------------------
(* Small instances of GraphStore for TLC.                                      *)
EXTENDS GraphStore
Mixed == [jsonl |-> {1}, postgres |-> {1, 2}, kogwistar |-> {1}]
===============================================================================
