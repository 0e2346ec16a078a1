----------------------------- MODULE MCLogStore -----------------------------
(* TLC instance of LogStore: the filter leaves out one row.                *)
EXTENDS LogStore

AllButSecond == Id \ {2}
=============================================================================
