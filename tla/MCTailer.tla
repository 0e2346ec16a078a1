------------------------------ MODULE MCTailer ------------------------------
(* TLC instances of Tailer: which lines are too long.                      *)
EXTENDS Tailer

SecondLine == {2}
=============================================================================
