---------------------------- MODULE MCLogSender ----------------------------
(* TLC instance of LogSender: a chunk of two lines whose first attempt may *)
(* be spoiled, one that Validate refuses, one good one, and one that the   *)
(* storage cannot insert.                                                  *)
EXTENDS LogSender

Sizes     == <<2, 1, 1, 1>>
OnlyFirst == <<1, 0, 0, 0>>
Second    == {2}
Fourth    == {4}
=============================================================================
