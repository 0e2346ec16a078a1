------------------------------ MODULE MCAgent ------------------------------
(* TLC instances of Agent: which batches cannot be encoded, which the      *)
(* server refuses, and which the storage cannot insert.                    *)
EXTENDS Agent

Nothing == {}
Second  == {2}
Third   == {3}
Fourth  == {4}
=============================================================================
