---------------------------- MODULE MCEvaluator ----------------------------
(* TLC instances of Evaluator: the lists of rules.                         *)
EXTENDS Evaluator

CONSTANTS h1, cpu, mem

OneHost  == {h1}

(* A rule for all hosts and one for h1, about different metrics.           *)
MixedTarget == <<Wildcard, h1>>
MixedSeries == <<cpu, mem>>

(* The same, about one metric and threshold with two windows.              *)
CollidingTarget == <<Wildcard, h1>>
CollidingSeries == <<cpu, cpu>>
=============================================================================
