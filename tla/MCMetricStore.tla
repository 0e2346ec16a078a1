---------------------------- MODULE MCMetricStore ----------------------------
(* TLC instance of MetricStore: a bucket is two ticks of half a minute.    *)
EXTENDS MetricStore

CONSTANTS h1

Windows     == [scrape |-> 3, rule |-> 2, charts |-> 2]
HostWindows == [scrape |-> 3, rule |-> 4]
LowHigh     == {0, 3}
FastOrSlow  == {-1, 1}
FirstTwice  == <<2, 1>>
=============================================================================
