------------------------------ MODULE Collectors ------------------------------
(***************************************************************************)
(* One tick of the agent's Registry: the four collectors that              *)
(* cmd/agent/main.go registers are asked in turn, some of them fail, and   *)
(* what the others return becomes one batch (internal/agent/collector).    *)
(* The network collector alone keeps state between ticks: the snapshot of  *)
(* the kernel's byte counters from which it computes deltas.  Traffic,     *)
(* resets and interfaces that come and go interleave with all of it.       *)
(*                                                                         *)
(* A metric is the pair <<collector, label>>.  bytes_in and bytes_out are  *)
(* two counters treated alike: one stands for both.  Counters stay below   *)
(* 2^63, where the conversion to int64 in Collect is exact.                *)
(***************************************************************************)
EXTENDS Integers

CONSTANTS
  Ifaces,    \* network interfaces
  Loopback,  \* the interface "lo", which may be one of them
  Allowed,   \* NetworkCollector.ifaces: the allow-list, empty for no restriction
  Cores,     \* labels of the series of cpu.usage_pct: the total and each core
  Mounts,    \* the mount points
  MaxBytes   \* BOUND: traffic units of one interface

ASSUME CollectorsAssumption == MaxBytes \in Nat

VARIABLES
  counter,    \* the kernel's byte counter of each interface that exists
  prev,       \* NetworkCollector.prev: the counters of the last snapshot
  seeded,     \* prev is not nil
  pc,         \* the collector that CollectAll asks next, "idle" between ticks
  batch,      \* metrics gathered in this tick
  failed,     \* collectors that returned an error in this tick
  skipped,    \* mounts without an answer, or of size 0, in this tick
  carried,    \* history: bytes that really passed through an interface
  reported,   \* history: sum of the deltas returned for it
  gap,        \* history: carried - reported when its series last began anew
  disturbed   \* history: interfaces whose series begins anew with the next
              \* snapshot: reset, re-created, or the agent was restarted

netVars  == <<counter, carried>>
tickVars == <<batch, failed, skipped>>
vars == <<counter, prev, seeded, pc, batch, failed, skipped, carried, reported,
          gap, disturbed>>

Init ==
  /\ counter \in [Ifaces -> {0}]
  /\ prev = [i \in {} |-> 0]
  /\ seeded = FALSE
  /\ pc = "idle"
  /\ batch = {}
  /\ failed = {}
  /\ skipped = {}
  /\ carried = [i \in Ifaces |-> 0]
  /\ reported = [i \in Ifaces |-> 0]
  /\ gap = [i \in Ifaces |-> 0]
  /\ disturbed = Ifaces

-----------------------------------------------------------------------------
(* The kernel                                                              *)

Traffic(i) ==
  /\ i \in DOMAIN counter
  /\ carried[i] < MaxBytes
  /\ counter' = [counter EXCEPT ![i] = @ + 1]
  /\ carried' = [carried EXCEPT ![i] = @ + 1]
  /\ UNCHANGED <<prev, seeded, pc, tickVars, reported, gap, disturbed>>

(* The driver is reloaded, or the counter overflows.                       *)
CounterResets(i) ==
  /\ i \in DOMAIN counter
  /\ counter' = [counter EXCEPT ![i] = 0]
  /\ disturbed' = disturbed \cup {i}
  /\ UNCHANGED <<prev, seeded, pc, tickVars, carried, reported, gap>>

Vanishes(i) ==
  /\ i \in DOMAIN counter
  /\ counter' = [j \in DOMAIN counter \ {i} |-> counter[j]]
  /\ disturbed' = disturbed \cup {i}
  /\ UNCHANGED <<prev, seeded, pc, tickVars, carried, reported, gap>>

Appears(i) ==
  /\ i \in Ifaces \ DOMAIN counter
  /\ counter' = [j \in DOMAIN counter \cup {i} |->
                   IF j = i THEN 0 ELSE counter[j]]
  /\ UNCHANGED <<prev, seeded, pc, tickVars, carried, reported, gap, disturbed>>

-----------------------------------------------------------------------------
(* CollectAll                                                              *)

TickStarts ==
  /\ pc = "idle"
  /\ pc' = "cpu"
  /\ batch' = {}
  /\ failed' = {}
  /\ skipped' = {}
  /\ UNCHANGED <<netVars, prev, seeded, reported, gap, disturbed>>

(* A collector that keeps nothing returns all of its metrics or, with an   *)
(* error, none; either way CollectAll asks the next one.                   *)
Ask(c, labels, next) ==
  /\ pc = c
  /\ pc' = next
  /\ \/ /\ batch' = batch \cup ({c} \X labels)
        /\ UNCHANGED failed
     \/ /\ failed' = failed \cup {c}
        /\ UNCHANGED batch
  /\ UNCHANGED <<netVars, prev, seeded, reported, gap, disturbed>>

(* Bug: the first error ends CollectAll.                                   *)
CollectCPUEndsTick ==
  /\ pc = "cpu"
  /\ failed' = failed \cup {"cpu"}
  /\ pc' = "send"
  /\ UNCHANGED <<netVars, prev, seeded, batch, skipped, reported, gap, disturbed>>

(* The aggregate and the per-core query both succeed, or there is nothing. *)
CollectCPU == Ask("cpu", Cores, "memory") /\ UNCHANGED skipped

CollectMemory == Ask("memory", {"host"}, "disk") /\ UNCHANGED skipped

(* A mount whose query fails, or whose size is 0, is left out silently;    *)
(* the enumeration of the mounts may fail as a whole.                      *)
CollectDisk ==
  \E broken \in SUBSET Mounts :
    /\ skipped' = broken
    /\ Ask("disk", Mounts \ broken, "network")

(* Bug: without an allow-list there is no filter at all.                  *)
FilteredByListOnly(snapshot) ==
  [i \in IF Allowed = {} THEN DOMAIN snapshot ELSE DOMAIN snapshot \cap Allowed
     |-> snapshot[i]]

(* The snapshot without loopback and without what the list does not allow. *)
Filtered(snapshot) ==
  LET kept == {i \in DOMAIN snapshot :
                 i # Loopback /\ (Allowed # {} => i \in Allowed)}
  IN  [i \in kept |-> snapshot[i]]

(* Bug: the distance of the two counters, whichever is larger.            *)
Distance(new, old) == IF new < old THEN old - new ELSE new - old

(* The bytes since the last snapshot; a counter that went back gives 0.    *)
Delta(new, old) == IF new < old THEN 0 ELSE new - old

(* One metric for each interface of two consecutive snapshots.             *)
NetworkDeltas(curr) ==
  [i \in DOMAIN curr \cap DOMAIN prev |-> Delta(curr[i], prev[i])]

(* Bug: prev is cleared when the query fails.                              *)
NetworkFailsAndForgets ==
  /\ pc = "network"
  /\ pc' = "send"
  /\ failed' = failed \cup {"network"}
  /\ prev' = [i \in {} |-> 0]
  /\ UNCHANGED <<netVars, seeded, batch, skipped, reported, gap, disturbed>>

(* ioFn fails: prev stays, and the next delta covers this tick as well.    *)
NetworkFails ==
  /\ pc = "network"
  /\ pc' = "send"
  /\ failed' = failed \cup {"network"}
  /\ UNCHANGED <<netVars, prev, seeded, batch, skipped, reported, gap, disturbed>>

(* The first snapshot seeds prev and returns nothing.                      *)
CollectNetwork ==
  LET curr   == Filtered(counter)
      deltas == IF seeded THEN NetworkDeltas(curr) ELSE [i \in {} |-> 0]
      total  == [i \in Ifaces |->
                   reported[i] + IF i \in DOMAIN deltas THEN deltas[i] ELSE 0]
  IN  /\ pc = "network"
      /\ pc' = "send"
      /\ prev' = curr
      /\ seeded' = TRUE
      /\ batch' = batch \cup ({"network"} \X DOMAIN deltas)
      /\ reported' = total
      /\ gap' = [i \in Ifaces |-> IF i \in disturbed THEN carried[i] - total[i]
                                                     ELSE gap[i]]
      /\ disturbed' = disturbed \ DOMAIN curr
      /\ UNCHANGED <<netVars, failed, skipped>>

(* collectLoop makes a batch of the metrics, unless there are none, and    *)
(* waits for the next tick.                                                *)
TickEnds ==
  /\ pc = "send"
  /\ pc' = "idle"
  /\ UNCHANGED <<netVars, prev, seeded, tickVars, reported, gap, disturbed>>

(* The agent is restarted: its collectors are new.                         *)
Restart ==
  /\ prev' = [i \in {} |-> 0]
  /\ seeded' = FALSE
  /\ pc' = "idle"
  /\ batch' = {}
  /\ failed' = {}
  /\ skipped' = {}
  /\ disturbed' = Ifaces
  /\ UNCHANGED <<netVars, reported, gap>>

Kernel(i) == Traffic(i) \/ CounterResets(i) \/ Vanishes(i) \/ Appears(i)

CollectAll ==
  \/ TickStarts
  \/ CollectCPU
  \/ CollectMemory
  \/ CollectDisk
  \/ NetworkFails
  \/ CollectNetwork
  \/ TickEnds

Next ==
  \/ \E i \in Ifaces : Kernel(i)
  \/ CollectAll
  \/ Restart

Spec == Init /\ [][Next]_vars

-----------------------------------------------------------------------------
Counters == 0..MaxBytes

Collector == {"cpu", "memory", "disk", "network"}

(* Types; in particular the loopback and what the list does not allow are  *)
(* never in the snapshot, and a delta is never negative.                   *)
TypeOK ==
  /\ DOMAIN counter \subseteq Ifaces
  /\ counter \in [DOMAIN counter -> Counters]
  /\ DOMAIN prev \subseteq Ifaces \ {Loopback}
  /\ Allowed # {} => DOMAIN prev \subseteq Allowed
  /\ prev \in [DOMAIN prev -> Counters]
  /\ seeded \in BOOLEAN
  /\ pc \in Collector \cup {"idle", "send"}
  /\ batch \subseteq Collector \X (Cores \cup {"host"} \cup Mounts \cup Ifaces)
  /\ failed \subseteq Collector
  /\ skipped \subseteq Mounts
  /\ carried \in [Ifaces -> Counters]
  /\ reported \in [Ifaces -> Nat]
  /\ disturbed \subseteq Ifaces

(* No byte is counted twice, over any sequence of failures, resets, re-    *)
(* created interfaces and restarts; and while an interface is undisturbed, *)
(* none is lost either: what its counter gained since the last snapshot is *)
(* all that its series still owes, also across failed queries.             *)
BytesAreConserved ==
  /\ \A i \in Ifaces : reported[i] <= carried[i]
  /\ \A i \in Ifaces \ disturbed :
       /\ i \in DOMAIN prev
       /\ reported[i] + gap[i] + (counter[i] - prev[i]) = carried[i]

(* The collectors asked so far in this tick.                               *)
Asked ==
  CASE pc = "memory"  -> {"cpu"}
    [] pc = "disk"    -> {"cpu", "memory"}
    [] pc = "network" -> {"cpu", "memory", "disk"}
    [] pc = "send"    -> Collector
    [] OTHER          -> {}

(* What a collector that answered owes to the batch.                       *)
Owed ==
  [cpu |-> Cores, memory |-> {"host"}, disk |-> Mounts \ skipped]

(* "A single collector error does not stop the others": the batch has all  *)
(* that each collector owes or, of one that failed, nothing, and the       *)
(* network series are those of the snapshot that prev now holds.           *)
FailureIsContained ==
  /\ \A c \in Asked \ {"network"} :
       {m \in batch : m[1] = c} =
         IF c \in failed THEN {} ELSE {c} \X Owed[c]
  /\ \A m \in batch : m[1] = "network" =>
       "network" \notin failed /\ m[2] \in DOMAIN prev
=============================================================================
