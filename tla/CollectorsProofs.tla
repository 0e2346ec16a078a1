-------------------------- MODULE CollectorsProofs --------------------------
(***************************************************************************)
(* Proofs about the registry of collectors, for any interfaces, loopback   *)
(* and allow-list, any cores and mounts, and any traffic.                  *)
(***************************************************************************)
EXTENDS Collectors, TLAPS

USE CollectorsAssumption

(* A counter holds no more than passed through its interface.              *)
CountersAreCarried == \A i \in DOMAIN counter : counter[i] <= carried[i]

(* Before its first snapshot the network collector has no counters, and    *)
(* no interface has a series.                                              *)
NewCollectorIsEmpty == ~seeded => DOMAIN prev = {} /\ disturbed = Ifaces

(* What the next snapshot would add was carried and not yet reported, for  *)
(* interfaces that were reset or re-created, too.                          *)
DeltasAreOwed ==
  \A i \in DOMAIN counter \cap DOMAIN prev :
     reported[i] + Delta(counter[i], prev[i]) <= carried[i]

(* The counter of an undisturbed interface is there and has only grown.    *)
UndisturbedHasGrown ==
  \A i \in Ifaces \ disturbed :
     /\ i \in DOMAIN counter \cap DOMAIN prev
     /\ prev[i] <= counter[i]
     /\ gap[i] \in Nat

(* Nothing in the batch is of a collector that was not asked yet.          *)
OnlyOfTheAsked ==
  pc \in Collector =>
    /\ failed \subseteq Asked
    /\ \A m \in batch : m[1] \in Asked

(* The inductive invariant of the registry.                                *)
RegistryInv ==
  /\ TypeOK
  /\ CountersAreCarried
  /\ NewCollectorIsEmpty
  /\ DeltasAreOwed
  /\ UndisturbedHasGrown
  /\ OnlyOfTheAsked
  /\ BytesAreConserved
  /\ FailureIsContained

(* What the proofs need of the types of the counters.                      *)
LEMMA CounterTypes ==
  ASSUME TypeOK
  PROVE  /\ \A i \in Ifaces : /\ carried[i] \in Nat /\ carried[i] <= MaxBytes
                              /\ reported[i] \in Nat
         /\ \A i \in DOMAIN counter : i \in Ifaces /\ counter[i] \in Nat
         /\ \A i \in DOMAIN prev : i \in Ifaces /\ prev[i] \in Nat
  BY DEF TypeOK, Counters

LEMMA DeltaIsNatural ==
  ASSUME NEW new \in Nat, NEW old \in Nat
  PROVE  /\ Delta(new, old) \in Nat
         /\ Delta(new, old) <= new
         /\ Delta(new + 1, old) <= Delta(new, old) + 1
         /\ Delta(new, new) = 0
         /\ old <= new => Delta(new, old) = new - old
  BY DEF Delta

(* A unit of traffic is in the counter, and owed.                          *)
LEMMA TrafficKeeps ==
  ASSUME RegistryInv, NEW i \in Ifaces, Traffic(i)
  PROVE  RegistryInv'
<1> USE DEF RegistryInv, tickVars
<1>1. /\ i \in DOMAIN counter /\ DOMAIN counter' = DOMAIN counter
      /\ counter'[i] = counter[i] + 1 /\ carried'[i] = carried[i] + 1
      /\ carried[i] < MaxBytes
      /\ \A j \in DOMAIN counter \ {i} : counter'[j] = counter[j]
      /\ \A j \in Ifaces \ {i} : carried'[j] = carried[j]
      /\ UNCHANGED <<prev, seeded, pc, batch, failed, skipped, reported, gap,
                     disturbed>>
  BY DEF Traffic, TypeOK
<1>2. /\ \A j \in Ifaces : /\ carried[j] \in Nat /\ carried[j] <= MaxBytes
                           /\ reported[j] \in Nat
      /\ \A j \in DOMAIN counter : j \in Ifaces /\ counter[j] \in Nat
      /\ \A j \in DOMAIN prev : j \in Ifaces /\ prev[j] \in Nat
  BY CounterTypes
<1>3. CountersAreCarried'
  BY <1>1, <1>2 DEF CountersAreCarried
<1>4. TypeOK'
  <2>1. \A j \in DOMAIN counter : counter'[j] \in Counters
    BY <1>1, <1>2 DEF CountersAreCarried, TypeOK, Counters
  <2>2. \A j \in Ifaces : carried'[j] \in Counters
    BY <1>1, <1>2 DEF TypeOK, Counters
  <2>3. /\ counter' \in [DOMAIN counter' -> Counters]
        /\ carried' \in [Ifaces -> Counters]
    BY <1>1, <2>1, <2>2 DEF Traffic, TypeOK
  <2> QED
    BY <1>1, <2>3 DEF TypeOK
<1>5. NewCollectorIsEmpty' /\ OnlyOfTheAsked' /\ FailureIsContained'
  BY <1>1 DEF NewCollectorIsEmpty, OnlyOfTheAsked, FailureIsContained,
              Asked, Owed
<1>6. DeltasAreOwed'
  <2> SUFFICES ASSUME NEW j \in DOMAIN counter \cap DOMAIN prev
               PROVE  reported[j] + Delta(counter'[j], prev[j])
                        <= carried'[j]
    BY <1>1 DEF DeltasAreOwed, Delta
  <2>1. reported[j] + Delta(counter[j], prev[j]) <= carried[j]
    BY DEF DeltasAreOwed
  <2>2. /\ counter[j] \in Nat /\ prev[j] \in Nat /\ reported[j] \in Nat
        /\ carried[j] \in Nat
    BY <1>2
  <2>3. CASE j = i
    <3>1. /\ Delta(counter[j] + 1, prev[j])
               <= Delta(counter[j], prev[j]) + 1
          /\ Delta(counter[j], prev[j]) \in Nat
          /\ Delta(counter[j] + 1, prev[j]) \in Nat
      BY <2>2, DeltaIsNatural
    <3>2. counter'[j] = counter[j] + 1 /\ carried'[j] = carried[j] + 1
      BY <1>1, <2>3
    <3> QED
      BY <2>1, <2>2, <3>1, <3>2
  <2>4. CASE j # i
    BY <1>1, <1>2, <2>1, <2>4
  <2> QED
    BY <2>3, <2>4
<1>7. UndisturbedHasGrown'
  BY <1>1, <1>2 DEF UndisturbedHasGrown
<1>8. BytesAreConserved'
  <2>1. \A j \in Ifaces : reported'[j] <= carried'[j]
    BY <1>1, <1>2 DEF BytesAreConserved
  <2>2. ASSUME NEW j \in Ifaces \ disturbed
        PROVE  /\ j \in DOMAIN prev
               /\ reported[j] + gap[j] + (counter'[j] - prev[j]) = carried'[j]
    <3>1. /\ j \in DOMAIN prev /\ j \in DOMAIN counter /\ gap[j] \in Nat
          /\ reported[j] + gap[j] + (counter[j] - prev[j]) = carried[j]
      BY DEF BytesAreConserved, UndisturbedHasGrown
    <3>2. /\ counter[j] \in Nat /\ prev[j] \in Nat /\ reported[j] \in Nat
          /\ carried[j] \in Nat
      BY <1>2, <3>1
    <3>3. CASE j = i
      BY <1>1, <3>1, <3>2, <3>3
    <3>4. CASE j # i
      BY <1>1, <3>1, <3>4
    <3> QED
      BY <3>3, <3>4
  <2> QED
    BY <1>1, <2>1, <2>2 DEF BytesAreConserved
<1> QED
  BY <1>3, <1>4, <1>5, <1>6, <1>7, <1>8

(* An interface that is reset, vanishes or appears has a counter of 0 or   *)
(* none, and is disturbed.                                                 *)
LEMMA InterfacesKeep ==
  ASSUME RegistryInv, NEW i \in Ifaces,
         \/ CounterResets(i)
         \/ Vanishes(i)
         \/ Appears(i)
  PROVE  RegistryInv'
<1> USE DEF RegistryInv, tickVars
<1>1. UNCHANGED <<prev, seeded, pc, batch, failed, skipped, reported, gap,
                  carried>>
  BY DEF CounterResets, Vanishes, Appears
<1>2. /\ DOMAIN counter' \subseteq DOMAIN counter \cup {i}
      /\ counter' = [j \in DOMAIN counter' |-> counter'[j]]
      /\ \A j \in DOMAIN counter' :
           counter'[j] = 0 \/ (j \in DOMAIN counter /\ counter'[j] = counter[j])
      /\ \A j \in Ifaces \ disturbed' :
           j \notin disturbed /\ (j \in DOMAIN counter =>
             j \in DOMAIN counter' /\ counter'[j] = counter[j])
      /\ disturbed \subseteq disturbed' /\ disturbed' \subseteq Ifaces
  BY DEF CounterResets, Vanishes, Appears,
         TypeOK
<1>3. /\ \A j \in Ifaces : /\ carried[j] \in Nat /\ carried[j] <= MaxBytes
                           /\ reported[j] \in Nat
      /\ \A j \in DOMAIN counter : j \in Ifaces /\ counter[j] \in Nat
      /\ \A j \in DOMAIN prev : j \in Ifaces /\ prev[j] \in Nat
  BY CounterTypes
<1>4. TypeOK'
  <2>1. 0 \in Counters
    BY DEF Counters
  <2>2. \A j \in DOMAIN counter' : j \in Ifaces /\ counter'[j] \in Counters
    BY <1>2, <1>3, <2>1 DEF TypeOK
  <2>3. counter' \in [DOMAIN counter' -> Counters]
    BY <1>2, <2>2
  <2> QED
    BY <1>1, <1>2, <2>2, <2>3 DEF TypeOK
<1>5. CountersAreCarried'
  BY <1>1, <1>2, <1>3, <1>4 DEF CountersAreCarried, TypeOK
<1>6. OnlyOfTheAsked' /\ FailureIsContained'
  BY <1>1 DEF OnlyOfTheAsked, FailureIsContained, Asked,
              Owed
<1>7. NewCollectorIsEmpty'
  BY <1>1, <1>2 DEF NewCollectorIsEmpty
<1>8. DeltasAreOwed'
  <2> SUFFICES ASSUME NEW j \in DOMAIN counter' \cap DOMAIN prev
               PROVE  reported[j] + Delta(counter'[j], prev[j])
                        <= carried[j]
    BY <1>1 DEF DeltasAreOwed, Delta
  <2>1. CASE counter'[j] = 0
    <3>1. reported[j] <= carried[j] /\ reported[j] \in Nat /\ prev[j] \in Nat
      BY <1>3 DEF BytesAreConserved
    <3>2. Delta(0, prev[j]) = 0
      BY <3>1, DeltaIsNatural
    <3> QED
      BY <2>1, <3>1, <3>2
  <2>2. CASE j \in DOMAIN counter /\ counter'[j] = counter[j]
    BY <2>2 DEF DeltasAreOwed
  <2> QED
    BY <1>2, <2>1, <2>2
<1>9. UndisturbedHasGrown'
  BY <1>1, <1>2 DEF UndisturbedHasGrown
<1>10. BytesAreConserved'
  BY <1>1, <1>2 DEF BytesAreConserved, UndisturbedHasGrown
<1> QED
  BY <1>4, <1>5, <1>6, <1>7, <1>8, <1>9, <1>10

(* Asking a collector, or starting or ending a tick, changes the batch     *)
(* and who was asked.                                                      *)
LEMMA TickKeeps ==
  ASSUME RegistryInv,
         \/ TickStarts
         \/ CollectCPU
         \/ CollectMemory
         \/ CollectDisk
         \/ NetworkFails
         \/ TickEnds
  PROVE  RegistryInv'
<1> USE DEF RegistryInv, netVars, tickVars
<1>1. UNCHANGED <<counter, prev, seeded, carried, reported, gap, disturbed>>
  BY DEF TickStarts, CollectCPU, CollectMemory,
         CollectDisk, Ask, NetworkFails,
         TickEnds
<1>2. /\ CountersAreCarried' /\ NewCollectorIsEmpty' /\ DeltasAreOwed'
      /\ UndisturbedHasGrown' /\ BytesAreConserved'
  BY <1>1 DEF CountersAreCarried, NewCollectorIsEmpty, DeltasAreOwed,
              UndisturbedHasGrown, BytesAreConserved, Delta
<1>3. /\ pc' \in Collector \cup {"idle", "send"}
      /\ failed' \subseteq Collector
      /\ skipped' \subseteq Mounts
  BY DEF TickStarts, CollectCPU, CollectMemory,
         CollectDisk, Ask, NetworkFails,
         TickEnds, TypeOK, Collector
<1>4. batch' \subseteq
        Collector \X (Cores \cup {"host"} \cup Mounts \cup Ifaces)
  <2>1. batch \subseteq
          Collector \X (Cores \cup {"host"} \cup Mounts \cup Ifaces)
    BY DEF TypeOK
  <2>2. CASE CollectCPU \/ CollectMemory
    BY <2>1, <2>2 DEF CollectCPU, CollectMemory, Ask,
                      Collector
  <2>3. CASE CollectDisk
    BY <2>1, <2>3 DEF CollectDisk, Ask, Collector
  <2>4. CASE TickStarts \/ NetworkFails \/ TickEnds
    BY <2>1, <2>4 DEF TickStarts, NetworkFails,
                      TickEnds
  <2> QED
    BY <2>2, <2>3, <2>4
<1>5. TypeOK'
  BY <1>1, <1>3, <1>4 DEF TypeOK, Counters
<1>6. OnlyOfTheAsked' /\ FailureIsContained'
  <2> USE DEF OnlyOfTheAsked, FailureIsContained, Asked,
              Collector
  <2>1. CASE TickStarts
    BY <2>1 DEF TickStarts
  <2>2. CASE CollectCPU
    BY <2>2 DEF CollectCPU, Ask, Owed
  <2>3. CASE CollectMemory
    BY <2>3 DEF CollectMemory, Ask, Owed
  <2>4. CASE CollectDisk
    BY <2>4 DEF CollectDisk, Ask, Owed
  <2>5. CASE NetworkFails
    BY <2>5 DEF NetworkFails, Owed
  <2>6. CASE TickEnds
    BY <2>6 DEF TickEnds, Owed
  <2> QED
    BY <2>1, <2>2, <2>3, <2>4, <2>5, <2>6
<1> QED
  BY <1>2, <1>5, <1>6

(* The deltas of two snapshots are what each series owed.                  *)
LEMMA NetworkEffect ==
  ASSUME RegistryInv, CollectNetwork
  PROVE  /\ UNCHANGED <<counter, carried, failed, skipped>>
         /\ pc = "network" /\ pc' = "send" /\ seeded' = TRUE
         /\ DOMAIN prev' \subseteq DOMAIN counter
         /\ DOMAIN prev' \subseteq Ifaces \ {Loopback}
         /\ Allowed # {} => DOMAIN prev' \subseteq Allowed
         /\ DOMAIN prev \cap DOMAIN counter \subseteq DOMAIN prev'
         /\ prev' = [i \in DOMAIN prev' |-> counter[i]]
         /\ disturbed' = disturbed \ DOMAIN prev'
         /\ \E sent \in SUBSET (DOMAIN prev' \cap Ifaces) :
              batch' = batch \cup ({"network"} \X sent)
         /\ DOMAIN reported' = Ifaces
         /\ \A i \in Ifaces :
              \/ reported'[i] = reported[i] /\ (seeded => i \notin DOMAIN prev \cap DOMAIN prev')
              \/ /\ seeded /\ i \in DOMAIN prev \cap DOMAIN prev'
                 /\ reported'[i] = reported[i] + Delta(counter[i], prev[i])
         /\ reported' = [i \in Ifaces |-> reported'[i]]
         /\ gap' = [i \in Ifaces |-> IF i \in disturbed
                      THEN carried[i] - reported'[i] ELSE gap[i]]
<1> USE DEF RegistryInv
<1> DEFINE curr == Filtered(counter)
           deltas == IF seeded THEN NetworkDeltas(curr)
                               ELSE [i \in {} |-> 0]
           total == [i \in Ifaces |->
                       reported[i] + IF i \in DOMAIN deltas THEN deltas[i] ELSE 0]
<1>1. /\ UNCHANGED <<counter, carried, failed, skipped>>
      /\ pc = "network" /\ pc' = "send" /\ seeded' = TRUE
      /\ prev' = curr /\ disturbed' = disturbed \ DOMAIN curr
      /\ batch' = batch \cup ({"network"} \X DOMAIN deltas)
      /\ reported' = total
      /\ gap' = [i \in Ifaces |-> IF i \in disturbed THEN carried[i] - total[i]
                                                     ELSE gap[i]]
  BY DEF CollectNetwork, netVars
<1>2. /\ DOMAIN curr \subseteq DOMAIN counter
      /\ DOMAIN curr \subseteq Ifaces \ {Loopback}
      /\ Allowed # {} => DOMAIN curr \subseteq Allowed
      /\ DOMAIN prev \cap DOMAIN counter \subseteq DOMAIN curr
      /\ curr = [i \in DOMAIN curr |-> counter[i]]
  BY DEF Filtered, TypeOK
<1> HIDE DEF curr
<1>3. DOMAIN deltas = IF seeded THEN DOMAIN curr \cap DOMAIN prev ELSE {}
  BY DEF NetworkDeltas
<1>4. \A i \in DOMAIN deltas : deltas[i] = Delta(counter[i], prev[i])
  BY <1>2, <1>3 DEF NetworkDeltas
<1>5. \A i \in DOMAIN deltas : i \in DOMAIN curr \cap Ifaces
  BY <1>2, <1>3
<1> HIDE DEF deltas
<1>6. \A i \in Ifaces : reported[i] \in Nat
  BY CounterTypes
<1>7. \A i \in Ifaces : i \in DOMAIN deltas =>
        total[i] = reported[i] + Delta(counter[i], prev[i])
  BY <1>4
<1>8. \A i \in Ifaces : i \notin DOMAIN deltas => total[i] = reported[i]
  BY <1>6
<1>9. DOMAIN total = Ifaces /\ total = [i \in Ifaces |-> total[i]]
  OBVIOUS
<1> HIDE DEF total
<1>10. \A i \in Ifaces :
         \/ total[i] = reported[i] /\ (seeded => i \notin DOMAIN prev \cap DOMAIN curr)
         \/ /\ seeded /\ i \in DOMAIN prev \cap DOMAIN curr
            /\ total[i] = reported[i] + Delta(counter[i], prev[i])
  BY <1>3, <1>7, <1>8
<1>11. \E sent \in SUBSET (DOMAIN prev' \cap Ifaces) :
         batch' = batch \cup ({"network"} \X sent)
  BY <1>1, <1>5
<1>12. /\ DOMAIN reported' = Ifaces
       /\ reported' = [i \in Ifaces |-> reported'[i]]
       /\ gap' = [i \in Ifaces |-> IF i \in disturbed
                     THEN carried[i] - reported'[i] ELSE gap[i]]
  BY <1>1, <1>9
<1> HIDE DEF RegistryInv
<1> QED
  BY <1>1, <1>2, <1>10, <1>11, <1>12

LEMMA NetworkKeeps ==
  ASSUME RegistryInv, CollectNetwork
  PROVE  RegistryInv'
<1> USE DEF RegistryInv
<1>1. /\ UNCHANGED <<counter, carried, failed, skipped>>
      /\ pc = "network" /\ pc' = "send" /\ seeded' = TRUE
      /\ DOMAIN prev' \subseteq DOMAIN counter
      /\ DOMAIN prev' \subseteq Ifaces \ {Loopback}
      /\ Allowed # {} => DOMAIN prev' \subseteq Allowed
      /\ DOMAIN prev \cap DOMAIN counter \subseteq DOMAIN prev'
      /\ prev' = [i \in DOMAIN prev' |-> counter[i]]
      /\ disturbed' = disturbed \ DOMAIN prev'
      /\ \E sent \in SUBSET (DOMAIN prev' \cap Ifaces) :
           batch' = batch \cup ({"network"} \X sent)
  BY NetworkEffect
<1>2. \A i \in Ifaces :
        \/ reported'[i] = reported[i]
           /\ (seeded => i \notin DOMAIN prev \cap DOMAIN prev')
        \/ /\ seeded /\ i \in DOMAIN prev \cap DOMAIN prev'
           /\ reported'[i] = reported[i] + Delta(counter[i], prev[i])
  BY NetworkEffect
<1>3. /\ reported' = [i \in Ifaces |-> reported'[i]]
      /\ gap' = [i \in Ifaces |-> IF i \in disturbed
                   THEN carried[i] - reported'[i] ELSE gap[i]]
  BY NetworkEffect
<1>4. /\ \A i \in Ifaces : /\ carried[i] \in Nat /\ reported[i] \in Nat
      /\ \A i \in DOMAIN counter : i \in Ifaces /\ counter[i] \in Nat
      /\ \A i \in DOMAIN prev : i \in Ifaces /\ prev[i] \in Nat
  BY CounterTypes
<1>5. ASSUME NEW i \in Ifaces
      PROVE  reported'[i] \in Nat /\ reported'[i] <= carried[i]
  <2>1. reported[i] <= carried[i] /\ reported[i] \in Nat /\ carried[i] \in Nat
    BY <1>4 DEF BytesAreConserved
  <2>2. CASE reported'[i] = reported[i]
    BY <2>1, <2>2
  <2>3. CASE /\ i \in DOMAIN prev \cap DOMAIN prev'
             /\ reported'[i] = reported[i] + Delta(counter[i], prev[i])
    <3>1. i \in DOMAIN counter \cap DOMAIN prev
      BY <1>1, <2>3
    <3>2. reported[i] + Delta(counter[i], prev[i]) <= carried[i]
      BY <3>1 DEF DeltasAreOwed
    <3>3. Delta(counter[i], prev[i]) \in Nat
      BY <1>4, <3>1, DeltaIsNatural
    <3> QED
      BY <2>1, <2>3, <3>2, <3>3
  <2> QED
    BY <1>2, <2>2, <2>3
<1>6. TypeOK'
  <2>1. prev' \in [DOMAIN prev' -> Counters]
    BY <1>1 DEF TypeOK
  <2>2. reported' \in [Ifaces -> Nat]
    BY <1>3, <1>5
  <2>3. batch' \subseteq
          Collector \X (Cores \cup {"host"} \cup Mounts \cup Ifaces)
    BY <1>1 DEF TypeOK, Collector
  <2> QED
    BY <1>1, <2>1, <2>2, <2>3 DEF TypeOK, Counters
<1>7. CountersAreCarried' /\ NewCollectorIsEmpty'
  BY <1>1 DEF CountersAreCarried, NewCollectorIsEmpty
<1>8. DeltasAreOwed'
  <2> SUFFICES ASSUME NEW i \in DOMAIN counter \cap DOMAIN prev'
               PROVE  reported'[i] + Delta(counter[i], prev'[i])
                        <= carried[i]
    BY <1>1 DEF DeltasAreOwed, Delta
  <2>1. prev'[i] = counter[i] /\ i \in Ifaces /\ counter[i] \in Nat
    BY <1>1, <1>4
  <2>2. Delta(counter[i], prev'[i]) = 0
    BY <2>1, DeltaIsNatural
  <2>3. reported'[i] \in Nat /\ reported'[i] <= carried[i] /\ carried[i] \in Nat
    BY <1>4, <1>5, <2>1
  <2> QED
    BY <2>2, <2>3
<1>9. ASSUME NEW i \in Ifaces \ disturbed'
      PROVE  /\ i \in DOMAIN counter \cap DOMAIN prev'
             /\ prev'[i] = counter[i]
             /\ gap'[i] \in Nat
             /\ reported'[i] + gap'[i] + (counter[i] - prev'[i]) = carried[i]
  <2>1. CASE i \in disturbed
    <3>1. i \in DOMAIN prev' /\ prev'[i] = counter[i] /\ i \in DOMAIN counter
      BY <1>1, <2>1
    <3>2. gap'[i] = carried[i] - reported'[i]
      BY <1>3, <2>1
    <3>3. reported'[i] \in Nat /\ reported'[i] <= carried[i]
          /\ carried[i] \in Nat /\ counter[i] \in Nat
      BY <1>4, <1>5, <3>1
    <3> QED
      BY <3>1, <3>2, <3>3
  <2>2. CASE i \notin disturbed
    <3>1. /\ i \in DOMAIN counter \cap DOMAIN prev /\ prev[i] <= counter[i]
          /\ gap[i] \in Nat /\ gap'[i] = gap[i]
          /\ reported[i] + gap[i] + (counter[i] - prev[i]) = carried[i]
      BY <1>3, <2>2 DEF UndisturbedHasGrown, BytesAreConserved
    <3>2. i \in DOMAIN prev' /\ prev'[i] = counter[i] /\ seeded
      BY <1>1, <2>2, <3>1 DEF NewCollectorIsEmpty
    <3>3. /\ counter[i] \in Nat /\ prev[i] \in Nat /\ reported[i] \in Nat
          /\ carried[i] \in Nat
      BY <1>4, <3>1
    <3>4. reported'[i] = reported[i] + (counter[i] - prev[i])
      BY <1>2, <3>1, <3>2, <3>3, DeltaIsNatural
    <3> QED
      BY <3>1, <3>2, <3>3, <3>4
  <2> QED
    BY <2>1, <2>2
<1>10. UndisturbedHasGrown' /\ BytesAreConserved'
  <2>1. \A i \in Ifaces \ disturbed' : counter[i] \in Nat
    BY <1>4, <1>9
  <2>2. UndisturbedHasGrown'
    BY <1>1, <1>9, <2>1 DEF UndisturbedHasGrown
  <2>3. BytesAreConserved'
    BY <1>1, <1>5, <1>9 DEF BytesAreConserved
  <2> QED
    BY <2>2, <2>3
<1>11. OnlyOfTheAsked' /\ FailureIsContained'
  BY <1>1 DEF OnlyOfTheAsked, FailureIsContained, Asked,
              Owed, Collector
<1> QED
  BY <1>6, <1>7, <1>8, <1>10, <1>11

LEMMA RestartKeeps ==
  ASSUME RegistryInv, Restart
  PROVE  RegistryInv'
<1> USE DEF RegistryInv, Restart, netVars
<1>1. TypeOK'
  BY DEF TypeOK
<1>2. CountersAreCarried' /\ NewCollectorIsEmpty' /\ DeltasAreOwed'
  BY DEF CountersAreCarried, NewCollectorIsEmpty, DeltasAreOwed
<1>3. UndisturbedHasGrown' /\ BytesAreConserved'
  BY DEF UndisturbedHasGrown, BytesAreConserved
<1>4. OnlyOfTheAsked' /\ FailureIsContained'
  BY DEF OnlyOfTheAsked, FailureIsContained, Asked,
         Collector
<1> QED
  BY <1>1, <1>2, <1>3, <1>4

LEMMA RegistryInit ==
  ASSUME Init
  PROVE  RegistryInv
<1> USE DEF Init
<1>1. 0 \in Counters
  BY DEF Counters
<1>2. TypeOK
  BY <1>1 DEF TypeOK
<1>3. CountersAreCarried /\ NewCollectorIsEmpty /\ DeltasAreOwed
  BY DEF CountersAreCarried, NewCollectorIsEmpty, DeltasAreOwed
<1>4. UndisturbedHasGrown /\ BytesAreConserved
  BY DEF UndisturbedHasGrown, BytesAreConserved
<1>5. OnlyOfTheAsked /\ FailureIsContained
  BY DEF OnlyOfTheAsked, FailureIsContained, Asked,
         Collector
<1> QED
  BY <1>2, <1>3, <1>4, <1>5 DEF RegistryInv

LEMMA RegistryStep == RegistryInv /\ [Next]_vars => RegistryInv'
<1> SUFFICES ASSUME RegistryInv, [Next]_vars
             PROVE  RegistryInv'
  OBVIOUS
<1>1. CASE UNCHANGED vars
  <2>1. UNCHANGED <<counter, prev, seeded, pc, batch, failed, skipped,
                    carried, reported, gap, disturbed>>
    BY <1>1 DEF vars
  <2>2. TypeOK'
    BY <2>1 DEF RegistryInv, TypeOK, Counters
  <2>3. /\ CountersAreCarried' /\ NewCollectorIsEmpty' /\ DeltasAreOwed'
        /\ UndisturbedHasGrown' /\ BytesAreConserved'
    BY <2>1 DEF RegistryInv, CountersAreCarried, NewCollectorIsEmpty,
                DeltasAreOwed, UndisturbedHasGrown, BytesAreConserved,
                Delta
  <2>4. OnlyOfTheAsked' /\ FailureIsContained'
    BY <2>1 DEF RegistryInv, OnlyOfTheAsked, FailureIsContained,
                Asked, Owed
  <2> QED
    BY <2>2, <2>3, <2>4 DEF RegistryInv
<1> QED
  BY <1>1, TrafficKeeps, InterfacesKeep, TickKeeps, NetworkKeeps, RestartKeeps
     DEF Next, Kernel, CollectAll

LEMMA RegistrySpecInv == Spec => []RegistryInv
  BY RegistryInit, RegistryStep, PTL DEF Spec

(* Theorem: the registry, the snapshot of the network collector and the    *)
(* batch keep their types: no filtered interface is ever in a snapshot.    *)
THEOREM TypeCorrect == Spec => []TypeOK
<1>1. RegistryInv => TypeOK
  BY DEF RegistryInv
<1> QED
  BY <1>1, RegistrySpecInv, PTL

(* Theorem: NetworkCollector counts no byte twice and, of an interface     *)
(* that is not disturbed, loses none, over failed queries, counter resets, *)
(* interfaces that come and go, and restarts.                              *)
THEOREM NetworkCountsBytesOnce == Spec => []BytesAreConserved
<1>1. RegistryInv => BytesAreConserved
  BY DEF RegistryInv
<1> QED
  BY <1>1, RegistrySpecInv, PTL

(* Theorem: a collector that fails takes nothing from the batch but its    *)
(* own metrics.                                                            *)
THEOREM CollectorsFailAlone == Spec => []FailureIsContained
<1>1. RegistryInv => FailureIsContained
  BY DEF RegistryInv
<1> QED
  BY <1>1, RegistrySpecInv, PTL
=============================================================================
