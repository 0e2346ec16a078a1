------------------------- MODULE HostTrackerProofs -------------------------
(***************************************************************************)
(* Proofs about the host tracker, for any set of hosts, any thresholds and *)
(* any scan period.                                                        *)
(***************************************************************************)
EXTENDS HostTracker, TLAPS

(* What a mark means in terms of the maps alone: the answer of Status      *)
(* follows from it.                                                        *)
MarksOverdue ==
  \A h \in down : Known(h) /\ Overdue(hosts[h], now)

(* The inductive invariant.  Beside the properties it needs that a scan    *)
(* never works with a clock value of the future, and that the slice        *)
(* newlyDown is empty outside the reporting part of a scan.                *)
TrackerInv ==
  /\ TypeOK
  /\ scanNow <= now
  /\ scanPC # "report" => newlyDown = {}
  /\ MarksOverdue
  /\ MarksAreExact
  /\ NoRepeatedAlarm
  /\ AlarmsAreGenuine

-----------------------------------------------------------------------------
(* The maps, the scanner's locals and the history keep their types.        *)
LEMMA InitType == Init => TypeOK
  BY TrackerAssumption DEF Init, TypeOK, Time, Silences, NeverSeen

(* The silence of a host with an entry is a silence of the model.          *)
LEMMA SilenceOfKnown ==
  ASSUME TypeOK, NEW h \in Hosts, Known(h)
  PROVE  hosts[h] \in Time /\ Silence(h) \in Silences
  BY DEF TypeOK, Known, Silence, Silences, NeverSeen

(* Every step of the tracker keeps the types.                              *)
LEMMA NextType == TypeOK /\ [Next]_vars => TypeOK'
<1> SUFFICES ASSUME TypeOK, [Next]_vars PROVE TypeOK'
  OBVIOUS
<1> USE DEF TypeOK
<1>1. CASE ClockAdvances
  BY <1>1, TrackerAssumption DEF ClockAdvances, scanVars, Time, NeverSeen
<1>2. ASSUME NEW h \in Hosts, Heartbeat(h) PROVE TypeOK'
  BY <1>2 DEF Heartbeat, clockVars, scanVars
<1>3. CASE ScanReadsClock
  BY <1>3 DEF ScanReadsClock, clockVars
<1>4. CASE ScanMarks
  <2>1. \A h \in NewlySilent(scanNow) : Silence(h) \in Silences
    BY SilenceOfKnown DEF NewlySilent
  <2>2. NewlySilent(scanNow) \subseteq Hosts
    BY DEF NewlySilent
  <2> QED
    BY <1>4, <2>1, <2>2 DEF ScanMarks, clockVars
<1>5. ASSUME NEW s \in Silences, ReportDown(s) PROVE TypeOK'
  BY <1>5 DEF ReportDown, clockVars
<1>6. CASE ScanReturns
  BY <1>6 DEF ScanReturns, clockVars
<1>7. CASE Restart
  BY <1>7, TrackerAssumption DEF Restart
<1>8. CASE UNCHANGED vars
  BY <1>8 DEF vars
<1> QED
  BY <1>1, <1>2, <1>3, <1>4, <1>5, <1>6, <1>7, <1>8 DEF Next

(* Theorem: the tracker is type-correct, for every value of the constants. *)
THEOREM TypeCorrect == Spec => []TypeOK
<1>1. Init => TypeOK
  BY InitType
<1>2. TypeOK /\ [Next]_vars => TypeOK'
  BY NextType
<1> QED
  BY <1>1, <1>2, PTL DEF Spec

-----------------------------------------------------------------------------
(* A tracker with empty maps satisfies the invariant.                      *)
LEMMA InitTracker == Init => TrackerInv
<1> SUFFICES ASSUME Init PROVE TrackerInv
  OBVIOUS
<1>1. TypeOK
  BY InitType
<1>2. MarksAreExact
  BY DEF Init, MarksAreExact
<1> QED
  BY <1>1, <1>2 DEF Init, TrackerInv, MarksOverdue, NoRepeatedAlarm,
                    AlarmsAreGenuine

(* Time passing makes silences longer and disturbs nothing else.           *)
LEMMA ClockStep == TrackerInv /\ ClockAdvances => TrackerInv'
<1> SUFFICES ASSUME TrackerInv, ClockAdvances PROVE TrackerInv'
  OBVIOUS
<1> USE DEF TrackerInv, ClockAdvances, scanVars
<1>1. TypeOK'
  BY NextType DEF Next
<1>2. /\ now \in Int /\ scanNow \in Int /\ DownAfter \in Int
      /\ \A s \in alarms \cup newlyDown : s[2] \in Int
      /\ \A h \in Hosts : hosts[h] \in Int
  BY TrackerAssumption DEF TypeOK, Time, Silences, NeverSeen
<1>3. MarksOverdue'
  <2> SUFFICES ASSUME NEW h \in down
               PROVE  Known(h) /\ Overdue(hosts[h], now + 1)
    BY DEF MarksOverdue, Known, Overdue
  <2>1. Known(h) /\ Overdue(hosts[h], now)
    BY DEF MarksOverdue
  <2>2. hosts[h] \in Int
    BY <1>2 DEF TypeOK
  <2>3. Overdue(hosts[h], now + 1)
    BY <1>2, <2>1, <2>2 DEF Overdue
  <2> QED
    BY <2>1, <2>3
<1>4. MarksAreExact' /\ NoRepeatedAlarm'
  <2>1. \A h \in Hosts : Silence(h)' = Silence(h)
    BY DEF Silence
  <2> QED
    BY <2>1 DEF MarksAreExact, NoRepeatedAlarm
<1>5. AlarmsAreGenuine'
  BY <1>2 DEF AlarmsAreGenuine, Known, Overdue
<1> QED
  BY <1>1, <1>2, <1>3, <1>4, <1>5

(* A heartbeat ends the silence of its host: it is not marked any more,    *)
(* and the new silence cannot be one that was reported, because reported   *)
(* silences began at least DownAfter ago.                                  *)
LEMMA HeartbeatStep ==
  ASSUME TrackerInv, NEW h \in Hosts, Heartbeat(h)
  PROVE  TrackerInv'
<1> USE DEF TrackerInv, Heartbeat, clockVars, scanVars
<1>1. TypeOK'
  BY NextType DEF Next
<1>2. /\ now \in Time /\ DownAfter \in Nat \ {0}
      /\ \A s \in alarms \cup newlyDown : s[1] \in Hosts /\ s[2] \in Time
  BY TrackerAssumption DEF TypeOK, Silences
<1>3. \A k \in Hosts : hosts'[k] = IF k = h THEN now ELSE hosts[k]
  BY DEF TypeOK
<1>4. MarksOverdue'
  BY <1>3 DEF MarksOverdue, Known, Overdue, TypeOK
<1>5. <<h, now>> \notin alarms \cup newlyDown
  BY <1>2 DEF AlarmsAreGenuine, Overdue, Time
<1>6. MarksAreExact'
  <2>1. \A k \in Hosts : Silence(k)' = IF k = h THEN <<h, now>> ELSE Silence(k)
    BY <1>3 DEF Silence
  <2> QED
    BY <1>5, <2>1 DEF MarksAreExact
<1>7. AlarmsAreGenuine'
  BY <1>2, <1>3 DEF AlarmsAreGenuine, Known, Overdue
<1> QED
  BY <1>1, <1>4, <1>6, <1>7 DEF NoRepeatedAlarm

(* The critical section of a scan marks silences that were not reported:   *)
(* those of hosts that are not marked.                                     *)
LEMMA NewlySilentAreNew ==
  ASSUME TrackerInv, scanPC = "mark", NEW h \in NewlySilent(scanNow)
  PROVE  /\ h \in Hosts /\ h \notin down /\ Known(h)
         /\ Silence(h) \notin alarms
         /\ Overdue(hosts[h], now)
<1> USE DEF TrackerInv
<1>1. h \in Hosts /\ h \notin down /\ Known(h) /\ Overdue(hosts[h], scanNow)
  BY DEF NewlySilent
<1>2. Silence(h) \notin alarms
  BY <1>1 DEF MarksAreExact
<1>3. Overdue(hosts[h], now)
  BY <1>1, TrackerAssumption DEF Overdue, TypeOK, Time, NeverSeen
<1> QED
  BY <1>1, <1>2, <1>3

(* The critical section of a scan keeps the invariant.                     *)
LEMMA MarkStep == TrackerInv /\ ScanMarks => TrackerInv'
<1> SUFFICES ASSUME TrackerInv, ScanMarks PROVE TrackerInv'
  OBVIOUS
<1> USE DEF TrackerInv, ScanMarks, clockVars
<1>1. TypeOK'
  BY NextType DEF Next
<1>2. newlyDown = {}
  OBVIOUS
<1>3. \A h \in NewlySilent(scanNow) :
         /\ h \in Hosts /\ h \notin down /\ Known(h)
         /\ Silence(h) \notin alarms
         /\ Overdue(hosts[h], now)
  BY NewlySilentAreNew
<1>4. MarksOverdue'
  BY <1>3 DEF MarksOverdue, Known, Overdue
<1>5. NoRepeatedAlarm'
  BY <1>3 DEF NoRepeatedAlarm
<1>6. \A h \in Hosts : Silence(h) \in newlyDown' <=> h \in NewlySilent(scanNow)
  BY DEF Silence
<1>7. MarksAreExact'
  <2>1. \A h \in Hosts : Silence(h)' = Silence(h)
    BY DEF Silence
  <2> QED
    BY <1>2, <1>3, <1>6, <2>1 DEF MarksAreExact
<1>8. AlarmsAreGenuine'
  <2> SUFFICES ASSUME NEW s \in alarms \cup newlyDown'
               PROVE  /\ Overdue(s[2], now)
                      /\ Known(s[1]) => \/ hosts[s[1]] = s[2]
                                        \/ Overdue(s[2], hosts[s[1]])
    BY DEF AlarmsAreGenuine, Known, Overdue
  <2>1. CASE s \in alarms
    BY <2>1 DEF AlarmsAreGenuine
  <2>2. CASE s \in newlyDown'
    BY <2>2, <1>3 DEF Silence
  <2> QED
    BY <2>1, <2>2
<1> QED
  BY <1>1, <1>4, <1>5, <1>7, <1>8

(* A call moves one silence from newlyDown to alarms: their union, which   *)
(* the invariant is about, stays.                                          *)
LEMMA ReportStep ==
  ASSUME TrackerInv, NEW s \in Silences, ReportDown(s)
  PROVE  TrackerInv'
<1> USE DEF TrackerInv, ReportDown, clockVars
<1>1. TypeOK'
  BY NextType DEF Next
<1>2. alarms' \cup newlyDown' = alarms \cup newlyDown
  OBVIOUS
<1>3. MarksAreExact'
  <2>1. \A h \in Hosts : Silence(h)' = Silence(h)
    BY DEF Silence
  <2> QED
    BY <1>2, <2>1 DEF MarksAreExact
<1>4. MarksOverdue' /\ NoRepeatedAlarm'
  BY DEF MarksOverdue, Known, Overdue, NoRepeatedAlarm
<1>5. AlarmsAreGenuine'
  BY <1>2 DEF AlarmsAreGenuine, Known, Overdue
<1> QED
  BY <1>1, <1>3, <1>4, <1>5

(* After a restart no host is known, so no silence is current.             *)
LEMMA RestartStep == TrackerInv /\ Restart => TrackerInv'
<1> SUFFICES ASSUME TrackerInv, Restart PROVE TrackerInv'
  OBVIOUS
<1> USE DEF TrackerInv, Restart
<1>1. TypeOK'
  BY NextType DEF Next
<1>2. \A h \in Hosts : ~Known(h)' /\ Silence(h)' = <<h, NeverSeen>>
  BY DEF Known, Silence
<1>3. \A s \in alarms : s[1] \in Hosts /\ s[2] # NeverSeen
  BY DEF TypeOK, Silences, Time, NeverSeen
<1>4. MarksAreExact'
  BY <1>2, <1>3 DEF MarksAreExact
<1>5. MarksOverdue' /\ NoRepeatedAlarm'
  BY DEF MarksOverdue, NoRepeatedAlarm
<1>6. AlarmsAreGenuine'
  BY <1>2, <1>3 DEF AlarmsAreGenuine, Overdue
<1> QED
  BY <1>1, <1>4, <1>5, <1>6

(* Every step keeps the invariant.                                         *)
LEMMA NextTracker == TrackerInv /\ [Next]_vars => TrackerInv'
<1> SUFFICES ASSUME TrackerInv, [Next]_vars PROVE TrackerInv'
  OBVIOUS
<1>0. TypeOK'
  BY NextType DEF TrackerInv
<1>1. CASE ScanReadsClock
  BY <1>0, <1>1 DEF ScanReadsClock, clockVars, TrackerInv, TypeOK, Time,
     MarksOverdue, MarksAreExact, NoRepeatedAlarm, AlarmsAreGenuine,
     Known, Overdue, Silence
<1>2. CASE ScanReturns
  BY <1>0, <1>2 DEF ScanReturns, clockVars, TrackerInv,
     MarksOverdue, MarksAreExact, NoRepeatedAlarm, AlarmsAreGenuine,
     Known, Overdue, Silence
<1>3. CASE UNCHANGED vars
  BY <1>0, <1>3 DEF vars, TrackerInv,
     MarksOverdue, MarksAreExact, NoRepeatedAlarm, AlarmsAreGenuine,
     Known, Overdue, Silence
<1> QED
  BY <1>1, <1>2, <1>3, ClockStep, HeartbeatStep, MarkStep, ReportStep,
     RestartStep DEF Next

(* The invariant holds in every state of the tracker.                      *)
LEMMA SpecTracker == Spec => []TrackerInv
<1>1. Init => TrackerInv
  BY InitTracker
<1>2. TrackerInv /\ [Next]_vars => TrackerInv'
  BY NextTracker
<1> QED
  BY <1>1, <1>2, PTL DEF Spec

(* Theorem: a host marked down has been silent for DownAfter, although the *)
(* scan used a clock value older than its critical section.                *)
THEOREM MarkedHostsAreSilent == Spec => []MarkedIsSilent
<1>1. TrackerInv => MarkedIsSilent
  BY DEF TrackerInv, MarksOverdue, MarkedIsSilent, Status, Classify
<1> QED
  BY <1>1, SpecTracker, PTL

(* Theorem: the dedupe map and the onDown calls agree at every moment.     *)
THEOREM MarksMatchReports == Spec => []MarksAreExact
<1>1. TrackerInv => MarksAreExact
  BY DEF TrackerInv
<1> QED
  BY <1>1, SpecTracker, PTL

(* Theorem: onDown is called at most once per silence, and only about      *)
(* silences that lasted DownAfter.                                         *)
THEOREM AlarmsOnceAndGenuine == Spec => [](NoRepeatedAlarm /\ AlarmsAreGenuine)
<1>1. TrackerInv => NoRepeatedAlarm /\ AlarmsAreGenuine
  BY DEF TrackerInv
<1> QED
  BY <1>1, SpecTracker, PTL

-----------------------------------------------------------------------------
(* Two silences of one host of which the second began after the first:     *)
(* the heartbeat that began the second came DownAfter after the first.     *)
AlarmsAreApart ==
  \A s, t \in alarms \cup newlyDown :
     s[1] = t[1] /\ s[2] < t[2] => Overdue(s[2], t[2])

(* Only a scan's critical section adds a silence, and what it adds is      *)
(* either the one reported already or DownAfter younger than all reported. *)
LEMMA MarksAreApart ==
  ASSUME TrackerInv, AlarmsAreApart, ScanMarks
  PROVE  AlarmsAreApart'
<1> USE DEF TrackerInv
<1>1. /\ alarms' = alarms
      /\ newlyDown = {}
      /\ newlyDown' = {Silence(h) : h \in NewlySilent(scanNow)}
  BY DEF ScanMarks
<1>2. \A s \in alarms \cup newlyDown : s \in Silences
  BY DEF TypeOK
<1>3. ASSUME NEW h \in NewlySilent(scanNow), NEW s \in alarms, s[1] = h
      PROVE  Overdue(s[2], hosts[h])
  <2>1. Known(h) /\ Silence(h) \notin alarms
    BY NewlySilentAreNew DEF ScanMarks
  <2>2. hosts[h] # s[2]
    BY <1>2, <1>3, <2>1 DEF Silence, Silences
  <2> QED
    BY <1>3, <2>1, <2>2 DEF AlarmsAreGenuine
<1> SUFFICES ASSUME NEW s \in alarms' \cup newlyDown',
                    NEW t \in alarms' \cup newlyDown',
                    s[1] = t[1], s[2] < t[2]
             PROVE  Overdue(s[2], t[2])
  BY DEF AlarmsAreApart, Overdue
<1>4. CASE s \in alarms /\ t \in alarms
  BY <1>4 DEF AlarmsAreApart
<1>5. CASE s \in alarms /\ t \notin alarms
  <2> PICK h \in NewlySilent(scanNow) : t = <<h, hosts[h]>>
    BY <1>1, <1>5 DEF Silence
  <2> QED
    BY <1>3, <1>5
<1>6. CASE s \notin alarms
  <2> PICK h \in NewlySilent(scanNow) : s = <<h, hosts[h]>>
    BY <1>1, <1>6 DEF Silence
  <2>1. CASE t \in newlyDown'
    <3> PICK k \in NewlySilent(scanNow) : t = <<k, hosts[k]>>
      BY <1>1, <2>1 DEF Silence
    <3>1. t[2] = s[2]
      OBVIOUS
    <3>2. s[2] \in Int
      BY DEF NewlySilent, TypeOK, Time, NeverSeen
    <3> QED
      BY <3>1, <3>2
  <2>2. CASE t \in alarms
    <3>1. Overdue(t[2], s[2])
      BY <1>3, <2>2
    <3>2. s[2] \in Int /\ t[2] \in Int /\ DownAfter \in Nat
      BY <1>2, <2>2, TrackerAssumption
         DEF NewlySilent, TypeOK, Silences, Time, NeverSeen
    <3> QED
      BY <3>1, <3>2 DEF Overdue
  <2> QED
    BY <1>1, <2>1, <2>2
<1> QED
  BY <1>4, <1>5, <1>6

(* The other steps add no silence to those marked or reported.             *)
LEMMA NextApart ==
  ASSUME TrackerInv, AlarmsAreApart, [Next]_vars
  PROVE  AlarmsAreApart'
<1>1. CASE ScanMarks
  BY <1>1, MarksAreApart
<1>2. CASE ~ScanMarks
  <2>1. alarms' \cup newlyDown' \subseteq alarms \cup newlyDown
    BY <1>2 DEF Next, vars, ClockAdvances, Heartbeat, ScanReadsClock,
                ReportDown, ScanReturns, Restart, scanVars
  <2> QED
    BY <2>1 DEF AlarmsAreApart, Overdue
<1> QED
  BY <1>1, <1>2

(* Theorem: the silences reported of a host that flaps around the          *)
(* threshold begin at least DownAfter apart, however the scans fall, and   *)
(* even over restarts, which empty the map of the marks.                   *)
THEOREM AlarmsOfAHostAreApart == Spec => []AlarmsAreApart
<1>1. Init => AlarmsAreApart
  BY DEF Init, AlarmsAreApart
<1>2. TrackerInv /\ AlarmsAreApart /\ [Next]_vars => AlarmsAreApart'
  BY NextApart
<1> QED
  BY <1>1, <1>2, SpecTracker, PTL DEF Spec

-----------------------------------------------------------------------------
(* How late a report can be.  The ticker drops ticks, a scan may wait long *)
(* for the mutex and works with an old clock value; what bounds the delay  *)
(* is that no scan overlooks a host (a heartbeat after scanNow cannot make *)
(* a host overdue at scanNow) and that a tick which was taken is no older  *)
(* than the ticker's phase.                                                *)
NothingOverlooked ==
  scanPC # "mark" =>
    \A h \in Hosts : Known(h) /\ Overdue(hosts[h], scanNow) => h \in down

LastTick == now - (ScanPeriod - untilTick)

ScansKeepUp ==
  ticks = 0 =>
    \A h \in Hosts : Known(h) => hosts[h] >= LastTick \/ scanNow >= LastTick

(* When the scanner has no tick to handle, each silence that is a period   *)
(* older than DownAfter was reported or is with the running scan.          *)
LateIsReported ==
  ticks = 0 /\ scanPC # "mark" =>
    \A h \in Hosts :
       Known(h) /\ now - hosts[h] >= DownAfter + ScanPeriod =>
         Silence(h) \in alarms \cup newlyDown

LEMMA OverlooksNothing ==
  ASSUME TrackerInv, NothingOverlooked, [Next]_vars
  PROVE  NothingOverlooked'
<1> USE DEF NothingOverlooked
<1>1. CASE ClockAdvances
  BY <1>1 DEF ClockAdvances, scanVars, Known, Overdue
<1>2. ASSUME NEW k \in Hosts, Heartbeat(k) PROVE NothingOverlooked'
  <2>1. SUFFICES ASSUME scanPC # "mark", NEW h \in Hosts,
                        Known(h)', Overdue(hosts[h], scanNow)'
                 PROVE  h \in down'
    BY <1>2 DEF Heartbeat, scanVars
  <2>2. hosts' = [hosts EXCEPT ![k] = now] /\ scanNow' = scanNow /\ down' = down \ {k}
    BY <1>2 DEF Heartbeat, scanVars
  <2>3. h # k
    <3>1. scanNow - now < DownAfter
      BY TrackerAssumption DEF TrackerInv, TypeOK, Time
    <3> QED
      BY <2>1, <2>2, <3>1, TrackerAssumption
         DEF Overdue, TrackerInv, TypeOK, Time
  <2> QED
    BY <2>1, <2>2, <2>3 DEF Known, Overdue, TrackerInv, TypeOK
<1>3. CASE ScanReadsClock
  BY <1>3 DEF ScanReadsClock
<1>4. CASE ScanMarks
  BY <1>4 DEF ScanMarks, clockVars, NewlySilent, Known, Overdue
<1>5. CASE ScanReturns \/ \E s \in Silences : ReportDown(s)
  BY <1>5 DEF ScanReturns, ReportDown, clockVars, Known, Overdue
<1>6. CASE Restart
  BY <1>6 DEF Restart, Known
<1>7. CASE UNCHANGED vars
  BY <1>7 DEF vars, Known, Overdue
<1> QED
  BY <1>1, <1>2, <1>3, <1>4, <1>5, <1>6, <1>7 DEF Next

LEMMA KeepsUp ==
  ASSUME TrackerInv, ScansKeepUp, [Next]_vars
  PROVE  ScansKeepUp'
<1> USE DEF ScansKeepUp, LastTick
<1>1. CASE ClockAdvances
  <2>1. /\ now \in Int /\ scanNow \in Int /\ untilTick \in Int
        /\ ScanPeriod \in Int
    BY TrackerAssumption DEF TrackerInv, TypeOK, Time
  <2>2. CASE untilTick = 1
    BY <1>1, <2>2 DEF ClockAdvances
  <2>3. CASE untilTick # 1
    <3>1. /\ now' = now + 1 /\ untilTick' = untilTick - 1
          /\ UNCHANGED <<ticks, hosts, scanNow>>
      BY <1>1, <2>3 DEF ClockAdvances, scanVars
    <3>2. LastTick' = LastTick
      BY <2>1, <3>1
    <3> QED
      BY <3>1, <3>2 DEF Known
  <2> QED
    BY <2>2, <2>3
<1>2. ASSUME NEW k \in Hosts, Heartbeat(k) PROVE ScansKeepUp'
  <2>1. /\ UNCHANGED <<now, untilTick, ticks, scanNow>>
        /\ \A h \in Hosts : hosts'[h] = IF h = k THEN now ELSE hosts[h]
    BY <1>2 DEF Heartbeat, clockVars, scanVars, TrackerInv, TypeOK
  <2>2. now >= LastTick
    BY TrackerAssumption DEF TrackerInv, TypeOK, Time
  <2> QED
    BY <2>1, <2>2 DEF Known
<1>3. CASE ScanReadsClock
  <2>1. UNCHANGED <<now, untilTick>> /\ scanNow' = now
    BY <1>3 DEF ScanReadsClock, clockVars
  <2>2. now >= LastTick
    BY TrackerAssumption DEF TrackerInv, TypeOK, Time
  <2> QED
    BY <2>1, <2>2
<1>4. CASE \/ ScanMarks \/ ScanReturns \/ UNCHANGED vars
           \/ \E s \in Silences : ReportDown(s)
  BY <1>4 DEF ScanMarks, ScanReturns, ReportDown, vars, clockVars, Known
<1>5. CASE Restart
  BY <1>5 DEF Restart, Known
<1> QED
  BY <1>1, <1>2, <1>3, <1>4, <1>5 DEF Next

LEMMA LateFromInv ==
  ASSUME TrackerInv, NothingOverlooked, ScansKeepUp
  PROVE  LateIsReported
<1> SUFFICES ASSUME ticks = 0, scanPC # "mark", NEW h \in Hosts, Known(h),
                    now - hosts[h] >= DownAfter + ScanPeriod
             PROVE  Silence(h) \in alarms \cup newlyDown
  BY DEF LateIsReported
<1>1. /\ now \in Int /\ scanNow \in Int /\ hosts[h] \in Int
      /\ DownAfter \in Nat \ {0} /\ ScanPeriod \in Nat \ {0}
      /\ untilTick \in 1..ScanPeriod
  BY TrackerAssumption DEF TrackerInv, TypeOK, Time, NeverSeen
<1>2. hosts[h] < LastTick
  BY <1>1 DEF LastTick
<1>3. scanNow >= LastTick
  BY <1>1, <1>2 DEF ScansKeepUp, LastTick
<1>4. Overdue(hosts[h], scanNow)
  BY <1>1, <1>3 DEF Overdue, LastTick
<1> QED
  BY <1>4 DEF NothingOverlooked, TrackerInv, MarksAreExact

(* Theorem: a silence of DownAfter + ScanPeriod goes unreported only while *)
(* the scanner has a tick to take or is not done with its scan, whatever   *)
(* ticks were dropped and however old the clock value of a scan was: what  *)
(* remains of SilenceIsReported is that the scanner is scheduled.          *)
THEOREM LateSilencesAreReported == Spec => []LateIsReported
<1>1. Init => NothingOverlooked /\ ScansKeepUp
  BY DEF Init, NothingOverlooked, ScansKeepUp, Known
<1>2. TrackerInv /\ NothingOverlooked /\ [Next]_vars => NothingOverlooked'
  BY OverlooksNothing
<1>3. TrackerInv /\ ScansKeepUp /\ [Next]_vars => ScansKeepUp'
  BY KeepsUp
<1>4. TrackerInv /\ NothingOverlooked /\ ScansKeepUp => LateIsReported
  BY LateFromInv
<1> QED
  BY <1>1, <1>2, <1>3, <1>4, SpecTracker, PTL DEF Spec

-----------------------------------------------------------------------------
(* The refinement, step by step: the ticker and the scanner's program      *)
(* counter are invisible, a scan's critical section lets silences fall     *)
(* due, an onDown call reports one.                                        *)
LEMMA MarkFallsDue == TrackerInv /\ ScanMarks => Detector!FallDue
<1> SUFFICES ASSUME TrackerInv, ScanMarks PROVE Detector!FallDue
  OBVIOUS
<1>1. newlyDown = {}
  BY DEF TrackerInv, ScanMarks
<1>2. \A h \in NewlySilent(scanNow) : Silence(h) \in Detector!Unreported
  BY <1>1, NewlySilentAreNew
     DEF ScanMarks, Detector!Unreported, Silence, Known, NeverSeen, Overdue
<1>3. newlyDown' \subseteq Detector!Unreported
  BY <1>2 DEF ScanMarks
<1> QED
  BY <1>1, <1>3 DEF Detector!FallDue, ScanMarks, clockVars

(* Every step of the tracker is a step of the detector or invisible to it. *)
LEMMA StepRefines == TrackerInv /\ [Next]_vars => [Detector!Next]_(Detector!vars)
<1> SUFFICES ASSUME TrackerInv, [Next]_vars
             PROVE  [Detector!Next]_(Detector!vars)
  OBVIOUS
<1> USE DEF Detector!Next, Detector!vars, clockVars, scanVars
<1>1. CASE ClockAdvances
  BY <1>1 DEF ClockAdvances, Detector!TimePasses
<1>2. ASSUME NEW h \in Hosts, Heartbeat(h) PROVE Detector!Beat(h)
  BY <1>2 DEF Heartbeat, Detector!Beat
<1>3. CASE ScanReadsClock
  BY <1>3 DEF ScanReadsClock
<1>4. CASE ScanMarks
  BY <1>4, MarkFallsDue
<1>5. ASSUME NEW s \in Silences, ReportDown(s) PROVE Detector!Report
  BY <1>5 DEF ReportDown, Detector!Report
<1>6. CASE ScanReturns
  BY <1>6 DEF ScanReturns
<1>7. CASE Restart
  BY <1>7 DEF Restart, Detector!Forget, NeverSeen
<1>8. CASE UNCHANGED vars
  BY <1>8 DEF vars
<1> QED
  BY <1>1, <1>2, <1>3, <1>4, <1>5, <1>6, <1>7, <1>8 DEF Next

(* Theorem: HostTracker implements DownDetector, which owes each silence   *)
(* of DownAfter at most one report.                                        *)
THEOREM TrackerImplementsDetector == Spec => ImplementsDetector
<1>1. Init => Detector!Init
  BY DEF Init, Detector!Init, NeverSeen
<1>2. TrackerInv /\ [Next]_vars => [Detector!Next]_(Detector!vars)
  BY StepRefines
<1> QED
  BY <1>1, <1>2, SpecTracker, PTL DEF Spec, Detector!Spec, ImplementsDetector
=============================================================================
