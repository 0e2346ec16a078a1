---------------------------- MODULE ServerProofs ----------------------------
(***************************************************************************)
(* Proofs about the server process, for any hosts, any number of request   *)
(* slots, any thresholds, and with or without alert rules; and about the   *)
(* tokens of the SDK that its middleware checks, for any clocks.           *)
(***************************************************************************)
EXTENDS Server, TLAPS

(* The tracker inside the server, with the theorems proved of it.          *)
TrackerTheorems == INSTANCE HostTrackerProofs

(* Nothing in the tracker or in a handler is younger than the clock.       *)
PastOnly ==
  /\ \A h \in Hosts : hosts[h] <= now
  /\ \A q \in Request : arrived[q] <= now

(* A process that is gone has no handler and confirms nothing.             *)
DeadForgets ==
  process = "dead" =>
    /\ \A q \in Request : handler[q] = "none"
    /\ \A h \in Hosts : confirmed[h] = NoTime

(* A handler calls Heartbeat only after its insert.                        *)
BeatsHaveData ==
  \A q \in Request : handler[q] = "heartbeat" => q[1] \in stored

(* A handler that is about to answer has left a heartbeat of its host that *)
(* is no older than the arrival of its batch, and no later one undid it.   *)
RespondersWereHeard ==
  \A q \in Request :
     handler[q] = "respond" => Tracker!Known(q[1]) /\ arrived[q] <= hosts[q[1]]

(* The same of the newest batch confirmed.                                 *)
ConfirmedWereHeard ==
  \A h \in Hosts :
     confirmed[h] # NoTime => Tracker!Known(h) /\ confirmed[h] <= hosts[h]

(* The inductive invariant: that of the tracker, and what the handlers and *)
(* the lifecycle add to it.                                                *)
ServerInv ==
  /\ TrackerTheorems!TrackerInv
  /\ TypeOK
  /\ PastOnly
  /\ DeadForgets
  /\ BeatsHaveData
  /\ KnownHostHasData
  /\ RespondersWereHeard
  /\ ConfirmedWereHeard

-----------------------------------------------------------------------------
(* Each step of the server is a step of the tracker or leaves it alone.    *)
LEMMA StepTracker == [Next]_vars => [Tracker!Next]_(Tracker!vars)
<1> SUFFICES ASSUME [Next]_vars PROVE [Tracker!Next]_(Tracker!vars)
  OBVIOUS
<1> USE DEF trackerVars, Tracker!vars
<1>1. ASSUME NEW q \in Request,
             RequestArrives(q) \/ InsertReturns(q) \/ InsertFails(q) \/ Confirm(q)
      PROVE  UNCHANGED Tracker!vars
  BY <1>1 DEF RequestArrives, InsertReturns, InsertFails, Confirm
<1>2. ASSUME NEW q \in Request, RecordHeartbeat(q) PROVE Tracker!Next
  <2>1. q[1] \in Hosts
    BY DEF Request
  <2>2. Tracker!Heartbeat(q[1])
    BY <1>2 DEF RecordHeartbeat
  <2> QED
    BY <2>1, <2>2 DEF Tracker!Next
<1>3. CASE TimePasses
  BY <1>3 DEF TimePasses, Tracker!Next
<1>4. CASE Scan
  BY <1>4 DEF Scan, Tracker!Next
<1>5. ASSUME NEW s \in Tracker!Silences, ReportDown(s) PROVE Tracker!Next
  BY <1>5 DEF ReportDown, Tracker!Next
<1>6. CASE Terminate \/ DrainEnds
  BY <1>6 DEF Terminate, DrainEnds
<1>7. CASE MainReturns \/ Crash \/ ProcessStarts
  BY <1>7 DEF MainReturns, Crash, ProcessStarts, Forget, Tracker!Next
<1>8. CASE UNCHANGED vars
  BY <1>8 DEF vars
<1> QED
  BY <1>1, <1>2, <1>3, <1>4, <1>5, <1>6, <1>7, <1>8 DEF Next

(* Theorem: the handlers, the shutdown and the crashes of the server use   *)
(* the tracker as HostTracker specifies it.                                *)
THEOREM ServerImplementsTracker == Spec => ImplementsTracker
<1>1. Init => Tracker!Init
  BY DEF Init
<1> QED
  BY <1>1, StepTracker, PTL DEF Spec, ImplementsTracker, Tracker!Spec

(* TrackerTheorems speaks of a HostTracker of its own, which has the same  *)
(* definitions.                                                            *)
LEMMA SameTracker ==
  /\ Tracker!Init <=> TrackerTheorems!Init
  /\ Tracker!Next <=> TrackerTheorems!Next
  /\ Tracker!vars = TrackerTheorems!vars
<1> USE DEF Tracker!vars, TrackerTheorems!vars
<1>1. Tracker!Init <=> TrackerTheorems!Init
  BY DEF Tracker!Init, TrackerTheorems!Init, Tracker!NeverSeen,
         TrackerTheorems!NeverSeen
<1>2. Tracker!Next <=> TrackerTheorems!Next
  BY DEF Tracker!Next, TrackerTheorems!Next,
         Tracker!ClockAdvances, TrackerTheorems!ClockAdvances,
         Tracker!Heartbeat, TrackerTheorems!Heartbeat,
         Tracker!ScanReadsClock, TrackerTheorems!ScanReadsClock,
         Tracker!ScanMarks, TrackerTheorems!ScanMarks,
         Tracker!ReportDown, TrackerTheorems!ReportDown,
         Tracker!ScanReturns, TrackerTheorems!ScanReturns,
         Tracker!Restart, TrackerTheorems!Restart,
         Tracker!NewlySilent, TrackerTheorems!NewlySilent,
         Tracker!Known, TrackerTheorems!Known,
         Tracker!Overdue, TrackerTheorems!Overdue,
         Tracker!Silence, TrackerTheorems!Silence,
         Tracker!Silences, TrackerTheorems!Silences,
         Tracker!Time, TrackerTheorems!Time,
         Tracker!NeverSeen, TrackerTheorems!NeverSeen,
         Tracker!clockVars, TrackerTheorems!clockVars,
         Tracker!scanVars, TrackerTheorems!scanVars
<1> QED
  BY <1>1, <1>2

(* The server's assumption on the thresholds is that of the tracker.       *)
LEMMA TrackerAssumed == TrackerTheorems!TrackerAssumption
  BY ServerAssumption DEF TrackerTheorems!TrackerAssumption, PositiveDuration

(* The invariant of the tracker holds at the start of the server, and each *)
(* step of the server keeps it.                                            *)
LEMMA TrackerInvHolds ==
  /\ Init => TrackerTheorems!TrackerInv
  /\ TrackerTheorems!TrackerInv /\ [Next]_vars => TrackerTheorems!TrackerInv'
<1>1. Init => TrackerTheorems!TrackerInv
  BY TrackerAssumed, SameTracker, TrackerTheorems!InitTracker DEF Init
<1>2. [Next]_vars => [TrackerTheorems!Next]_(TrackerTheorems!vars)
  BY StepTracker, SameTracker DEF Tracker!vars, TrackerTheorems!vars
<1> QED
  BY <1>1, <1>2, TrackerAssumed, TrackerTheorems!NextTracker

(* What the proofs below use of that invariant.                            *)
LEMMA TrackerFacts ==
  TrackerTheorems!TrackerInv =>
    /\ Tracker!TypeOK
    /\ \A h \in down : Tracker!Known(h) /\ Tracker!Overdue(hosts[h], now)
BY DEF TrackerTheorems!TrackerInv, TrackerTheorems!TypeOK, Tracker!TypeOK,
       TrackerTheorems!MarksOverdue, TrackerTheorems!Known, Tracker!Known,
       TrackerTheorems!Overdue, Tracker!Overdue,
       TrackerTheorems!Time, Tracker!Time,
       TrackerTheorems!Silences, Tracker!Silences,
       TrackerTheorems!NeverSeen, Tracker!NeverSeen

(* The same after a step.                                                  *)
LEMMA TrackerTypeNext == TrackerTheorems!TrackerInv' => Tracker!TypeOK'
BY DEF TrackerTheorems!TrackerInv, TrackerTheorems!TypeOK, Tracker!TypeOK,
       TrackerTheorems!Time, Tracker!Time,
       TrackerTheorems!Silences, Tracker!Silences,
       TrackerTheorems!NeverSeen, Tracker!NeverSeen

-----------------------------------------------------------------------------
(* A server that has just started knows nothing.                           *)
LEMMA InitServer == Init => ServerInv
<1> SUFFICES ASSUME Init PROVE ServerInv
  OBVIOUS
<1>1. TrackerTheorems!TrackerInv /\ Tracker!TypeOK
  BY TrackerInvHolds, TrackerFacts
<1>2. now = 0 /\ hosts = [h \in Hosts |-> -1] /\ newlyDown = {}
  BY DEF Init, Tracker!Init, Tracker!NeverSeen
<1> QED
  BY <1>1, <1>2
     DEF Init, ServerInv, TypeOK, PastOnly, DeadForgets, BeatsHaveData,
         KnownHostHasData, RespondersWereHeard, ConfirmedWereHeard, NoTime,
         Request, Tracker!Known, Tracker!NeverSeen

(* The handler of a request: its steps before the heartbeat and after it   *)
(* leave the tracker alone.                                                *)
LEMMA HandlerStep ==
  ASSUME ServerInv, TrackerTheorems!TrackerInv', NEW q \in Request,
         \/ RequestArrives(q)
         \/ InsertReturns(q)
         \/ InsertFails(q)
         \/ Confirm(q)
  PROVE  ServerInv'
<1>1. /\ UNCHANGED <<now, hosts, down, newlyDown, process>>
      /\ process # "dead"
      /\ stored \subseteq stored' /\ stored' \subseteq stored \cup {q[1]}
      /\ q[1] \in Hosts
      /\ now \in 0..MaxTime
  BY DEF ServerInv, TypeOK, Tracker!TypeOK, Tracker!Time, RequestArrives,
         InsertReturns, InsertFails, Confirm, trackerVars, Request
<1>2. TypeOK'
  BY <1>1, TrackerTypeNext
     DEF ServerInv, TypeOK, RequestArrives, InsertReturns, InsertFails, Confirm
<1>3. PastOnly'
  BY <1>1, ServerAssumption
     DEF ServerInv, TypeOK, PastOnly, NoTime, RequestArrives, InsertReturns,
         InsertFails, Confirm
<1>4. BeatsHaveData'
  BY <1>1 DEF ServerInv, TypeOK, BeatsHaveData, RequestArrives, InsertReturns,
              InsertFails, Confirm
<1>5. KnownHostHasData'
  BY <1>1 DEF ServerInv, KnownHostHasData, Tracker!Known
<1>6. RespondersWereHeard'
  BY <1>1 DEF ServerInv, TypeOK, RespondersWereHeard, Tracker!Known,
              RequestArrives, InsertReturns, InsertFails, Confirm
<1>7. ConfirmedWereHeard'
  BY <1>1 DEF ServerInv, TypeOK, ConfirmedWereHeard, RespondersWereHeard,
              Tracker!Known, RequestArrives, InsertReturns, InsertFails, Confirm
<1> QED
  BY <1>1, <1>2, <1>3, <1>4, <1>5, <1>6, <1>7 DEF ServerInv, DeadForgets

(* The heartbeat is the newest of its host, so nothing confirmed before is *)
(* younger.                                                                *)
LEMMA BeatStep ==
  ASSUME ServerInv, TrackerTheorems!TrackerInv', NEW q \in Request,
         RecordHeartbeat(q)
  PROVE  ServerInv'
<1>1. /\ UNCHANGED <<now, newlyDown, process, arrived, stored, confirmed>>
      /\ process # "dead"
      /\ q[1] \in Hosts
      /\ hosts' = [hosts EXCEPT ![q[1]] = now]
      /\ handler[q] = "heartbeat"
      /\ handler' = [handler EXCEPT ![q] = "respond"]
  BY DEF RecordHeartbeat, Tracker!Heartbeat, Tracker!clockVars,
         Tracker!scanVars, Request
<1>2. /\ now \in 0..MaxTime
      /\ hosts \in [Hosts -> 0..MaxTime \cup {-1}]
      /\ handler \in [Request -> {"none", "insert", "heartbeat", "respond"}]
      /\ arrived \in [Request -> 0..MaxTime \cup {NoTime}]
      /\ confirmed \in [Hosts -> 0..MaxTime \cup {NoTime}]
  BY DEF ServerInv, TypeOK, Tracker!TypeOK, Tracker!Time, Tracker!NeverSeen
<1>3. TypeOK'
  <2>1. announced' = announced
    BY DEF RecordHeartbeat
  <2> QED
    BY <1>1, <1>2, <2>1, TrackerTypeNext DEF ServerInv, TypeOK
<1>4. PastOnly'
  BY <1>1, <1>2, ServerAssumption DEF ServerInv, PastOnly
<1>5. BeatsHaveData'
  BY <1>1, <1>2 DEF ServerInv, BeatsHaveData
<1>6. KnownHostHasData'
  BY <1>1, <1>2 DEF ServerInv, KnownHostHasData, BeatsHaveData, Tracker!Known
<1>7. /\ \A h \in Hosts : hosts[h] <= hosts'[h]
      /\ \A h \in Hosts : Tracker!Known(h) => Tracker!Known(h)'
      /\ Tracker!Known(q[1])' /\ arrived[q] <= hosts'[q[1]]
  BY <1>1, <1>2, ServerAssumption
     DEF ServerInv, PastOnly, Tracker!Known, Tracker!NeverSeen
<1>8. \A h \in Hosts : hosts[h] \in Int /\ hosts'[h] \in Int
  BY <1>1, <1>2, ServerAssumption
<1>9. RespondersWereHeard'
  BY <1>1, <1>2, <1>7, <1>8, ServerAssumption
     DEF ServerInv, RespondersWereHeard, Request, NoTime
<1>10. ConfirmedWereHeard'
  BY <1>1, <1>2, <1>7, <1>8, ServerAssumption
     DEF ServerInv, ConfirmedWereHeard, NoTime
<1> QED
  BY <1>1, <1>3, <1>4, <1>5, <1>6, <1>9, <1>10 DEF ServerInv, DeadForgets

(* The clock, the scanner and the callback leave handlers and heartbeats   *)
(* alone; a scan takes silences only of hosts it knows.                    *)
LEMMA ScannerStep ==
  ASSUME ServerInv, TrackerTheorems!TrackerInv',
         \/ TimePasses
         \/ Scan
         \/ \E s \in Tracker!Silences : ReportDown(s)
  PROVE  ServerInv'
<1>1. /\ UNCHANGED <<hosts, process, handler, arrived, stored, confirmed>>
      /\ now <= now'
      /\ now \in Nat /\ now' \in Nat
      /\ announced' \subseteq announced \cup Tracker!Silences
  BY ServerAssumption
     DEF ServerInv, TypeOK, Tracker!TypeOK, Tracker!Time, TimePasses, Scan,
         ReportDown, ingestVars, Tracker!ClockAdvances, Tracker!ScanReadsClock,
         Tracker!ScanMarks, Tracker!ScanReturns, Tracker!ReportDown,
         Tracker!clockVars, Tracker!scanVars
<1>2. \A s \in newlyDown' : s \in newlyDown \/ Tracker!Known(s[1])
  <2>1. CASE Tracker!ScanMarks
    BY <2>1 DEF Tracker!ScanMarks, Tracker!NewlySilent, Tracker!Silence
  <2>2. CASE ~ Tracker!ScanMarks
    BY <2>2 DEF TimePasses, Scan, ReportDown, Tracker!ClockAdvances,
                Tracker!ScanReadsClock, Tracker!ScanReturns, Tracker!ReportDown,
                Tracker!scanVars
  <2> QED
    BY <2>1, <2>2
<1>3. TypeOK'
  BY <1>1, TrackerTypeNext DEF ServerInv, TypeOK, Tracker!Silences, Tracker!Time
<1>4. PastOnly'
  <2>1. /\ \A h \in Hosts : hosts[h] \in Int
        /\ \A q \in Request : arrived[q] \in Int
    BY ServerAssumption
       DEF ServerInv, TypeOK, Tracker!TypeOK, Tracker!Time, Tracker!NeverSeen,
           NoTime
  <2> QED
    BY <1>1, <2>1 DEF ServerInv, PastOnly
<1>5. KnownHostHasData'
  BY <1>1, <1>2 DEF ServerInv, KnownHostHasData, Tracker!Known
<1> QED
  BY <1>1, <1>3, <1>4, <1>5
     DEF ServerInv, DeadForgets, BeatsHaveData, RespondersWereHeard,
         ConfirmedWereHeard, Tracker!Known

(* SIGTERM and the end of the drain change nothing but the process.        *)
LEMMA DrainStep ==
  ASSUME ServerInv, TrackerTheorems!TrackerInv', Terminate \/ DrainEnds
  PROVE  ServerInv'
<1>1. /\ UNCHANGED <<trackerVars, ingestVars, announced>>
      /\ process' \in {"draining", "closing"}
  BY DEF Terminate, DrainEnds
<1>2. TypeOK'
  BY <1>1, TrackerTypeNext DEF ServerInv, TypeOK, ingestVars
<1> QED
  BY <1>1, <1>2
     DEF ServerInv, PastOnly, DeadForgets, BeatsHaveData, KnownHostHasData,
         RespondersWereHeard, ConfirmedWereHeard, Tracker!Known, trackerVars,
         ingestVars

(* The end of the process empties the tracker and the handlers alike.      *)
LEMMA ForgetStep ==
  ASSUME ServerInv, TrackerTheorems!TrackerInv', MainReturns \/ Crash
  PROVE  ServerInv'
<1>1. /\ now' = now
      /\ hosts' = [h \in Hosts |-> -1]
      /\ newlyDown' = {}
      /\ process' = "dead"
      /\ handler' = [q \in Request |-> "none"]
      /\ arrived' = [q \in Request |-> NoTime]
      /\ stored' = {}
      /\ confirmed' = [h \in Hosts |-> NoTime]
      /\ announced' = announced
  BY DEF MainReturns, Crash, Forget, Tracker!Restart, Tracker!NeverSeen
<1>2. now \in Nat
  BY ServerAssumption DEF ServerInv, TypeOK, Tracker!TypeOK, Tracker!Time
<1>3. TypeOK'
  BY <1>1, TrackerTypeNext DEF ServerInv, TypeOK
<1>4. PastOnly'
  BY <1>1, <1>2 DEF PastOnly, NoTime
<1> QED
  BY <1>1, <1>3, <1>4
     DEF ServerInv, DeadForgets, BeatsHaveData, KnownHostHasData,
         RespondersWereHeard, ConfirmedWereHeard, Tracker!Known,
         Tracker!NeverSeen, Request

(* The new process has a new tracker, and no handler yet.                  *)
LEMMA StartStep ==
  ASSUME ServerInv, TrackerTheorems!TrackerInv', ProcessStarts
  PROVE  ServerInv'
<1>1. /\ now' = now
      /\ hosts' = [h \in Hosts |-> -1]
      /\ newlyDown' = {}
      /\ process = "dead" /\ process' = "up"
      /\ UNCHANGED <<handler, arrived, stored, confirmed, announced>>
  BY DEF ProcessStarts, Tracker!Restart, Tracker!NeverSeen, ingestVars
<1>2. now \in Nat
  BY ServerAssumption DEF ServerInv, TypeOK, Tracker!TypeOK, Tracker!Time
<1>3. TypeOK'
  BY <1>1, TrackerTypeNext DEF ServerInv, TypeOK
<1>4. PastOnly'
  BY <1>1, <1>2 DEF ServerInv, PastOnly
<1> QED
  BY <1>1, <1>3, <1>4
     DEF ServerInv, DeadForgets, BeatsHaveData, KnownHostHasData,
         RespondersWereHeard, ConfirmedWereHeard, Tracker!Known,
         Tracker!NeverSeen

(* Every step of the server keeps the invariant.                           *)
LEMMA NextServer == ServerInv /\ [Next]_vars => ServerInv'
<1> SUFFICES ASSUME ServerInv, [Next]_vars PROVE ServerInv'
  OBVIOUS
<1>1. TrackerTheorems!TrackerInv'
  BY TrackerInvHolds DEF ServerInv
<1>2. ASSUME NEW q \in Request,
             \/ RequestArrives(q)
             \/ InsertReturns(q)
             \/ InsertFails(q)
             \/ Confirm(q)
      PROVE  ServerInv'
  BY <1>1, <1>2, HandlerStep
<1>3. ASSUME NEW q \in Request, RecordHeartbeat(q) PROVE ServerInv'
  BY <1>1, <1>3, BeatStep
<1>4. CASE TimePasses \/ Scan \/ \E s \in Tracker!Silences : ReportDown(s)
  BY <1>1, <1>4, ScannerStep
<1>5. CASE Terminate \/ DrainEnds
  BY <1>1, <1>5, DrainStep
<1>6. CASE MainReturns \/ Crash
  BY <1>1, <1>6, ForgetStep
<1>7. CASE ProcessStarts
  BY <1>1, <1>7, StartStep
<1>8. CASE UNCHANGED vars
  <2>1. TypeOK'
    BY <1>1, <1>8, TrackerTypeNext DEF ServerInv, TypeOK, vars
  <2> QED
    BY <1>1, <1>8, <2>1
       DEF ServerInv, PastOnly, DeadForgets, BeatsHaveData, KnownHostHasData,
           RespondersWereHeard, ConfirmedWereHeard, Tracker!Known, vars
<1> QED
  BY <1>2, <1>3, <1>4, <1>5, <1>6, <1>7, <1>8 DEF Next

(* So it always holds.                                                     *)
LEMMA SpecServer == Spec => []ServerInv
  BY InitServer, NextServer, PTL DEF Spec

-----------------------------------------------------------------------------
(* Theorem: the server process and the tracker inside it are type-correct. *)
THEOREM TypeCorrect == Spec => []TypeOK
<1>1. ServerInv => TypeOK
  BY DEF ServerInv
<1> QED
  BY <1>1, SpecServer, PTL

(* Theorem: a host whose batch was answered 202 and came less than         *)
(* DownAfter ago is never called down and never marked, however its        *)
(* requests overlap with scans, failures and a shutdown.                   *)
THEOREM ConfirmedHostsAreAlive == Spec => []ConfirmedIsAlive
<1>1. ServerInv => ConfirmedIsAlive
  <2> SUFFICES ASSUME ServerInv, NEW h \in Hosts,
                      confirmed[h] # NoTime, now - confirmed[h] < DownAfter
               PROVE  Tracker!Status(h) # "down" /\ h \notin down
    BY DEF ConfirmedIsAlive
  <2>1. /\ now \in Int /\ hosts[h] \in Int /\ confirmed[h] \in Int
        /\ DownAfter \in Int /\ StaleAfter \in Int
    BY ServerAssumption
       DEF ServerInv, TypeOK, Tracker!TypeOK, Tracker!Time, Tracker!NeverSeen,
           NoTime, PositiveDuration
  <2>2. Tracker!Known(h) /\ confirmed[h] <= hosts[h]
    BY DEF ServerInv, ConfirmedWereHeard
  <2>3. ~ Tracker!Overdue(hosts[h], now)
    BY <2>1, <2>2 DEF Tracker!Overdue
  <2>4. Tracker!Status(h) # "down"
    BY <2>1, <2>2, <2>3 DEF Tracker!Status, Tracker!Classify
  <2>5. h \notin down
    BY <2>3, TrackerFacts DEF ServerInv
  <2> QED
    BY <2>4, <2>5
<1> QED
  BY <1>1, SpecServer, PTL

(* Theorem: the tracker knows, and raises alarms for, only hosts of which  *)
(* the process stored data.                                                *)
THEOREM KnownHostsHaveData == Spec => []KnownHostHasData
<1>1. ServerInv => KnownHostHasData
  BY DEF ServerInv
<1> QED
  BY <1>1, SpecServer, PTL

(* Theorem: in the server too a silence is reported at most once, and only *)
(* if it lasted DownAfter; the dedupe map and the calls agree.             *)
THEOREM ServerAlarms ==
  Spec => [](/\ Tracker!MarksAreExact
             /\ Tracker!NoRepeatedAlarm
             /\ Tracker!AlarmsAreGenuine)
<1>1. ServerInv => /\ Tracker!MarksAreExact
                   /\ Tracker!NoRepeatedAlarm
                   /\ Tracker!AlarmsAreGenuine
  BY DEF ServerInv, TrackerTheorems!TrackerInv,
         TrackerTheorems!MarksAreExact, Tracker!MarksAreExact,
         TrackerTheorems!NoRepeatedAlarm, Tracker!NoRepeatedAlarm,
         TrackerTheorems!AlarmsAreGenuine, Tracker!AlarmsAreGenuine,
         TrackerTheorems!Silence, Tracker!Silence,
         TrackerTheorems!Overdue, Tracker!Overdue,
         TrackerTheorems!Known, Tracker!Known,
         TrackerTheorems!NeverSeen, Tracker!NeverSeen
<1> QED
  BY <1>1, SpecServer, PTL

(* Every onDown call goes to the webhooks, if there is an evaluator.       *)
AnnouncedAreAlarms == announced = IF RulesConfigured THEN alarms ELSE {}

(* A silence is announced to the webhooks only when it is genuine, once    *)
(* per silence and no closer than DownAfter; and a host is marked exactly  *)
(* when its silence was announced or is the next to be.                    *)
AnnouncementsAreExact ==
  /\ down = {h \in Hosts : Tracker!Silence(h) \in announced \cup newlyDown}
  /\ newlyDown \cap announced = {}
  /\ \A s \in announced : Tracker!Overdue(s[2], now)
  /\ \A s, t \in announced :
        s[1] = t[1] /\ s[2] < t[2] => Tracker!Overdue(s[2], t[2])

(* Only the callback touches the two histories; a restart keeps both.      *)
LEMMA AnnouncedStep ==
  ASSUME AnnouncedAreAlarms, [Next]_vars
  PROVE  AnnouncedAreAlarms'
<1> USE DEF AnnouncedAreAlarms
<1>1. ASSUME NEW s \in Tracker!Silences, ReportDown(s)
      PROVE  AnnouncedAreAlarms'
  BY <1>1 DEF ReportDown, Tracker!ReportDown
<1>2. CASE ~ \E s \in Tracker!Silences : ReportDown(s)
  <2>1. UNCHANGED <<alarms, announced>>
    BY <1>2
       DEF Next, vars, RequestArrives, InsertReturns, InsertFails,
           RecordHeartbeat, Confirm, TimePasses, Scan, Terminate, DrainEnds,
           MainReturns, Crash, ProcessStarts, Forget, trackerVars,
           Tracker!ClockAdvances, Tracker!Heartbeat, Tracker!ScanReadsClock,
           Tracker!ScanMarks, Tracker!ScanReturns, Tracker!Restart
  <2> QED
    BY <2>1
<1> QED
  BY <1>1, <1>2

(* What the tracker's theorems say of the tracker inside the server.       *)
LEMMA ServerAlarmsApart ==
  /\ Init => TrackerTheorems!AlarmsAreApart
  /\ ServerInv /\ TrackerTheorems!AlarmsAreApart /\ [Next]_vars
        => TrackerTheorems!AlarmsAreApart'
<1>1. Init => TrackerTheorems!AlarmsAreApart
  BY DEF Init, Tracker!Init, TrackerTheorems!AlarmsAreApart
<1>2. [Next]_vars => [TrackerTheorems!Next]_(TrackerTheorems!vars)
  BY StepTracker, SameTracker DEF Tracker!vars, TrackerTheorems!vars
<1>3. ServerInv => TrackerTheorems!TrackerInv
  BY DEF ServerInv
<1> QED
  BY <1>1, <1>2, <1>3, TrackerAssumed, TrackerTheorems!NextApart

(* Theorem: with a rule configured, the webhooks are told of a silence     *)
(* exactly once and never of one that was not, over overlapping requests,  *)
(* shutdowns and crashes; what keeps SilenceIsAnnounced from holding       *)
(* without rules is the missing evaluator alone.                           *)
THEOREM AnnouncementsMatchMarks ==
  ASSUME RulesConfigured
  PROVE  Spec => []AnnouncementsAreExact
<1>1. Init => AnnouncedAreAlarms
  BY DEF Init, Tracker!Init, AnnouncedAreAlarms
<1>2. AnnouncedAreAlarms /\ [Next]_vars => AnnouncedAreAlarms'
  BY AnnouncedStep
<1>3. ServerInv /\ AnnouncedAreAlarms /\ TrackerTheorems!AlarmsAreApart
        => AnnouncementsAreExact
  BY RulesConfigured
     DEF AnnouncementsAreExact, AnnouncedAreAlarms, ServerInv,
         TrackerTheorems!TrackerInv,
         TrackerTheorems!AlarmsAreApart,
         TrackerTheorems!MarksAreExact,
         TrackerTheorems!NoRepeatedAlarm,
         TrackerTheorems!AlarmsAreGenuine,
         TrackerTheorems!Silence, Tracker!Silence,
         TrackerTheorems!Overdue, Tracker!Overdue
<1> QED
  BY <1>1, <1>2, <1>3, ServerAlarmsApart, SpecServer, PTL DEF Spec

-----------------------------------------------------------------------------
(* The shutdown.  What is left of it: the phases to come, and of each      *)
(* handler the steps to its answer.                                        *)
PhasesLeft ==
  CASE process = "up"       -> 3
    [] process = "draining" -> 2
    [] process = "closing"  -> 1
    [] process = "dead"     -> 0

StepsOf(q) ==
  CASE handler[q] = "insert"    -> 3
    [] handler[q] = "heartbeat" -> 2
    [] handler[q] = "respond"   -> 1
    [] handler[q] = "none"      -> 0

(* A step of the process after SIGTERM, the clock and the scanner aside.   *)
ShutdownStep ==
  \/ \E q \in Request : \/ InsertReturns(q) \/ InsertFails(q)
                         \/ RecordHeartbeat(q) \/ Confirm(q)
  \/ DrainEnds \/ MainReturns \/ Crash

(* After SIGTERM the shutdown only moves forward: no request is taken any  *)
(* more, and each step of a handler or of main leaves less to do.          *)
LessToDo ==
  /\ PhasesLeft' <= PhasesLeft
  /\ \A q \in Request : StepsOf(q)' <= StepsOf(q)
  /\ ShutdownStep => \/ PhasesLeft' < PhasesLeft
                     \/ \E q \in Request : StepsOf(q)' < StepsOf(q)

Stopping == process \in {"draining", "closing"}

ShutdownMovesOn == [][Stopping => LessToDo]_vars

LEMMA ShutdownHandler ==
  ASSUME TypeOK, NEW q \in Request,
         InsertReturns(q) \/ InsertFails(q) \/ RecordHeartbeat(q) \/ Confirm(q)
  PROVE  /\ process' = process
         /\ StepsOf(q)' < StepsOf(q)
         /\ \A p \in Request : StepsOf(p)' <= StepsOf(p)
<1>1. process' = process
  BY DEF InsertReturns, InsertFails, RecordHeartbeat, Confirm
<1>2. /\ \A p \in Request \ {q} : handler'[p] = handler[p]
      /\ \/ handler[q] = "insert" /\ handler'[q] \in {"heartbeat", "none"}
         \/ handler[q] = "heartbeat" /\ handler'[q] = "respond"
         \/ handler[q] = "respond" /\ handler'[q] = "none"
  BY DEF TypeOK, InsertReturns, InsertFails, RecordHeartbeat, Confirm
<1>3. StepsOf(q)' < StepsOf(q)
  BY <1>2 DEF StepsOf
<1>4. \A p \in Request : StepsOf(p) \in 0..3 /\ StepsOf(p)' \in 0..3
  <2>1. /\ handler \in [Request -> {"none", "insert", "heartbeat", "respond"}]
        /\ \A p \in Request : handler'[p] \in {"none", "insert", "heartbeat", "respond"}
    BY <1>2 DEF TypeOK
  <2> QED
    BY <2>1 DEF StepsOf
<1>5. \A p \in Request \ {q} : StepsOf(p)' = StepsOf(p)
  BY <1>2 DEF StepsOf
<1> QED
  BY <1>1, <1>3, <1>4, <1>5

(* The other steps change no handler, except that they end them all.       *)
LEMMA ShutdownProcess ==
  ASSUME TypeOK, Next, process \in {"draining", "closing"},
         ~ \E q \in Request : \/ InsertReturns(q) \/ InsertFails(q)
                              \/ RecordHeartbeat(q) \/ Confirm(q)
  PROVE  /\ PhasesLeft' <= PhasesLeft
         /\ \A q \in Request : StepsOf(q)' <= StepsOf(q)
         /\ DrainEnds \/ MainReturns \/ Crash => PhasesLeft' < PhasesLeft
<1>1. \A q \in Request : ~RequestArrives(q)
  BY DEF RequestArrives
<1>2. \A q \in Request : handler'[q] \in {handler[q], "none"}
  BY <1>1 DEF Next, TimePasses, Scan, ReportDown, Terminate, DrainEnds,
              MainReturns, Crash, ProcessStarts, Forget, ingestVars
<1>3. \A q \in Request : StepsOf(q)' <= StepsOf(q)
  <2>1. SUFFICES ASSUME NEW q \in Request
                 PROVE  StepsOf(q)' <= StepsOf(q)
    OBVIOUS
  <2>2. handler[q] \in {"none", "insert", "heartbeat", "respond"}
    BY DEF TypeOK
  <2>3. handler'[q] = handler[q] \/ handler'[q] = "none"
    BY <1>2
  <2> QED
    BY <2>2, <2>3 DEF StepsOf
<1>4. CASE DrainEnds \/ MainReturns \/ Crash
  BY <1>3, <1>4 DEF DrainEnds, MainReturns, Crash, Forget, PhasesLeft
<1>5. CASE ~(DrainEnds \/ MainReturns \/ Crash)
  <2>1. process' = process
    BY <1>1, <1>5 DEF Next, TimePasses, Scan, ReportDown, Terminate,
                      ProcessStarts
  <2> QED
    BY <1>3, <1>5, <2>1 DEF PhasesLeft
<1> QED
  BY <1>4, <1>5

(* Theorem: after SIGTERM no request is taken, and each step of a handler  *)
(* or of main brings the end nearer: the variant of ShutdownCompletes,     *)
(* which adds that those steps are taken.                                  *)
THEOREM ShutdownTerminates == Spec => ShutdownMovesOn
<1>1. TypeOK /\ [Next]_vars => [Stopping => LessToDo]_vars
  <2> SUFFICES ASSUME TypeOK, Next, Stopping
               PROVE  LessToDo
    OBVIOUS
  <2>1. ASSUME NEW q \in Request,
               \/ InsertReturns(q) \/ InsertFails(q)
               \/ RecordHeartbeat(q) \/ Confirm(q)
        PROVE  /\ PhasesLeft' <= PhasesLeft
               /\ \A p \in Request : StepsOf(p)' <= StepsOf(p)
               /\ StepsOf(q)' < StepsOf(q)
    <3>1. process' = process /\ PhasesLeft \in 1..2
      BY <2>1, ShutdownHandler DEF PhasesLeft, Stopping
    <3>2. PhasesLeft' = PhasesLeft
      BY <3>1 DEF PhasesLeft
    <3> QED
      BY <2>1, <3>1, <3>2, ShutdownHandler
  <2>2. CASE ~ \E q \in Request : \/ InsertReturns(q) \/ InsertFails(q)
                                  \/ RecordHeartbeat(q) \/ Confirm(q)
    BY <2>2, ShutdownProcess DEF ShutdownStep, LessToDo, Stopping
  <2> QED
    BY <2>1, <2>2 DEF LessToDo
<1> QED
  BY <1>1, TypeCorrect, PTL DEF Spec, ShutdownMovesOn

-----------------------------------------------------------------------------
(* The token check of the middleware, when the client is the SDK, which    *)
(* shares no state with the process.  The bound holds because each request *)
(* under way carries a token that is fresh by the clock of the client at   *)
(* the sending (FlightsAreFresh), which in turn needs that the token is    *)
(* never valid for less long than tokenExpiry says (CacheIsHonest).        *)

CONSTANTS Clock, Life, Margin, MaxFlights

VARIABLES client, server, cached, exp, expiry, flights, rejected

Sdk == INSTANCE SdkToken

(* What SdkToken assumes of its constants.                                 *)
TokenConstants ==
  /\ Clock \subseteq Int
  /\ Life \in Nat
  /\ Margin \in Nat
  /\ Margin < Life

(* Types, as far as the arithmetic needs them.                             *)
TokenTypes ==
  /\ client \in Int
  /\ server \in Int
  /\ exp \in Int
  /\ expiry \in Int
  /\ flights \subseteq [exp : Int, sent : Int]
  /\ rejected \subseteq [sent : Int, checked : Int]

CacheIsHonest == cached => exp >= expiry

FlightsAreFresh == \A f \in flights : f.exp - f.sent > Margin

TokenInv ==
  /\ TokenTypes
  /\ CacheIsHonest
  /\ FlightsAreFresh
  /\ Sdk!AcceptedWhenClocksAgree

LEMMA TokenInit ==
  ASSUME TokenConstants, Sdk!Init
  PROVE  TokenInv
  BY DEF Sdk!Init, TokenConstants, TokenInv, TokenTypes, CacheIsHonest,
         FlightsAreFresh, Sdk!AcceptedWhenClocksAgree

(* The one step that uses getToken: the token that leaves with the request *)
(* was minted now, or passed the test of its age.                          *)
LEMMA SdkRequestKeeps ==
  ASSUME TokenConstants, TokenInv, Sdk!Request
  PROVE  TokenInv'
<1> USE DEF TokenInv, TokenConstants
<1>1. /\ exp' \in Int
      /\ expiry' \in Int
      /\ CacheIsHonest'
      /\ exp' - client > Margin
  <2>1. CASE Sdk!MustMint
    BY <2>1 DEF Sdk!Request, Sdk!Mint, TokenTypes, CacheIsHonest
  <2>2. CASE ~Sdk!MustMint
    BY <2>2 DEF Sdk!Request, Sdk!MustMint, TokenTypes, CacheIsHonest, Sdk!tokenVars
  <2> QED BY <2>1, <2>2
<1>2. /\ flights' = flights \cup {[exp |-> exp', sent |-> client]}
      /\ UNCHANGED <<client, server, rejected>>
  BY DEF Sdk!Request
<1>3. TokenTypes'
  BY <1>1, <1>2 DEF TokenTypes
<1>4. FlightsAreFresh'
  <2> SUFFICES ASSUME NEW f \in flights' PROVE f.exp - f.sent > Margin
    BY DEF FlightsAreFresh
  <2>1. CASE f \in flights
    BY <2>1 DEF FlightsAreFresh
  <2>2. CASE f = [exp |-> exp', sent |-> client]
    BY <1>1, <2>2
  <2> QED BY <1>2, <2>1, <2>2
<1>5. Sdk!AcceptedWhenClocksAgree'
  BY <1>2 DEF Sdk!AcceptedWhenClocksAgree
<1> QED BY <1>1, <1>3, <1>4, <1>5

(* The one step that rejects: the server's clock is past the expiry of a   *)
(* token that was fresh when it was sent.                                  *)
LEMMA SdkRejectKeeps ==
  ASSUME TokenConstants, TokenInv, NEW f \in flights, Sdk!Reject(f)
  PROVE  TokenInv'
<1> USE DEF TokenInv, TokenConstants
<1>1. /\ f \in [exp : Int, sent : Int]
      /\ f.exp - f.sent > Margin
      /\ server \in Int
      /\ server >= f.exp
  BY DEF Sdk!Reject, Sdk!Expired, TokenTypes, FlightsAreFresh
<1>2. server - f.sent > Margin
  BY <1>1
<1>3. /\ flights' \subseteq flights
      /\ rejected' = {[sent |-> f.sent, checked |-> server]}
      /\ UNCHANGED <<client, server, Sdk!tokenVars>>
  BY DEF Sdk!Reject
<1>4. TokenTypes' /\ CacheIsHonest' /\ FlightsAreFresh'
  BY <1>1, <1>3 DEF TokenTypes, CacheIsHonest, FlightsAreFresh, Sdk!tokenVars
<1>5. Sdk!AcceptedWhenClocksAgree'
  BY <1>2, <1>3 DEF Sdk!AcceptedWhenClocksAgree
<1> QED BY <1>4, <1>5

LEMMA TokenStep ==
  ASSUME TokenConstants
  PROVE  TokenInv /\ [Sdk!Next]_(Sdk!vars) => TokenInv'
<1> SUFFICES ASSUME TokenInv, [Sdk!Next]_(Sdk!vars) PROVE TokenInv'
  OBVIOUS
<1> USE DEF TokenInv, TokenConstants
<1> USE DEF TokenTypes, CacheIsHonest, FlightsAreFresh,
            Sdk!AcceptedWhenClocksAgree
<1>1. CASE Sdk!ClientClock
  BY <1>1 DEF Sdk!ClientClock, Sdk!tokenVars
<1>2. CASE Sdk!ServerClock
  BY <1>2 DEF Sdk!ServerClock, Sdk!tokenVars
<1>3. CASE Sdk!Request
  BY <1>3, SdkRequestKeeps
<1>4. ASSUME NEW f \in flights, Sdk!Accept(f) \/ Sdk!Lose(f) PROVE TokenInv'
  BY <1>4 DEF Sdk!Accept, Sdk!Lose, Sdk!tokenVars
<1>5. ASSUME NEW f \in flights, Sdk!Reject(f) PROVE TokenInv'
  BY <1>5, SdkRejectKeeps
<1>6. CASE Sdk!NewClient
  BY <1>6 DEF Sdk!NewClient
<1>7. CASE UNCHANGED Sdk!vars
  BY <1>7 DEF Sdk!vars
<1> QED BY <1>1, <1>2, <1>3, <1>4, <1>5, <1>6, <1>7 DEF Sdk!Next

(* Theorem: whatever the clocks do, a request of the SDK is rejected only  *)
(* if the server's clock at the check is more than Margin seconds past the *)
(* client's at the sending: getToken never lets an older token go.         *)
THEOREM RejectionNeedsClockError ==
  ASSUME TokenConstants
  PROVE  Sdk!Spec => []Sdk!AcceptedWhenClocksAgree
<1>1. Sdk!Init => TokenInv
  BY TokenInit
<1>2. TokenInv /\ [Sdk!Next]_(Sdk!vars) => TokenInv'
  BY TokenStep
<1>3. TokenInv => Sdk!AcceptedWhenClocksAgree
  BY DEF TokenInv
<1> QED BY <1>1, <1>2, <1>3, PTL DEF Sdk!Spec
=============================================================================
