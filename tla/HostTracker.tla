---------------------------- MODULE HostTracker ----------------------------
(***************************************************************************)
(* The in-memory liveness tracker of the server, storage.HostTracker       *)
(* (internal/server/storage/hosts.go).  HTTP handlers call Heartbeat from  *)
(* many goroutines; one scanner goroutine wakes on a ticker, reads the     *)
(* clock BEFORE it takes the mutex, marks the newly silent hosts under the *)
(* mutex, and calls onDown for each of them AFTER it released the mutex.   *)
(* The three parts of a scan are three actions, so that heartbeats and the *)
(* clock interleave with them.                                             *)
(*                                                                         *)
(* Time is counted in ticks of the clock.  A silence of a host is named by *)
(* the pair <<host, time of the last heartbeat>>: newlyDown and alarms     *)
(* carry that second component as history, the code's slice only the name. *)
(***************************************************************************)
EXTENDS Integers

CONSTANTS
  Hosts,       \* host names: non-empty, since MetricBatch.Validate ran before
  StaleAfter,  \* HOST_STALE_AFTER
  DownAfter,   \* HOST_DOWN_AFTER
  ScanPeriod,  \* period of the ticker in Start
  MaxTime      \* BOUND: the clock stops here

(* parseDurationStrict refuses durations that are not positive; nothing    *)
(* relates HOST_STALE_AFTER to HOST_DOWN_AFTER.                            *)
ASSUME TrackerAssumption ==
  /\ StaleAfter \in Nat \ {0}
  /\ DownAfter  \in Nat \ {0}
  /\ ScanPeriod \in Nat \ {0}
  /\ MaxTime    \in Nat

VARIABLES
  now,         \* the clock behind nowFn
  hosts,       \* time of the last heartbeat of each host, or NeverSeen
  down,        \* hosts already reported down (dedupes onDown)
  untilTick,   \* time until the scanner's ticker fires
  ticks,       \* ticks waiting in the ticker's channel, of capacity one
  scanPC,      \* what the scanner goroutine does next
  scanNow,     \* the clock value that the running scan read
  newlyDown,   \* silences the running scan marked and has not reported yet
  alarms       \* history: silences for which onDown was called

clockVars == <<now, untilTick>>
scanVars  == <<scanPC, scanNow, newlyDown>>
vars == <<now, hosts, down, untilTick, ticks, scanPC, scanNow,
          newlyDown, alarms>>

-----------------------------------------------------------------------------
NeverSeen == -1

Time == 0..MaxTime

Silences == Hosts \X Time

(* The map hosts has an entry for h.                                       *)
Known(h) == hosts[h] # NeverSeen

(* The silence h is in: the one that began with its last heartbeat.        *)
Silence(h) == <<h, hosts[h]>>

(* At time t a host last seen at seen has been silent for DownAfter.       *)
Overdue(seen, t) == t - seen >= DownAfter

(* What GET /api/v1/hosts answers: the age decides, and nothing else.      *)
Classify(seen) ==
  CASE Overdue(seen, now)                                   -> "down"
    [] ~Overdue(seen, now) /\ now - seen >= StaleAfter       -> "stale"
    [] ~Overdue(seen, now) /\ now - seen < StaleAfter        -> "ok"

(* A host the map does not hold is "down" too.                             *)
Status(h) == IF Known(h) THEN Classify(hosts[h]) ELSE "down"

Init ==
  /\ now = 0
  /\ hosts = [h \in Hosts |-> NeverSeen]
  /\ down = {}
  /\ untilTick = ScanPeriod
  /\ ticks = 0
  /\ scanPC = "idle"
  /\ scanNow = 0
  /\ newlyDown = {}
  /\ alarms = {}

-----------------------------------------------------------------------------
(* Bug: the ticker queues its ticks.                                       *)
ClockQueuesTicks ==
  /\ now < MaxTime
  /\ now' = now + 1
  /\ IF untilTick = 1
       THEN untilTick' = ScanPeriod /\ ticks' = ticks + 1
       ELSE untilTick' = untilTick - 1 /\ UNCHANGED ticks
  /\ UNCHANGED <<hosts, down, scanVars, alarms>>

(* The ticker drops a tick when the previous one was not received yet.     *)
ClockAdvances ==
  /\ now < MaxTime
  /\ now' = now + 1
  /\ IF untilTick = 1
       THEN untilTick' = ScanPeriod /\ ticks' = 1
       ELSE untilTick' = untilTick - 1 /\ UNCHANGED ticks
  /\ UNCHANGED <<hosts, down, scanVars, alarms>>

(* Bug: the mark is not deleted.                                           *)
HeartbeatKeepsMark(h) ==
  /\ hosts' = [hosts EXCEPT ![h] = now]
  /\ UNCHANGED <<down, clockVars, ticks, scanVars, alarms>>

(* One critical section: the clock is read inside it.                      *)
Heartbeat(h) ==
  /\ hosts' = [hosts EXCEPT ![h] = now]
  /\ down' = down \ {h}
  /\ UNCHANGED <<clockVars, ticks, scanVars, alarms>>

(* scan reads the clock before it waits for the mutex.                     *)
ScanReadsClock ==
  /\ scanPC = "idle"
  /\ ticks = 1
  /\ ticks' = 0
  /\ scanNow' = now
  /\ scanPC' = "mark"
  /\ UNCHANGED <<clockVars, hosts, down, newlyDown, alarms>>

(* Bug: the wrong threshold.                                               *)
NewlyStale(t) == {h \in Hosts \ down : Known(h) /\ t - hosts[h] >= StaleAfter}

(* The hosts that are silent at t and were not reported yet.               *)
NewlySilent(t) == {h \in Hosts \ down : Known(h) /\ Overdue(hosts[h], t)}

(* Bug: the silent hosts are not marked.                                   *)
ScanForgetsMarks ==
  /\ scanPC = "mark"
  /\ newlyDown' = {Silence(h) : h \in NewlySilent(scanNow)}
  /\ scanPC' = "report"
  /\ UNCHANGED <<down, clockVars, hosts, ticks, scanNow, alarms>>

(* The critical section of scan.                                           *)
ScanMarks ==
  /\ scanPC = "mark"
  /\ down' = down \cup NewlySilent(scanNow)
  /\ newlyDown' = {Silence(h) : h \in NewlySilent(scanNow)}
  /\ scanPC' = "report"
  /\ UNCHANGED <<clockVars, hosts, ticks, scanNow, alarms>>

(* One onDown call; map iteration gives the slice an arbitrary order.      *)
ReportDown(s) ==
  /\ scanPC = "report"
  /\ s \in newlyDown
  /\ newlyDown' = newlyDown \ {s}
  /\ alarms' = alarms \cup {s}
  /\ UNCHANGED <<clockVars, hosts, down, ticks, scanPC, scanNow>>

ScanReturns ==
  /\ scanPC = "report"
  /\ newlyDown = {}
  /\ scanPC' = "idle"
  /\ UNCHANGED <<clockVars, hosts, down, ticks, scanNow, newlyDown,
                 alarms>>

(* The process dies and is started again: the maps, the scan in progress   *)
(* and the ticker are new, the clock and the calls already made remain.    *)
Restart ==
  /\ hosts' = [h \in Hosts |-> NeverSeen]
  /\ down' = {}
  /\ untilTick' = ScanPeriod
  /\ ticks' = 0
  /\ scanPC' = "idle"
  /\ newlyDown' = {}
  /\ UNCHANGED <<now, scanNow, alarms>>

Next ==
  \/ ClockAdvances
  \/ \E h \in Hosts : Heartbeat(h)
  \/ ScanReadsClock
  \/ ScanMarks
  \/ \E s \in Silences : ReportDown(s)
  \/ ScanReturns
  \/ Restart

(* Time passes and the scanner goroutine is scheduled; nothing makes a     *)
(* host send, and nothing makes the process die.                           *)
Fairness ==
  /\ WF_vars(ClockAdvances)
  /\ WF_vars(ScanReadsClock)
  /\ WF_vars(ScanMarks)
  /\ WF_vars(\E s \in Silences : ReportDown(s))
  /\ WF_vars(ScanReturns)

Spec == Init /\ [][Next]_vars

FairSpec == Spec /\ Fairness

-----------------------------------------------------------------------------
(* Types of the tracker's two maps, of the scanner's locals and of the     *)
(* history of onDown calls.                                                *)
TypeOK ==
  /\ now \in Time
  /\ hosts \in [Hosts -> Time \cup {NeverSeen}]
  /\ down \in SUBSET Hosts
  /\ untilTick \in 1..ScanPeriod
  /\ ticks \in 0..1
  /\ scanPC \in {"idle", "mark", "report"}
  /\ scanNow \in Time
  /\ newlyDown \in SUBSET Silences
  /\ alarms \in SUBSET Silences

(* A host marked in t.down is one that GET /api/v1/hosts calls down,       *)
(* although the scan compared its heartbeat with a clock value read before *)
(* the lock: a heartbeat that came in between must win.                    *)
MarkedIsSilent == \A h \in down : Known(h) /\ Status(h) = "down"

(* The dedupe map and the onDown calls agree: a host is marked exactly     *)
(* when its current silence was reported or will be by the scan that       *)
(* marked it.  A mark without a call would mute the host's alarm for good, *)
(* a call without a mark would repeat it at the next scan.                 *)
MarksAreExact == down = {h \in Hosts : Silence(h) \in alarms \cup newlyDown}

(* onDown is called at most once per silence of a host ("at most once per  *)
(* down transition per host"), whatever scans, late heartbeats and         *)
(* restarts do: no scan holds a silence that was reported before.          *)
NoRepeatedAlarm == newlyDown \cap alarms = {}

(* Every onDown call, made or about to be made, is about a real silence:   *)
(* the heartbeat after which nothing came for DownAfter.  If the host was  *)
(* heard again (between the mark and the call, or later) that heartbeat is *)
(* DownAfter younger; in particular two alarms of a host are that far      *)
(* apart.                                                                  *)
AlarmsAreGenuine ==
  \A s \in alarms \cup newlyDown :
     /\ Overdue(s[2], now)
     /\ Known(s[1]) => hosts[s[1]] = s[2] \/ Overdue(s[2], hosts[s[1]])

(* A silence that lasts is reported: when a host has the status down and   *)
(* the clock still has a scan period to run, then onDown is called for     *)
(* this silence unless the host is heard again or the process restarts     *)
(* (which forgets the host).                                               *)
SilenceIsReported ==
  \A h \in Hosts :
     LET Silent == Known(h) /\ Status(h) = "down"
     IN  Silent /\ now + ScanPeriod <= MaxTime
           ~> ~Silent \/ Silence(h) \in alarms

-----------------------------------------------------------------------------
(* What the interface promises: each silence of DownAfter is owed one      *)
(* report and gets at most one.  The dedupe map, the ticker and the three  *)
(* parts of a scan implement it.                                           *)
Detector == INSTANCE DownDetector WITH owed <- newlyDown

(* The tracker implements the abstract detector.                           *)
ImplementsDetector == Detector!Spec
=============================================================================
