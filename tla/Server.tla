------------------------------- MODULE Server -------------------------------
(***************************************************************************)
(* The server process as cmd/server/main.go wires it: the ingest handlers  *)
(* (internal/server/api/metrics.go) feed the host tracker, whose onDown    *)
(* callback goes through the alert evaluator to the webhooks; SIGTERM      *)
(* drains the handlers, then closes the database pool, then main returns   *)
(* (internal/server/server.go) and everything in memory is gone.           *)
(*                                                                         *)
(* The tracker is HostTracker, composed step by step.  The agents behind   *)
(* the requests are free to send anything at any time; a request slot is   *)
(* a pair <<host, number>>, so that several requests of a host overlap     *)
(* (an agent retries while a handler of its last attempt still runs).      *)
(***************************************************************************)
EXTENDS Integers

CONSTANTS
  Hosts, StaleAfter, DownAfter, ScanPeriod, MaxTime, \* see HostTracker
  Slots,           \* BOUND: requests of one host that overlap
  RulesConfigured  \* ALERT_RULES holds a rule, so main builds an evaluator

(* parseDurationStrict: HOST_STALE_AFTER and HOST_DOWN_AFTER are positive, *)
(* in no order relative to each other.                                     *)
PositiveDuration == Nat \ {0}

ASSUME ServerAssumption ==
  /\ StaleAfter \in PositiveDuration
  /\ DownAfter  \in PositiveDuration
  /\ ScanPeriod \in Nat \ {0}
  /\ MaxTime    \in Nat
  /\ RulesConfigured \in BOOLEAN

VARIABLES
  now, hosts, down, untilTick, ticks, scanPC, scanNow, newlyDown, alarms,
  process,    \* "up", "draining", "closing" (the pool) or "dead"
  handler,    \* handler[q]: what the handler of request q does next
  arrived,    \* arrived[q]: when the running handler of q took the batch
  stored,     \* hosts of which this process committed a batch
  confirmed,  \* history: arrival of the newest batch of each host that this
              \*          process answered 202, or NoTime
  announced   \* history: silences handed to the webhooks as host.down

trackerVars == <<now, hosts, down, untilTick, ticks, scanPC, scanNow,
                 newlyDown, alarms>>
ingestVars == <<handler, arrived, stored, confirmed>>
vars == <<now, hosts, down, untilTick, ticks, scanPC, scanNow, newlyDown,
          alarms, process, handler, arrived, stored, confirmed, announced>>

Tracker == INSTANCE HostTracker

Request == Hosts \X (1..Slots)

NoTime == -1

Init ==
  /\ Tracker!Init
  /\ process = "up"
  /\ handler = [q \in Request |-> "none"]
  /\ arrived = [q \in Request |-> NoTime]
  /\ stored = {}
  /\ confirmed = [h \in Hosts |-> NoTime]
  /\ announced = {}

-----------------------------------------------------------------------------
(* HandleIngest.  A request that the middleware or the validation refuses  *)
(* changes nothing, so only valid batches are modelled.                    *)

(* Bug: requests are still accepted while the pool closes.                 *)
RequestArrivesLate(q) ==
  /\ process # "dead"
  /\ handler[q] = "none"
  /\ handler' = [handler EXCEPT ![q] = "insert"]
  /\ arrived' = [arrived EXCEPT ![q] = now]
  /\ UNCHANGED <<trackerVars, process, stored, confirmed, announced>>

RequestArrives(q) ==
  /\ process = "up"
  /\ handler[q] = "none"
  /\ handler' = [handler EXCEPT ![q] = "insert"]
  /\ arrived' = [arrived EXCEPT ![q] = now]
  /\ UNCHANGED <<trackerVars, process, stored, confirmed, announced>>

(* Bug: what is stored is not found under the host.                        *)
InsertMisses(q) ==
  /\ process # "dead"
  /\ handler[q] = "insert"
  /\ handler' = [handler EXCEPT ![q] = "heartbeat"]
  /\ stored' = stored \cup {q}
  /\ UNCHANGED <<trackerVars, process, arrived, confirmed, announced>>

(* repo.Insert commits and returns.                                        *)
InsertReturns(q) ==
  /\ process # "dead"
  /\ handler[q] = "insert"
  /\ handler' = [handler EXCEPT ![q] = "heartbeat"]
  /\ stored' = stored \cup {q[1]}
  /\ UNCHANGED <<trackerVars, process, arrived, confirmed, announced>>

(* repo.Insert returns an error (the storage, the request's deadline, or   *)
(* the pool is closed): 500.  The error may hide a commit.                 *)
InsertFails(q) ==
  /\ process # "dead"
  /\ handler[q] = "insert"
  /\ handler' = [handler EXCEPT ![q] = "none"]
  /\ arrived' = [arrived EXCEPT ![q] = NoTime]
  /\ stored' \in {stored, stored \cup {q[1]}}
  /\ UNCHANGED <<trackerVars, process, confirmed, announced>>

(* Bug: the handler confirms a batch without a heartbeat.                  *)
SkipHeartbeat(q) ==
  /\ process # "dead"
  /\ handler[q] = "heartbeat"
  /\ handler' = [handler EXCEPT ![q] = "respond"]
  /\ UNCHANGED <<trackerVars, process, arrived, stored, confirmed, announced>>

(* Bug: the heartbeat is given the time of arrival.                        *)
HeartbeatOfArrival(q) ==
  /\ process # "dead"
  /\ handler[q] = "heartbeat"
  /\ hosts' = [hosts EXCEPT ![q[1]] = arrived[q]]
  /\ down' = down \ {q[1]}
  /\ handler' = [handler EXCEPT ![q] = "respond"]
  /\ UNCHANGED <<now, untilTick, ticks, scanPC, scanNow, newlyDown, alarms,
                 process, arrived, stored, confirmed, announced>>

RecordHeartbeat(q) ==
  /\ process # "dead"
  /\ handler[q] = "heartbeat"
  /\ Tracker!Heartbeat(q[1])
  /\ handler' = [handler EXCEPT ![q] = "respond"]
  /\ UNCHANGED <<process, arrived, stored, confirmed, announced>>

(* 202.  Handlers of one host may answer in any order.                     *)
Confirm(q) ==
  /\ process # "dead"
  /\ handler[q] = "respond"
  /\ handler' = [handler EXCEPT ![q] = "none"]
  /\ arrived' = [arrived EXCEPT ![q] = NoTime]
  /\ confirmed' = [confirmed EXCEPT ![q[1]] = IF @ > arrived[q] THEN @ ELSE arrived[q]]
  /\ UNCHANGED <<trackerVars, process, stored, announced>>

-----------------------------------------------------------------------------
(* The scanner goroutine.  Nobody waits for it: after SIGTERM its select   *)
(* may still choose a tick, until main returns.                            *)

TimePasses ==
  /\ Tracker!ClockAdvances
  /\ UNCHANGED <<process, ingestVars, announced>>

Scan ==
  /\ process # "dead"
  /\ Tracker!ScanReadsClock \/ Tracker!ScanMarks \/ Tracker!ScanReturns
  /\ UNCHANGED <<process, ingestVars, announced>>

(* Bug: the callback logs and does not notify.                             *)
ReportOnlyLogs(s) ==
  /\ process # "dead"
  /\ Tracker!ReportDown(s)
  /\ UNCHANGED <<process, ingestVars, announced>>

(* The onDown closure of main: NotifyHostDown, if there is an evaluator.   *)
ReportDown(s) ==
  /\ process # "dead"
  /\ Tracker!ReportDown(s)
  /\ announced' = IF RulesConfigured THEN announced \cup {s} ELSE announced
  /\ UNCHANGED <<process, ingestVars>>

-----------------------------------------------------------------------------
Terminate ==
  /\ process = "up"
  /\ process' = "draining"
  /\ UNCHANGED <<trackerVars, ingestVars, announced>>

(* httpServer.Shutdown returns: every handler is done, or SHUTDOWN_TIMEOUT *)
(* is over, which may be shorter than REQUEST_TIMEOUT.                     *)
DrainEnds ==
  /\ process = "draining"
  /\ process' = "closing"
  /\ UNCHANGED <<trackerVars, ingestVars, announced>>

(* What the end of the process leaves of its memory.                       *)
Forget ==
  /\ Tracker!Restart
  /\ process' = "dead"
  /\ handler' = [q \in Request |-> "none"]
  /\ arrived' = [q \in Request |-> NoTime]
  /\ stored' = {}
  /\ confirmed' = [h \in Hosts |-> NoTime]
  /\ UNCHANGED announced

(* pool.Close waits for the connections in use, so for the inserts that    *)
(* run; then main returns, and with it every goroutine ends.               *)
MainReturns ==
  /\ process = "closing"
  /\ \A q \in Request : handler[q] # "insert"
  /\ Forget

Crash ==
  /\ process \in {"up", "draining", "closing"}
  /\ Forget

(* main builds a new tracker and starts its ticker.                        *)
ProcessStarts ==
  /\ process = "dead"
  /\ process' = "up"
  /\ Tracker!Restart
  /\ UNCHANGED <<ingestVars, announced>>

Next ==
  \/ \E q \in Request :
       \/ RequestArrives(q)
       \/ InsertReturns(q)
       \/ InsertFails(q)
       \/ RecordHeartbeat(q)
       \/ Confirm(q)
  \/ TimePasses
  \/ Scan
  \/ \E s \in Tracker!Silences : ReportDown(s)
  \/ Terminate
  \/ DrainEnds
  \/ MainReturns
  \/ Crash
  \/ ProcessStarts

Spec == Init /\ [][Next]_vars

(* Goroutines are scheduled, time passes, and an insert returns: the       *)
(* middleware gives each request a deadline of REQUEST_TIMEOUT, and the    *)
(* shutdown has one of SHUTDOWN_TIMEOUT.                                   *)
Fairness ==
  /\ WF_vars(TimePasses)
  /\ WF_vars(Scan)
  /\ WF_vars(\E s \in Tracker!Silences : ReportDown(s))
  /\ \A q \in Request : /\ WF_vars(InsertReturns(q) \/ InsertFails(q))
                        /\ WF_vars(RecordHeartbeat(q))
                        /\ WF_vars(Confirm(q))
  /\ WF_vars(DrainEnds)
  /\ WF_vars(MainReturns)

FairSpec == Spec /\ Fairness

-----------------------------------------------------------------------------
(* Types of the handlers, the lifecycle and the histories.                 *)
TypeOK ==
  /\ Tracker!TypeOK
  /\ process \in {"up", "draining", "closing", "dead"}
  /\ handler \in [Request -> {"none", "insert", "heartbeat", "respond"}]
  /\ arrived \in [Request -> 0..MaxTime \cup {NoTime}]
  /\ stored \in SUBSET Hosts
  /\ confirmed \in [Hosts -> 0..MaxTime \cup {NoTime}]
  /\ announced \in SUBSET Tracker!Silences

(* A host whose batch arrived less than DownAfter ago and was answered 202 *)
(* is not called down by GET /api/v1/hosts and not marked for an alarm,    *)
(* however its requests overlap, with a scan that read its clock before    *)
(* the heartbeat among them.                                               *)
ConfirmedIsAlive ==
  \A h \in Hosts :
     confirmed[h] # NoTime /\ now - confirmed[h] < DownAfter
       => Tracker!Status(h) # "down" /\ h \notin down

(* The tracker knows, and can raise an alarm for, only hosts of which this *)
(* process stored data ("Heartbeat is called only on successful inserts"). *)
KnownHostHasData ==
  \A h \in Hosts : Tracker!Known(h) \/ (\E s \in newlyDown : s[1] = h) => h \in stored

(* After SIGTERM main returns: neither the drain nor pool.Close hangs.     *)
ShutdownCompletes == process = "draining" ~> process = "dead"

(* docs/integration-guide.md:425: "No configuration is required beyond     *)
(* setting `ALERT_NOTIFICATIONS`": a silence that lasts is announced to    *)
(* the webhooks, unless the host is heard again or the process stops.      *)
(* Needs ALERT_RULES.                                                      *)
SilenceIsAnnounced ==
  \A h \in Hosts :
     LET Silent == Tracker!Known(h) /\ Tracker!Status(h) = "down" /\ process = "up"
     IN  Silent /\ now + ScanPeriod <= MaxTime
           ~> ~Silent \/ Tracker!Silence(h) \in announced

(* Handlers, shutdown and crashes use the tracker as HostTracker says, so  *)
(* all that is proved of it holds in the server.                           *)
ImplementsTracker == Tracker!Spec
=============================================================================
