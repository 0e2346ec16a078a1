# A TLA+ development of MiniObserv (theminidog)

MiniObserv is an agent that collects metrics and tails log files, a server that
keeps them in TimescaleDB, evaluates alert rules, tracks the liveness of hosts
and serves a dashboard, and a JavaScript SDK.  This directory holds TLA+ modules
of its concurrent and stateful parts, the TLC configurations that check them on
small instances, and proofs that TLAPS checks for every value of the constants.

`PROJECT.json` is the index: components, runs, the line of code behind each
definition (`map`), a mutated definition for each property (`mutants`), the
hazards of the code, and the theorems.

- [Inventory](#inventory)
- [Modules and their code](#modules-and-their-code)
- [Runs](#runs)
- [Fairness](#fairness)
- [Where documents and code disagree](#where-documents-and-code-disagree)
- [Proofs](#proofs)
- [What is not modelled](#what-is-not-modelled)
- [Plan](#plan)
- [How to run it](#how-to-run-it)

## Inventory

```
   cpu memory disk network                      application
        |  CollectAll                               | writes, rotates
   +----v-----+   chan (BufSize)  +------------+ +--v--------+
   | collect  |------------------>| senderLoop | |  Tailer   |     agent
   |  Loop    |  drop the newest  | Send,retry | | SendLogs  |
   +----------+                   +-----+------+ +-----+-----+
                       POST /api/v1/metrics     POST /api/v1/logs
   +------------------------------------v--------------v-----+
   | JWT, validation, HandleIngest      repo.Insert  (logs)  |     server
   |        | after Insert                                   |
   |   HostTracker.Heartbeat      Evaluator (every 30s)      |
   |        | scan (ticker)            | Query, Hosts(30m)   |
   |        +-- onDown --------------->+ notifyAll (webhooks) |
   +-----------------------------+----------------------------+
                                 |  TimescaleDB: metrics, logs, retention
```

### Parts that keep state

| Part | Source (src/) | State | Operations | Concurrency and failure | What makes it correct |
|---|---|---|---|---|---|
| Host tracker | internal/server/storage/hosts.go | last heartbeat per host, dedupe map `down`, ticker | Heartbeat, scan, Status, All | handlers call Heartbeat from many goroutines; a scan reads the clock before the lock and calls onDown after it; a restart forgets everything | one alarm per silence, only real silences, no silence muted for good |
| Agent metric pipeline | internal/agent/agent.go, internal/agent/sender/sender.go | channel of batches, the batch and attempt in Send, token | collect, drop, send, back off, retry, discard, stop | two goroutines; responses lost or late, so a handler of an old attempt runs beside the new one; channel full; SIGTERM at any moment | no batch vanishes, acknowledged means stored, order kept, Run returns |
| Collectors | internal/agent/collector | snapshot of the network counters | CollectAll, cpu, memory, disk, network | each collector may fail; counters go back; interfaces come and go; restarts | no byte counted twice, none lost without a cause, a failure stays with its collector |
| Log tailer | internal/agent/logtail | offsets and open files per path, events, watch | create, write, rename events; read; send in chunks | the application writes and another program rotates between any two steps; sending blocks the event loop | no old line is read, no line noticed is skipped, what was read is sent |
| Alert evaluator | internal/server/alerting | state map, notification goroutines | evaluate, notifyAll, ActiveAlerts | fire-and-forget goroutines, one deadline for all rules, failing queries, gaps in the data | the map and the events agree, events arrive in order, a lasting breach fires and is heard of |
| Server process | cmd/server, internal/server, internal/server/api/metrics.go | lifecycle, running handlers, pool | ingest, onDown, SIGTERM, drain, close | overlapping requests of one host, failed inserts, scans during the drain, shutdown deadlines | a confirmed host is alive, shutdown ends, a silence is announced |
| Log table and search | internal/server/storage/logs.go, internal/server/api/logs.go | rows, id sequence, cursor of the client | Insert, Query with cursor, retention | ids are drawn before the commit, rows appear and vanish between two pages | no row twice, none skipped, an honest cursor, an end |
| Log delivery | internal/agent/logtail/sender.go, internal/server/api/logs.go | chunk and attempt in SendLogs, handlers, open transactions | SendLogs, HandleIngestLogs, Insert | a response is lost while its handler runs on; ids are drawn line by line; restarts | the log search shows the file in order and without a hole |
| Metrics table and its readers | internal/server/storage/metrics.go, internal/server/api/prometheus.go, internal/server/dashboard, evaluation of a rule | rows; per reader its clock value and the answer so far | Insert, Query, Hosts; scrape, charts, rule | a page is made of many queries between which batches arrive; rows carry the agents' clocks; batches are late or doubled | nothing stored before is missing, no page is inconsistent, exported stamps do not go back, verdicts are right |
| JavaScript SDK | sdk/js | cached token and its expiry | one request per call | two clocks decide whether the token is valid | no stale token in a running client |

### Parts without state of their own

Middleware and router, validation of batches, configuration, parsing of rules and
of log levels, migrations, and the stub server, examples and documentation site.

### How the parts interact

- The agent and the server share nothing but requests.  A batch may be inserted
  by several handlers, one for each attempt, and nothing in the tables makes a
  batch unique: delivery is at least once, for metrics and for log lines.
- `HandleIngest` calls `Heartbeat` after a successful insert, so the tracker's
  view of a host depends on the storage.
- `onDown` is a closure of `main` that goes through the evaluator, since the
  evaluator holds the webhooks.
- Rows carry the clock of the agent, windows that of the server, and each query of
  a reader sees what is committed by then.
- The evaluator reads the metrics table only; it hears nothing of a host that
  went silent except that its window becomes empty.
- All memory of the server (tracker, alerts) and of the agent (channel, offsets,
  counter snapshot) is lost in a restart; only the two tables remain.

## Modules and their code

A history variable (marked in each module) records what happened and is read by
no guard.  An operator whose comment begins with "Bug:" is a mutated form of the
definition below it, used to show that a property can be violated; no
specification contains one.

### `HostTracker` (abstract specification: `DownDetector`)

`hosts` and `down` are the two maps of the struct.  A scan is the three actions
`ScanReadsClock` (the clock, before the mutex), `ScanMarks` (the critical
section) and `ReportDown` per host (the callbacks, after the mutex), followed by
`ScanReturns`: heartbeats, the clock and the death of the process interleave with
the three.  `Heartbeat` is one action because the code holds the mutex from the
clock reading to the end.  The ticker has a channel of capacity one and drops
ticks (`ClockAdvances`).  A silence is named by its host and the time of the last
heartbeat, which makes "at most once per silence" a statement.

`DownDetector` is the promise: a silence that has lasted `DownAfter` may become
owed a report, each at most once, and owed reports are made in any order.

### `Agent` (abstract specification: `Outbox`)

`collectPC` and `sendPC` are the two goroutines of `agent.Run`, `batches` is the
channel.  `Collect` is a tick with metrics: the select with a default that drops
the newest batch.  `Send` is the loop `sleep` (waitFor and sleepFn), `do`
(client.Do until the request is on its way), `wait` (for the response).  A request
is `<<batch, attempt>>`, and its handler is in `running` until it answers or dies:
it outlives a client that gave up.  The handler's steps are the token check and
validation (`HandlerAdmits`, `HandlerUnauthorized`, `HandlerRefuses`), the commit
(`HandlerInserts`), and the answer (`HandlerAccepts`, `HandlerFails`: an error may
hide a commit).  Three sets of batches are constants, so that each class is there
in one instance: `Unencodable` (json.Marshal fails), `Invalid` (refused with 400)
and `Poison` (the storage refuses the batch for good, so Send retries for ever).

`Outbox` is the promise: a bounded first-in first-out queue whose head is stored
at least once before it leaves, or is refused.

### `Collectors`

One tick of the registry: `CollectCPU`, `CollectMemory`, `CollectDisk` and
`CollectNetwork` in the order in which `cmd/agent/main.go` registers them.  The
network collector is modelled with the kernel's counters beside it: `Traffic`,
`CounterResets`, `Vanishes`, `Appears`.  `carried` and `reported` are histories of
the bytes that passed and of the sum of the deltas: `BytesAreConserved` compares
them, which is what a user who adds up `net.bytes_in` relies on.  Values of the
other metrics are left out.

### `Evaluator`

`EvaluationStarts`, `RuleStarts`, `JudgeHost` / `SkipHost`, `RuleEnds` and
`EvaluationEnds` are the loops of `evaluate`; data changes, time passes and
goroutines run between any two of them.  A rule is reduced to its target host and
to the part of it that enters `ruleKey`; its window and threshold decide `mean`,
which the environment chooses.  Time is a set of countdowns (ticker, deadline of
the evaluation, deadline of each POST): they are what keeps the events of a key in
order, since nobody waits for a notification goroutine.  `received` is the external
part: a webhook gets a POST before its client's deadline or never.  One that stalls
for the rest of a tick period (some 25 seconds) and then acts on a request whose
client has gone could hear an old event after a new one; `ReceivedIsNewest`,
`LastingBreachFires` and the theorems `WebhookGetsTheNewest` and `WebhookKeepsUp`
take it not to.

### `Server`

`cmd/server/main.go` as a composition: `Tracker == INSTANCE HostTracker`, whose
actions the server's actions call.  A request slot is a pair of a host and a
number, so that handlers of one host overlap; the handler's program counter is
`insert`, `heartbeat`, `respond`.  `Terminate`, `DrainEnds`, `MainReturns`,
`Crash` and `ProcessStarts` are the lifecycle.  `ImplementsTracker` says that the
composition uses the tracker only as `HostTracker` specifies it: what is proved of
`HostTracker` therefore holds in the server.

### `Tailer`

One path.  The file system is `content` per generation (the files that had the
path one after the other), with `WriteLine`, `TruncateFile`, `RenameFile` and
`CreateFile`; the watch is on a file and ends with its rename.  `OpenPath`,
`StatPath` and `AddWatch` are `NewTailer`.  `HandleCreate`, `Reopen` and `Rewatch`
are the handler of a create event (close; open; add the watch), `HandleRename` that
of a rename.  `HandleWrite`, `OpenToRead` (only if no file is open), `StatFile`,
`ScanLine` and `ScanEnds` are that of a write event with `readNewLines`, split where
the application may write; `SendChunk`, `SendEnds` and `SendCancelled` are
`sendChunked`.  `SendLogs` retries until the server answers, so a chunk is settled in
one step here; `LogSender` has the steps.  A line of the model is what the application
appends with one write, whether or not that ends a line of text.

`os.Open` and `watcher.Add` each look up the path, and each may fail.  A rotation
between the two leaves the tailer reading the old file and watching the new one: a
line of the new file then has its write event, the event has the old file read, and
the line is not sent until another event leads to its file, if one does.  The history
`strayed` collects such lines: those written under the watch when the open file was
not the watched one, or when a rename or creation was still to be handled
(`~Attended`).  `NoticedIsReadOrQueued` promises nothing of them, nor of the lines of
a file that nothing watches (`unnoticed`).  Of every other line it says that the line
was read or that its event is still to be handled, over all rotations, truncations
and failures, and also while a truncation waits to be noticed.

### `LogSender` (abstract specification: `Outbox`)

What `Tailer` has as the step `SendChunk`: `sendChunked` (`NextChunk`), the retry
loop of `SendLogs` (`sleep`, `do`, `wait`, as in `Agent`), and one handler per
request, which outlives the attempt it serves.  `InsertLine` is one statement of
the pipeline and draws an id, `Commit` the end of the transaction; a rollback
leaves a gap (`RolledBack` takes the rows of the request out of `drawn`).  `drawn` has
the rows in the order of their ids, which is the order of the log search; `LinesOf` are
the lines a request has in it.  `Invalid` chunks are refused with 400, `Poison` ones
fail in the storage for good (a line with a NUL byte).  `ImplementsOutbox` uses the
promise of the metric pipeline with a buffer of 0: the two senders, written
separately, keep the same promise.

### `MetricStore`

`batches` are the batches collected, stamped with clocks that are off by up to
`MaxSkew`; `stored` counts the copies of each row.  `Insert` is the one implicit
transaction of the pipeline.  A reader (`scrape`, `charts` or `rule`) reads its
clock in `Start`, asks for hosts in `FindHosts` by a later reading, reads one series
after the other in `ReadSeries` or leaves one out in `SkipSeries`, and is done in
`Finish`.  `Query` is the SQL of `pgxMetricRepository.Query` with buckets of one
minute and the mean, `HostsSince` that of `Hosts`, `Firing` the mean of means of a
rule (one on all hosts; a rule that names its host, and so asks for none, is left out),
and `Line` the timestamp a scrape exports.  `Evaluator` goes on from the
verdict.  The metrics of a batch stand for those of one collector: each collector
reads the clock itself, so across collectors the stamps of a tick differ by moments,
and `LaterSeriesIsNotOlder` is claimed of one stamp only.

### `SdkToken`

`cached`, `exp` and `expiry` are the token, its claim and `tokenExpiry`; `flights`
are requests under way.  Both clocks may be set to anything at any moment.
`Request` is `getToken` and the sending (one turn of the event loop), `Accept` and
`Reject` the middleware's check on arrival.

### `LogStore`

`InsertRow`, `Commit` and `RollBack` are the transaction of an insert; the ids
come from the sequence and not from the commit.  `DropChunk` is retention.
`FirstPage` and `NextPage` are a client that follows `next_cursor`; `Selected`,
`Page`, `HasNext` and `NextCursor` are `WHERE id < cursor ... ORDER BY id DESC
LIMIT limit + 1`, the probe row and the cursor; `Limit` is
`LogQueryParams.Validate`.

## Runs

Every passing run finishes in about two and a half minutes or less with two workers.

| Run | Instance | Distinct states | What it shows |
|---|---|---|---|
| `tracker` | 2 hosts, stale 1, down 2, period 2, clock to 6 | 30 thousand | marks and alarms agree and are genuine, a lasting silence is reported, `DownDetector` is implemented |
| `agent` | channel of 2, 5 batches (2nd invalid, 3rd not encodable, 4th poison), 1 spoiled attempt | 81 thousand | no overtaking, `Outbox` is implemented (no batch vanishes, acknowledged is stored, order), Run returns, delivery |
| `agent_discard` | 2 batches, all valid | violation | a valid batch is discarded after the token expired |
| `collectors` | `lo` and `eth0`, 1 core series, 2 mounts, 3 traffic units each | 2.4 million | bytes are conserved, a failure is contained |
| `evaluator` | 1 host, a wildcard rule and a named one about different metrics, period 6, deadlines 4 and 1 | 140 thousand | map and events agree, events arrive in order, a lasting breach fires and reaches the webhook |
| `evaluator_collision` | the same with two windows of one metric | violation | the two rules notify at every tick |
| `server` | 1 host, 2 overlapping requests, down 2, clock to 4 | 317 thousand | a confirmed host is alive, shutdown ends, a silence is announced, `HostTracker` is implemented |
| `tailer` | 3 lines, 3 generations, chunks of 1, the 2nd line too long | 253 thousand | old lines never read, noticed lines never skipped, read lines settled |
| `log_sender` | 4 chunks (2nd refused, 4th poison), the first of two lines and with a spoiled attempt | 308 thousand | first copies are in file order without a hole, `Outbox` is implemented, a chunk is settled |
| `metrics` | 1 host, 2 names, 2 batches of which one may be stored twice, clocks off by 1 either way, buckets of 2 ticks, clock to 3 | 2.7 million | reads are complete, no page is inconsistent, stamps do not go back, verdicts are sound |
| `sdk` | clocks 0 to 6, life 4, margin 2, 2 requests under way | 2.0 million | a token is rejected only if the clocks are more than the margin apart |
| `log_store` | 2 inserting handlers, 7 rows, a page of 2, one row that does not match | 574 thousand | pages descend, skip nothing, end |

### Bounds, and why they are enough

- *Clock* (`MaxTime`): in `tracker`, 6 ticks hold a full silence (2), its report,
  a new heartbeat and a second silence with its report, with a scan delayed by a
  period; in `server`, 4 ticks hold a silence, its report and a late heartbeat.
  `SilenceIsReported` and `SilenceIsAnnounced` ask for a report only while a
  scan period is left before the bound.
- *Batches*: 5 batches on a channel of 2 are one in `Send`, two queued, one
  dropped and one that comes after the drop.  One spoiled attempt per batch gives
  two requests of a batch that run side by side; after it an attempt still fails
  if the context is done or the batch is poison.
- *Traffic*: 3 units give a reset between two positive deltas.  Two interfaces are
  one that is reported and one that is filtered out.
- *Countdowns of the evaluator*: 6, 4 and 1 are 30s, 20s and 5s in units of 5s.
- *Slots*: two overlapping requests are an agent's retry beside the handler of the
  attempt before.
- *Tailer*: 3 lines are one before the start or read in pieces, one too long, and one
  written between Stat and the scan, after a truncation or after a rotation.  3 files
  let a second rotation fall between the open and the watch of a create event.  The
  invariants were checked as well with 4 lines in 2 files, 2 lines in 4 and 3 lines in 4.
- *Chunks*: one that is stored, one refused, one more that is stored behind it and
  one that never is.  The two lines of the first let the ids of two handlers interleave.
- *Windows*: of 3 and 2 ticks with buckets of 2, so that a window cuts a bucket at
  either end; a skew of 1 moves a row into the next bucket, and time runs to 3, so
  that rows leave the window.  Two copies of a batch weigh a bucket's mean.
  `ReadsAreComplete` exempts what an agent's clock may have moved out of the window.
- *Token clocks*: a life of 4 and a margin of 2 keep the order of 24h and 300s; the
  theorem covers all values.
- *Rows*: 7 rows, 6 of which match, with pages of 2 are three full pages; with
  fewer rows inserted the last page is short or exactly full.

`CHECK_DEADLOCK FALSE` is set in the runs of the two senders (after SIGTERM and with
all handlers done nothing of the agent's side remains to happen) and in `metrics`
(when time, batches and copies are used up and no reader is at work).  In the other
models the environment can always act.

Each property has a mutant: an operator that changes one definition in the way of
a plausible bug (a lost guard, an early answer, a missing reset), with which TLC
finds the property violated under the run's own configuration.

## Fairness

| Specification | Assumed | Why the code justifies it |
|---|---|---|
| `HostTracker!FairSpec` | the clock and each step of the scanner | the scanner goroutine is always in its select; no step blocks but the mutex, which is held shortly |
| `Agent!AgentSpec` | each step of the two goroutines | Go schedules runnable goroutines; `client.Do` returns, since the client has a timeout of 10s and the request carries the context.  Nothing is assumed of the server: `RunReturns` holds while it hangs |
| `ServerFairness` (a premise of `QueuedIsDelivered`) | some handler goes on | REQUEST_TIMEOUT ends each handler |
| `Evaluator!FairSpec` | the loop, time and POSTs (weak); that each host of a rule is in the answer of `Hosts`, and its query answered, again and again (strong) | the loop is one goroutine; the strong part is the environment's: without it the property would speak of a storage that never answers |
| `Server!FairSpec` | time, scanner, each handler, the drain, the end of main | REQUEST_TIMEOUT and SHUTDOWN_TIMEOUT bound the handlers and the drain; `pool.Close` waits for inserts, which return |
| `Tailer!FairSpec` | the goroutine as a whole | it is one goroutine; SendLogs returns once the server answers.  Whether an open or a watch succeeds is left open |
| `LogSender!SenderSpec` | each step of SendLogs | one goroutine; `client.Do` returns, since the client has a timeout of 10s and the request carries the context |
| `LogSender!ServerFairness` (a premise of `SendLogsReturns`) | each handler goes on | REQUEST_TIMEOUT ends it.  Without the premise only the return after SIGTERM is claimed |
| `LogStore!FairSpec` | the client asks for the next page | it follows the cursor; nothing is assumed of writers |

No fairness is put on failures, restarts, heartbeats or writes.
`MetricStore` and `SdkToken` have safety properties only.
`LastingBreachFires` has two more premises, stated in the formula: no evaluation
reaches its deadline (all rules share one, so a slow query of an early rule
starves the later ones), and the process is restarted finitely often.

## Where documents and code disagree

Each of these has a run that shows it.

1. **An expired token discards data** (`agent_discard`).  `docs/internals.md:388`
   says a 4xx means that "the batch is malformed and retrying would produce the
   same result".  The agent's token is minted once and lives 24 hours
   (`cmd/agent/main.go`); from then on each batch is answered 401 and discarded
   (`sender.go:143`).
2. **Rules that share a key** (`evaluator_collision`).  `ruleKey`
   (`alerting.go:112`) leaves out the window, so two rules on one metric and
   threshold overwrite each other's state and notify at each tick;
   `docs/under-the-hood.md:440` says "Notifications only fire on **transitions**".

Others met while modelling, without a run of their own:

- `docs/decisions.md:488` (ADR-17) puts the heartbeat before the insert;
  `api/metrics.go:41` has it after (`ConfirmedIsAlive` is what that order still gives).
- `docs/integration-guide.md:425` asks for nothing but ALERT_NOTIFICATIONS for
  `host.down`; `cmd/server/main.go:87` builds the evaluator, which holds the
  webhooks, only if there are ALERT_RULES (`SilenceIsAnnounced` has them).
- `docs/under-the-hood.md:482` says the tailer reads only new bytes; the size is taken
  before the scan (`tailer.go:146`), so a line appended in between is read again.
- `docs/under-the-hood.md:512` says "always handle rotation" and `README.md:41` names
  rotation detection.  A rotation between `os.Open` and `watcher.Add`
  (`tailer.go:50-54`, `115-121`) leaves the old file open and the new one watched, and
  the events of the new file have the old one read; a watch that cannot be added after
  a creation is logged and not tried again.  Lines written then may never be sent.
- `api/prometheus.go:11` promises the latest values; a line is the mean of the newest
  one-minute bucket, so one timestamp may be exported with changing values.  `Query`
  ignores labels: mounts, cores and interfaces are averaged together.
- `sdk/js/README.md:114` says that `healthz` and `readyz` return true if the server
  answers; both parse the plain answer as JSON and return false.  `queryLogs` sends
  `search` where the server reads `q`, and `pushLog` sends `source` where the server's
  entry has `path`.
- `docs/integration-guide.md:386` calls `for` "the minimum sustained duration";
  the code takes the mean of the one-minute averages that the window holds, so one
  sample of a fresh host can fire the rule.
- `docs/decisions.md:472` (ADR-16) warns of false `host.down` alerts at start-up; a
  restarted server knows no host at all, so it reports none before its first batch,
  and one that never comes back is never reported.
- `docs/decisions.md:361` (ADR-12) says that a value is the bytes "in the last
  collection interval"; after a failed query the next delta covers two ticks
  (`BytesAreConserved` holds because of it).
- `docs/internals.md:321` says that the range drains the queued batches at shutdown;
  with the context done the first of them fails and `agent.go:103` returns with the
  rest in the channel.
- A firing alert whose server restarts is announced again, and one that ended
  meanwhile never gets its "resolved".
- The waits of the two senders differ by a factor of two (`waitFor` and
  `logWaitFor` use different exponents).

## Proofs

Every safety and action property of the passing runs, and every refinement, is a
theorem: proved by TLAPS for any number of hosts, batches, lines, chunks, rules,
handlers and interfaces, and for any bound.  What is assumed are the named
assumptions of the modules:

| Assumption | Says | Why the code justifies it |
|---|---|---|
| `TrackerAssumption`, `ServerAssumption` | durations are positive, no relation among them | `parseDurationStrict` refuses others; the period of the scan is a constant |
| `AgentAssumption` | the channel has a capacity of at least one; the classes of batches are classes of batches | `New` replaces a `BufSize` of 0 or less by 10 |
| `CollectorsAssumption` | the bound on the traffic is a number | a bound of the model |
| `EvaluatorAssumption` | the two deadlines together are shorter than the tick period; each rule has a target and a key | 20s and 5s in 30s |
| `TailerAssumption`, `LogSenderAssumption` | a chunk has room for a line, and each chunk sent has one; numbers are numbers | `maxBatchSize` is 1000; `sendChunked` sends no empty chunk |
| `MetricStoreAssumption` | buckets and windows are positive, clocks are off by `MaxSkew` at most, values and threshold are integers | `MaxSkew` is any number; an integer counts units as small as one likes, so that the finite values of a float64 and a threshold have the form |
| `LogStoreAssumption` | the default limit is positive and at most the greatest | constants of the code |
| `SdkTokenAssumption` | the margin is below the life of a token | 300s and 24h |

Two hypotheses go beyond these: `DistinctKeys`, on which see `EvaluatorProofs`, in
three theorems, and in `AnnouncementsMatchMarks` that a rule is configured, without
which nothing is announced.  The modules of proofs are fewer than those of the model:
`ServerProofs` has a section on `SdkToken` and `TailerProofs` one on `LogSender`,
whose theorems are about the instances `Sdk` and `Sender` and carry the
assumptions of these modules as hypotheses.

### `HostTrackerProofs`

| Theorem | States |
|---|---|
| `TypeCorrect` | `Spec => []TypeOK` |
| `MarkedHostsAreSilent` | `Spec => []MarkedIsSilent` |
| `MarksMatchReports` | `Spec => []MarksAreExact` |
| `AlarmsOnceAndGenuine` | `Spec => [](NoRepeatedAlarm /\ AlarmsAreGenuine)` |
| `AlarmsOfAHostAreApart` | the silences reported of one host begin at least `DownAfter` apart |
| `LateSilencesAreReported` | a silence of `DownAfter + ScanPeriod` is unreported only while the scanner has something to do |
| `TrackerImplementsDetector` | `Spec => ImplementsDetector` |

The properties are inductive only together, and with two facts more: a scan never
works with a clock value of the future (`scanNow <= now`), and `newlyDown` is
empty outside the reporting part of a scan.  `TrackerInv` is their conjunction.
The first fact carries the stale clock through the critical section: a host overdue
at `scanNow` is overdue now, while one that beat after the reading has a heartbeat
above `scanNow` and is not overdue.  The second makes a scan's new marks the only
ones without a report.  The refinement has one step per action: a scan's marks
fall due in `DownDetector`, a heartbeat or restart maps to its counterpart, the
rest stutters; that a silence is owed only if it was not reported needs
`MarksAreExact`.

That alarms are apart is inductive with `TrackerInv`: only a scan's critical section
adds a silence, and by `AlarmsAreGenuine` the heartbeat it begins with is either the
one already reported, which the mark excludes, or `DownAfter` younger.  After a
restart the mark is gone and the age alone does it.  `LateSilencesAreReported` is the
part of `SilenceIsReported` that needs no fairness.  It rests on `NothingOverlooked`
(outside the way to its critical section, the scanner has marked every host overdue at
`scanNow`: a heartbeat that came later cannot make one) and on `ScansKeepUp` (a tick
that was taken is no older than the ticker's phase, or the host was heard since), so
dropped ticks and an old `scanNow` cost one period together, not one each.

### `LogStoreProofs`

| Theorem | States |
|---|---|
| `TypeCorrect` | `Spec => []TypeOK` |
| `PagesAlwaysDescend` | `Spec => []PagesDescend` |
| `PagingIsComplete` | `Spec => []NothingIsSkipped` |
| `CursorsAreHonest` | `Spec => []CursorLeadsSomewhere` |
| `PagesAreTrue` | a page has only committed rows that match, none of an open transaction, and is full while there is a next one |
| `PagingIsOneQuery` | a finished walk, while the matching rows stayed as they were, showed what one unlimited query shows |
| `PagingTerminates` | `Spec => PagingAdvances`: no step raises the cursor, and a page with a next one lowers it by `Limit` |

`LogStoreInv` adds to them `OpenRowsAreNew` (rows of open transactions are in no
other set), `SnapshotWasVisible` (what the client's snapshot holds was committed)
and `CursorIsLeast` (the cursor is the least id returned so far).  The steps that
page rest on lemmas about the query: `LargestIsTop` and `LargestIsLimited` (the
top `n` of a set is closed upward, not empty, and has at most `n` members),
`NoProbeNoRest` and `ProbeMeansRest` (what the probe row says about the rows behind
the page), `QueryAnswers` (all of it for one query).  `MinIsLeast` and
`GreatestExists`, that a finite set of integers has a least and a greatest member,
come from the well-foundedness of strict inclusion on finite sets, since an
induction over the set is not available to the provers.

For what a whole walk shows, `WalkInv` adds that the pages hold rows that are, or
were until retention dropped them, in the table, and that a page with a cursor has
`Limit` rows (`ProbeMeansFull`).  `NothingIsSkipped` is the one half of
`PagingIsOneQuery`, this the other.  The cursor is a natural number and falls by
`Limit` with each page, which bounds the number of pages by the ids at the start
whatever is inserted meanwhile; `PagingEnds` adds that the pages are asked for.

### `ServerProofs`

| Theorem | States |
|---|---|
| `TypeCorrect` | `Spec => []TypeOK` |
| `ServerImplementsTracker` | `Spec => ImplementsTracker` |
| `ConfirmedHostsAreAlive` | `Spec => []ConfirmedIsAlive` |
| `KnownHostsHaveData` | `Spec => []KnownHostHasData` |
| `ServerAlarms` | the marks and alarms of the tracker, inside the server |
| `AnnouncementsMatchMarks` | with a rule configured, the webhooks are told of a silence once, if it lasted `DownAfter`, and a host is marked exactly when its silence was announced or is the next to be |
| `ShutdownTerminates` | `Spec => ShutdownMovesOn`: after SIGTERM no request is taken, and each step of a handler or of `main` leaves less to do |

Each action of the server is one of the tracker or leaves it alone
(`StepTracker`), so `TrackerInv`, proved in `HostTrackerProofs`, holds in the
server: `TrackerTheorems` instantiates that module, and `SameTracker` identifies
the two instances.  `ServerInv` adds what the handlers know: a handler at its
heartbeat has stored data (`BeatsHaveData`); one about to answer has left a
heartbeat no older than the arrival of its batch (`RespondersWereHeard`), and so
has the newest batch confirmed (`ConfirmedWereHeard`), since a heartbeat is never
overwritten by an older one (`PastOnly`); a dead process has no handlers
(`DeadForgets`), which the start of the next one needs.  The assumption is
`ServerAssumption`: positive durations, no relation among them.  The announcements
are the alarms (`AnnouncedAreAlarms`), so what is proved of the alarms carries over.
The measure of the shutdown is the phase of the process together with the steps each
handler has left: a handler that `pool.Close` waits for only comes nearer to its answer.

### `ServerProofs`: the token of the SDK

| Theorem | States, of the instance `Sdk` of `SdkToken` |
|---|---|
| `RejectionNeedsClockError` | `Spec => []AcceptedWhenClocksAgree` |

The invariant says of the cache that the claim is never before `tokenExpiry`
(`CacheIsHonest`; `mintAgentToken` reads the clock a second time, which can only add)
and of each request under way that its token lives more than the margin past the
client's clock at the sending (`FlightsAreFresh`).  The first is what a new request
needs to have the second, whichever way the client's clock was set since the token
was minted; the second, with the server's comparison, is the property.

### `AgentProofs`

| Theorem | States |
|---|---|
| `TypeCorrect` | `Spec => []TypeOK` |
| `StoredInOrder` | `Spec => []NoOvertaking` |
| `NothingLostSilently` | each batch collected is in the channel, with Send, stored, or counted as dropped, discarded or abandoned |
| `AgentImplementsOutbox` | `Spec => ImplementsOutbox` |
| `ShutdownTerminates` | `StepsLeft` is a natural number of at most `4 * BufSize + 4`, and after SIGTERM each step of `senderLoop` lowers it |
| `DiscardsAreExplained` | until the token expires only malformed batches are discarded for a 4xx; once one was discarded for the expiry, nothing younger is in the database |

`AgentInv` orders the batches: what waits in the channel is younger than the batch
Send works on and sorted (`ChannelInOrder`), no request exists for what waits
(`RequestsAreOlder`), and each request that still runs is of the batch in Send or of
one that has left it (`RequestsHaveABatch`).  With `RepliesAreTrue` (what the answer
to the current attempt says of its batch is so) an acknowledged batch is stored.  The
part that is easily overlooked is `DiscardedByTokenIsLast`: a batch may be discarded
although it was fit to be stored, but only once the token has expired, after which
nothing younger gets past the middleware, so nothing overtakes it.  The refinement
maps `Receive` to a stutter, since a batch in Send still counts as the head.

`StepsLeft` counts four steps for each batch in the channel and those left for the one
in Send; a retry costs nothing more once the context is done, because the pause before
it ends the call.  `DiscardsAreExplained` states how much of the sentence of
`docs/internals.md` that the run `agent_discard` refutes is true.

### `CollectorsProofs`

| Theorem | States |
|---|---|
| `TypeCorrect` | `Spec => []TypeOK` |
| `NetworkCountsBytesOnce` | `Spec => []BytesAreConserved` |
| `CollectorsFailAlone` | `Spec => []FailureIsContained` |

The heart of `RegistryInv` is `DeltasAreOwed`: what the next snapshot would add for
an interface has passed through it and was not reported yet.  It survives a reset of
the counter because the delta then restarts from the new value, which
`CountersAreCarried` bounds by what was carried.  That nothing is lost needs the
other direction, `UndisturbedHasGrown`, for interfaces that were there all along.

### `TailerProofs`: the tailer

| Theorem | States |
|---|---|
| `TypeCorrect` | `Spec => []TypeOK` |
| `OldNeverRead` | `Spec => []OldIsNeverRead` |
| `OffsetSkipsNothing` | `Spec => []NoLineIsSkipped` |
| `NoticedNeverForgotten` | `Spec => []NoticedIsReadOrQueued` |
| `EverythingNoticedIsAnswered` | when the tailer waits with no write event queued, the server has answered every line written under the watch to the file that was open, with no rename or creation left to handle, unless one too long stood before it |

The open file and the watched one may differ, so little can be said of the queue of
events alone.  `QueueIsOrdered`: what is watched is what the path names, and a write
event is either the last of the queue, with the watch still on, or followed by the
rename that ended it.  `QueueFitsHandle` ties the queue to the open file: while a file
is being read no creation comes next, and an offset that outlived its file is not
used before a creation has set it to 0.  `OldIsBehind` keeps the old lines before the
offset, before the size that Stat returned and before the Scanner, which differ while
the application writes.  `LinesAreAccountedFor` is the converse for lines that must
not be missed: each line of each file is done with or exempt, or it is in the open
file and a write event is next (`WriteNext`), a Stat is next, or the reading under way
goes as far.
It needs that a line is in one file only, since Stat and the watch may have seen
different ones.  With `ReadIsInHand` (what was read is answered
or in `entries`, and `entries` is empty outside a read) it gives the last theorem, the
part of `ReadIsSettled` that needs no fairness.

### `TailerProofs`: the log sender

| Theorem | States, of the instance `Sender` of `LogSender` |
|---|---|
| `SenderImplementsOutbox` | `Spec => ImplementsOutbox` |
| `SearchShowsFileOrder` | `Spec => []FirstCopiesInOrder` |
| `NoLineLostSilently` | when `SendLogs` returned without an error each line of the chunk is in the table; a search shows all lines of a chunk or none, and a request adds at most one copy of a line |
| `CancelledSendLogsReturns` | once the context is done, `SendLogs` is at most three of its steps from its return, and each brings it nearer |

The refinement needs four facts (`DeliveryInv`) that hold for any number of late
handlers.  The order needs more, since several handlers of one chunk draw ids at the
same time: `ConfirmedComeFirst` says that a chunk that was confirmed has a request
whose rows all precede the rows of every later chunk.  A rollback removes rows from
the middle of `drawn`, and `RollbackKeepsTheRest` (the rows that remain are those
of the other requests, in their order) is proved of the recursive function
`RolledBack` from a least counterexample: the naturals are well-founded, and a
function that leaves something out for a prefix can be extended to the next.
`FirstIdIsFirst` turns positions into first ids.  The same invariant gives
`NoLineLostSilently`: the lines a request inserts are in the order of the chunk and,
once committed, complete.  The three steps of `StepsToReturn` are those of a call that
starts when the context is done already: `sleepFn` does not look at the context before
the first attempt.

### `MetricStoreProofs`

| Theorem | States |
|---|---|
| `TypeCorrect` | `Spec => []TypeOK` |
| `NoReadMisses` | `Spec => []ReadsAreComplete` |
| `PagesShowWholeBatches` | `Spec => []LaterSeriesIsNotOlder` |
| `StampsAreMonotone` | `Spec => StampsNeverGoBack` |
| `VerdictsAreSound` | `Spec => []VerdictIsSound` |

`MetricInv` ties a page to the table as it was when the reader started: what was
committed then still is (`BaseIsCommitted`), each bucket of an answer has a row behind
it and each row of that time that lies in the window has its bucket (`AnswersAreTrue`),
series are answered by name (`AnsweredInOrder`), and a batch is stored with all its
names or none (`StoredTogether`).  For the stamps it has `StampsHaveARow`: the stamp a
scrape showed is the bucket of a row that is committed before the next reader starts.
Either that row is still in the window, and then the answer has its bucket
(`LineNeverGoesBack`), or it has left, and then every row of the answer is later.

The verdict is a mean of means, so it needs sums.  `SumUnfolds` says that the fold of
the library is the sum of one chosen element and the rest, for any finite set, by a
least counterexample over the cardinality; `SumBounds` that sums are ordered like
their terms; `MeanBounds` that a weighted mean, rounded down, lies between the bounds
of its values, which may be negative.  The last holds because `Firing` compares with
the threshold times `Scale`, and a value above the threshold is above it by one unit;
the rounding of a float64 mean is not in the model.  `MeansAreTrue` is the invariant:
every point of an answer lies between the bounds of the batches the reader may see,
among which later arrivals only make the claim weaker.

### `EvaluatorProofs`

| Theorem | States |
|---|---|
| `TypeCorrect` | `Spec => []TypeOK` |
| `AlertsMatchEvents` | `Spec => []MapMatchesEvents` |
| `NothingOutlivesItsTick` | when the next tick is due, the evaluation is over and no POST is in flight |
| `NoEventIsRepeated` | `Spec => EventsAlternate`: of each key, firing and resolved events alternate |
| `WebhookGetsTheNewest` | `DistinctKeys` and `Spec` imply `[]ReceivedIsNewest` |
| `NotifiesOnTransitions` | `DistinctKeys` and `Spec` imply `NotifiesOnTransitionsOnly` |
| `WebhookKeepsUp` | `DistinctKeys` and `Spec` imply that at each tick the webhook holds what the alert map shows, unless the last POST of the key failed |

`DeadlinesFit` turns the deadlines into an order of events: while an evaluation runs,
the time to the next tick and the time it has left differ by a constant, so a POST
dispatched even in its last moment ends before the next tick.  One evaluation
dispatches at most one event of a key (`PostsAreOfDonePairs`) if no two pairs of a
rule and a host share the key, and then a POST in flight carries the newest event
(`PostsAreNewest`).  `ruleKey` does not ensure `DistinctKeys`; it holds of a list of
rules in which none repeats the metric, comparison and threshold of another for one host, and the
run `evaluator_collision` shows what happens otherwise: `NotifiesOnTransitionsOnly`,
which that run refutes, is a theorem under `DistinctKeys`, and without it what remains
true is `NoEventIsRepeated`.  `WebhookKeepsUp` is the part of `LastingBreachFires` that
needs no fairness; by `DeadlinesFit` no POST of a tick is left at the next one.

### Model-checked only

- Liveness (`SilenceIsReported`, `RunReturns`, `QueuedIsDelivered`,
  `LastingBreachFires`, `ShutdownCompletes`, `SilenceIsAnnounced`,
  `ReadIsSettled`, `SendLogsReturns`, `PagingEnds`): it rests on fairness and ENABLED,
  which the installed provers do not treat.  These are all that the runs check and
  no theorem states, apart from the two runs that show a disagreement.  For most of
  them a theorem states the rest: a measure that every step lowers
  (`ShutdownTerminates` of the agent for `RunReturns`, that of the server for
  `ShutdownCompletes`, `PagingTerminates` for `PagingEnds`, `CancelledSendLogsReturns`
  for the first part of `SendLogsReturns`), or what holds whenever the component is at
  rest (`LateSilencesAreReported` for `SilenceIsReported`, `AnnouncementsMatchMarks`
  for `SilenceIsAnnounced`, `WebhookKeepsUp` for `LastingBreachFires`,
  `NothingLostSilently` for `QueuedIsDelivered`, `EverythingNoticedIsAnswered` for
  `ReadIsSettled`).  What they leave to TLC is that the goroutines are scheduled and
  the enabled steps taken.
- Induction over data is not available to the provers (the library's induction
  theorems take an operator as a parameter).  Where a proof needs it, it takes a least
  counterexample in the naturals instead: sums, rollbacks, greatest elements.  No module
  uses a RECURSIVE operator.

## What is not modelled

- *Durations of the backoff.*  That there is a pause, and that it ends with the
  context, is there; its length enters no property.
- *Of the metric queries*: other buckets and aggregates than those of the three
  readers, labels, and the single query of `HandleQuery`, which is a `ReadSeries`
  whose parameters a client chose.
- *Of the dashboard*: the page, and its list of logs (one query, no cursor).
- *Of the SDK*: how its methods fill paths and parameters.
- *Log level parser*: a pure function of one line.
- *Validation, configuration, parsing of rules and notifications*: pure functions
  of one input, run once or before any state is touched.  Their results are
  constants of the models.
- *Middleware and router*: no state; the token check is a step of `Agent` and of
  `SdkToken`.
- *Atomicity of a batch insert*: pgx sends a batch in one implicit transaction;
  `LogSender` has its statements one by one, the other models take it as one step.
- *Several paths of the tailer*, blank lines, the cut at 4096 bytes, and the joining
  of pieces of a line; failures of Stat, Seek and reads on a file that is open.
- *A lost `resolved` event*: a POST is tried once, and an alert that ended while the
  server was down is never resolved.
- *Migrations, deployment, stub server, examples, site*: development aids, or run
  once; of the migrations only the retention policy acts later (`DropChunk`).

## Plan

The order follows how much would be lost if the part were wrong.

1. **Done**: `HostTracker` and `DownDetector`, `Agent` and `Outbox`, `Evaluator`,
   `Server` (composes `HostTracker`), `Tailer`, `LogSender` (implements `Outbox`),
   `LogStore`, `Collectors`, `MetricStore`, `SdkToken`; the first proofs.
2. **Done**: each safety property and each refinement of the passing runs is a
   theorem, and so are the facts behind the liveness properties that need no fairness
   (see Model-checked only), that no line is lost silently or shown by halves
   (`NoLineLostSilently`), that two alarms of a host are apart
   (`AlarmsOfAHostAreApart`), and that paging shows what one query would
   (`PagingIsOneQuery`).
3. **Extend further**, where a need shows: both wait formulas over all attempts with
   the 64-bit width and the clamp; a second webhook in `Evaluator`.

## How to run it

```
tlc -workers 2 -config HostTracker.cfg HostTracker.tla   # a run: module and cfg as in PROJECT.json
tlapm HostTrackerProofs.tla                              # the proofs of a module
```
