----------------------------- MODULE MetricStore -----------------------------
(***************************************************************************)
(* The metrics table and its readers: batches stamped with the clock of    *)
(* their agent, inserted in one transaction each                           *)
(* (internal/server/storage/metrics.go), and the three readers that put    *)
(* an answer together from several queries: a Prometheus scrape            *)
(* (internal/server/api/prometheus.go), the dashboard's charts             *)
(* (internal/server/dashboard/dashboard.go) and the evaluation of a rule   *)
(* (internal/server/alerting/alerting.go, which Evaluator models from the  *)
(* verdict on).  A reader fixes the window by the server's clock before    *)
(* its first query, while inserts go on and agents' clocks are off.        *)
(*                                                                         *)
(* Metric names are numbers in the order of the lists in the code.  They   *)
(* stand for metrics of one collector, which stamps all of them with one   *)
(* reading of its clock (the others read it a moment apart).  Time counts  *)
(* ticks of the server's clock, and all metrics of a batch have one value. *)
(* Bucket means are kept as integers, Scale times their value.             *)
(***************************************************************************)
EXTENDS Integers, Sequences, FiniteSets, Functions

CONSTANTS
  Hosts,       \* host names
  NameCount,   \* metric names are 1..NameCount
  Values,      \* metric values
  Threshold,   \* that of the rule "value > Threshold"
  Bucket,      \* ticks in the bucket "1m"
  Window,      \* Window[k]: from the start of the window of reader k to its end
  HostWindow,  \* HostWindow[k]: the window in which reader k looks for hosts
  MaxSkew,     \* how far the clock of an agent is off at most
  Skews,       \* by how much it may be off
  Scale,       \* common multiple of the row counts a bucket can have
  MaxNow,      \* BOUND: time
  MaxBatches,  \* BOUND: batches
  MaxCopies    \* BOUND: MaxCopies[i]: times batch i is stored

Names  == 1..NameCount
Series == Names \X Hosts

(* The readers, and those that first ask which hosts there are.            *)
Finders == {"scrape", "rule"}
Readers == Finders \cup {"charts"}

ASSUME MetricStoreAssumption ==
  /\ NameCount \in Nat \ {0}
  /\ Values \subseteq Int
  /\ Threshold \in Int
  /\ Bucket \in Nat \ {0}
  /\ Window \in [Readers -> Nat \ {0}]
  /\ HostWindow \in [Finders -> Nat \ {0}]
  /\ MaxSkew \in Nat
  /\ Skews \subseteq -MaxSkew..MaxSkew
  /\ MaxNow \in Nat
  /\ MaxBatches \in Nat
  /\ MaxCopies \in [1..MaxBatches -> Nat]
  /\ Scale \in Nat \ {0}
  /\ \A n \in 1..SumFunction(MaxCopies) : Scale % n = 0

VARIABLES
  now,       \* the server's clock
  batches,   \* the batches collected
  stored,    \* stored[i][n]: rows in the table of metric n of batch i
  reader,    \* the reader at work, or "none"
  pc,        \* "hosts" before its Hosts query, "series" after it, or "idle"
  start,     \* its now: the end of its window
  foundAt,   \* the clock at its Hosts query
  hosts,     \* the hosts it reads
  left,      \* series it has still to read
  answer,    \* answer[s]: the points it got for series s, by bucket
  base,      \* history: rows committed when it started, as batch and name
  failed,    \* history: series whose query failed
  exported   \* history: timestamp of each series in its last scrape

storeVars  == <<batches, stored>>
readerVars == <<reader, pc, start, foundAt, hosts, left, answer, base, failed>>
vars == <<now, batches, stored, reader, pc, start, foundAt, hosts, left,
          answer, base, failed, exported>>

Init ==
  /\ now = 0
  /\ batches = <<>>
  /\ stored = <<>>
  /\ reader = "none"
  /\ pc = "idle"
  /\ start = 0
  /\ foundAt = 0
  /\ hosts = {}
  /\ left = {}
  /\ answer = [s \in Series |-> <<>>]
  /\ base = {}
  /\ failed = {}
  /\ exported = [s \in Series |-> -MaxSkew - Bucket]

-----------------------------------------------------------------------------
(* The table                                                               *)

TimePasses ==
  /\ now < MaxNow
  /\ now' = now + 1
  /\ UNCHANGED <<storeVars, readerVars, exported>>

(* An agent collects, or a client pushes a batch without the first names.  *)
(* The clock that stamps the metrics is off.                               *)
Collect(h) ==
  /\ Len(batches) < MaxBatches
  /\ \E skew \in Skews, v \in Values, first \in Names :
       batches' = Append(batches, [host |-> h, at |-> now, time |-> now + skew,
                                   value |-> v, names |-> first..NameCount])
  /\ stored' = Append(stored, [n \in Names |-> 0])
  /\ UNCHANGED <<now, readerVars, exported>>

Batch == DOMAIN batches

(* Bug: each statement of the pipeline is a transaction of its own.        *)
InsertRow(i) ==
  \E n \in batches[i].names :
     /\ stored[i][n] < MaxCopies[i]
     /\ \A m \in batches[i].names : m < n => stored[i][m] > stored[i][n]
     /\ stored' = [stored EXCEPT ![i][n] = @ + 1]
     /\ UNCHANGED <<now, batches, readerVars, exported>>

(* Insert: the pipelined statements are one transaction.  When one fails,  *)
(* nothing changes; the agent sends the batch again until it has seen an   *)
(* answer.                                                                 *)
Insert(i) ==
  /\ \A n \in batches[i].names : stored[i][n] < MaxCopies[i]
  /\ stored' = [stored EXCEPT ![i] =
       [n \in Names |-> IF n \in batches[i].names THEN @[n] + 1 ELSE @[n]]]
  /\ UNCHANGED <<now, batches, readerVars, exported>>

Committed == {r \in Batch \X Names : stored[r[1]][r[2]] > 0}

(* time_bucket: a bucket is known by its start.                            *)
BucketOf(t) == (t \div Bucket) * Bucket

(* Query with bucket "1m" and agg "avg": from and to are both inside.      *)
Query(s, from, to) ==
  LET rows == {i \in Batch : /\ batches[i].host = s[2]
                             /\ stored[i][s[1]] > 0
                             /\ batches[i].time \in from..to}
      In(b) == {i \in rows : BucketOf(batches[i].time) = b}
      Mean(b) ==
        LET copies == [i \in In(b) |-> stored[i][s[1]]]
            sums   == [i \in In(b) |-> copies[i] * batches[i].value]
        IN  (Scale * SumFunction(sums)) \div SumFunction(copies)
  IN  [b \in {BucketOf(batches[i].time) : i \in rows} |-> Mean(b)]

(* Hosts: after the beginning of the window, and with no end to it.        *)
HostsSince(t) ==
  {batches[r[1]].host : r \in {r \in Committed : batches[r[1]].time > t}}

-----------------------------------------------------------------------------
(* The readers                                                             *)

(* What a reader reads of host h: a rule has one name, the others all.     *)
Wanted(r, h) == {<<n, h>> : n \in IF r = "rule" THEN {1} ELSE Names}

(* Bug: the window ends with the bucket that is being filled.              *)
StartRounded(r) ==
  /\ reader = "none"
  /\ reader' = r
  /\ start' = BucketOf(now) + Bucket
  /\ base' = Committed
  /\ pc' = "series"
  /\ foundAt' = now
  /\ \E h \in Hosts : hosts' = {h} /\ left' = Wanted(r, h)
  /\ UNCHANGED <<now, storeVars, answer, failed, exported>>

(* The clock is read first.  The charts are of one host and need no Hosts  *)
(* query.  The rule is one on all hosts ("*"); one that names its host     *)
(* goes without the query too, and is not modelled.                        *)
Start(r) ==
  /\ reader = "none"
  /\ reader' = r
  /\ start' = now
  /\ base' = Committed
  /\ \/ /\ r \in Finders
        /\ pc' = "hosts"
        /\ UNCHANGED <<foundAt, hosts, left>>
     \/ /\ r \notin Finders
        /\ pc' = "series"
        /\ foundAt' = now
        /\ \E h \in Hosts : hosts' = {h} /\ left' = Wanted(r, h)
  /\ UNCHANGED <<now, storeVars, answer, failed, exported>>

(* Hosts reads the clock again.                                            *)
FindHosts ==
  /\ pc = "hosts"
  /\ pc' = "series"
  /\ foundAt' = now
  /\ hosts' = HostsSince(now - HostWindow[reader])
  /\ left' = UNION {Wanted(reader, h) : h \in hosts'}
  /\ UNCHANGED <<now, storeVars, reader, start, answer, base, failed, exported>>

(* One query per series, name by name; each sees what is committed by then.*)
ReadSeries(s) ==
  /\ pc = "series"
  /\ s \in left
  /\ \A t \in left : s[1] <= t[1]
  /\ left' = left \ {s}
  /\ answer' = [answer EXCEPT ![s] = Query(s, start - Window[reader], start)]
  /\ UNCHANGED <<now, storeVars, reader, pc, start, foundAt, hosts, base,
                 failed, exported>>

(* Bug: a query that fails ends the page.                                  *)
SkipTheRest(s) ==
  /\ pc = "series"
  /\ s \in left
  /\ \A t \in left : s[1] <= t[1]
  /\ left' = {}
  /\ failed' = failed \cup {s}
  /\ UNCHANGED <<now, storeVars, reader, pc, start, foundAt, hosts, answer,
                 base, exported>>

(* A query that fails leaves its series out, and the next one is read.     *)
SkipSeries(s) ==
  /\ pc = "series"
  /\ s \in left
  /\ \A t \in left : s[1] <= t[1]
  /\ left' = left \ {s}
  /\ failed' = failed \cup {s}
  /\ UNCHANGED <<now, storeVars, reader, pc, start, foundAt, hosts, answer,
                 base, exported>>

(* No points, and a failed query, leave a series out.                      *)
Answered == {s \in Series : DOMAIN answer[s] # {}}

(* The points come newest first: a scrape shows the one at index 0.        *)
Newest(points) == CHOOSE b \in DOMAIN points : \A c \in DOMAIN points : c <= b

(* Bug: a series without points is shown with the zero time.               *)
LineZero(s) == IF s \in Answered THEN Newest(answer[s]) ELSE -MaxSkew - Bucket

(* The timestamp on the line of a series, if it gets one.                  *)
Line(s) == IF s \in Answered THEN Newest(answer[s]) ELSE exported[s]

(* The page is complete, or empty because the Hosts query failed.          *)
Finish ==
  /\ \/ pc = "hosts"
     \/ pc = "series" /\ left = {}
  /\ exported' = IF reader # "scrape" THEN exported
                 ELSE [s \in Series |-> Line(s)]
  /\ reader' = "none"
  /\ pc' = "idle"
  /\ start' = 0
  /\ foundAt' = 0
  /\ hosts' = {}
  /\ left' = {}
  /\ answer' = [s \in Series |-> <<>>]
  /\ base' = {}
  /\ failed' = {}
  /\ UNCHANGED <<now, storeVars>>

(* Bug: a bucket without data counts as 0.                                 *)
FiringOverWindow(points) ==
  SumFunction(points)
    > Threshold * Scale * ((Window["rule"] \div Bucket) + 1)

(* The mean of the bucket means decides, each bucket counting once.        *)
Firing(points) ==
  SumFunction(points) > Threshold * Scale * Cardinality(DOMAIN points)

Next ==
  \/ TimePasses
  \/ \E h \in Hosts : Collect(h)
  \/ \E i \in Batch : Insert(i)
  \/ \E r \in Readers : Start(r)
  \/ FindHosts
  \/ \E s \in Series : ReadSeries(s) \/ SkipSeries(s)
  \/ Finish

Spec == Init /\ [][Next]_vars

-----------------------------------------------------------------------------
BatchRecord ==
  [host : Hosts, at : 0..MaxNow, time : -MaxSkew..(MaxNow + MaxSkew),
   value : Values, names : SUBSET Names]

(* Types of the clock, the table and the reader.                           *)
TypeOK ==
  /\ now \in 0..MaxNow
  /\ batches \in Seq(BatchRecord)
  /\ stored \in [Batch -> [Names -> Nat]]
  /\ reader \in Readers \cup {"none"}
  /\ pc \in {"hosts", "series", "idle"}
  /\ start \in 0..now
  /\ foundAt \in 0..now
  /\ base \subseteq Batch \X Names
  /\ hosts \subseteq Hosts
  /\ left \cup failed \subseteq Series
  /\ DOMAIN answer = Series
  /\ exported \in [Series -> Int]

OfSeries(s) ==
  {i \in Batch : batches[i].host = s[2] /\ s[1] \in batches[i].names}

(* Whatever the clock of the agent showed, batch i is in the window of the *)
(* reader, and in that of its Hosts query.                                 *)
SurelyInside(i) ==
  /\ batches[i].at - MaxSkew >= start - Window[reader]
  /\ batches[i].at + MaxSkew <= start
  /\ reader \in Finders =>
       batches[i].at - MaxSkew > foundAt - HostWindow[reader]

(* No reader misses what was stored before it began, unless its agent's    *)
(* clock is off by more than MaxSkew: the host is found although Hosts     *)
(* looks by a later clock, and each of its series, also behind one whose   *)
(* query failed or has no data, has the bucket.                            *)
ReadsAreComplete ==
  pc = "series" =>
    \A s \in Series : \A i \in OfSeries(s) :
       /\ <<i, s[1]>> \in base
       /\ SurelyInside(i)
       /\ s \in Wanted(reader, s[2])
       /\ reader \in Finders \/ s[2] \in hosts
       => \/ s \in left \cup failed
          \/ BucketOf(batches[i].time) \in DOMAIN answer[s]

(* One page never shows half of a batch the wrong way round: it is made of *)
(* several queries between which batches arrive, but a series read later   *)
(* has every bucket of one read earlier in which no batch lacks its name.  *)
(* (used and total of a disk are such a pair.)                             *)
LaterSeriesIsNotOlder ==
  \A s, t \in Answered : s[2] = t[2] /\ s[1] < t[1] =>
     \A b \in DOMAIN answer[s] :
        (\A i \in OfSeries(s) :
           BucketOf(batches[i].time) = b => i \in OfSeries(t))
        => b \in DOMAIN answer[t]

(* A scraper never sees time run backwards, which Prometheus would refuse  *)
(* as out of order: not when old batches arrive late, nor when the newest  *)
(* rows of an agent leave the window.                                      *)
StampsNeverGoBack == [][\A s \in Series : exported'[s] >= exported[s]]_vars

(* Collected with any clock inside MaxSkew, i may fall in the window.      *)
MayBeInside(i) ==
  /\ batches[i].at + MaxSkew >= start - Window[reader]
  /\ batches[i].at - MaxSkew <= start

(* However the ticks of the agent fall into buckets, and however many of   *)
(* its batches are late, lost or stored twice: a host that was above the   *)
(* threshold all through the window fires, and one that never was does     *)
(* not, provided the query found a row at all.                             *)
VerdictIsSound ==
  reader = "rule" =>
    \A s \in Answered :
       LET seen == {i \in OfSeries(s) : MayBeInside(i)}
           High(i) == batches[i].value > Threshold
       IN  /\ (\A i \in seen : High(i)) => Firing(answer[s])
           /\ (\A i \in seen : ~High(i)) => ~Firing(answer[s])
=============================================================================
