------------------------------ MODULE Evaluator ------------------------------
(***************************************************************************)
(* The threshold alert evaluator (internal/server/alerting/alerting.go)    *)
(* and its webhook notifications (notifications.go).  One goroutine wakes  *)
(* on a ticker, walks the rules and the hosts each applies to, queries the *)
(* window of the rule and updates a state map under a mutex; transitions   *)
(* start a notification goroutine that nobody waits for.                   *)
(*                                                                         *)
(* A rule is a number, in the order of ALERT_RULES.  Its metric name,      *)
(* operator and threshold are abstracted to Series[r]: ruleKey builds the  *)
(* key of the state map from them and the host, but not from the window.   *)
(* Time is a set of countdowns in units of the notification timeout.       *)
(* One webhook is modelled: each notifier gets a goroutine of its own.     *)
(***************************************************************************)
EXTENDS Integers, Sequences

CONSTANTS
  Hosts,         \* host names
  Target,        \* Target[r]: the host of rule r, or Wildcard
  Wildcard,      \* the host "*"
  Series,        \* Series[r]: name, operator and threshold of rule r
  TickPeriod,    \* the ticker of Run
  EvalTimeout,   \* the context deadline of one evaluation
  NotifyTimeout  \* the deadline of one webhook POST

Rules == DOMAIN Target

(* The literals 30s, 20s and 5s of the code.                               *)
ASSUME EvaluatorAssumption ==
  /\ Target \in Seq(Hosts \cup {Wildcard})
  /\ DOMAIN Series = Rules
  /\ TickPeriod \in Nat \ {0}
  /\ EvalTimeout \in Nat
  /\ NotifyTimeout \in Nat
  /\ EvalTimeout + NotifyTimeout < TickPeriod

(* The pairs of a rule and a host it applies to.                           *)
Pairs == {p \in Rules \X Hosts : Target[p[1]] \in {p[2], Wildcard}}

(* ruleKey: the For of the rule is not part of it.                         *)
ruleKey(p) == <<p[2], Series[p[1]]>>

Keys == {ruleKey(p) : p \in Pairs}

(* What Query returns for the window of a rule, as evaluate sees it: the   *)
(* mean of the one-minute averages breaches the rule or not, or there is   *)
(* no point at all.                                                        *)
Means == {"breach", "fine", "nodata"}

(* The answers of Hosts(30m): hosts with any metric in the last 30         *)
(* minutes, whatever the window of a rule; none when the query fails.      *)
RecentHosts == SUBSET Hosts

Events == {"firing", "resolved"}

(* A notification goroutine: what it sends and the time it has left.       *)
Notification == [key : Keys, event : Events, left : 0..NotifyTimeout]

VARIABLES
  mean,       \* mean[p]: the window of the rule breaches it, is fine, or is empty
  state,      \* the map e.state
  untilTick,  \* time until the ticker fires
  ticks,      \* ticks in the ticker's channel, of capacity one
  evalPC,     \* "idle", "rule" (at the head of the rule loop), or "hosts"
  rule,       \* the rule the loop is at
  hostsLeft,  \* hosts of that rule still to be evaluated
  evalLeft,   \* time until the evaluation's context expires
  inflight,   \* notification goroutines
  sent,       \* history: last event this process dispatched for each key
  received,   \* history: last event the webhook received for each key
  unheard,    \* history: keys whose last POST of this process failed
  judged      \* history: result of the last evaluation of each pair

loopVars == <<evalPC, rule, hostsLeft>>
timeVars == <<untilTick, ticks, evalLeft>>
noteVars == <<inflight, sent, received, unheard>>
vars == <<mean, state, untilTick, ticks, evalPC, rule, hostsLeft, evalLeft,
          inflight, sent, received, unheard, judged>>

Init ==
  /\ mean = [p \in Pairs |-> "nodata"]
  /\ state = [k \in Keys |-> "absent"]
  /\ untilTick = TickPeriod
  /\ ticks = 0
  /\ evalPC = "idle"
  /\ rule = 1
  /\ hostsLeft = {}
  /\ evalLeft = 0
  /\ inflight = {}
  /\ sent = [k \in Keys |-> "none"]
  /\ received = [k \in Keys |-> "none"]
  /\ unheard = {}
  /\ judged = [p \in Pairs |-> "none"]

-----------------------------------------------------------------------------
(* Ingested metrics and the sliding window change what a query returns.    *)
DataChanges(p) ==
  /\ \E m \in Means : mean' = [mean EXCEPT ![p] = m]
  /\ UNCHANGED <<state, timeVars, loopVars, noteVars, judged>>

(* Bug: a POST has no deadline of its own.                                 *)
TimePassesPosts ==
  /\ evalPC # "idle" => evalLeft > 0
  /\ ~(evalPC = "idle" /\ ticks = 1)
  /\ IF untilTick = 1
       THEN untilTick' = TickPeriod /\ ticks' = 1
       ELSE untilTick' = untilTick - 1 /\ UNCHANGED ticks
  /\ evalLeft' = IF evalLeft > 0 THEN evalLeft - 1 ELSE 0
  /\ UNCHANGED <<mean, state, loopVars, noteVars, judged>>

(* Time does not pass an evaluation whose context has expired, nor a POST  *)
(* at its deadline, nor a tick that an idle evaluator has not taken yet.   *)
TimePasses ==
  /\ evalPC # "idle" => evalLeft > 0
  /\ \A n \in inflight : n.left > 0
  /\ ~(evalPC = "idle" /\ ticks = 1)
  /\ IF untilTick = 1
       THEN untilTick' = TickPeriod /\ ticks' = 1
       ELSE untilTick' = untilTick - 1 /\ UNCHANGED ticks
  /\ evalLeft' = IF evalLeft > 0 THEN evalLeft - 1 ELSE 0
  /\ inflight' = {[n EXCEPT !.left = @ - 1] : n \in inflight}
  /\ UNCHANGED <<mean, state, loopVars, sent, received, unheard, judged>>

(* Run takes a tick and calls evaluate with a fresh deadline.              *)
EvaluationStarts ==
  /\ evalPC = "idle"
  /\ ticks = 1
  /\ ticks' = 0
  /\ evalLeft' = EvalTimeout
  /\ evalPC' = "rule"
  /\ rule' = 1
  /\ UNCHANGED <<mean, state, untilTick, hostsLeft, noteVars, judged>>

(* hostsFor: a named host, or the hosts heard of lately.                   *)
HostsFor(r) == IF Target[r] = Wildcard THEN RecentHosts ELSE {{Target[r]}}

RuleStarts ==
  /\ evalPC = "rule"
  /\ rule \in Rules
  /\ hostsLeft' \in HostsFor(rule)
  /\ evalPC' = "hosts"
  /\ UNCHANGED <<mean, state, timeVars, rule, noteVars, judged>>

RuleEnds ==
  /\ evalPC = "hosts"
  /\ hostsLeft = {}
  /\ evalPC' = "rule"
  /\ rule' = rule + 1
  /\ UNCHANGED <<mean, state, timeVars, hostsLeft, noteVars, judged>>

EvaluationEnds ==
  /\ evalPC = "rule"
  /\ rule \notin Rules
  /\ evalPC' = "idle"
  /\ UNCHANGED <<mean, state, timeVars, rule, hostsLeft, noteVars, judged>>

(* Bug: no data counts as no breach.                                       *)
SkipHostResolves(h) ==
  /\ evalPC = "hosts"
  /\ h \in hostsLeft
  /\ hostsLeft' = hostsLeft \ {h}
  /\ state' = [state EXCEPT ![ruleKey(<<rule, h>>)] = "ok"]
  /\ UNCHANGED <<mean, timeVars, evalPC, rule, noteVars, judged>>

(* The query fails (storage, or the deadline), or returns no points: the   *)
(* state of the key is left alone.                                         *)
SkipHost(h) ==
  /\ evalPC = "hosts"
  /\ h \in hostsLeft
  /\ hostsLeft' = hostsLeft \ {h}
  /\ UNCHANGED <<mean, state, timeVars, evalPC, rule, noteVars, judged>>

(* Bug: a POST has the deadline of the evaluation.                         *)
DispatchInherits(k, event) ==
  /\ inflight' = inflight \cup {[key |-> k, event |-> event, left |-> evalLeft]}
  /\ sent' = [sent EXCEPT ![k] = event]
  /\ unheard' = unheard \ {k}
  /\ UNCHANGED received

(* notifyAll: a goroutine of its own, not cancelled with the evaluation.   *)
Dispatch(k, event) ==
  /\ inflight' = inflight \cup {[key |-> k, event |-> event, left |-> NotifyTimeout]}
  /\ sent' = [sent EXCEPT ![k] = event]
  /\ unheard' = unheard \ {k}
  /\ UNCHANGED received

(* Bug: a key without an entry is announced at its second evaluation.      *)
NotifyKnown(k, prev, new) ==
  \/ /\ new = "firing"
     /\ prev = "ok"
     /\ Dispatch(k, "firing")
  \/ /\ new = "ok"
     /\ prev = "firing"
     /\ Dispatch(k, "resolved")
  \/ /\ prev = "absent" \/ new = prev
     /\ UNCHANGED noteVars

(* What the transition from prev to new makes the evaluator send.          *)
Notify(k, prev, new) ==
  \/ /\ new = "firing"
     /\ prev # "firing"
     /\ Dispatch(k, "firing")
  \/ /\ new = "ok"
     /\ prev = "firing"
     /\ Dispatch(k, "resolved")
  \/ /\ new = "firing" <=> prev = "firing"
     /\ UNCHANGED noteVars

(* The query returned points: the mean decides, the state of the key is    *)
(* replaced under the mutex, and the transition is notified.               *)
JudgeHost(h) ==
  LET p   == <<rule, h>>
      k   == ruleKey(p)
      new == IF mean[p] = "breach" THEN "firing" ELSE "ok"
  IN  /\ evalPC = "hosts"
      /\ h \in hostsLeft
      /\ evalLeft > 0
      /\ mean[p] # "nodata"
      /\ hostsLeft' = hostsLeft \ {h}
      /\ state' = [state EXCEPT ![k] = new]
      /\ Notify(k, state[k], new)
      /\ judged' = [judged EXCEPT ![p] = new]
      /\ UNCHANGED <<mean, timeVars, evalPC, rule>>

(* The POST arrives, or fails within its deadline; no retry.  A webhook is *)
(* taken not to act later on a POST that the client has given up.          *)
NotificationEnds(n) ==
  /\ n \in inflight
  /\ inflight' = inflight \ {n}
  /\ \/ /\ received' = [received EXCEPT ![n.key] = n.event]
        /\ UNCHANGED unheard
     \/ /\ unheard' = unheard \cup {n.key}
        /\ UNCHANGED received
  /\ UNCHANGED <<mean, state, timeVars, loopVars, sent, judged>>

(* The process dies with its map and its goroutines, and starts again.     *)
Restart ==
  /\ state' = [k \in Keys |-> "absent"]
  /\ untilTick' = TickPeriod
  /\ ticks' = 0
  /\ evalPC' = "idle"
  /\ rule' = 1
  /\ hostsLeft' = {}
  /\ evalLeft' = 0
  /\ inflight' = {}
  /\ sent' = [k \in Keys |-> "none"]
  /\ unheard' = {}
  /\ judged' = [p \in Pairs |-> "none"]
  /\ UNCHANGED <<mean, received>>

Next ==
  \/ \E p \in Pairs : DataChanges(p)
  \/ TimePasses
  \/ EvaluationStarts
  \/ RuleStarts
  \/ RuleEnds
  \/ EvaluationEnds
  \/ \E h \in Hosts : SkipHost(h) \/ JudgeHost(h)
  \/ \E n \in Notification : NotificationEnds(n)
  \/ Restart

Spec == Init /\ [][Next]_vars

(* The goroutines are scheduled and time passes; each host of a rule is in *)
(* the answer of Hosts, and its query answered, again and again.           *)
Fairness ==
  /\ WF_vars(TimePasses)
  /\ WF_vars(EvaluationStarts)
  /\ WF_vars(RuleEnds)
  /\ WF_vars(EvaluationEnds)
  /\ WF_vars(\E n \in Notification : NotificationEnds(n))
  /\ WF_vars(\E h \in Hosts : SkipHost(h) \/ JudgeHost(h))
  /\ \A p \in Pairs :
       /\ SF_vars(rule = p[1] /\ RuleStarts /\ p[2] \in hostsLeft')
       /\ SF_vars(rule = p[1] /\ JudgeHost(p[2]))
  /\ \A r \in Rules : WF_vars(rule = r /\ RuleStarts)

FairSpec == Spec /\ Fairness

-----------------------------------------------------------------------------
(* Types of the state map, the loops, the timers and the histories.        *)
TypeOK ==
  /\ mean \in [Pairs -> Means]
  /\ state \in [Keys -> {"absent", "ok", "firing"}]
  /\ untilTick \in 1..TickPeriod
  /\ ticks \in 0..1
  /\ evalPC \in {"idle", "rule", "hosts"}
  /\ rule \in 1..(Len(Target) + 1)
  /\ hostsLeft \in SUBSET Hosts
  /\ evalLeft \in 0..EvalTimeout
  /\ inflight \in SUBSET Notification
  /\ sent \in [Keys -> Events \cup {"none"}]
  /\ received \in [Keys -> Events \cup {"none"}]
  /\ unheard \subseteq Keys
  /\ judged \in [Pairs -> {"none", "ok", "firing"}]

(* The alerts that GET /api/v1/alerts shows and the events that were       *)
(* dispatched for them agree, over failed queries, gaps in the data and    *)
(* several rules: a firing alert was announced and nothing after it; one   *)
(* shown as ok is not one that was last announced as firing.               *)
MapMatchesEvents ==
  \A k \in Keys : /\ state[k] = "firing" => sent[k] = "firing"
                  /\ state[k] = "ok" => sent[k] # "firing"

Started == {n \in inflight' \ inflight : n.left = NotifyTimeout}

(* What reaches the webhook is the newest event of its key: a slow POST is *)
(* over before the next evaluation can dispatch again, because the         *)
(* evaluation deadline and the POST deadline fit in one tick period.       *)
ReceivedIsNewest ==
  [][\A k \in Keys : received'[k] # received[k] => received'[k] = sent[k]]_vars

(* docs/under-the-hood.md:440: "Notifications only fire on                 *)
(* **transitions**, not on every tick": an evaluation of a rule on a host  *)
(* notifies only when its result differs from the previous one of this     *)
(* rule on this host.  Needs rules with distinct keys.                     *)
NotifiesOnTransitionsOnly ==
  [][\A h \in Hosts : JudgeHost(h) /\ Started # {}
        => judged'[<<rule, h>>] # judged[<<rule, h>>]]_vars

(* No evaluation is at its deadline with hosts or rules still to go.       *)
InTime == evalPC # "idle" => evalLeft > 0

(* A rule that stays breached ends up firing, for good, and the webhook    *)
(* knows unless the one POST of it failed, when its queries succeed again  *)
(* and again, evaluations end before their deadline and the process lives  *)
(* on.  A goroutine that dies with the process takes no alarm with it: the *)
(* next process begins with an empty map and announces the alert again.    *)
(* Without the second premise a slow query of an earlier rule starves the  *)
(* later ones, because all share one deadline.                             *)
LastingBreachFires ==
  \A p \in Pairs :
     <>[](mean[p] = "breach" /\ InTime) /\ <>[][~Restart]_vars
       => <>[](/\ state[ruleKey(p)] = "firing"
               /\ received[ruleKey(p)] = "firing" \/ ruleKey(p) \in unheard)
=============================================================================
