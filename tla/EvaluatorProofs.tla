--------------------------- MODULE EvaluatorProofs ---------------------------
(***************************************************************************)
(* Proofs about the alert evaluator, for any rules, any hosts and any      *)
(* deadlines of an evaluation and a POST that fit in one tick period.      *)
(***************************************************************************)
EXTENDS Evaluator, SequenceTheorems, TLAPS

(* The host loop is in a rule of the list, at hosts the rule applies to.   *)
HostsAreOfTheRule ==
  evalPC = "hosts" =>
    rule \in Rules /\ \A h \in hostsLeft : <<rule, h>> \in Pairs

(* The map and the events agree, also about what is not in the map yet.    *)
AbsentIsUnsent ==
  \A k \in Keys : state[k] = "absent" => sent[k] = "none"

(* Because the two deadlines fit in one tick period: an evaluation ends    *)
(* before the next tick, at an idle evaluator; and so does each POST.      *)
DeadlinesFit ==
  /\ evalPC # "idle" => untilTick + EvalTimeout = TickPeriod + evalLeft
  /\ \A n \in inflight : n.left < untilTick
  /\ ticks = 1 => evalPC = "idle" /\ untilTick = TickPeriod /\ inflight = {}

(* The part of the invariant that holds whatever the keys are.             *)
EvaluatorInv ==
  /\ TypeOK
  /\ HostsAreOfTheRule
  /\ MapMatchesEvents
  /\ AbsentIsUnsent
  /\ DeadlinesFit

(* No two rules about one host share a key, which ruleKey does not ensure. *)
DistinctKeys == \A p, q \in Pairs : ruleKey(p) = ruleKey(q) => p = q

(* The pairs that the evaluation at work has behind it.                    *)
Done(p) ==
  \/ p[1] < rule
  \/ evalPC = "hosts" /\ p[1] = rule /\ p[2] \notin hostsLeft

(* A POST in flight during an evaluation is about a pair it is done with.  *)
PostsAreOfDonePairs ==
  evalPC # "idle" =>
    \A n \in inflight : \E p \in Pairs : n.key = ruleKey(p) /\ Done(p)

(* A POST in flight carries the last event of its key.                     *)
PostsAreNewest == \A n \in inflight : n.event = sent[n.key]

-----------------------------------------------------------------------------
(* Rules are numbered from 1, and all of their pairs have a key.           *)
LEMMA RulesAreNumbered ==
  /\ Len(Target) \in Nat
  /\ Rules = 1..Len(Target)
  /\ TickPeriod \in Nat \ {0} /\ EvalTimeout \in Nat /\ NotifyTimeout \in Nat
  /\ EvalTimeout + NotifyTimeout < TickPeriod
  BY EvaluatorAssumption, LenProperties DEF Rules

(* hostsFor returns hosts the rule applies to.                             *)
LEMMA HostsForApply ==
  ASSUME NEW r \in Rules, NEW hs \in HostsFor(r)
  PROVE  hs \subseteq Hosts /\ \A h \in hs : <<r, h>> \in Pairs
<1>1. Target[r] \in Hosts \cup {Wildcard}
  BY EvaluatorAssumption, ElementOfSeq, RulesAreNumbered
<1>2. CASE Target[r] = Wildcard
  BY <1>2 DEF HostsFor, RecentHosts, Pairs
<1>3. CASE Target[r] # Wildcard
  BY <1>1, <1>3 DEF HostsFor, Pairs
<1> QED
  BY <1>2, <1>3

(* What dispatching an event for a key leaves behind.                      *)
LEMMA DispatchEffect ==
  ASSUME TypeOK, NEW k \in Keys, NEW e \in Events, Dispatch(k, e)
  PROVE  /\ [key |-> k, event |-> e, left |-> NotifyTimeout] \in Notification
         /\ inflight' = inflight \cup
              {[key |-> k, event |-> e, left |-> NotifyTimeout]}
         /\ sent' = [sent EXCEPT ![k] = e]
         /\ sent' \in [Keys -> Events \cup {"none"}]
         /\ unheard' \subseteq Keys
         /\ received' = received
<1>1. NotifyTimeout \in 0..NotifyTimeout
  BY RulesAreNumbered
<1> QED
  BY <1>1 DEF Dispatch, Notification, TypeOK

(* What judging a host does to the map and the events of its key: they     *)
(* change together.                                                        *)
LEMMA JudgeEffect ==
  ASSUME TypeOK, HostsAreOfTheRule, NEW h \in Hosts, JudgeHost(h)
  PROVE  \E k \in Keys, new \in {"ok", "firing"} :
           /\ <<rule, h>> \in Pairs /\ k = ruleKey(<<rule, h>>)
           /\ evalPC = "hosts" /\ h \in hostsLeft
           /\ hostsLeft' = hostsLeft \ {h}
           /\ state' = [state EXCEPT ![k] = new]
           /\ judged' = [judged EXCEPT ![<<rule, h>>] = new]
           /\ Notify(k, state[k], new)
           /\ UNCHANGED <<mean, timeVars, evalPC, rule>>
<1> DEFINE new == IF mean[<<rule, h>>] = "breach" THEN "firing" ELSE "ok"
<1>1. <<rule, h>> \in Pairs /\ ruleKey(<<rule, h>>) \in Keys
  BY DEF HostsAreOfTheRule, JudgeHost, Keys
<1>2. new \in {"ok", "firing"}
  OBVIOUS
<1>3. /\ evalPC = "hosts" /\ h \in hostsLeft
      /\ hostsLeft' = hostsLeft \ {h}
      /\ state' = [state EXCEPT ![ruleKey(<<rule, h>>)] = new]
      /\ judged' = [judged EXCEPT ![<<rule, h>>] = new]
      /\ Notify(ruleKey(<<rule, h>>), state[ruleKey(<<rule, h>>)], new)
      /\ UNCHANGED <<mean, timeVars, evalPC, rule>>
  BY DEF JudgeHost
<1> HIDE DEF new
<1> QED
  BY <1>1, <1>2, <1>3

(* The part of it that is about keys alone.                                *)
LEMMA JudgeNotifies ==
  ASSUME TypeOK, HostsAreOfTheRule, NEW h \in Hosts, JudgeHost(h)
  PROVE  \E k \in Keys, new \in {"ok", "firing"} :
           /\ evalPC = "hosts"
           /\ state' = [state EXCEPT ![k] = new]
           /\ Notify(k, state[k], new)
           /\ UNCHANGED <<mean, timeVars, evalPC, rule>>
<1>1. PICK k \in Keys : k = ruleKey(<<rule, h>>)
  BY DEF HostsAreOfTheRule, JudgeHost, Keys
<1>2. PICK new \in {"ok", "firing"} :
        new = IF mean[<<rule, h>>] = "breach" THEN "firing" ELSE "ok"
  OBVIOUS
<1>3. /\ evalPC = "hosts"
      /\ state' = [state EXCEPT ![k] = new]
      /\ Notify(k, state[k], new)
      /\ UNCHANGED <<mean, timeVars, evalPC, rule>>
  BY <1>1, <1>2 DEF JudgeHost
<1> QED
  BY <1>3

-----------------------------------------------------------------------------
(* Types                                                                   *)

LEMMA InitType == Init => TypeOK
<1> SUFFICES ASSUME Init PROVE TypeOK
  OBVIOUS
<1>1. /\ untilTick \in 1..TickPeriod /\ ticks \in 0..1
      /\ rule \in 1..(Len(Target) + 1) /\ evalLeft \in 0..EvalTimeout
  BY RulesAreNumbered DEF Init
<1>2. /\ mean \in [Pairs -> Means]
      /\ state \in [Keys -> {"absent", "ok", "firing"}]
      /\ sent \in [Keys -> Events \cup {"none"}]
      /\ received \in [Keys -> Events \cup {"none"}]
      /\ judged \in [Pairs -> {"none", "ok", "firing"}]
  BY DEF Init, Means
<1> QED
  BY <1>1, <1>2 DEF Init, TypeOK

(* A unit of time keeps the countdowns in their ranges.                    *)
LEMMA TimeType ==
  ASSUME TypeOK, TimePasses
  PROVE  TypeOK'
<1>1. untilTick' \in 1..TickPeriod /\ ticks' \in 0..1
  BY RulesAreNumbered DEF TimePasses, TypeOK
<1>2. evalLeft' \in 0..EvalTimeout
  BY RulesAreNumbered DEF TimePasses, TypeOK
<1>3. inflight' \subseteq Notification
  <2> SUFFICES ASSUME NEW n \in inflight
               PROVE  [n EXCEPT !.left = @ - 1] \in Notification
    BY DEF TimePasses
  <2>1. n \in Notification /\ n.left > 0
    BY DEF TypeOK, TimePasses
  <2>2. n.left \in 0..NotifyTimeout
    BY <2>1 DEF Notification
  <2>3. n.left - 1 \in 0..NotifyTimeout
    BY <2>1, <2>2, RulesAreNumbered
  <2> QED
    BY <2>1, <2>3 DEF Notification
<1> QED
  BY <1>1, <1>2, <1>3 DEF TimePasses, loopVars, TypeOK

LEMMA JudgeType ==
  ASSUME TypeOK, HostsAreOfTheRule, NEW h \in Hosts, JudgeHost(h)
  PROVE  TypeOK'
<1>1. PICK k \in Keys, new \in {"ok", "firing"} :
        /\ <<rule, h>> \in Pairs
        /\ hostsLeft' = hostsLeft \ {h}
        /\ state' = [state EXCEPT ![k] = new]
        /\ judged' = [judged EXCEPT ![<<rule, h>>] = new]
        /\ Notify(k, state[k], new)
        /\ UNCHANGED <<mean, timeVars, evalPC, rule>>
  BY JudgeEffect
<1>2. /\ inflight' \subseteq Notification
      /\ sent' \in [Keys -> Events \cup {"none"}]
      /\ received' \in [Keys -> Events \cup {"none"}]
      /\ unheard' \subseteq Keys
  <2>1. CASE UNCHANGED noteVars
    BY <2>1 DEF noteVars, TypeOK
  <2>2. ASSUME NEW e \in Events, Dispatch(k, e)
        PROVE  /\ inflight' \subseteq Notification
               /\ sent' \in [Keys -> Events \cup {"none"}]
               /\ received' \in [Keys -> Events \cup {"none"}]
               /\ unheard' \subseteq Keys
    <3>1. /\ inflight \subseteq Notification
          /\ received \in [Keys -> Events \cup {"none"}]
      BY DEF TypeOK
    <3>2. /\ [key |-> k, event |-> e, left |-> NotifyTimeout] \in Notification
          /\ inflight' = inflight \cup
               {[key |-> k, event |-> e, left |-> NotifyTimeout]}
          /\ sent' \in [Keys -> Events \cup {"none"}]
          /\ unheard' \subseteq Keys
          /\ received' = received
      BY <2>2, DispatchEffect
    <3> QED
      BY <3>1, <3>2
  <2>3. \/ Dispatch(k, "firing")
        \/ Dispatch(k, "resolved")
        \/ UNCHANGED noteVars
    BY <1>1 DEF Notify
  <2>4. "firing" \in Events /\ "resolved" \in Events
    BY DEF Events
  <2>5. CASE Dispatch(k, "firing")
    BY <2>2, <2>4, <2>5
  <2>6. CASE Dispatch(k, "resolved")
    BY <2>2, <2>4, <2>6
  <2> QED
    BY <2>1, <2>3, <2>5, <2>6
<1>3. /\ state' \in [Keys -> {"absent", "ok", "firing"}]
      /\ judged' \in [Pairs -> {"none", "ok", "firing"}]
      /\ hostsLeft' \subseteq Hosts
  BY <1>1 DEF TypeOK
<1> QED
  BY <1>1, <1>2, <1>3 DEF TypeOK, timeVars

LEMMA StepType == TypeOK /\ HostsAreOfTheRule /\ [Next]_vars => TypeOK'
<1> SUFFICES ASSUME TypeOK, HostsAreOfTheRule, [Next]_vars PROVE TypeOK'
  OBVIOUS
<1> USE DEF loopVars, timeVars, noteVars
<1>1. ASSUME NEW p \in Pairs, DataChanges(p) PROVE TypeOK'
  BY <1>1 DEF DataChanges, TypeOK
<1>2. CASE EvaluationStarts
  BY <1>2, RulesAreNumbered DEF EvaluationStarts, TypeOK
<1>3. CASE RuleStarts
  <2>1. hostsLeft' \subseteq Hosts
    BY <1>3, HostsForApply DEF RuleStarts
  <2> QED
    BY <1>3, <2>1 DEF RuleStarts, TypeOK
<1>4. CASE RuleEnds
  <2>1. rule' \in 1..(Len(Target) + 1)
    BY <1>4, RulesAreNumbered DEF RuleEnds, HostsAreOfTheRule
  <2> QED
    BY <1>4, <2>1 DEF RuleEnds, TypeOK
<1>5. CASE EvaluationEnds
  BY <1>5 DEF EvaluationEnds, TypeOK
<1>6. ASSUME NEW h \in Hosts, SkipHost(h) PROVE TypeOK'
  BY <1>6 DEF SkipHost, TypeOK
<1>7. ASSUME NEW n \in Notification, NotificationEnds(n) PROVE TypeOK'
  <2>1. n.key \in Keys /\ n.event \in Events
    BY DEF Notification
  <2> QED
    BY <1>7, <2>1 DEF NotificationEnds, TypeOK
<1>8. CASE Restart
  <2>1. /\ untilTick' \in 1..TickPeriod /\ ticks' \in 0..1
        /\ rule' \in 1..(Len(Target) + 1) /\ evalLeft' \in 0..EvalTimeout
    BY <1>8, RulesAreNumbered DEF Restart
  <2>2. /\ state' \in [Keys -> {"absent", "ok", "firing"}]
        /\ sent' \in [Keys -> Events \cup {"none"}]
        /\ judged' \in [Pairs -> {"none", "ok", "firing"}]
    BY <1>8 DEF Restart
  <2> QED
    BY <1>8, <2>1, <2>2 DEF Restart, TypeOK
<1>9. CASE UNCHANGED vars
  BY <1>9 DEF vars, TypeOK
<1> QED
  BY <1>1, <1>2, <1>3, <1>4, <1>5, <1>6, <1>7, <1>8, <1>9, TimeType, JudgeType
     DEF Next

-----------------------------------------------------------------------------
(* The host loop, the deadlines, the map and its events                    *)

LEMMA LoopStep ==
  TypeOK /\ HostsAreOfTheRule /\ [Next]_vars => HostsAreOfTheRule'
<1> SUFFICES ASSUME TypeOK, HostsAreOfTheRule, [Next]_vars
             PROVE  HostsAreOfTheRule'
  OBVIOUS
<1>1. CASE RuleStarts
  <2>1. rule \in Rules /\ rule' = rule /\ hostsLeft' \in HostsFor(rule)
    BY <1>1 DEF RuleStarts
  <2> QED
    BY <2>1, HostsForApply DEF HostsAreOfTheRule
<1>2. ASSUME NEW h \in Hosts, SkipHost(h) \/ JudgeHost(h)
      PROVE  HostsAreOfTheRule'
  BY <1>2 DEF SkipHost, JudgeHost, HostsAreOfTheRule
<1>3. CASE TimePasses \/ (\E p \in Pairs : DataChanges(p))
           \/ (\E n \in Notification : NotificationEnds(n)) \/ UNCHANGED vars
  BY <1>3 DEF TimePasses, DataChanges, NotificationEnds, loopVars, vars,
              HostsAreOfTheRule
<1>4. CASE EvaluationStarts \/ RuleEnds \/ EvaluationEnds \/ Restart
  BY <1>4 DEF EvaluationStarts, RuleEnds, EvaluationEnds, Restart,
              HostsAreOfTheRule
<1> QED
  BY <1>1, <1>2, <1>3, <1>4 DEF Next

(* Time stops at the deadlines of the evaluation and of each POST, and     *)
(* both are over when the ticker fires.                                    *)
LEMMA TimeKeepsDeadlines ==
  ASSUME TypeOK, DeadlinesFit, TimePasses
  PROVE  DeadlinesFit'
<1>1. /\ untilTick \in 1..TickPeriod /\ evalLeft \in 0..EvalTimeout
      /\ ticks \in 0..1
  BY DEF TypeOK
<1>2. \A n \in inflight : n.left \in 0..NotifyTimeout /\ n.left > 0
                          /\ n.left < untilTick
  BY DEF TypeOK, Notification, TimePasses, DeadlinesFit
<1>3. \A m \in inflight' : \E n \in inflight : m.left = n.left - 1
  BY DEF TimePasses, TypeOK, Notification
<1>4. evalPC' = evalPC /\ (evalPC # "idle" => evalLeft > 0)
      /\ ~(evalPC = "idle" /\ ticks = 1)
  BY DEF TimePasses, loopVars
<1>5. ticks = 0
  BY <1>1, <1>4 DEF DeadlinesFit
<1>6. CASE untilTick = 1
  <2>1. inflight = {} /\ inflight' = {}
    <3>1. ASSUME NEW n \in inflight PROVE FALSE
      BY <1>2, <1>6
    <3> QED
      BY <3>1, <1>3
  <2>2. evalPC = "idle"
    <3>1. evalPC # "idle" => 1 + EvalTimeout = TickPeriod + evalLeft
      BY <1>6 DEF DeadlinesFit
    <3>2. evalPC # "idle" => FALSE
      BY <1>1, <1>4, <3>1, RulesAreNumbered
    <3> QED
      BY <3>2
  <2>3. untilTick' = TickPeriod
    BY <1>6 DEF TimePasses
  <2> QED
    BY <1>4, <2>1, <2>2, <2>3 DEF DeadlinesFit
<1>7. CASE untilTick # 1
  <2>1. untilTick' = untilTick - 1 /\ ticks' = ticks
    BY <1>7 DEF TimePasses
  <2>2. evalPC # "idle" => evalLeft' = evalLeft - 1
    BY <1>4 DEF TimePasses
  <2>3. evalPC' # "idle" => untilTick' + EvalTimeout = TickPeriod + evalLeft'
    BY <1>1, <1>4, <2>1, <2>2, RulesAreNumbered DEF DeadlinesFit
  <2>4. \A n \in inflight' : n.left < untilTick'
    BY <1>1, <1>2, <1>3, <2>1
  <2> QED
    BY <1>5, <2>1, <2>3, <2>4 DEF DeadlinesFit
<1> QED
  BY <1>6, <1>7

(* An evaluation that dispatches leaves the POST time until the next tick. *)
LEMMA JudgeKeepsDeadlines ==
  ASSUME TypeOK, HostsAreOfTheRule, DeadlinesFit, NEW h \in Hosts, JudgeHost(h)
  PROVE  DeadlinesFit'
<1>1. PICK k \in Keys, new \in {"ok", "firing"} :
        /\ evalPC = "hosts"
        /\ state' = [state EXCEPT ![k] = new]
        /\ Notify(k, state[k], new)
        /\ UNCHANGED <<mean, timeVars, evalPC, rule>>
  BY JudgeNotifies
<1>2. /\ untilTick \in 1..TickPeriod /\ evalLeft \in 0..EvalTimeout
      /\ untilTick + EvalTimeout = TickPeriod + evalLeft
      /\ ticks # 1
  BY <1>1 DEF TypeOK, DeadlinesFit
<1>3. NotifyTimeout < untilTick
  BY <1>2, RulesAreNumbered
<1>4. \A n \in inflight' : n \in inflight \/ n.left = NotifyTimeout
  BY <1>1 DEF Notify, Dispatch, noteVars
<1>5. \A n \in inflight' : n.left < untilTick
  BY <1>3, <1>4 DEF DeadlinesFit
<1>6. UNCHANGED <<untilTick, ticks, evalLeft, evalPC>>
  BY <1>1 DEF timeVars
<1> QED
  BY <1>1, <1>2, <1>5, <1>6 DEF DeadlinesFit

LEMMA DeadlineStep ==
  TypeOK /\ HostsAreOfTheRule /\ DeadlinesFit /\ [Next]_vars => DeadlinesFit'
<1> SUFFICES ASSUME TypeOK, HostsAreOfTheRule, DeadlinesFit, [Next]_vars
             PROVE  DeadlinesFit'
  OBVIOUS
<1> USE DEF timeVars, noteVars, loopVars
<1>1. CASE EvaluationStarts
  <2>1. ticks' = 0 /\ untilTick' = untilTick /\ evalLeft' = EvalTimeout
        /\ untilTick = TickPeriod /\ inflight' = {}
    BY <1>1 DEF EvaluationStarts, DeadlinesFit
  <2> QED
    BY <2>1 DEF DeadlinesFit
<1>2. CASE RuleStarts \/ RuleEnds \/ EvaluationEnds
  BY <1>2 DEF RuleStarts, RuleEnds, EvaluationEnds, DeadlinesFit
<1>3. ASSUME NEW h \in Hosts, SkipHost(h) PROVE DeadlinesFit'
  BY <1>3 DEF SkipHost, DeadlinesFit
<1>4. ASSUME NEW n \in Notification, NotificationEnds(n) PROVE DeadlinesFit'
  BY <1>4 DEF NotificationEnds, DeadlinesFit
<1>5. CASE Restart
  BY <1>5 DEF Restart, DeadlinesFit
<1>6. CASE (\E p \in Pairs : DataChanges(p)) \/ UNCHANGED vars
  BY <1>6 DEF DataChanges, vars, DeadlinesFit
<1> QED
  BY <1>1, <1>2, <1>3, <1>4, <1>5, <1>6, TimeKeepsDeadlines,
     JudgeKeepsDeadlines DEF Next

(* The map and the last event of a key change in the same step.            *)
LEMMA MapStep ==
  TypeOK /\ HostsAreOfTheRule /\ MapMatchesEvents /\ AbsentIsUnsent /\ [Next]_vars
    => MapMatchesEvents' /\ AbsentIsUnsent'
<1> SUFFICES ASSUME TypeOK, HostsAreOfTheRule, MapMatchesEvents, AbsentIsUnsent,
                    [Next]_vars
             PROVE  MapMatchesEvents' /\ AbsentIsUnsent'
  OBVIOUS
<1>1. ASSUME NEW h \in Hosts, JudgeHost(h)
      PROVE  MapMatchesEvents' /\ AbsentIsUnsent'
  <2>1. PICK k \in Keys, new \in {"ok", "firing"} :
          /\ evalPC = "hosts"
          /\ state' = [state EXCEPT ![k] = new]
          /\ Notify(k, state[k], new)
          /\ UNCHANGED <<mean, timeVars, evalPC, rule>>
    BY <1>1, JudgeNotifies
  <2>2. /\ state \in [Keys -> {"absent", "ok", "firing"}]
        /\ sent \in [Keys -> Events \cup {"none"}]
    BY DEF TypeOK
  <2>3. state'[k] = new /\ \A q \in Keys \ {k} : state'[q] = state[q]
    BY <2>1, <2>2
  <2>4. \A q \in Keys \ {k} : sent'[q] = sent[q]
    BY <2>1, <2>2 DEF Notify, Dispatch, noteVars
  <2>5. /\ new = "firing" => sent'[k] = "firing"
        /\ new = "ok" => sent'[k] # "firing"
    <3>1. CASE new = "firing" /\ state[k] # "firing"
      BY <2>1, <2>2, <3>1 DEF Notify, Dispatch
    <3>2. CASE new = "ok" /\ state[k] = "firing"
      BY <2>1, <2>2, <3>2 DEF Notify, Dispatch
    <3>3. CASE new = "firing" /\ state[k] = "firing"
      BY <2>1, <2>2, <3>3 DEF Notify, noteVars, MapMatchesEvents
    <3>4. CASE new = "ok" /\ state[k] # "firing"
      <4>1. sent[k] # "firing" /\ sent' = sent
        BY <2>1, <2>2, <3>4 DEF Notify, noteVars, MapMatchesEvents, AbsentIsUnsent
      <4> QED
        BY <3>4, <4>1
    <3> QED
      BY <3>1, <3>2, <3>3, <3>4
  <2>6. MapMatchesEvents'
    BY <2>3, <2>4, <2>5 DEF MapMatchesEvents
  <2>7. AbsentIsUnsent'
    BY <2>3, <2>4 DEF AbsentIsUnsent
  <2> QED
    BY <2>6, <2>7
<1>2. CASE Restart
  BY <1>2 DEF Restart, MapMatchesEvents, AbsentIsUnsent
<1>3. CASE ~ Restart /\ ~ (\E h \in Hosts : JudgeHost(h))
  <2>1. state' = state /\ sent' = sent
    BY <1>3 DEF Next, vars, DataChanges, TimePasses, EvaluationStarts,
                RuleStarts, RuleEnds, EvaluationEnds, SkipHost,
                NotificationEnds, noteVars
  <2> QED
    BY <2>1 DEF MapMatchesEvents, AbsentIsUnsent
<1> QED
  BY <1>1, <1>2, <1>3

LEMMA InvStep == EvaluatorInv /\ [Next]_vars => EvaluatorInv'
  BY StepType, LoopStep, DeadlineStep, MapStep DEF EvaluatorInv

LEMMA SpecInv == Spec => []EvaluatorInv
<1>1. Init => EvaluatorInv
  <2> SUFFICES ASSUME Init PROVE EvaluatorInv
    OBVIOUS
  <2>1. HostsAreOfTheRule /\ MapMatchesEvents /\ AbsentIsUnsent
    BY DEF Init, HostsAreOfTheRule, MapMatchesEvents, AbsentIsUnsent
  <2>2. DeadlinesFit
    BY DEF Init, DeadlinesFit
  <2> QED
    BY <2>1, <2>2, InitType DEF EvaluatorInv
<1> QED
  BY <1>1, InvStep, PTL DEF Spec

(* Theorem: the state map, the loops, the timers and the notifications     *)
(* keep their types.                                                       *)
THEOREM TypeCorrect == Spec => []TypeOK
<1>1. EvaluatorInv => TypeOK
  BY DEF EvaluatorInv
<1> QED
  BY <1>1, SpecInv, PTL

(* Theorem: the alerts that GET /api/v1/alerts shows agree with the events *)
(* dispatched for them, also for rules that share a key.                   *)
THEOREM AlertsMatchEvents == Spec => []MapMatchesEvents
<1>1. EvaluatorInv => MapMatchesEvents
  BY DEF EvaluatorInv
<1> QED
  BY <1>1, SpecInv, PTL

(* Theorem: because the deadlines of an evaluation and a POST fit in one   *)
(* period, a tick never finds the evaluator busy or a POST in flight.      *)
THEOREM NothingOutlivesItsTick == Spec => [](ticks = 1 => evalPC = "idle" /\ inflight = {})
<1>1. EvaluatorInv => (ticks = 1 => evalPC = "idle" /\ inflight = {})
  BY DEF EvaluatorInv, DeadlinesFit
<1> QED
  BY <1>1, SpecInv, PTL

-----------------------------------------------------------------------------
(* What the webhook gets, when no two rules share a key                    *)

(* An evaluation dispatches for each key at most once, because it is done  *)
(* with a pair when it has judged it.                                      *)
LEMMA DoneStep ==
  ASSUME EvaluatorInv, PostsAreOfDonePairs, [Next]_vars
  PROVE  PostsAreOfDonePairs'
<1> USE DEF EvaluatorInv, timeVars, loopVars, noteVars
<1>1. ASSUME NEW p \in Pairs, Done(p), evalPC' # "idle", evalPC # "idle"
      PROVE  Done(p)'
  <2>1. p[1] \in Int /\ rule \in Int
    BY RulesAreNumbered DEF Pairs, TypeOK
  <2>2. CASE RuleStarts \/ RuleEnds
    BY <1>1, <2>1, <2>2 DEF RuleStarts, RuleEnds, Done
  <2>3. ASSUME NEW h \in Hosts, SkipHost(h) \/ JudgeHost(h) PROVE Done(p)'
    BY <1>1, <2>3 DEF SkipHost, JudgeHost, Done
  <2>4. CASE EvaluationStarts \/ EvaluationEnds \/ Restart
    BY <1>1, <2>4 DEF EvaluationStarts, EvaluationEnds, Restart
  <2>5. CASE TimePasses \/ (\E q \in Pairs : DataChanges(q))
             \/ (\E n \in Notification : NotificationEnds(n)) \/ UNCHANGED vars
    BY <1>1, <2>5 DEF TimePasses, DataChanges, NotificationEnds, vars, Done
  <2> QED
    BY <2>2, <2>3, <2>4, <2>5 DEF Next
<1>2. ASSUME evalPC' # "idle", evalPC = "idle" PROVE inflight' = {}
  <2>1. EvaluationStarts
    BY <1>2 DEF Next, vars, DataChanges, TimePasses, EvaluationStarts,
                RuleStarts, RuleEnds, EvaluationEnds, SkipHost, JudgeHost,
                NotificationEnds, Restart
  <2> QED
    BY <2>1 DEF EvaluationStarts, DeadlinesFit
<1>3. ASSUME NEW m \in inflight', evalPC' # "idle", evalPC # "idle"
      PROVE  \E p \in Pairs : m.key = ruleKey(p) /\ Done(p)'
  <2>1. CASE \E n \in inflight : m.key = n.key
    BY <1>1, <1>3, <2>1 DEF PostsAreOfDonePairs
  <2>2. CASE ~ (\E n \in inflight : m.key = n.key)
    <3>1. PICK h \in Hosts : JudgeHost(h)
      <4>1. ASSUME TimePasses PROVE FALSE
        <5>1. PICK n \in inflight : m = [n EXCEPT !.left = @ - 1]
          BY <4>1 DEF TimePasses
        <5>2. n \in Notification
          BY DEF TypeOK
        <5>3. m.key = n.key
          BY <5>1, <5>2 DEF Notification
        <5> QED
          BY <2>2, <5>3
      <4>2. inflight' \subseteq inflight => FALSE
        BY <2>2
      <4> QED
        BY <4>1, <4>2 DEF Next, vars, DataChanges, EvaluationStarts, RuleStarts,
                          RuleEnds, EvaluationEnds, SkipHost, NotificationEnds,
                          Restart
    <3>2. PICK k \in Keys, new \in {"ok", "firing"} :
            /\ <<rule, h>> \in Pairs /\ k = ruleKey(<<rule, h>>)
            /\ evalPC = "hosts" /\ hostsLeft' = hostsLeft \ {h}
            /\ Notify(k, state[k], new)
            /\ UNCHANGED <<mean, timeVars, evalPC, rule>>
      BY <3>1, JudgeEffect
    <3>3. m.key = k
      BY <2>2, <3>2 DEF Notify, Dispatch
    <3>4. Done(<<rule, h>>)'
      BY <3>2 DEF Done
    <3> QED
      BY <3>2, <3>3, <3>4
  <2> QED
    BY <2>1, <2>2
<1>4. \A p \in Pairs : ruleKey(p)' = ruleKey(p)
  BY DEF ruleKey
<1> QED
  BY <1>2, <1>3, <1>4 DEF PostsAreOfDonePairs

(* So it never dispatches for a key with a POST in flight.                 *)
LEMMA NewestStep ==
  ASSUME DistinctKeys, EvaluatorInv, PostsAreOfDonePairs, PostsAreNewest,
         [Next]_vars
  PROVE  PostsAreNewest'
<1> USE DEF EvaluatorInv, timeVars, loopVars, noteVars
<1>1. ASSUME NEW h \in Hosts, JudgeHost(h) PROVE PostsAreNewest'
  <2>1. PICK k \in Keys, new \in {"ok", "firing"} :
          /\ <<rule, h>> \in Pairs /\ k = ruleKey(<<rule, h>>)
          /\ evalPC = "hosts" /\ h \in hostsLeft
          /\ Notify(k, state[k], new)
    BY <1>1, JudgeEffect
  <2>2. ASSUME NEW n \in inflight PROVE n.key # k
    <3>1. PICK p \in Pairs : n.key = ruleKey(p) /\ Done(p)
      BY <2>1 DEF PostsAreOfDonePairs
    <3>2. p # <<rule, h>>
      <4>1. rule \in Int
        BY DEF TypeOK
      <4> QED
        BY <2>1, <3>1, <4>1 DEF Done
    <3> QED
      BY <2>1, <3>1, <3>2 DEF DistinctKeys
  <2>3. sent \in [Keys -> Events \cup {"none"}]
    BY DEF TypeOK
  <2>4. ASSUME NEW e \in Events, Dispatch(k, e) PROVE PostsAreNewest'
    <3>1. \A n \in inflight : sent'[n.key] = sent[n.key]
      <4>1. \A n \in inflight : n.key \in Keys
        BY DEF TypeOK, Notification
      <4> QED
        BY <2>2, <2>3, <2>4, <4>1 DEF Dispatch
    <3>2. sent'[k] = e
      BY <2>3, <2>4 DEF Dispatch
    <3>3. \A n \in inflight' : n \in inflight \/ (n.key = k /\ n.event = e)
      BY <2>4 DEF Dispatch
    <3> QED
      BY <3>1, <3>2, <3>3 DEF PostsAreNewest
  <2>5. "firing" \in Events /\ "resolved" \in Events
    BY DEF Events
  <2>6. CASE Dispatch(k, "firing")
    BY <2>4, <2>5, <2>6
  <2>7. CASE Dispatch(k, "resolved")
    BY <2>4, <2>5, <2>7
  <2>8. CASE UNCHANGED noteVars
    BY <2>8 DEF PostsAreNewest
  <2> QED
    BY <2>1, <2>6, <2>7, <2>8 DEF Notify
<1>2. CASE TimePasses
  <2>1. ASSUME NEW m \in inflight' PROVE m.event = sent'[m.key]
    <3>1. PICK n \in inflight : m = [n EXCEPT !.left = @ - 1]
      BY <1>2 DEF TimePasses
    <3>2. n \in Notification
      BY DEF TypeOK
    <3>3. m.key = n.key /\ m.event = n.event
      BY <3>1, <3>2 DEF Notification
    <3>4. sent' = sent
      BY <1>2 DEF TimePasses
    <3> QED
      BY <3>3, <3>4 DEF PostsAreNewest
  <2> QED
    BY <2>1 DEF PostsAreNewest
<1>3. CASE Restart
  BY <1>3 DEF Restart, PostsAreNewest
<1>4. CASE EvaluationStarts \/ RuleStarts \/ RuleEnds \/ EvaluationEnds
           \/ (\E p \in Pairs : DataChanges(p)) \/ (\E h \in Hosts : SkipHost(h))
           \/ (\E n \in Notification : NotificationEnds(n)) \/ UNCHANGED vars
  BY <1>4 DEF EvaluationStarts, RuleStarts, RuleEnds, EvaluationEnds,
              DataChanges, SkipHost, NotificationEnds, vars, PostsAreNewest
<1> QED
  BY <1>1, <1>2, <1>3, <1>4 DEF Next

(* The invariant that holds when no two rules share a key.                 *)
PostsInv == EvaluatorInv /\ PostsAreOfDonePairs /\ PostsAreNewest

LEMMA SpecPosts ==
  ASSUME DistinctKeys
  PROVE  Spec => []PostsInv
<1>1. Init => PostsAreOfDonePairs /\ PostsAreNewest
  BY DEF Init, PostsAreOfDonePairs, PostsAreNewest
<1>2. PostsInv /\ [Next]_vars => PostsInv'
  BY InvStep, DoneStep, NewestStep DEF PostsInv
<1>3. PostsInv <=> EvaluatorInv /\ PostsAreOfDonePairs /\ PostsAreNewest
  BY DEF PostsInv
<1> QED
  BY <1>1, <1>2, <1>3, SpecInv, PTL DEF Spec

(* Theorem: when no two rules share a key, what reaches the webhook is     *)
(* the newest event of its key, also across restarts and failed POSTs.     *)
THEOREM WebhookGetsTheNewest ==
  ASSUME DistinctKeys
  PROVE  Spec => ReceivedIsNewest
<1>1. PostsInv /\ [Next]_vars =>
        [\A k \in Keys : received'[k] # received[k] => received'[k] = sent[k]]_vars
  <2> SUFFICES ASSUME PostsInv, Next, NEW k \in Keys, received'[k] # received[k]
               PROVE  received'[k] = sent[k]
    OBVIOUS
  <2>1. PICK n \in Notification : NotificationEnds(n)
    BY DEF Next, vars, DataChanges, TimePasses, EvaluationStarts, RuleStarts,
           RuleEnds, EvaluationEnds, SkipHost, JudgeHost, Notify, Dispatch,
           Restart, noteVars
  <2>2. received \in [Keys -> Events \cup {"none"}]
    BY DEF PostsInv, EvaluatorInv, TypeOK
  <2>3. n \in inflight /\ n.key = k /\ received'[k] = n.event
    BY <2>1, <2>2 DEF NotificationEnds
  <2> QED
    BY <2>3 DEF PostsInv, PostsAreNewest
<1> QED
  BY <1>1, SpecPosts, PTL DEF Spec, ReceivedIsNewest

-----------------------------------------------------------------------------
(* Which events are dispatched, and what the webhook knows of them         *)

(* Only judging a host starts a goroutine: with the event of the key of    *)
(* that host, by the transition of its state.                              *)
LEMMA StartedByNotify ==
  ASSUME EvaluatorInv, [Next]_vars, NEW n \in Started
  PROVE  \E h \in Hosts : JudgeHost(h)
<1>1. n \in inflight' /\ n \notin inflight /\ n.left = NotifyTimeout
  BY DEF Started
<1>2. ~TimePasses
  <2> SUFFICES ASSUME TimePasses PROVE FALSE
    OBVIOUS
  <2>1. PICK m \in inflight : n = [m EXCEPT !.left = @ - 1]
    BY <1>1 DEF TimePasses
  <2>2. m \in Notification /\ m.left \in 0..NotifyTimeout
    BY DEF EvaluatorInv, TypeOK, Notification
  <2>3. n.left = m.left - 1
    BY <2>1, <2>2 DEF Notification
  <2> QED
    BY <1>1, <2>2, <2>3, RulesAreNumbered
<1> QED
  BY <1>1, <1>2 DEF Next, vars, DataChanges, EvaluationStarts, RuleStarts,
     RuleEnds, EvaluationEnds, SkipHost, NotificationEnds, Restart, noteVars

LEMMA StartedOfNotify ==
  ASSUME NEW k \in Keys, NEW new, Notify(k, state[k], new), NEW n \in Started
  PROVE  /\ n.key = k
         /\ \/ new = "firing" /\ state[k] # "firing" /\ n.event = "firing"
            \/ new = "ok" /\ state[k] = "firing" /\ n.event = "resolved"
  BY DEF Started, Notify, Dispatch, noteVars

(* For each key the events of one process alternate, and the first of them *)
(* is firing.                                                              *)
EventsAlternate ==
  [][\A n \in Started :
       /\ n.event # sent[n.key]
       /\ sent[n.key] = "none" => n.event = "firing"]_vars

(* Theorem: docs/under-the-hood.md:440, "Notifications only fire on        *)
(* **transitions**, not on every tick", is true of the events of a key,    *)
(* also for rules that share one: none is sent twice in a row, and none is *)
(* resolved that was not firing (evaluate: the switch on prev and new).    *)
THEOREM NoEventIsRepeated == Spec => EventsAlternate
<1>1. ASSUME EvaluatorInv, [Next]_vars, NEW n \in Started
      PROVE  /\ n.event # sent[n.key]
             /\ sent[n.key] = "none" => n.event = "firing"
  <2>1. PICK h \in Hosts : JudgeHost(h)
    BY <1>1, StartedByNotify
  <2>2. PICK k \in Keys, new \in {"ok", "firing"} :
          /\ evalPC = "hosts"
          /\ state' = [state EXCEPT ![k] = new]
          /\ Notify(k, state[k], new)
          /\ UNCHANGED <<mean, timeVars, evalPC, rule>>
    BY <1>1, <2>1, JudgeNotifies DEF EvaluatorInv
  <2>3. /\ n.key = k
        /\ \/ new = "firing" /\ state[k] # "firing" /\ n.event = "firing"
           \/ new = "ok" /\ state[k] = "firing" /\ n.event = "resolved"
    BY <1>1, <2>2, StartedOfNotify
  <2>4. /\ state[k] \in {"absent", "ok", "firing"}
        /\ state[k] = "firing" => sent[k] = "firing"
        /\ state[k] = "ok" => sent[k] # "firing"
        /\ state[k] = "absent" => sent[k] = "none"
    BY <1>1 DEF EvaluatorInv, TypeOK, MapMatchesEvents, AbsentIsUnsent
  <2> QED
    BY <2>3, <2>4
<1>2. EvaluatorInv /\ [Next]_vars =>
        [\A n \in Started :
           /\ n.event # sent[n.key]
           /\ sent[n.key] = "none" => n.event = "firing"]_vars
  BY <1>1
<1> QED
  BY <1>2, SpecInv, PTL DEF Spec, EventsAlternate

(* With a key of its own, the state of a pair is its last result.          *)
ResultIsState ==
  \A p \in Pairs :
     state[ruleKey(p)] = IF judged[p] = "none" THEN "absent" ELSE judged[p]

LEMMA ResultStep ==
  ASSUME DistinctKeys, EvaluatorInv, ResultIsState, [Next]_vars
  PROVE  ResultIsState'
<1>1. \A p \in Pairs : ruleKey(p)' = ruleKey(p) /\ ruleKey(p) \in Keys
  BY DEF ruleKey, Keys
<1>2. ASSUME NEW h \in Hosts, JudgeHost(h) PROVE ResultIsState'
  <2>1. PICK k \in Keys, new \in {"ok", "firing"} :
          /\ <<rule, h>> \in Pairs /\ k = ruleKey(<<rule, h>>)
          /\ state' = [state EXCEPT ![k] = new]
          /\ judged' = [judged EXCEPT ![<<rule, h>>] = new]
    BY <1>2, JudgeEffect DEF EvaluatorInv
  <2>2. /\ DOMAIN state = Keys
        /\ DOMAIN judged = Pairs
    BY DEF EvaluatorInv, TypeOK
  <2>3. ASSUME NEW p \in Pairs
        PROVE  state'[ruleKey(p)] = IF judged'[p] = "none" THEN "absent" ELSE judged'[p]
    <3>1. CASE p = <<rule, h>>
      BY <2>1, <2>2, <3>1
    <3>2. CASE p # <<rule, h>>
      <4>1. ruleKey(p) # k
        BY <2>1, <3>2 DEF DistinctKeys
      <4>2. state'[ruleKey(p)] = state[ruleKey(p)] /\ judged'[p] = judged[p]
        BY <1>1, <2>1, <2>2, <3>2, <4>1
      <4> QED
        BY <4>2 DEF ResultIsState
    <3> QED
      BY <3>1, <3>2
  <2> QED
    BY <1>1, <2>3 DEF ResultIsState
<1>3. CASE Restart
  BY <1>1, <1>3 DEF Restart, ResultIsState
<1>4. CASE ~Restart /\ ~(\E h \in Hosts : JudgeHost(h))
  <2>1. state' = state /\ judged' = judged
    BY <1>4 DEF Next, vars, DataChanges, TimePasses, EvaluationStarts,
                RuleStarts, RuleEnds, EvaluationEnds, SkipHost,
                NotificationEnds
  <2> QED
    BY <1>1, <2>1 DEF ResultIsState
<1> QED
  BY <1>2, <1>3, <1>4

(* Theorem: the sentence of the docs is true rule by rule, as its reader   *)
(* takes it, when no two rules share a key; the run Evaluator_collision    *)
(* shows that this hypothesis is needed (ruleKey leaves out the window).   *)
THEOREM NotifiesOnTransitions ==
  ASSUME DistinctKeys
  PROVE  Spec => NotifiesOnTransitionsOnly
<1>1. Init => ResultIsState
  <2> SUFFICES ASSUME Init PROVE ResultIsState
    OBVIOUS
  <2>1. \A p \in Pairs : ruleKey(p) \in Keys
    BY DEF Keys
  <2> QED
    BY <2>1 DEF Init, ResultIsState
<1>2. EvaluatorInv /\ ResultIsState /\ [Next]_vars => ResultIsState'
  BY ResultStep
<1>3. ASSUME EvaluatorInv, ResultIsState, NEW h \in Hosts, JudgeHost(h),
             Started # {}
      PROVE  judged'[<<rule, h>>] # judged[<<rule, h>>]
  <2>1. PICK k \in Keys, new \in {"ok", "firing"} :
          /\ <<rule, h>> \in Pairs /\ k = ruleKey(<<rule, h>>)
          /\ judged' = [judged EXCEPT ![<<rule, h>>] = new]
          /\ Notify(k, state[k], new)
    BY <1>3, JudgeEffect DEF EvaluatorInv
  <2>2. PICK n : n \in Started
    BY <1>3
  <2>3. \/ new = "firing" /\ state[k] # "firing"
        \/ new = "ok" /\ state[k] = "firing"
    BY <2>1, <2>2, StartedOfNotify
  <2>4. judged'[<<rule, h>>] = new
    BY <1>3, <2>1 DEF EvaluatorInv, TypeOK
  <2>5. /\ judged[<<rule, h>>] = "firing" => state[k] = "firing"
        /\ judged[<<rule, h>>] = "ok" => state[k] = "ok"
    BY <1>3, <2>1 DEF ResultIsState
  <2> QED
    BY <2>3, <2>4, <2>5
<1>4. EvaluatorInv /\ ResultIsState /\ [Next]_vars =>
        [\A h \in Hosts : JudgeHost(h) /\ Started # {}
           => judged'[<<rule, h>>] # judged[<<rule, h>>]]_vars
  BY <1>3
<1> QED
  BY <1>1, <1>2, <1>4, SpecInv, PTL DEF Spec, NotifiesOnTransitionsOnly

(* What was dispatched last was received, or failed, or is on its way.     *)
HeardUnlessFailed ==
  \A k \in Keys : sent[k] # "none" =>
     \/ received[k] = sent[k]
     \/ k \in unheard
     \/ \E n \in inflight : n.key = k

LEMMA HeardStep ==
  ASSUME PostsInv, HeardUnlessFailed, [Next]_vars
  PROVE  HeardUnlessFailed'
<1> USE DEF PostsInv, noteVars
<1>1. ASSUME NEW h \in Hosts, JudgeHost(h) PROVE HeardUnlessFailed'
  <2>1. PICK k \in Keys, new \in {"ok", "firing"} :
          /\ evalPC = "hosts"
          /\ state' = [state EXCEPT ![k] = new]
          /\ Notify(k, state[k], new)
          /\ UNCHANGED <<mean, timeVars, evalPC, rule>>
    BY <1>1, JudgeNotifies DEF EvaluatorInv
  <2>2. sent \in [Keys -> Events \cup {"none"}]
    BY DEF EvaluatorInv, TypeOK
  <2>3. ASSUME NEW e \in Events, Dispatch(k, e) PROVE HeardUnlessFailed'
    <3>1. /\ received' = received
          /\ \A q \in Keys \ {k} : sent'[q] = sent[q] /\ (q \in unheard => q \in unheard')
          /\ inflight \subseteq inflight'
      BY <2>2, <2>3 DEF Dispatch
    <3>2. \E n \in inflight' : n.key = k
      <4> DEFINE note == [key |-> k, event |-> e, left |-> NotifyTimeout]
      <4>1. note \in inflight' /\ note.key = k
        BY <2>3 DEF Dispatch
      <4> QED
        BY <4>1
    <3>3. ASSUME NEW q \in Keys, sent'[q] # "none"
          PROVE  \/ received'[q] = sent'[q]
                 \/ q \in unheard'
                 \/ \E n \in inflight' : n.key = q
      <4>1. CASE q = k
        BY <3>2, <4>1
      <4>2. CASE q # k
        <5>1. /\ sent'[q] = sent[q] /\ received'[q] = received[q]
              /\ q \in unheard => q \in unheard'
          BY <3>1, <4>2
        <5>2. \/ received[q] = sent[q]
              \/ q \in unheard
              \/ \E n \in inflight : n.key = q
          BY <3>3, <5>1 DEF HeardUnlessFailed
        <5> QED
          BY <3>1, <5>1, <5>2
      <4> QED
        BY <4>1, <4>2
    <3> QED
      BY <3>3 DEF HeardUnlessFailed
  <2>4. "firing" \in Events /\ "resolved" \in Events
    BY DEF Events
  <2>5. CASE Dispatch(k, "firing")
    BY <2>3, <2>4, <2>5
  <2>6. CASE Dispatch(k, "resolved")
    BY <2>3, <2>4, <2>6
  <2>7. CASE UNCHANGED noteVars
    BY <2>7 DEF HeardUnlessFailed
  <2> QED
    BY <2>1, <2>5, <2>6, <2>7 DEF Notify
<1>2. ASSUME NEW n \in Notification, NotificationEnds(n) PROVE HeardUnlessFailed'
  <2>1. /\ n \in inflight /\ n.key \in Keys
        /\ sent' = sent /\ inflight' = inflight \ {n}
        /\ received \in [Keys -> Events \cup {"none"}]
        /\ n.event = sent[n.key]
    BY <1>2 DEF NotificationEnds, Notification, PostsAreNewest, EvaluatorInv, TypeOK
  <2>2. \/ /\ received' = [received EXCEPT ![n.key] = n.event]
           /\ unheard' = unheard
        \/ /\ unheard' = unheard \cup {n.key}
           /\ received' = received
    BY <1>2 DEF NotificationEnds
  <2>3. received'[n.key] = sent'[n.key] \/ n.key \in unheard'
    BY <2>1, <2>2
  <2>4. \A k \in Keys \ {n.key} :
          /\ received'[k] = received[k]
          /\ k \in unheard => k \in unheard'
          /\ \A m \in inflight : m.key = k => m \in inflight'
    BY <2>1, <2>2
  <2>5. ASSUME NEW k \in Keys, sent'[k] # "none"
        PROVE  \/ received'[k] = sent'[k]
               \/ k \in unheard'
               \/ \E m \in inflight' : m.key = k
    <3>1. CASE k = n.key
      BY <2>3, <3>1
    <3>2. CASE k # n.key
      <4>1. \/ received[k] = sent[k]
            \/ k \in unheard
            \/ \E m \in inflight : m.key = k
        BY <2>1, <2>5 DEF HeardUnlessFailed
      <4>2. received'[k] = received[k] /\ sent'[k] = sent[k]
        BY <2>1, <2>4, <3>2
      <4>3. k \in unheard => k \in unheard'
        BY <2>4, <3>2
      <4>4. \A m \in inflight : m.key = k => m \in inflight'
        BY <2>4, <3>2
      <4> QED
        BY <4>1, <4>2, <4>3, <4>4
    <3> QED
      BY <3>1, <3>2
  <2> QED
    BY <2>5 DEF HeardUnlessFailed
<1>3. CASE TimePasses
  <2>1. ASSUME NEW n \in inflight PROVE \E m \in inflight' : m.key = n.key
    <3> DEFINE m == [n EXCEPT !.left = @ - 1]
    <3>1. n \in Notification
      BY DEF EvaluatorInv, TypeOK
    <3>2. m.key = n.key
      BY <3>1 DEF Notification
    <3>3. m \in inflight'
      BY <1>3 DEF TimePasses
    <3> QED
      BY <3>2, <3>3
  <2>2. UNCHANGED <<sent, received, unheard>>
    BY <1>3 DEF TimePasses
  <2> QED
    BY <2>1, <2>2 DEF HeardUnlessFailed
<1>4. CASE Restart
  BY <1>4 DEF Restart, HeardUnlessFailed
<1>5. CASE EvaluationStarts \/ RuleStarts \/ RuleEnds \/ EvaluationEnds
           \/ (\E p \in Pairs : DataChanges(p)) \/ (\E h \in Hosts : SkipHost(h))
           \/ UNCHANGED vars
  BY <1>5 DEF EvaluationStarts, RuleStarts, RuleEnds, EvaluationEnds,
              DataChanges, SkipHost, vars, HeardUnlessFailed
<1> QED
  BY <1>1, <1>2, <1>3, <1>4, <1>5 DEF Next

(* When a tick is due, the webhook has what the map shows, unless the last *)
(* POST about it failed: nothing is on its way any more.                   *)
WebhookIsUpToDate ==
  ticks = 1 =>
    \A k \in Keys \ unheard :
       /\ state[k] = "firing" => received[k] = "firing"
       /\ state[k] = "ok" => sent[k] = "none" \/ received[k] = "resolved"

(* Theorem: when no two rules share a key, a firing alert was heard by the *)
(* webhook, and a resolved one too, before the next evaluation begins: the *)
(* one loss is a POST that fails, which is not repeated (notifyAll).       *)
THEOREM WebhookKeepsUp ==
  ASSUME DistinctKeys
  PROVE  Spec => []WebhookIsUpToDate
<1>1. Init => HeardUnlessFailed
  BY DEF Init, HeardUnlessFailed
<1>2. PostsInv /\ HeardUnlessFailed /\ [Next]_vars => HeardUnlessFailed'
  BY HeardStep
<1>3. ASSUME PostsInv, HeardUnlessFailed PROVE WebhookIsUpToDate
  <2> SUFFICES ASSUME ticks = 1, NEW k \in Keys, k \notin unheard
               PROVE  /\ state[k] = "firing" => received[k] = "firing"
                      /\ state[k] = "ok" => sent[k] = "none" \/ received[k] = "resolved"
    BY DEF WebhookIsUpToDate
  <2>1. inflight = {}
    BY <1>3 DEF PostsInv, EvaluatorInv, DeadlinesFit
  <2>2. sent[k] = "none" \/ received[k] = sent[k]
    BY <1>3, <2>1 DEF HeardUnlessFailed
  <2>3. /\ state[k] = "firing" => sent[k] = "firing"
        /\ state[k] = "ok" => sent[k] # "firing"
        /\ sent[k] \in {"firing", "resolved", "none"}
    BY <1>3 DEF PostsInv, EvaluatorInv, MapMatchesEvents, TypeOK, Events
  <2> QED
    BY <2>2, <2>3
<1> QED
  BY <1>1, <1>2, <1>3, SpecPosts, PTL DEF Spec
=============================================================================
