----------------------------- MODULE AgentProofs -----------------------------
(***************************************************************************)
(* Proofs about the metric pipeline, for any capacity of the channel, any  *)
(* number of batches and of attempts, and whichever batches cannot be      *)
(* encoded, are refused or cannot be stored.                               *)
(***************************************************************************)
EXTENDS Agent, SequenceTheorems, TLAPS

(* Types, with the one thing they need to be inductive: batch holds a      *)
(* batch whenever Send is entered.                                         *)
PipelineType == TypeOK /\ InSend \subseteq Batch

(* The channel holds batches in the order of their collection, all younger *)
(* than the one Send worked on last.                                       *)
ChannelInOrder ==
  /\ batch <= collected
  /\ \A i \in DOMAIN batches : batch < batches[i] /\ batches[i] <= collected
  /\ \A i, j \in DOMAIN batches : i < j => batches[i] < batches[j]

(* No request was ever sent for a batch that still waits.                  *)
RequestsAreOlder == \A r \in running \cup stored : r[1] <= batch

(* A handler runs for the batch in Send, or for one that left Send.        *)
RequestsHaveABatch ==
  \A r \in running : r[1] \in InSend \cup acked \cup discarded \cup abandoned

(* No batch disappears.                                                    *)
EachIsAccountedFor ==
  \A b \in 1..collected :
     b \in Pending \cup acked \cup dropped \cup discarded \cup abandoned

(* Send never returns nil for a batch the database does not hold.          *)
AckedIsStored == acked \subseteq InDatabase

(* What the response to the current attempt says is true of its batch.     *)
RepliesAreTrue ==
  /\ reply # "none" => sendPC = "wait"
  /\ reply = "2xx" => batch \in InDatabase
  /\ reply = "4xx" => batch \in Invalid \/ tokenExpired

(* A batch that is fit to be stored is discarded only once the token has   *)
(* expired, and then no younger batch is, or ever gets, past JWTMiddleware.*)
DiscardedByTokenIsLast ==
  \A b \in discarded :
     \/ b \in Invalid \cup Unencodable
     \/ tokenExpired /\ \A r \in admitted \cup stored : r[1] <= b

(* Only the last batch of all is abandoned.                                *)
AbandonedIsLast == \A b \in abandoned : sendPC = "returned" /\ b = batch

(* The inductive invariant.                                                *)
AgentInv ==
  /\ PipelineType
  /\ ChannelInOrder
  /\ RequestsAreOlder
  /\ RequestsHaveABatch
  /\ EachIsAccountedFor
  /\ AckedIsStored
  /\ RepliesAreTrue
  /\ DiscardedByTokenIsLast
  /\ AbandonedIsLast

-----------------------------------------------------------------------------
(* Taking the head of a channel, and appending to it.                      *)
LEMMA TailOfChannel ==
  ASSUME NEW q \in Seq(Batch), q # <<>>
  PROVE  /\ Head(q) \in Batch /\ Head(q) = q[1]
         /\ Tail(q) \in Seq(Batch) /\ Len(Tail(q)) = Len(q) - 1
         /\ DOMAIN q = 1..Len(q) /\ Len(q) \in Nat \ {0}
         /\ \A i \in DOMAIN Tail(q) : i + 1 \in DOMAIN q /\ Tail(q)[i] = q[i + 1]
         /\ {q[i] : i \in DOMAIN q} =
              {q[1]} \cup {Tail(q)[i] : i \in DOMAIN Tail(q)}
<1>1. /\ Tail(q) \in Seq(Batch) /\ Len(Tail(q)) = Len(q) - 1
      /\ Head(q) \in Batch
      /\ \A i \in 1..Len(Tail(q)) : Tail(q)[i] = q[i + 1]
  BY HeadTailProperties
<1>2. Head(q) = q[1]
  OBVIOUS
<1>3. /\ DOMAIN q = 1..Len(q) /\ Len(q) \in Nat \ {0}
      /\ DOMAIN Tail(q) = 1..(Len(q) - 1)
  BY <1>1, LenProperties, EmptySeq
<1>4. \A i \in DOMAIN Tail(q) : i + 1 \in DOMAIN q /\ Tail(q)[i] = q[i + 1]
  BY <1>1, <1>3
<1>5. \A i \in DOMAIN q :
        i # 1 => i - 1 \in DOMAIN Tail(q) /\ q[i] = Tail(q)[i - 1]
  BY <1>1, <1>3
<1>6. {q[i] : i \in DOMAIN q} = {q[1]} \cup {Tail(q)[i] : i \in DOMAIN Tail(q)}
  <2>1. ASSUME NEW i \in DOMAIN q
        PROVE  q[i] \in {q[1]} \cup {Tail(q)[j] : j \in DOMAIN Tail(q)}
    BY <1>5
  <2>2. ASSUME NEW i \in DOMAIN Tail(q)
        PROVE  Tail(q)[i] \in {q[j] : j \in DOMAIN q}
    BY <1>4
  <2>3. 1 \in DOMAIN q
    BY <1>3
  <2> QED
    BY <2>1, <2>2, <2>3
<1> QED
  BY <1>1, <1>2, <1>3, <1>4, <1>6

LEMMA AppendToChannel ==
  ASSUME NEW q \in Seq(Batch), NEW b \in Batch
  PROVE  /\ Append(q, b) \in Seq(Batch) /\ Len(Append(q, b)) = Len(q) + 1
         /\ DOMAIN q = 1..Len(q) /\ Len(q) \in Nat
         /\ DOMAIN Append(q, b) = 1..(Len(q) + 1)
         /\ \A i \in DOMAIN Append(q, b) :
              Append(q, b)[i] = IF i \in DOMAIN q THEN q[i] ELSE b
         /\ {Append(q, b)[i] : i \in DOMAIN Append(q, b)} =
              {q[i] : i \in DOMAIN q} \cup {b}
<1>1. /\ Append(q, b) \in Seq(Batch) /\ Len(Append(q, b)) = Len(q) + 1
      /\ \A i \in 1..Len(q) : Append(q, b)[i] = q[i]
      /\ Append(q, b)[Len(q) + 1] = b
  BY AppendProperties
<1>2. /\ DOMAIN q = 1..Len(q) /\ Len(q) \in Nat
      /\ DOMAIN Append(q, b) = 1..(Len(q) + 1)
  BY <1>1, LenProperties
<1>3. \A i \in DOMAIN Append(q, b) :
        Append(q, b)[i] = IF i \in DOMAIN q THEN q[i] ELSE b
  BY <1>1, <1>2
<1>4. /\ DOMAIN q \subseteq DOMAIN Append(q, b)
      /\ Len(q) + 1 \in DOMAIN Append(q, b)
  BY <1>2
<1>5. {Append(q, b)[i] : i \in DOMAIN Append(q, b)} = {q[i] : i \in DOMAIN q} \cup {b}
  BY <1>1, <1>2, <1>3, <1>4
<1> QED
  BY <1>1, <1>2, <1>3, <1>5

-----------------------------------------------------------------------------
(* The pipeline starts well-typed: an empty channel and no request.        *)
LEMMA InitType == Init => PipelineType
<1> SUFFICES ASSUME Init PROVE PipelineType
  OBVIOUS
<1>1. batches \in Seq(Batch) /\ Len(batches) <= BufSize
  BY EmptySeq, AgentAssumption DEF Init
<1>2. 0 \in 0..MaxBatches /\ 0 \in Attempt
  BY AgentAssumption DEF Attempt
<1> QED
  BY <1>1, <1>2 DEF Init, PipelineType, TypeOK, InSend

(* A tick keeps the capacity of the channel, because one that finds it     *)
(* full drops the batch.                                                   *)
LEMMA CollectType == PipelineType /\ Collect => PipelineType'
<1> SUFFICES ASSUME PipelineType, Collect PROVE PipelineType'
  OBVIOUS
<1> USE DEF PipelineType, TypeOK, Collect, InSend, serverVars
<1>1. collected' \in 0..MaxBatches /\ collected' \in Batch
  BY AgentAssumption DEF Batch
<1>2. batches' \in Seq(Batch) /\ Len(batches') <= BufSize
  <2>1. /\ Append(batches, collected') \in Seq(Batch)
        /\ Len(Append(batches, collected')) = Len(batches) + 1
        /\ Len(batches) \in Nat
    BY <1>1, AppendToChannel
  <2>2. BufSize \in Nat
    BY AgentAssumption
  <2>3. \/ Len(batches) < BufSize /\ batches' = Append(batches, collected')
        \/ batches' = batches
    OBVIOUS
  <2>4. batches \in Seq(Batch) /\ Len(batches) <= BufSize
    OBVIOUS
  <2> HIDE DEF PipelineType, TypeOK, Collect, InSend, serverVars
  <2>5. CASE Len(batches) < BufSize /\ batches' = Append(batches, collected')
    BY <2>1, <2>2, <2>5
  <2>6. CASE batches' = batches
    BY <2>4, <2>6
  <2> QED
    BY <2>3, <2>5, <2>6
<1>3. dropped' \in SUBSET Batch
  BY <1>1
<1> QED
  BY <1>1, <1>2, <1>3

(* Receiving keeps the types: what leaves the channel is a batch.          *)
LEMMA ReceiveType ==
  PipelineType /\ (Receive \/ ReceiveUnencodable) => PipelineType'
<1> SUFFICES ASSUME PipelineType, Receive \/ ReceiveUnencodable
             PROVE  PipelineType'
  OBVIOUS
<1> USE DEF PipelineType, TypeOK, InSend, serverVars, historyVars
<1>1. /\ Head(batches) \in Batch
      /\ Tail(batches) \in Seq(Batch) /\ Len(Tail(batches)) <= BufSize
  BY TailOfChannel, AgentAssumption DEF Receive, ReceiveUnencodable
<1>2. CASE Receive
  BY <1>1, <1>2, AgentAssumption DEF Receive, Batch, Attempt
<1>3. CASE ReceiveUnencodable
  BY <1>1, <1>3 DEF ReceiveUnencodable
<1> QED
  BY <1>2, <1>3

(* A response keeps the types.                                             *)
LEMMA RespondType ==
  ASSUME PipelineType, NEW r \in Request, NEW class \in {"2xx", "4xx", "5xx"},
         Respond(r, class)
  PROVE  PipelineType'
  BY DEF PipelineType, TypeOK, InSend, Respond, agentVars, historyVars

(* Every step of a handler keeps the types.                                *)
LEMMA ServerType ==
  ASSUME PipelineType, NEW r \in Request, Server(r)
  PROVE  PipelineType'
<1> USE DEF PipelineType, TypeOK, InSend, agentVars, historyVars
<1>1. CASE HandlerAdmits(r) \/ HandlerInserts(r) \/ HandlerDies(r)
  BY <1>1 DEF HandlerAdmits, HandlerInserts, HandlerDies
<1>2. CASE \/ HandlerUnauthorized(r) \/ HandlerRefuses(r)
           \/ HandlerAccepts(r) \/ HandlerFails(r)
  BY <1>2, RespondType
     DEF HandlerUnauthorized, HandlerRefuses, HandlerAccepts, HandlerFails
<1> QED
  BY <1>1, <1>2 DEF Server

(* Every step keeps the types.                                             *)
LEMMA NextType == PipelineType /\ [Next]_vars => PipelineType'
<1> SUFFICES ASSUME PipelineType, [Next]_vars PROVE PipelineType'
  OBVIOUS
<1>1. CASE Collect
  BY <1>1, CollectType
<1>2. CASE Receive \/ ReceiveUnencodable
  BY <1>2, ReceiveType
<1> USE DEF PipelineType, TypeOK, InSend, agentVars, serverVars, historyVars
<1>3. CASE CollectStops \/ RangeEnds \/ SleepEnds \/ Cancel \/ TokenExpires
  BY <1>3 DEF CollectStops, RangeEnds, SleepEnds, Cancel, TokenExpires
<1>4. CASE SleepCancelled \/ AnsweredOK \/ AnsweredRejected
  BY <1>4 DEF SleepCancelled, AnsweredOK, AnsweredRejected
<1>5. CASE Post
  BY <1>5 DEF Post, Request
<1>6. CASE AttemptFails \/ AnsweredServerError
  BY <1>6, AgentAssumption
     DEF AttemptFails, AnsweredServerError, NextAttempt, Attempt
<1>7. ASSUME NEW r \in Request, Server(r) PROVE PipelineType'
  BY <1>7, ServerType
<1>8. CASE UNCHANGED vars
  BY <1>8 DEF vars
<1> QED
  BY <1>1, <1>2, <1>3, <1>4, <1>5, <1>6, <1>7, <1>8 DEF Next, Agent

(* Theorem: the pipeline is type-correct, for every value of the           *)
(* constants; the channel stays within its capacity.                       *)
THEOREM TypeCorrect == Spec => []TypeOK
<1>1. PipelineType /\ [Next]_vars => PipelineType'
  BY NextType
<1>2. PipelineType => TypeOK
  BY DEF PipelineType
<1> QED
  BY <1>1, <1>2, InitType, PTL DEF Spec

-----------------------------------------------------------------------------
(* The empty pipeline satisfies the invariant.                             *)
LEMMA InitAgent == Init => AgentInv
<1> SUFFICES ASSUME Init PROVE AgentInv
  OBVIOUS
<1>1. PipelineType
  BY InitType
<1>2. DOMAIN batches = {}
  BY DEF Init
<1>3. ChannelInOrder
  BY <1>2 DEF Init, ChannelInOrder
<1>4. EachIsAccountedFor
  BY DEF Init, EachIsAccountedFor
<1>5. RepliesAreTrue
  BY DEF Init, RepliesAreTrue
<1> QED
  BY <1>1, <1>3, <1>4, <1>5
     DEF Init, AgentInv, RequestsAreOlder, RequestsHaveABatch, AckedIsStored,
         DiscardedByTokenIsLast, AbandonedIsLast

(* A tick appends a batch younger than all, or drops it.                   *)
LEMMA CollectStep == AgentInv /\ Collect => AgentInv'
<1> SUFFICES ASSUME AgentInv, Collect PROVE AgentInv'
  OBVIOUS
<1> USE DEF AgentInv, Collect, serverVars
<1>1. PipelineType'
  BY CollectType
<1>2. /\ batches \in Seq(Batch) /\ batch \in Int /\ collected \in Nat
      /\ \A i \in DOMAIN batches : batches[i] \in Int
      /\ collected' = collected + 1 /\ collected' \in Batch
      /\ InSend' = InSend
  BY AgentAssumption DEF PipelineType, TypeOK, Batch, InSend
<1>3. CASE batches' = batches /\ dropped' = dropped \cup {collected'}
  <2>1. ChannelInOrder'
    BY <1>2, <1>3 DEF ChannelInOrder
  <2>2. EachIsAccountedFor'
    <3> SUFFICES ASSUME NEW b \in 1..collected'
                 PROVE  b \in Pending' \cup acked \cup dropped' \cup discarded
                                \cup abandoned
      BY DEF EachIsAccountedFor
    <3>1. b \in 1..collected \/ b = collected'
      BY <1>2
    <3> QED
      BY <1>2, <1>3, <3>1 DEF EachIsAccountedFor, Pending, Queued
  <2> QED
    BY <1>1, <1>2, <2>1, <2>2
       DEF RequestsAreOlder, RequestsHaveABatch, AckedIsStored, InDatabase,
           RepliesAreTrue, DiscardedByTokenIsLast, AbandonedIsLast
<1>4. CASE batches' = Append(batches, collected') /\ dropped' = dropped
  <2>1. /\ DOMAIN batches = 1..Len(batches) /\ Len(batches) \in Nat
        /\ DOMAIN batches' = 1..(Len(batches) + 1)
        /\ \A i \in DOMAIN batches' :
             batches'[i] = IF i \in DOMAIN batches THEN batches[i] ELSE collected'
        /\ Queued' = Queued \cup {collected'}
    <3>1. batches' = Append(batches, collected')
      BY <1>4
    <3>2. batches \in Seq(Batch) /\ collected' \in Batch
      BY <1>2
    <3> HIDE DEF AgentInv, Collect, serverVars
    <3> QED
      BY <3>1, <3>2, AppendToChannel DEF Queued
  <2>2. ChannelInOrder'
    <3>1. batch' <= collected'
      BY <1>2 DEF ChannelInOrder
    <3>2. ASSUME NEW i \in DOMAIN batches'
          PROVE  batch' < batches'[i] /\ batches'[i] <= collected'
      BY <1>2, <2>1 DEF ChannelInOrder
    <3>3. ASSUME NEW i \in DOMAIN batches', NEW j \in DOMAIN batches', i < j
          PROVE  batches'[i] < batches'[j]
      <4>1. i \in DOMAIN batches
        BY <2>1, <3>3
      <4> QED
        BY <1>2, <2>1, <3>3, <4>1 DEF ChannelInOrder
    <3> QED
      BY <3>1, <3>2, <3>3 DEF ChannelInOrder
  <2>3. EachIsAccountedFor'
    <3> SUFFICES ASSUME NEW b \in 1..collected'
                 PROVE  b \in Pending' \cup acked \cup dropped' \cup discarded
                                \cup abandoned
      BY DEF EachIsAccountedFor
    <3>1. b \in 1..collected \/ b = collected'
      BY <1>2
    <3> QED
      BY <1>2, <1>4, <2>1, <3>1 DEF EachIsAccountedFor, Pending
  <2> QED
    BY <1>1, <1>2, <2>2, <2>3
       DEF RequestsAreOlder, RequestsHaveABatch, AckedIsStored, InDatabase,
           RepliesAreTrue, DiscardedByTokenIsLast, AbandonedIsLast
<1> QED
  BY <1>3, <1>4

(* The head of the channel becomes the batch of Send; all that remain are  *)
(* younger.                                                                *)
LEMMA HeadIsOldest ==
  ASSUME AgentInv, batches # <<>>, batches' = Tail(batches)
  PROVE  /\ Head(batches) \in Batch
         /\ batch < Head(batches) /\ Head(batches) <= collected
         /\ \A i \in DOMAIN batches' :
              /\ batches'[i] \in Batch
              /\ Head(batches) < batches'[i] /\ batches'[i] <= collected
         /\ \A i, j \in DOMAIN batches' : i < j => batches'[i] < batches'[j]
         /\ Queued = Queued' \cup {Head(batches)}
<1> USE DEF AgentInv, PipelineType, TypeOK
<1>1. /\ Head(batches) \in Batch /\ Head(batches) = batches[1]
      /\ DOMAIN batches = 1..Len(batches) /\ Len(batches) \in Nat \ {0}
      /\ \A i \in DOMAIN batches' :
           i + 1 \in DOMAIN batches /\ batches'[i] = batches[i + 1]
      /\ Queued = Queued' \cup {Head(batches)}
  <2>1. batches \in Seq(Batch)
    OBVIOUS
  <2> HIDE DEF AgentInv, PipelineType, TypeOK
  <2> QED
    BY <2>1, TailOfChannel DEF Queued
<1>2. DOMAIN batches' \subseteq Nat \ {0}
  <2>1. DOMAIN batches' = 1..Len(batches') /\ Len(batches') \in Nat
    BY TailOfChannel, LenProperties
  <2> QED
    BY <2>1
<1>3. 1 \in DOMAIN batches
  BY <1>1
<1>4. \A i \in DOMAIN batches' : 1 < i + 1
  BY <1>2
<1>5. \A i, j \in DOMAIN batches' : i < j => i + 1 < j + 1
  BY <1>2
<1> QED
  BY <1>1, <1>3, <1>4, <1>5 DEF ChannelInOrder

(* Receive: the batch enters Send.                                         *)
LEMMA ReceiveStep == AgentInv /\ Receive => AgentInv'
<1> SUFFICES ASSUME AgentInv, Receive PROVE AgentInv'
  OBVIOUS
<1> USE DEF AgentInv, Receive, serverVars, historyVars
<1>1. PipelineType'
  BY ReceiveType
<1>2. /\ batch' = Head(batches) /\ batch' \in Nat /\ collected \in Nat
      /\ batch \in Nat /\ batch < batch'
      /\ \A r \in running \cup stored : r[1] \in Nat
      /\ Queued \subseteq Queued' \cup {batch'}
      /\ InSend = {} /\ InSend' = {batch'}
  BY HeadIsOldest DEF PipelineType, TypeOK, Batch, Request, InSend
<1>3. ChannelInOrder'
  BY <1>2, HeadIsOldest DEF ChannelInOrder
<1>4. RequestsAreOlder'
  BY <1>2 DEF RequestsAreOlder
<1>5. EachIsAccountedFor'
  BY <1>2 DEF EachIsAccountedFor, Pending
<1>6. RepliesAreTrue'
  BY DEF RepliesAreTrue
<1>7. AbandonedIsLast'
  BY DEF AbandonedIsLast
<1> QED
  BY <1>1, <1>2, <1>3, <1>4, <1>5, <1>6, <1>7
     DEF RequestsHaveABatch, AckedIsStored, InDatabase, DiscardedByTokenIsLast

(* The batch that json.Marshal refuses goes from the channel to the        *)
(* discarded ones.                                                         *)
LEMMA UnencodableStep == AgentInv /\ ReceiveUnencodable => AgentInv'
<1> SUFFICES ASSUME AgentInv, ReceiveUnencodable PROVE AgentInv'
  OBVIOUS
<1> USE DEF AgentInv, ReceiveUnencodable, serverVars
<1>1. PipelineType'
  BY ReceiveType
<1>2. /\ batch \in Nat /\ collected \in Nat
      /\ Head(batches) \in Nat /\ batch < Head(batches)
      /\ Queued \subseteq Queued' \cup {Head(batches)}
      /\ InSend = {} /\ InSend' = {}
  BY HeadIsOldest DEF PipelineType, TypeOK, Batch, InSend
<1>3. ChannelInOrder'
  BY <1>2, HeadIsOldest DEF ChannelInOrder, Batch
<1>4. EachIsAccountedFor'
  BY <1>2 DEF EachIsAccountedFor, Pending
<1>5. RepliesAreTrue'
  BY DEF RepliesAreTrue, InDatabase
<1>6. DiscardedByTokenIsLast'
  BY DEF DiscardedByTokenIsLast
<1>7. AbandonedIsLast'
  BY DEF AbandonedIsLast
<1> QED
  BY <1>1, <1>2, <1>3, <1>4, <1>5, <1>6, <1>7
     DEF RequestsAreOlder, RequestsHaveABatch, AckedIsStored, InDatabase

(* The context ends a pause: the batch in Send is abandoned, and no other  *)
(* will ever be sent.                                                      *)
LEMMA SleepCancelledStep == AgentInv /\ SleepCancelled => AgentInv'
<1> SUFFICES ASSUME AgentInv, SleepCancelled PROVE AgentInv'
  OBVIOUS
<1> USE DEF AgentInv, SleepCancelled, serverVars
<1>1. PipelineType'
  BY NextType DEF Next, Agent
<1>2. InSend = {batch} /\ InSend' = {} /\ Queued' = Queued
  BY DEF InSend, Queued
<1>3. EachIsAccountedFor'
  BY <1>2 DEF EachIsAccountedFor, Pending
<1>4. RequestsHaveABatch'
  BY <1>2 DEF RequestsHaveABatch
<1>5. RepliesAreTrue'
  BY DEF RepliesAreTrue, InDatabase
<1>6. AbandonedIsLast'
  BY DEF AbandonedIsLast
<1> QED
  BY <1>1, <1>3, <1>4, <1>5, <1>6
     DEF ChannelInOrder, RequestsAreOlder, AckedIsStored, InDatabase,
         DiscardedByTokenIsLast

(* A POST starts a handler for the batch in Send.                          *)
LEMMA PostStep == AgentInv /\ Post => AgentInv'
<1> SUFFICES ASSUME AgentInv, Post PROVE AgentInv'
  OBVIOUS
<1> USE DEF AgentInv, Post, historyVars
<1>1. PipelineType'
  BY NextType DEF Next, Agent
<1>2. /\ InSend = {batch} /\ InSend' = {batch} /\ Pending' = Pending
      /\ batch \in Nat
  BY DEF InSend, Pending, Queued, PipelineType, TypeOK
<1>3. RequestsAreOlder'
  BY <1>2 DEF RequestsAreOlder
<1>4. RequestsHaveABatch'
  BY <1>2 DEF RequestsHaveABatch
<1>5. RepliesAreTrue'
  BY DEF RepliesAreTrue, InDatabase
<1>6. AbandonedIsLast'
  BY DEF AbandonedIsLast
<1> QED
  BY <1>1, <1>2, <1>3, <1>4, <1>5, <1>6
     DEF ChannelInOrder, EachIsAccountedFor, AckedIsStored, InDatabase,
         DiscardedByTokenIsLast

(* A retry keeps the batch in Send.                                        *)
LEMMA RetryStep ==
  AgentInv /\ (AttemptFails \/ AnsweredServerError) => AgentInv'
<1> SUFFICES ASSUME AgentInv, AttemptFails \/ AnsweredServerError
             PROVE  AgentInv'
  OBVIOUS
<1> USE DEF AgentInv, AttemptFails, AnsweredServerError, NextAttempt,
            serverVars, historyVars
<1>1. PipelineType'
  BY NextType DEF Next, Agent
<1>2. InSend' = InSend /\ Pending' = Pending
  BY DEF InSend, Pending, Queued
<1>3. RepliesAreTrue'
  BY DEF RepliesAreTrue, InDatabase
<1>4. AbandonedIsLast'
  BY DEF AbandonedIsLast
<1> QED
  BY <1>1, <1>2, <1>3, <1>4
     DEF ChannelInOrder, RequestsAreOlder, RequestsHaveABatch,
         EachIsAccountedFor, AckedIsStored, InDatabase, DiscardedByTokenIsLast

(* Send returns nil: the answer 2xx is a promise that the batch is stored. *)
LEMMA AnsweredOKStep == AgentInv /\ AnsweredOK => AgentInv'
<1> SUFFICES ASSUME AgentInv, AnsweredOK PROVE AgentInv'
  OBVIOUS
<1> USE DEF AgentInv, AnsweredOK, serverVars
<1>1. PipelineType'
  BY NextType DEF Next, Agent
<1>2. InSend = {batch} /\ InSend' = {} /\ Queued' = Queued
  BY DEF InSend, Queued
<1>3. EachIsAccountedFor'
  BY <1>2 DEF EachIsAccountedFor, Pending
<1>4. RequestsHaveABatch'
  BY <1>2 DEF RequestsHaveABatch
<1>5. AckedIsStored'
  BY DEF AckedIsStored, RepliesAreTrue, InDatabase
<1>6. RepliesAreTrue'
  BY DEF RepliesAreTrue, InDatabase
<1>7. AbandonedIsLast'
  BY DEF AbandonedIsLast
<1> QED
  BY <1>1, <1>3, <1>4, <1>5, <1>6, <1>7
     DEF ChannelInOrder, RequestsAreOlder, DiscardedByTokenIsLast

(* Send returns a permanentError: the answer 4xx says that the batch is    *)
(* malformed or the token expired, and no younger batch was ever sent.     *)
LEMMA AnsweredRejectedStep == AgentInv /\ AnsweredRejected => AgentInv'
<1> SUFFICES ASSUME AgentInv, AnsweredRejected PROVE AgentInv'
  OBVIOUS
<1> USE DEF AgentInv, AnsweredRejected, serverVars
<1>1. PipelineType'
  BY NextType DEF Next, Agent
<1>2. InSend = {batch} /\ InSend' = {} /\ Queued' = Queued
  BY DEF InSend, Queued
<1>3. EachIsAccountedFor'
  BY <1>2 DEF EachIsAccountedFor, Pending
<1>4. RequestsHaveABatch'
  BY <1>2 DEF RequestsHaveABatch
<1>5. DiscardedByTokenIsLast'
  BY DEF DiscardedByTokenIsLast, RepliesAreTrue, RequestsAreOlder,
         PipelineType, TypeOK
<1>6. RepliesAreTrue'
  BY DEF RepliesAreTrue, InDatabase
<1>7. AbandonedIsLast'
  BY DEF AbandonedIsLast
<1> QED
  BY <1>1, <1>3, <1>4, <1>5, <1>6, <1>7
     DEF ChannelInOrder, RequestsAreOlder, AckedIsStored, InDatabase

-----------------------------------------------------------------------------
(* A handler ends, with a response of a class that is true of its batch.   *)
LEMMA RespondStep ==
  ASSUME AgentInv, NEW r \in Request, NEW class \in {"2xx", "4xx", "5xx"},
         Respond(r, class),
         class = "2xx" => r[1] \in InDatabase,
         class = "4xx" => r[1] \in Invalid \/ tokenExpired
  PROVE  AgentInv'
<1> USE DEF AgentInv, Respond, agentVars, historyVars
<1>1. PipelineType'
  BY RespondType
<1>2. RepliesAreTrue'
  BY DEF RepliesAreTrue, InDatabase
<1>3. Pending' = Pending /\ InSend' = InSend
  BY DEF Pending, Queued, InSend
<1> QED
  BY <1>1, <1>2, <1>3
     DEF ChannelInOrder, RequestsAreOlder, RequestsHaveABatch,
         EachIsAccountedFor, AckedIsStored, InDatabase, DiscardedByTokenIsLast,
         AbandonedIsLast

(* Every step of a handler.                                                *)
LEMMA ServerStep ==
  ASSUME AgentInv, NEW r \in Request, Server(r)
  PROVE  AgentInv'
<1> USE DEF AgentInv, agentVars, historyVars
<1>1. PipelineType'
  BY ServerType
<1>2. CASE HandlerAdmits(r)
  BY <1>1, <1>2
     DEF HandlerAdmits, ChannelInOrder, RequestsAreOlder, RequestsHaveABatch,
         EachIsAccountedFor, AckedIsStored, InDatabase, RepliesAreTrue,
         DiscardedByTokenIsLast, AbandonedIsLast, Pending, Queued, InSend
<1>3. CASE HandlerInserts(r)
  <2>1. InDatabase \subseteq InDatabase'
    BY <1>3 DEF HandlerInserts, InDatabase
  <2>2. r \in running
    BY <1>3 DEF HandlerInserts, PipelineType, TypeOK
  <2> QED
    BY <1>1, <1>3, <2>1, <2>2
       DEF HandlerInserts, ChannelInOrder, RequestsAreOlder, RequestsHaveABatch,
           EachIsAccountedFor, AckedIsStored, RepliesAreTrue,
           DiscardedByTokenIsLast, AbandonedIsLast, Pending, Queued, InSend
<1>4. CASE HandlerDies(r)
  BY <1>1, <1>4
     DEF HandlerDies, ChannelInOrder, RequestsAreOlder, RequestsHaveABatch,
         EachIsAccountedFor, AckedIsStored, InDatabase, RepliesAreTrue,
         DiscardedByTokenIsLast, AbandonedIsLast, Pending, Queued, InSend
<1>5. CASE HandlerUnauthorized(r)
  BY <1>5, RespondStep DEF HandlerUnauthorized
<1>6. CASE HandlerRefuses(r)
  BY <1>6, RespondStep DEF HandlerRefuses, Valid
<1>7. CASE HandlerAccepts(r)
  BY <1>7, RespondStep DEF HandlerAccepts, InDatabase
<1>8. CASE HandlerFails(r)
  BY <1>8, RespondStep DEF HandlerFails
<1> QED
  BY <1>2, <1>3, <1>4, <1>5, <1>6, <1>7, <1>8 DEF Server

-----------------------------------------------------------------------------
(* Every step keeps the invariant.                                         *)
LEMMA NextAgent == AgentInv /\ [Next]_vars => AgentInv'
<1> SUFFICES ASSUME AgentInv, [Next]_vars PROVE AgentInv'
  OBVIOUS
<1>1. CASE Collect
  BY <1>1, CollectStep
<1>2. CASE Receive
  BY <1>2, ReceiveStep
<1>3. CASE ReceiveUnencodable
  BY <1>3, UnencodableStep
<1>4. CASE SleepCancelled
  BY <1>4, SleepCancelledStep
<1>5. CASE Post
  BY <1>5, PostStep
<1>6. CASE AttemptFails \/ AnsweredServerError
  BY <1>6, RetryStep
<1>7. CASE AnsweredOK
  BY <1>7, AnsweredOKStep
<1>8. CASE AnsweredRejected
  BY <1>8, AnsweredRejectedStep
<1>9. ASSUME NEW r \in Request, Server(r) PROVE AgentInv'
  BY <1>9, ServerStep
<1>10. CASE \/ CollectStops \/ RangeEnds \/ SleepEnds
            \/ Cancel \/ TokenExpires \/ UNCHANGED vars
  <2>1. PipelineType'
    BY <1>10, NextType DEF AgentInv, Next, Agent
  <2>2. /\ UNCHANGED <<collected, batches, batch, reply, running, admitted,
                       stored>>
        /\ UNCHANGED historyVars
        /\ tokenExpired => tokenExpired'
        /\ sendPC' = sendPC \/ sendPC \in {"receive", "sleep"}
        /\ InSend' = InSend
    <3> USE DEF agentVars, serverVars, historyVars, InSend
    <3>1. CASE CollectStops
      BY <3>1 DEF CollectStops
    <3>2. CASE RangeEnds
      BY <3>2 DEF RangeEnds
    <3>3. CASE SleepEnds
      BY <3>3 DEF SleepEnds
    <3>4. CASE Cancel \/ TokenExpires \/ UNCHANGED vars
      BY <3>4 DEF Cancel, TokenExpires, vars
    <3> QED
      BY <1>10, <3>1, <3>2, <3>3, <3>4
  <2>3. RepliesAreTrue'
    BY <2>2 DEF AgentInv, RepliesAreTrue, InDatabase
  <2>4. AbandonedIsLast'
    BY <2>2 DEF AgentInv, AbandonedIsLast, historyVars
  <2> QED
    BY <2>1, <2>2, <2>3, <2>4
       DEF AgentInv, ChannelInOrder, RequestsAreOlder, RequestsHaveABatch,
           EachIsAccountedFor, AckedIsStored, InDatabase,
           DiscardedByTokenIsLast, Pending, Queued, historyVars
<1> QED
  BY <1>1, <1>2, <1>3, <1>4, <1>5, <1>6, <1>7, <1>8, <1>9, <1>10
     DEF Next, Agent

LEMMA SpecAgent == Spec => []AgentInv
  BY InitAgent, NextAgent, PTL DEF Spec

(* A younger batch in the database was sent after every older one had been *)
(* settled, and neither the token nor the shutdown can have settled it.    *)
LEMMA InvNoOvertaking == AgentInv => NoOvertaking
<1> SUFFICES ASSUME AgentInv, NEW r \in stored, NEW b \in 1..(r[1] - 1)
             PROVE  b \in InDatabase \cup dropped \cup Invalid \cup Unencodable
  BY DEF NoOvertaking, InDatabase
<1> USE DEF AgentInv
<1>1. /\ r[1] \in Nat /\ batch \in Nat /\ collected \in Nat
      /\ r[1] <= batch /\ batch <= collected
      /\ b \in 1..collected /\ b < r[1]
  BY DEF PipelineType, TypeOK, Request, Batch, RequestsAreOlder, ChannelInOrder
<1>2. b \notin Queued
  BY <1>1 DEF Queued, ChannelInOrder
<1>3. b \notin InSend
  BY <1>1 DEF InSend
<1>4. b \in acked \cup dropped \cup discarded \cup abandoned
  BY <1>1, <1>2, <1>3 DEF EachIsAccountedFor, Pending
<1>5. b \notin abandoned
  BY <1>1 DEF AbandonedIsLast
<1>6. b \in discarded => b \in Invalid \cup Unencodable
  BY <1>1 DEF DiscardedByTokenIsLast
<1> QED
  BY <1>4, <1>5, <1>6 DEF AckedIsStored

(* Theorem: no younger batch ever overtakes one that could be stored,      *)
(* whatever late handlers, retries, an expiring token and a shutdown do.   *)
THEOREM StoredInOrder == Spec => []NoOvertaking
  BY SpecAgent, InvNoOvertaking, PTL

(* Theorem: no batch disappears silently, and Send never reports success   *)
(* too early.  Each batch collected still waits, or is one the database    *)
(* holds, or was dropped, discarded or abandoned, which the agent logs.    *)
THEOREM NothingLostSilently ==
  Spec => [](\A b \in 1..collected :
     b \in Pending \cup InDatabase \cup dropped \cup discarded \cup abandoned)
<1>1. AgentInv => \A b \in 1..collected :
        b \in Pending \cup InDatabase \cup dropped \cup discarded \cup abandoned
  BY DEF AgentInv, EachIsAccountedFor, AckedIsStored
<1> QED
  BY <1>1, SpecAgent, PTL

-----------------------------------------------------------------------------
(* The refinement.  The outbox is the batch in Send, if there is one,      *)
(* before the channel.                                                     *)
Waiting == IF sendPC \in {"sleep", "do", "wait"} THEN <<batch>> \o batches
                                                 ELSE batches

(* A sequence with a batch before it, as head, tail and longer sequence.   *)
LEMMA BatchBefore ==
  ASSUME NEW q \in Seq(Batch), NEW b \in Batch
  PROVE  /\ <<b>> \o q # <<>>
         /\ Head(<<b>> \o q) = b
         /\ Tail(<<b>> \o q) = q
         /\ Len(<<b>> \o q) = Len(q) + 1
         /\ \A c \in Batch : <<b>> \o Append(q, c) = Append(<<b>> \o q, c)
<1>1. <<b>> \in Seq(Batch) /\ Len(<<b>>) = 1 /\ Len(q) \in Nat
  OBVIOUS
<1>2. /\ <<b>> \o q \in Seq(Batch)
      /\ Len(<<b>> \o q) = Len(q) + 1
      /\ \A i \in 1..(Len(q) + 1) :
           (<<b>> \o q)[i] = IF i <= 1 THEN b ELSE q[i - 1]
  BY <1>1, ConcatProperties
<1>3. <<b>> \o q # <<>>
  BY <1>1, <1>2, EmptySeq
<1>4. Head(<<b>> \o q) = b
  BY <1>1, <1>2, <1>3, TailOfChannel
<1>5. Tail(<<b>> \o q) = q
  <2>1. /\ Tail(<<b>> \o q) \in Seq(Batch)
        /\ Len(Tail(<<b>> \o q)) = Len(q)
        /\ \A i \in 1..Len(q) : Tail(<<b>> \o q)[i] = (<<b>> \o q)[i + 1]
    BY <1>1, <1>2, <1>3, HeadTailProperties
  <2>2. \A i \in 1..Len(q) : (<<b>> \o q)[i + 1] = q[i]
    BY <1>1, <1>2
  <2> QED
    BY <2>1, <2>2, SeqEqual
<1>6. ASSUME NEW c \in Batch
      PROVE  <<b>> \o Append(q, c) = Append(<<b>> \o q, c)
  <2>1. <<c>> \in Seq(Batch)
    OBVIOUS
  <2>2. <<b>> \o (q \o <<c>>) = (<<b>> \o q) \o <<c>>
    BY <1>1, <2>1, ConcatAssociative
  <2> QED
    BY <1>2, <2>2, AppendIsConcat
<1> QED
  BY <1>2, <1>3, <1>4, <1>5, <1>6

(* Moving the head of the channel into Send changes nothing in the outbox. *)
LEMMA HeadBeforeTail ==
  ASSUME NEW q \in Seq(Batch), q # <<>>
  PROVE  <<Head(q)>> \o Tail(q) = q
<1>1. /\ Head(q) \in Batch /\ Head(q) = q[1]
      /\ Tail(q) \in Seq(Batch) /\ Len(Tail(q)) = Len(q) - 1
      /\ Len(q) \in Nat \ {0}
      /\ \A i \in 1..Len(Tail(q)) : Tail(q)[i] = q[i + 1]
  BY TailOfChannel, HeadTailProperties
<1>2. <<Head(q)>> \in Seq(Batch) /\ Len(<<Head(q)>>) = 1
  BY <1>1
<1>3. /\ <<Head(q)>> \o Tail(q) \in Seq(Batch)
      /\ Len(<<Head(q)>> \o Tail(q)) = Len(q)
      /\ \A i \in 1..Len(q) :
           (<<Head(q)>> \o Tail(q))[i] = IF i <= 1 THEN Head(q) ELSE Tail(q)[i - 1]
  BY <1>1, <1>2, ConcatProperties
<1>4. \A i \in 1..Len(q) : (<<Head(q)>> \o Tail(q))[i] = q[i]
  <2> SUFFICES ASSUME NEW i \in 1..Len(q)
               PROVE  (<<Head(q)>> \o Tail(q))[i] = q[i]
    OBVIOUS
  <2>1. CASE i = 1
    BY <1>1, <1>3, <2>1
  <2>2. CASE i # 1
    <3>1. i - 1 \in 1..Len(Tail(q)) /\ ~(i <= 1) /\ (i - 1) + 1 = i
      BY <1>1, <2>2
    <3> QED
      BY <1>1, <1>3, <3>1
  <2> QED
    BY <2>1, <2>2
<1> QED
  BY <1>3, <1>4, SeqEqual

(* A tick offers a batch.  The buffer is full when BufSize batches wait    *)
(* behind the one in Send, or when none is in Send.                        *)
LEMMA CollectOffers == PipelineType /\ Collect => Out!Offer
<1> SUFFICES ASSUME PipelineType, Collect PROVE Out!Offer
  OBVIOUS
<1> USE DEF PipelineType, TypeOK, Collect, serverVars
<1>1. collected' \in Batch /\ collected' = collected + 1
  BY AgentAssumption DEF Batch
<1>2. /\ batches \in Seq(Batch) /\ Len(batches) \in Nat /\ BufSize \in Nat
      /\ sendPC \in {"sleep", "do", "wait"} => batch \in Batch
  BY AgentAssumption DEF InSend
<1>3. Len(Waiting) \in {Len(batches), Len(batches) + 1}
  BY <1>2, BatchBefore DEF Waiting
<1>4. batches' = Append(batches, collected') => Waiting' = Append(Waiting, collected')
  BY <1>1, <1>2, BatchBefore DEF Waiting
<1>5. batches' = batches => Waiting' = Waiting
  BY DEF Waiting
<1>6. \/ /\ Len(Waiting) <= BufSize
         /\ Waiting' = Append(Waiting, collected')
         /\ UNCHANGED dropped
      \/ /\ Len(Waiting) >= BufSize
         /\ dropped' = dropped \cup {collected'}
         /\ UNCHANGED Waiting
  BY <1>2, <1>3, <1>4, <1>5
<1>7. UNCHANGED <<InDatabase, discarded \cup abandoned>>
  BY DEF InDatabase
<1> QED
  BY <1>6, <1>7 DEF Out!Offer, Waiting

(* Leaving Send settles the head of the outbox.                            *)
LEMMA LeavingSend ==
  ASSUME PipelineType, sendPC \in {"sleep", "do", "wait"},
         sendPC' \notin {"sleep", "do", "wait"}, batches' = batches
  PROVE  /\ Waiting # <<>> /\ Head(Waiting) = batch
         /\ Waiting' = Tail(Waiting)
<1>1. batches \in Seq(Batch) /\ batch \in Batch
  BY DEF PipelineType, TypeOK, InSend
<1> QED
  BY <1>1, BatchBefore DEF Waiting

(* What a POST stores is the head of the outbox, or what already left it.  *)
LEMMA InsertStores ==
  ASSUME AgentInv, NEW r \in Request, HandlerInserts(r)
  PROVE  Out!Store \/ Out!StoreLate \/ UNCHANGED Out!vars
<1> USE DEF AgentInv, HandlerInserts, agentVars, historyVars
<1>1. r \in running
  BY DEF PipelineType, TypeOK
<1>2. InDatabase' = InDatabase \cup {r[1]}
  BY DEF InDatabase
<1>3. Waiting' = Waiting
  BY DEF Waiting
<1>4. CASE r[1] \in InSend
  <2>1. sendPC \in {"sleep", "do", "wait"} /\ r[1] = batch
    BY <1>4 DEF InSend
  <2>2. Waiting # <<>> /\ Head(Waiting) = r[1]
    BY <2>1, BatchBefore DEF Waiting, PipelineType, TypeOK, InSend
  <2> QED
    BY <1>2, <1>3, <2>2 DEF Out!Store, Waiting
<1>5. CASE r[1] \in acked
  BY <1>2, <1>3, <1>5 DEF AckedIsStored, Out!vars, Waiting
<1>6. CASE r[1] \in discarded \cup abandoned
  BY <1>2, <1>3, <1>6 DEF Out!StoreLate, Waiting
<1> QED
  BY <1>1, <1>4, <1>5, <1>6 DEF RequestsHaveABatch

(* Every step of the pipeline is a step of the outbox or invisible to it.  *)
LEMMA StepOutbox == AgentInv /\ [Next]_vars => [Out!Next]_(Out!vars)
<1> SUFFICES ASSUME AgentInv, [Next]_vars PROVE [Out!Next]_(Out!vars)
  OBVIOUS
<1> USE DEF agentVars, serverVars, historyVars
<1>1. PipelineType
  BY DEF AgentInv
<1>2. CASE Collect
  BY <1>1, <1>2, CollectOffers DEF Out!Next
<1>3. CASE Receive
  <2>1. Waiting' = Waiting
    BY <1>1, <1>3, HeadBeforeTail DEF Receive, Waiting, PipelineType, TypeOK
  <2> QED
    BY <1>3, <2>1 DEF Receive, Out!vars, Waiting, InDatabase
<1>4. CASE ReceiveUnencodable
  BY <1>4 DEF ReceiveUnencodable, Out!Next, Out!Refuse, InDatabase
<1>5. CASE SleepCancelled
  BY <1>1, <1>5, LeavingSend
     DEF SleepCancelled, Waiting, Out!Next, Out!Refuse, InDatabase
<1>6. CASE AnsweredRejected
  BY <1>1, <1>6, LeavingSend
     DEF AnsweredRejected, Waiting, Out!Next, Out!Refuse, InDatabase
<1>7. CASE AnsweredOK
  <2>1. batch \in InDatabase
    BY <1>7 DEF AnsweredOK, AgentInv, RepliesAreTrue
  <2> QED
    BY <1>1, <1>7, <2>1, LeavingSend
       DEF AnsweredOK, Waiting, Out!Next, Out!Confirm, InDatabase
<1>8. ASSUME NEW r \in Request, HandlerInserts(r) PROVE [Out!Next]_(Out!vars)
  BY <1>8, InsertStores DEF AgentInv, Out!Next
<1>9. ASSUME NEW r \in Request, Server(r), ~HandlerInserts(r)
      PROVE  UNCHANGED Out!vars
  BY <1>9 DEF Server, HandlerAdmits, HandlerUnauthorized, HandlerRefuses,
              HandlerAccepts, HandlerFails, HandlerDies, Respond, Out!vars,
              InDatabase
<1>10. CASE SleepEnds \/ Post \/ AttemptFails \/ AnsweredServerError
  BY <1>10 DEF SleepEnds, Post, AttemptFails, AnsweredServerError, NextAttempt,
               Out!vars, InDatabase
<1>11. CASE CollectStops \/ RangeEnds \/ Cancel \/ TokenExpires \/ UNCHANGED vars
  BY <1>11 DEF CollectStops, RangeEnds, Cancel, TokenExpires, vars, Out!vars,
               InDatabase
<1> QED
  BY <1>2, <1>3, <1>4, <1>5, <1>6, <1>7, <1>8, <1>9, <1>10, <1>11
     DEF Next, Agent

(* Theorem: the agent, its channel, its retries and the ingest handlers    *)
(* together implement the outbox: first in, first out, at least once.      *)
THEOREM AgentImplementsOutbox == Spec => ImplementsOutbox
<1>1. Init => Out!Init
  BY DEF Init, Out!Init, InDatabase
<1> QED
  BY <1>1, StepOutbox, SpecAgent, PTL DEF Spec, Out!Spec, ImplementsOutbox

-----------------------------------------------------------------------------
(* The shutdown and the losses.                                            *)

(* How far senderLoop is from its return, once ctx is done and the channel *)
(* is closed: four steps for each batch that waits, and those that the one *)
(* in Send still takes.  A pause before a retry is the last step.          *)
StepsLeft ==
  CASE sendPC = "returned"           -> 0
    [] sendPC = "receive"            -> 4 * Len(batches) + 1
    [] sendPC = "sleep" /\ Pauses    -> 4 * Len(batches) + 2
    [] sendPC \in {"do", "wait"}     -> 4 * Len(batches) + 3
    [] sendPC = "sleep" /\ ~Pauses   -> 4 * Len(batches) + 4

(* Every step of senderLoop leads it nearer to its return, and no step of  *)
(* a server, alive or dead, leads it away.                                 *)
ShutdownAdvances ==
  [][cancelled /\ collectPC = "returned" =>
       /\ cancelled' /\ collectPC' = "returned"
       /\ \/ UNCHANGED <<batches, sendPC, batch, attempt>>
          \/ StepsLeft' < StepsLeft]_vars

LEMMA StepsLeftType ==
  ASSUME PipelineType
  PROVE  StepsLeft \in Nat /\ StepsLeft <= 4 * BufSize + 4
<1>1. /\ Len(batches) \in Nat /\ Len(batches) <= BufSize /\ BufSize \in Nat
      /\ sendPC \in {"receive", "sleep", "do", "wait", "returned"}
  BY AgentAssumption, LenProperties DEF PipelineType, TypeOK
<1> QED
  BY <1>1 DEF StepsLeft

LEMMA ShutdownStep ==
  ASSUME PipelineType, [Next]_vars, cancelled, collectPC = "returned"
  PROVE  /\ cancelled' /\ collectPC' = "returned"
         /\ \/ UNCHANGED <<batches, sendPC, batch, attempt>>
            \/ StepsLeft' < StepsLeft
<1> USE DEF agentVars, serverVars, historyVars
<1>1. /\ batches \in Seq(Batch) /\ Len(batches) \in Nat
      /\ attempt \in Attempt /\ MaxAttempts \in Nat
  BY AgentAssumption, LenProperties DEF PipelineType, TypeOK
<1>2. attempt \in Nat /\ attempt <= MaxAttempts + 1
  BY <1>1 DEF Attempt
<1>3. CASE Receive \/ ReceiveUnencodable
  <2>1. /\ sendPC = "receive" /\ batches # <<>> /\ batches' = Tail(batches)
        /\ UNCHANGED <<cancelled, collectPC>>
    BY <1>3 DEF Receive, ReceiveUnencodable
  <2>2. Len(Tail(batches)) = Len(batches) - 1 /\ Len(batches) \in Nat \ {0}
    BY <1>1, <2>1, TailOfChannel
  <2>3. PICK n \in Nat : Len(batches) = n + 1 /\ Len(batches') = n
    <3> DEFINE k == Len(batches) - 1
    <3>1. k \in Nat /\ Len(batches) = k + 1 /\ Len(batches') = k
      BY <2>1, <2>2
    <3> HIDE DEF k
    <3> QED
      BY <3>1
  <2>4. StepsLeft = 4 * (n + 1) + 1
    BY <2>1, <2>3 DEF StepsLeft
  <2>5. \/ sendPC' = "returned"
        \/ sendPC' = "receive"
        \/ sendPC' = "sleep" /\ attempt' = 0
    BY <1>3 DEF Receive, ReceiveUnencodable
  <2>6. StepsLeft' \in {0, 4 * n + 1, 4 * n + 4}
    BY <2>3, <2>5 DEF StepsLeft, Pauses
  <2> QED
    BY <2>1, <2>4, <2>6
<1>4. CASE SleepEnds
  <2>1. /\ sendPC = "sleep" /\ ~Pauses /\ sendPC' = "do"
        /\ UNCHANGED <<cancelled, collectPC, batches>>
    BY <1>4 DEF SleepEnds
  <2>2. StepsLeft = 4 * Len(batches) + 4 /\ StepsLeft' = 4 * Len(batches) + 3
    BY <2>1 DEF StepsLeft
  <2> QED
    BY <1>1, <2>1, <2>2
<1>5. CASE AttemptFails \/ AnsweredServerError
  <2>1. /\ sendPC \in {"do", "wait"} /\ sendPC' = "sleep"
        /\ attempt' = IF attempt \in 0..MaxAttempts THEN attempt + 1 ELSE attempt
        /\ UNCHANGED <<cancelled, collectPC, batches>>
    BY <1>5 DEF AttemptFails, AnsweredServerError, NextAttempt
  <2>2. Pauses'
    <3>1. attempt' \in Nat /\ attempt' > 0
      BY <1>1, <1>2, <2>1
    <3> QED
      BY <3>1 DEF Pauses
  <2>3. StepsLeft = 4 * Len(batches) + 3 /\ StepsLeft' = 4 * Len(batches) + 2
    BY <2>1, <2>2 DEF StepsLeft
  <2> QED
    BY <1>1, <2>1, <2>3
<1>6. CASE AnsweredOK \/ AnsweredRejected
  <2>1. /\ sendPC = "wait" /\ sendPC' \in {"receive", "returned"}
        /\ UNCHANGED <<cancelled, collectPC, batches>>
    BY <1>6 DEF AnsweredOK, AnsweredRejected
  <2>2. /\ StepsLeft = 4 * Len(batches) + 3
        /\ StepsLeft' \in {0, 4 * Len(batches) + 1}
    BY <2>1 DEF StepsLeft
  <2> QED
    BY <1>1, <2>1, <2>2
<1>7. CASE SleepCancelled \/ RangeEnds
  <2>1. /\ \/ sendPC = "receive"
           \/ sendPC = "sleep" /\ Pauses
        /\ sendPC' = "returned"
        /\ UNCHANGED <<cancelled, collectPC, batches>>
    BY <1>7 DEF SleepCancelled, RangeEnds
  <2>2. /\ StepsLeft \in {4 * Len(batches) + 1, 4 * Len(batches) + 2}
        /\ StepsLeft' = 0
    BY <2>1 DEF StepsLeft
  <2> QED
    BY <1>1, <2>1, <2>2
<1>8. ASSUME NEW r \in Request, Server(r)
      PROVE  UNCHANGED <<cancelled, collectPC, batches, sendPC, batch, attempt>>
  BY <1>8 DEF Server, HandlerAdmits, HandlerUnauthorized, HandlerRefuses,
              HandlerInserts, HandlerAccepts, HandlerFails, HandlerDies, Respond
<1>9. CASE TokenExpires \/ UNCHANGED vars
  BY <1>9 DEF TokenExpires, vars
<1>10. ~Collect /\ ~CollectStops /\ ~Cancel /\ ~Post
  BY DEF Collect, CollectStops, Cancel, Post
<1> QED
  BY <1>3, <1>4, <1>5, <1>6, <1>7, <1>8, <1>9, <1>10 DEF Next, Agent

(* Theorem: after SIGTERM, senderLoop is at most StepsLeft steps from its  *)
(* return, 4 * BufSize + 4 at most, whatever the server does meanwhile: no *)
(* retry goes on for ever.  With the fairness of the goroutine this is     *)
(* what RunReturns promises (senderLoop and sleepFn in Send).              *)
THEOREM ShutdownTerminates ==
  Spec => /\ [](StepsLeft \in Nat /\ StepsLeft <= 4 * BufSize + 4)
          /\ ShutdownAdvances
<1>1. PipelineType => StepsLeft \in Nat /\ StepsLeft <= 4 * BufSize + 4
  BY StepsLeftType
<1>2. PipelineType /\ [Next]_vars =>
        [cancelled /\ collectPC = "returned" =>
           /\ cancelled' /\ collectPC' = "returned"
           /\ \/ UNCHANGED <<batches, sendPC, batch, attempt>>
              \/ StepsLeft' < StepsLeft]_vars
  BY ShutdownStep
<1>3. AgentInv => PipelineType
  BY DEF AgentInv
<1> QED
  BY <1>1, <1>2, <1>3, SpecAgent, PTL DEF Spec, ShutdownAdvances

(* What is answered with a 4xx is malformed, as docs/internals.md:388 has  *)
(* it, until the token has expired; and a batch lost to an expired token   *)
(* is the end: nothing younger is in the database, or ever gets there.     *)
DiscardIsExplained ==
  \A b \in discarded :
     \/ b \in Invalid \cup Unencodable
     \/ /\ tokenExpired
        /\ \A c \in InDatabase : c <= b

(* Theorem: how far the sentence of the docs that the run Agent_discard    *)
(* refutes is true (senderLoop, and the token that cmd/agent/main.go mints *)
(* once, at start-up).                                                     *)
THEOREM DiscardsAreExplained == Spec => []DiscardIsExplained
<1>1. AgentInv => DiscardIsExplained
  BY DEF AgentInv, DiscardedByTokenIsLast, DiscardIsExplained, InDatabase
<1> QED
  BY <1>1, SpecAgent, PTL
=============================================================================
