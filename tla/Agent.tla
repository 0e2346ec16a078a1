-------------------------------- MODULE Agent --------------------------------
(***************************************************************************)
(* The metric path from an agent into the database: the collect and sender *)
(* goroutines of agent.Run and the channel between them                    *)
(* (internal/agent/agent.go), the retry loop of HTTPSender.Send            *)
(* (internal/agent/sender/sender.go), and the ingest handler that serves   *)
(* each POST (internal/server/api/metrics.go).                             *)
(*                                                                         *)
(* Batches are numbered in the order of their collection, and a request is *)
(* the pair <<batch, attempt>>.  A request whose client gave up (timeout,  *)
(* lost response, cancelled context) may still be running on the server    *)
(* beside a later attempt: every attempt has a handler of its own.         *)
(***************************************************************************)
EXTENDS Integers, Sequences

CONSTANTS
  BufSize,     \* capacity of the channel a.batches
  Unencodable, \* batches with a value that json.Marshal refuses (NaN, Inf)
  Invalid,     \* batches that MetricBatch.Validate or the size limit refuses
  Poison,      \* batches the storage fails to insert, whatever the attempt
  MaxBatches,  \* BOUND: batches collected
  MaxAttempts  \* BOUND: attempts of one batch that the environment may spoil

Batch == 1..MaxBatches

(* agent.New replaces a BufSize that is not positive by 10.                *)
ASSUME AgentAssumption ==
  /\ BufSize \in Nat \ {0}
  /\ MaxBatches \in Nat
  /\ MaxAttempts \in Nat
  /\ Unencodable \subseteq Batch
  /\ Invalid \subseteq Batch
  /\ Poison \subseteq Batch

(* After a cancellation one more attempt fails at once, beyond the bound.  *)
Attempt == 0..(MaxAttempts + 1)

Request == Batch \X Attempt

VARIABLES
  collected,    \* number of batches collected so far
  collectPC,    \* the goroutine of collectLoop
  batches,      \* the channel; closed when collectLoop has returned
  cancelled,    \* SIGTERM was received: ctx is done
  sendPC,       \* the goroutine of senderLoop, inside Send unless "receive"
  batch,        \* the batch Send works on
  attempt,      \* its attempt counter
  reply,        \* class of the response to the current attempt, once written
  running,      \* requests whose handler runs on the server
  admitted,     \* those that passed the token check and validation
  stored,       \* requests whose insert was committed: one copy of the batch each
  tokenExpired, \* the JWT minted at start-up is older than 24 hours
  acked,        \* history: batches whose Send returned nil
  dropped,      \* history: batches that found the channel full
  discarded,    \* history: batches answered with a 4xx status, or not encodable
  abandoned     \* history: the batch in Send when the sender gave up

agentVars   == <<collected, collectPC, batches, sendPC, batch, attempt>>
serverVars  == <<running, admitted, stored, tokenExpired>>
historyVars == <<acked, dropped, discarded, abandoned>>
vars == <<collected, collectPC, batches, cancelled, sendPC, batch, attempt,
          reply, running, admitted, stored, tokenExpired, acked, dropped,
          discarded, abandoned>>

Init ==
  /\ collected = 0
  /\ collectPC = "running"
  /\ batches = <<>>
  /\ cancelled = FALSE
  /\ sendPC = "receive"
  /\ batch = 0
  /\ attempt = 0
  /\ reply = "none"
  /\ running = {}
  /\ admitted = {}
  /\ stored = {}
  /\ tokenExpired = FALSE
  /\ acked = {}
  /\ dropped = {}
  /\ discarded = {}
  /\ abandoned = {}

-----------------------------------------------------------------------------
(* collectLoop                                                             *)

(* Bug: the buffer is one longer than BufSize.                             *)
CollectOverfills ==
  /\ collectPC = "running"
  /\ collected < MaxBatches
  /\ collected' = collected + 1
  /\ Len(batches) <= BufSize
  /\ batches' = Append(batches, collected')
  /\ UNCHANGED <<dropped, collectPC, cancelled, sendPC, batch, attempt, reply,
                 serverVars, acked, discarded, abandoned>>

(* A tick with metrics: the send on the channel never blocks.  When the    *)
(* context is done and a tick is ready too, select may choose the tick.    *)
Collect ==
  /\ collectPC = "running"
  /\ collected < MaxBatches
  /\ collected' = collected + 1
  /\ \/ /\ Len(batches) < BufSize
        /\ batches' = Append(batches, collected')
        /\ UNCHANGED dropped
     \/ /\ Len(batches) = BufSize
        /\ dropped' = dropped \cup {collected'}
        /\ UNCHANGED batches
  /\ UNCHANGED <<collectPC, cancelled, sendPC, batch, attempt, reply,
                 serverVars, acked, discarded, abandoned>>

(* ctx is done: the loop returns and the deferred close runs.              *)
CollectStops ==
  /\ collectPC = "running"
  /\ cancelled
  /\ collectPC' = "returned"
  /\ UNCHANGED <<collected, batches, cancelled, sendPC, batch, attempt,
                 reply, serverVars, historyVars>>

Cancel ==
  /\ ~cancelled
  /\ cancelled' = TRUE
  /\ UNCHANGED <<agentVars, reply, serverVars, historyVars>>

-----------------------------------------------------------------------------
(* senderLoop and Send                                                     *)

(* The range loop takes the oldest batch and enters Send.                  *)
Receive ==
  /\ sendPC = "receive"
  /\ batches # <<>>
  /\ Head(batches) \notin Unencodable
  /\ batch' = Head(batches)
  /\ batches' = Tail(batches)
  /\ attempt' = 0
  /\ sendPC' = "sleep"
  /\ UNCHANGED <<collected, collectPC, cancelled, reply, serverVars,
                 historyVars>>

(* json.Marshal fails: Send returns a permanentError without an attempt.   *)
ReceiveUnencodable ==
  /\ sendPC = "receive"
  /\ batches # <<>>
  /\ Head(batches) \in Unencodable
  /\ batches' = Tail(batches)
  /\ discarded' = discarded \cup {Head(batches)}
  /\ sendPC' = IF cancelled THEN "returned" ELSE "receive"
  /\ UNCHANGED <<collected, collectPC, cancelled, batch, attempt, reply,
                 serverVars, acked, dropped, abandoned>>

(* The channel is closed and empty.                                        *)
RangeEnds ==
  /\ sendPC = "receive"
  /\ batches = <<>>
  /\ collectPC = "returned"
  /\ sendPC' = "returned"
  /\ UNCHANGED <<collected, collectPC, batches, cancelled, batch, attempt,
                 reply, serverVars, historyVars>>

(* Bug: the pause between attempts ignores the context.                    *)
SleepEndsAnyway ==
  /\ sendPC = "sleep"
  /\ sendPC' = "do"
  /\ UNCHANGED <<collected, collectPC, batches, cancelled, batch, attempt,
                 reply, serverVars, historyVars>>

(* waitFor: no pause before the first attempt, a positive one before each  *)
(* other (its length is in no property).                                   *)
Pauses == attempt > 0

(* sleepFn returns nil: at once without a pause, even if the context is    *)
(* done, else when the timer fires first.                                  *)
SleepEnds ==
  /\ sendPC = "sleep"
  /\ ~Pauses \/ ~cancelled
  /\ sendPC' = "do"
  /\ UNCHANGED <<collected, collectPC, batches, cancelled, batch, attempt,
                 reply, serverVars, historyVars>>

(* sleepFn returns ctx.Err(): so does Send, and senderLoop returns with    *)
(* whatever is left in the channel.                                        *)
SleepCancelled ==
  /\ sendPC = "sleep"
  /\ Pauses
  /\ cancelled
  /\ abandoned' = abandoned \cup {batch}
  /\ sendPC' = "returned"
  /\ UNCHANGED <<collected, collectPC, batches, cancelled, batch, attempt,
                 reply, serverVars, acked, dropped, discarded>>

(* client.Do sends the request and waits; with a context already done it   *)
(* sends nothing and fails (AttemptFails).                                 *)
Post ==
  /\ sendPC = "do"
  /\ ~cancelled
  /\ running' = running \cup {<<batch, attempt>>}
  /\ reply' = "none"
  /\ sendPC' = "wait"
  /\ UNCHANGED <<collected, collectPC, batches, cancelled, batch, attempt,
                 admitted, stored, tokenExpired, historyVars>>

(* Only attempt 0 and the identity of an attempt matter: the counter stops *)
(* at the bound.                                                           *)
NextAttempt ==
  /\ attempt' = IF attempt \in 0..MaxAttempts THEN attempt + 1 ELSE attempt
  /\ reply' = "none"
  /\ sendPC' = "sleep"
  /\ UNCHANGED <<collected, collectPC, batches, cancelled, batch, serverVars,
                 historyVars>>

(* client.Do fails: connection refused, response lost, the 10s timeout of  *)
(* the client, or the context.  The handler, if any, runs on.              *)
AttemptFails ==
  /\ sendPC \in {"do", "wait"}
  /\ cancelled \/ attempt < MaxAttempts
  /\ NextAttempt

(* Bug: Send gives up after a 5xx, and senderLoop goes on.                 *)
ServerErrorGivesUp ==
  /\ sendPC = "wait"
  /\ reply = "5xx"
  /\ reply' = "none"
  /\ sendPC' = "receive"
  /\ UNCHANGED <<collected, collectPC, batches, cancelled, batch, attempt,
                 serverVars, historyVars>>

(* Bug: a batch answered with a 5xx goes back to the end of the channel.   *)
ServerErrorRequeues ==
  /\ sendPC = "wait"
  /\ reply = "5xx"
  /\ Len(batches) < BufSize
  /\ batches' = Append(batches, batch)
  /\ reply' = "none"
  /\ sendPC' = "receive"
  /\ UNCHANGED <<collected, collectPC, cancelled, batch, attempt, serverVars,
                 historyVars>>

AnsweredServerError ==
  /\ sendPC = "wait"
  /\ reply = "5xx"
  /\ NextAttempt

(* Send returns nil and the range loop goes on, even after cancellation.   *)
AnsweredOK ==
  /\ sendPC = "wait"
  /\ reply = "2xx"
  /\ acked' = acked \cup {batch}
  /\ sendPC' = "receive"
  /\ reply' = "none"
  /\ UNCHANGED <<collected, collectPC, batches, cancelled, batch, attempt,
                 serverVars, dropped, discarded, abandoned>>

(* Send returns a permanentError; senderLoop logs it and goes on, unless   *)
(* the context is done.                                                    *)
AnsweredRejected ==
  /\ sendPC = "wait"
  /\ reply = "4xx"
  /\ discarded' = discarded \cup {batch}
  /\ sendPC' = IF cancelled THEN "returned" ELSE "receive"
  /\ reply' = "none"
  /\ UNCHANGED <<collected, collectPC, batches, cancelled, batch, attempt,
                 serverVars, acked, dropped, abandoned>>

-----------------------------------------------------------------------------
(* The server: one handler per request                                     *)

(* The handler writes a response: the client sees it if it still waits for *)
(* this very attempt.                                                      *)
Respond(r, class) ==
  /\ r \in running
  /\ running' = running \ {r}
  /\ admitted' = admitted \ {r}
  /\ reply' = IF sendPC = "wait" /\ r = <<batch, attempt>> THEN class ELSE reply
  /\ UNCHANGED <<agentVars, cancelled, stored, tokenExpired, historyVars>>

(* MetricBatch.Validate: host, names, times, finite values, labels; an     *)
(* empty batch and one of more than maxBatchSize count as invalid too.     *)
Valid(b) == b \notin Invalid

(* JWTMiddleware and the checks of HandleIngest let the request through.   *)
HandlerAdmits(r) ==
  /\ r \in running \ admitted
  /\ ~tokenExpired
  /\ Valid(r[1])
  /\ admitted' = admitted \cup {r}
  /\ UNCHANGED <<agentVars, cancelled, reply, running, stored, tokenExpired,
                 historyVars>>

(* JWTMiddleware finds the token expired and answers 401.                  *)
HandlerUnauthorized(r) ==
  /\ r \notin admitted
  /\ tokenExpired
  /\ Respond(r, "4xx")

(* HandleIngest answers 400, before any insert.                            *)
HandlerRefuses(r) ==
  /\ r \notin admitted
  /\ ~Valid(r[1])
  /\ Respond(r, "4xx")

(* repo.Insert commits the batch; nothing makes it unique.                 *)
HandlerInserts(r) ==
  /\ r \in admitted \ stored
  /\ r[1] \notin Poison
  /\ stored' = stored \cup {r}
  /\ UNCHANGED <<agentVars, cancelled, reply, running, admitted, tokenExpired,
                 historyVars>>

HandlerAccepts(r) ==
  /\ r \in admitted \cap stored
  /\ Respond(r, "2xx")

(* repo.Insert returned an error: the storage is down, it refused the      *)
(* batch, or the connection broke after the commit.                        *)
HandlerFails(r) ==
  /\ r \in admitted
  /\ r[2] < MaxAttempts \/ r[1] \in Poison
  /\ Respond(r, "5xx")

(* The server dies, or the handler is cut off: no response.                *)
HandlerDies(r) ==
  /\ r \in running
  /\ r[2] < MaxAttempts
  /\ running' = running \ {r}
  /\ admitted' = admitted \ {r}
  /\ UNCHANGED <<agentVars, cancelled, reply, stored, tokenExpired,
                 historyVars>>

(* The agent never mints a second token.                                   *)
TokenExpires ==
  /\ ~tokenExpired
  /\ tokenExpired' = TRUE
  /\ UNCHANGED <<agentVars, cancelled, reply, running, admitted, stored,
                 historyVars>>

Agent ==
  \/ Collect
  \/ CollectStops
  \/ Receive
  \/ ReceiveUnencodable
  \/ RangeEnds
  \/ SleepEnds
  \/ SleepCancelled
  \/ Post
  \/ AttemptFails
  \/ AnsweredServerError
  \/ AnsweredOK
  \/ AnsweredRejected

Server(r) ==
  \/ HandlerAdmits(r)
  \/ HandlerUnauthorized(r)
  \/ HandlerRefuses(r)
  \/ HandlerInserts(r)
  \/ HandlerAccepts(r)
  \/ HandlerFails(r)
  \/ HandlerDies(r)

Next ==
  \/ Agent
  \/ \E r \in Request : Server(r)
  \/ Cancel
  \/ TokenExpires

(* Both goroutines are scheduled; a done context and the client's timeout  *)
(* of 10s make client.Do return.                                           *)
AgentFairness ==
  /\ WF_vars(CollectStops)
  /\ WF_vars(Receive)
  /\ WF_vars(ReceiveUnencodable)
  /\ WF_vars(RangeEnds)
  /\ WF_vars(SleepEnds)
  /\ WF_vars(SleepCancelled)
  /\ WF_vars(Post)
  /\ WF_vars(AttemptFails)
  /\ WF_vars(AnsweredServerError)
  /\ WF_vars(AnsweredOK)
  /\ WF_vars(AnsweredRejected)

Spec == Init /\ [][Next]_vars

(* The agent alone is fair: the server may be gone for good.               *)
AgentSpec == Spec /\ AgentFairness

(* The handlers run; the environment spoils the first MaxAttempts attempts *)
(* of a batch at most.                                                     *)
ServerFairness == WF_vars(\E r \in Request : Server(r))

-----------------------------------------------------------------------------
(* The batches that wait in the channel, and the one in Send.              *)
Queued  == {batches[i] : i \in DOMAIN batches}
InSend  == IF sendPC \in {"sleep", "do", "wait"} THEN {batch} ELSE {}
Pending == Queued \cup InSend

(* The batches of which the database holds at least one copy.              *)
InDatabase == {r[1] : r \in stored}

(* Types; in particular the channel never holds more than BufSize.         *)
TypeOK ==
  /\ collected \in 0..MaxBatches
  /\ collectPC \in {"running", "returned"}
  /\ batches \in Seq(Batch) /\ Len(batches) <= BufSize
  /\ cancelled \in BOOLEAN
  /\ sendPC \in {"receive", "sleep", "do", "wait", "returned"}
  /\ batch \in 0..MaxBatches
  /\ attempt \in Attempt
  /\ reply \in {"none", "2xx", "4xx", "5xx"}
  /\ running \in SUBSET Request
  /\ admitted \in SUBSET running
  /\ stored \in SUBSET Request
  /\ tokenExpired \in BOOLEAN
  /\ acked \in SUBSET Batch
  /\ dropped \in SUBSET Batch
  /\ discarded \in SUBSET Batch
  /\ abandoned \in SUBSET Batch

(* The database has no unexplained hole: when it holds a batch, then every *)
(* older one is there too, or was dropped at a full channel, or is not fit *)
(* to be sent or stored.                                                   *)
(* So a late handler of an abandoned attempt never lets a younger batch    *)
(* overtake, and one that storage always refuses blocks all younger ones.  *)
NoOvertaking ==
  \A c \in InDatabase : \A b \in 1..(c - 1) :
     b \in InDatabase \cup dropped \cup Invalid \cup Unencodable

(* After SIGTERM Run returns, whatever the server does: neither a full     *)
(* channel, nor a retry loop, nor a hanging request holds wg.Wait.         *)
RunReturns == cancelled ~> collectPC = "returned" /\ sendPC = "returned"

(* When handlers run, the environment spoils at most MaxAttempts attempts  *)
(* of a batch and the agent is not stopped, a queued batch reaches the     *)
(* database or is refused with a 4xx, unless Send retries for ever a batch *)
(* that the storage never takes.                                           *)
QueuedIsDelivered ==
  ServerFairness =>
    \A b \in Batch :
      b \in Pending ~> \/ b \in acked \cup discarded
                      \/ cancelled
                      \/ InSend \cap Poison # {}

(* docs/internals.md:388, of 4xx answers: "the batch is malformed and      *)
(* retrying would produce the same result".                                *)
OnlyMalformedIsDiscarded == discarded \subseteq Invalid \cup Unencodable

-----------------------------------------------------------------------------
(* The batch in Send is the head of the outbox.                            *)
Out == INSTANCE Outbox WITH
  offered  <- collected,
  pending  <- IF sendPC \in {"sleep", "do", "wait"} THEN <<batch>> \o batches
                                                   ELSE batches,
  database <- InDatabase,
  refused  <- discarded \cup abandoned,
  lost     <- dropped

(* The pipeline implements the outbox: goroutines, retries, late handlers  *)
(* and the shutdown never reorder, skip or confirm too early.              *)
ImplementsOutbox == Out!Spec
=============================================================================
