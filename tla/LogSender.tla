------------------------------ MODULE LogSender ------------------------------
(***************************************************************************)
(* How the lines the tailer has read get into the logs table: sendChunked  *)
(* hands one chunk after the other to SendLogs (internal/agent/logtail/    *)
(* tailer.go, sender.go), which repeats a POST until the server answers,   *)
(* and each POST that arrives is served by a handler of its own            *)
(* (internal/server/api/logs.go) that inserts the chunk line by line in    *)
(* one transaction (internal/server/storage/logs.go).                      *)
(*                                                                         *)
(* Tailer has the whole of it as one step, SendChunk; here the lost        *)
(* responses, the handlers that run on beside a retry, and the ids that    *)
(* the log search sorts by are in view.  Chunks are numbered as they are   *)
(* handed over, a request is the pair <<chunk, attempt>>, and a row is     *)
(* known by its id, its position in the sequence of the id column.         *)
(***************************************************************************)
EXTENDS Integers, Sequences

CONSTANTS
  Size,        \* Size[c]: lines of chunk c, at most maxBatchSize
  Invalid,     \* chunks with a line that LogEntry.Validate refuses
  Poison,      \* chunks with a line the storage refuses, as one with a NUL
  MaxChunks,   \* BOUND: chunks
  Spoiled      \* BOUND: attempts at chunk c that the environment may spoil

Chunk == 1..MaxChunks

ASSUME LogSenderAssumption ==
  /\ MaxChunks \in Nat
  /\ Invalid \subseteq Chunk
  /\ Poison \subseteq Chunk
  /\ Size \in [Chunk -> Nat \ {0}]
  /\ Spoiled \in [Chunk -> Nat]

Attempt(c) == 0..(Spoiled[c] + 1)
Request == UNION {{c} \X Attempt(c) : c \in Chunk}
Line    == UNION {{c} \X (1..Size[c]) : c \in Chunk}

VARIABLES
  chunk,     \* the chunk handed to SendLogs last
  pc,        \* "idle" outside SendLogs, else "sleep", "do" or "wait"
  attempt,   \* its attempt counter
  cancelled, \* ctx is done
  reply,     \* class of the response to the current attempt, once written
  running,   \* requests whose handler runs on the server
  drawn,     \* request and line of each row, in the order of the ids
  committed, \* requests whose transaction was committed
  givenUp    \* history: chunks whose SendLogs returned an error

senderVars == <<chunk, pc, attempt>>
serverVars == <<running, drawn, committed>>
vars == <<chunk, pc, attempt, cancelled, reply, running, drawn, committed,
          givenUp>>

Init ==
  /\ chunk = 0
  /\ pc = "idle"
  /\ attempt = 0
  /\ cancelled = FALSE
  /\ reply = "none"
  /\ running = {}
  /\ drawn = <<>>
  /\ committed = {}
  /\ givenUp = {}

-----------------------------------------------------------------------------
(* sendChunked and SendLogs                                                *)

(* Bug: each chunk is sent by a goroutine of its own.                      *)
NextChunkOverlaps ==
  /\ pc \in {"idle", "wait"}
  /\ chunk < MaxChunks
  /\ chunk' = chunk + 1
  /\ pc' = "sleep"
  /\ UNCHANGED <<attempt, cancelled, reply, serverVars, givenUp>>

(* The next chunk, of this read or of a later one.  After an error the     *)
(* rest of a read is sent all the same, unless the context is done.        *)
NextChunk ==
  /\ pc = "idle"
  /\ chunk < MaxChunks
  /\ chunk' = chunk + 1
  /\ pc' = "sleep"
  /\ UNCHANGED <<attempt, cancelled, reply, serverVars, givenUp>>

(* logWaitFor: no pause before the first attempt, a positive one before    *)
(* each other; its length is in no property.                               *)
Pauses == attempt > 0

(* Bug: the pause ignores the context.                                     *)
SleepEndsAnyway ==
  /\ pc = "sleep"
  /\ pc' = "do"
  /\ UNCHANGED <<chunk, attempt, cancelled, reply, serverVars, givenUp>>

(* sleepFn looks at the context only if there is a pause.                  *)
SleepEnds ==
  /\ pc = "sleep"
  /\ ~Pauses \/ ~cancelled
  /\ pc' = "do"
  /\ UNCHANGED <<chunk, attempt, cancelled, reply, serverVars, givenUp>>

(* sleepFn returns ctx.Err(), and so does SendLogs.                        *)
SleepCancelled ==
  /\ pc = "sleep"
  /\ Pauses
  /\ cancelled
  /\ givenUp' = givenUp \cup {chunk}
  /\ pc' = "idle"
  /\ attempt' = 0
  /\ UNCHANGED <<chunk, cancelled, reply, serverVars>>

(* client.Do; with a context that is done it sends nothing (AttemptFails). *)
Post ==
  /\ pc = "do"
  /\ ~cancelled
  /\ running' = running \cup {<<chunk, attempt>>}
  /\ reply' = "none"
  /\ pc' = "wait"
  /\ UNCHANGED <<chunk, attempt, cancelled, drawn, committed, givenUp>>

(* The counter stops at the bound: only attempt 0 and identities matter.   *)
Continue ==
  /\ attempt' = IF attempt <= Spoiled[chunk] THEN attempt + 1 ELSE attempt
  /\ reply' = "none"
  /\ pc' = "sleep"
  /\ UNCHANGED <<chunk, cancelled, serverVars, givenUp>>

(* client.Do fails: no connection, no answer in 10s, a lost response, the  *)
(* context.  A handler that has the request runs on.                       *)
AttemptFails ==
  /\ pc \in {"do", "wait"}
  /\ cancelled \/ attempt < Spoiled[chunk]
  /\ Continue

AnsweredServerError ==
  /\ pc = "wait"
  /\ reply = "5xx"
  /\ Continue

AnsweredOK ==
  /\ pc = "wait"
  /\ reply = "2xx"
  /\ reply' = "none"
  /\ pc' = "idle"
  /\ attempt' = 0
  /\ UNCHANGED <<chunk, cancelled, serverVars, givenUp>>

AnsweredRejected ==
  /\ pc = "wait"
  /\ reply = "4xx"
  /\ givenUp' = givenUp \cup {chunk}
  /\ reply' = "none"
  /\ pc' = "idle"
  /\ attempt' = 0
  /\ UNCHANGED <<chunk, cancelled, serverVars>>

Cancel ==
  /\ ~cancelled
  /\ cancelled' = TRUE
  /\ UNCHANGED <<senderVars, reply, serverVars, givenUp>>

(* The agent dies and is started again; the handlers of its last requests  *)
(* run on.                                                                 *)
Restart ==
  /\ pc' = "idle"
  /\ attempt' = 0
  /\ cancelled' = FALSE
  /\ reply' = "none"
  /\ givenUp' = IF pc = "idle" THEN givenUp ELSE givenUp \cup {chunk}
  /\ UNCHANGED <<chunk, serverVars>>

-----------------------------------------------------------------------------
(* The server: one handler per request                                     *)

(* The rows that are left, in their order, when those of r are rolled      *)
(* back; they leave a gap in the ids.                                      *)
RolledBack(r) ==
  LET left[n \in 0..Len(drawn)] ==
        IF n = 0 THEN <<>>
        ELSE IF drawn[n][1] = r THEN left[n - 1]
        ELSE Append(left[n - 1], drawn[n])
  IN  left[Len(drawn)]

(* The client sees the response if it still waits for this very attempt;   *)
(* what was not committed is rolled back.                                  *)
Respond(r, class) ==
  /\ r \in running
  /\ running' = running \ {r}
  /\ drawn' = IF r \in committed THEN drawn ELSE RolledBack(r)
  /\ reply' = IF pc = "wait" /\ r = <<chunk, attempt>> THEN class ELSE reply
  /\ UNCHANGED <<senderVars, cancelled, committed, givenUp>>

(* LogBatch.Validate: one bad line refuses them all.                       *)
Valid(c) == c \notin Invalid

(* The lines inserted for r, committed or not.                             *)
LinesOf(r) == {drawn[i][2][2] : i \in {i \in DOMAIN drawn : drawn[i][1] = r}}

(* 401 or 400, before any insert; whether the agent's token is more than   *)
(* 24 hours old when the middleware looks is left open.                    *)
HandlerRefuses(r) ==
  /\ LinesOf(r) = {}
  /\ Respond(r, "4xx")

(* One statement of the pipeline: the row of the next line draws an id.    *)
InsertLine(r) ==
  /\ r \in running \ committed
  /\ Valid(r[1])
  /\ \E n \in 1..Size[r[1]] :
       /\ LinesOf(r) = 1..(n - 1)
       /\ drawn' = Append(drawn, <<r, <<r[1], n>>>>)
  /\ UNCHANGED <<senderVars, cancelled, reply, running, committed, givenUp>>

(* The transaction ends; nothing makes a line unique.                      *)
Commit(r) ==
  /\ r \in running \ committed
  /\ LinesOf(r) = 1..Size[r[1]]
  /\ r[1] \notin Poison
  /\ committed' = committed \cup {r}
  /\ UNCHANGED <<senderVars, cancelled, reply, running, drawn, givenUp>>

(* Bug: the answer is written when the statements are queued.              *)
HandlerAcceptsEarly(r) ==
  /\ Valid(r[1])
  /\ Respond(r, "2xx")

HandlerAccepts(r) ==
  /\ r \in committed
  /\ Respond(r, "2xx")

(* Insert returned an error: a statement failed and the transaction was    *)
(* rolled back, or the connection broke after the commit.                  *)
HandlerFails(r) ==
  /\ r \in running
  /\ Valid(r[1])
  /\ r[2] < Spoiled[r[1]] \/ r[1] \in Poison
  /\ Respond(r, "5xx")

SendLogs ==
  \/ SleepEnds
  \/ SleepCancelled
  \/ Post
  \/ AttemptFails
  \/ AnsweredServerError
  \/ AnsweredOK
  \/ AnsweredRejected

Server(r) ==
  \/ HandlerRefuses(r)
  \/ InsertLine(r)
  \/ Commit(r)
  \/ HandlerAccepts(r)
  \/ HandlerFails(r)

Next ==
  \/ NextChunk
  \/ SendLogs
  \/ \E r \in Request : Server(r)
  \/ Cancel
  \/ Restart

Spec == Init /\ [][Next]_vars

(* The goroutine runs; the client's timeout of 10s and a done context make *)
(* client.Do return.                                                       *)
SenderSpec == Spec /\ WF_vars(SendLogs)

(* The handlers run; the environment spoils Spoiled[c] attempts at chunk c *)
(* at most.                                                                *)
ServerFairness == \A r \in Request : WF_vars(Server(r))

-----------------------------------------------------------------------------
(* The rows a search can find, and the id of the first copy of a line.     *)
Rows == {i \in DOMAIN drawn : drawn[i][1] \in committed}
Stored == {drawn[i][2] : i \in Rows}
CopiesOf(l) == {i \in Rows : drawn[i][2] = l}
FirstId(l)  == CHOOSE i \in CopiesOf(l) : \A j \in CopiesOf(l) : i <= j

Before(l, m) == l[1] < m[1] \/ (l[1] = m[1] /\ l[2] < m[2])

(* A search sorted by id shows the file, whatever was lost, repeated or    *)
(* late: when it has a line, it has every earlier line, except of a chunk  *)
(* that SendLogs gave up, and the first copy of each is in file order.     *)
(* The copies a retry adds, and those of a handler that commits late, come *)
(* after it.                                                               *)
FirstCopiesInOrder ==
  \A m \in Stored, l \in Line :
     Before(l, m) /\ l[1] \notin givenUp
       => l \in Stored /\ FirstId(l) < FirstId(m)

(* A chunk is settled in the end, as Tailer's SendChunk has it: when the   *)
(* context is done, whatever the server does, and otherwise when the       *)
(* handlers run and the storage takes it.  A chunk that it never takes     *)
(* holds up all files of the agent for good.                               *)
SendLogsReturns ==
  /\ cancelled ~> pc = "idle"
  /\ ServerFairness => (pc # "idle" ~> pc = "idle" \/ chunk \in Poison)

-----------------------------------------------------------------------------
(* An outbox without a buffer: a chunk is offered when the previous one is *)
(* settled.                                                                *)
Out == INSTANCE Outbox WITH
  BufSize    <- 0,
  MaxBatches <- MaxChunks,
  offered    <- chunk,
  pending    <- IF pc = "idle" THEN <<>> ELSE <<chunk>>,
  database   <- {r[1] : r \in committed},
  refused    <- givenUp,
  lost       <- {}

(* The log sender implements the outbox that the metric sender implements. *)
ImplementsOutbox == Out!Spec
=============================================================================
