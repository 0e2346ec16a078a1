------------------------------ MODULE LogStore ------------------------------
(***************************************************************************)
(* The logs table and its paginated search (internal/server/storage/       *)
(* logs.go, internal/server/api/logs.go).  Request handlers insert batches *)
(* of lines, each in one implicit transaction; a client asks for the first *)
(* page and follows next_cursor until it is null.                          *)
(*                                                                         *)
(* A row is its id, a BIGSERIAL: the sequence hands out ids when the rows  *)
(* are inserted and not when they are committed, so rows can appear below  *)
(* ids that are already visible, and a rolled back insert leaves a gap.    *)
(* The retention policy of migration 003 drops rows at any time.           *)
(***************************************************************************)
EXTENDS Integers, FiniteSets, FiniteSetsExt

CONSTANTS
  Handlers,  \* request handlers that insert
  MaxId,     \* BOUND: rows inserted
  Requested, \* the limit parameter of the request, 0 when it is missing
  DefaultLimit, MaxLimit,  \* the literals 100 and 1000 of Validate
  Matching   \* ids of the rows that satisfy the other conditions of the query

Id == 1..MaxId

ASSUME LogStoreAssumption ==
  /\ MaxId \in Nat
  /\ Requested \in Int
  /\ MaxLimit \in Nat \ {0}
  /\ DefaultLimit \in 1..MaxLimit
  /\ Matching \subseteq Id

(* LogQueryParams.Validate: the size of a page.                            *)
Limit == IF Requested <= 0 THEN DefaultLimit
         ELSE IF Requested > MaxLimit THEN MaxLimit ELSE Requested

VARIABLES
  lastId,    \* the sequence of the id column
  inserting, \* inserting[h]: rows of h's open transaction
  rows,      \* committed rows
  dropped,   \* history: rows that retention dropped
  cursor,    \* next_cursor the client got, 0 for null
  page,      \* history: rows of the last page
  earlier,   \* history: rows of the pages before it
  snapshot   \* history: rows that matched when the first page was asked for

storeVars  == <<lastId, inserting, rows, dropped>>
clientVars == <<cursor, page, earlier, snapshot>>
vars == <<lastId, inserting, rows, dropped, cursor, page, earlier, snapshot>>

Init ==
  /\ lastId = 0
  /\ inserting = [h \in Handlers |-> {}]
  /\ rows = {}
  /\ dropped = {}
  /\ cursor = 0
  /\ page = {}
  /\ earlier = {}
  /\ snapshot = {}

-----------------------------------------------------------------------------
(* Insert: one statement of the batch, then the commit or the error.       *)

InsertRow(h) ==
  /\ lastId < MaxId
  /\ lastId' = lastId + 1
  /\ inserting' = [inserting EXCEPT ![h] = @ \cup {lastId'}]
  /\ UNCHANGED <<rows, dropped, clientVars>>

Commit(h) ==
  /\ inserting[h] # {}
  /\ rows' = rows \cup inserting[h]
  /\ inserting' = [inserting EXCEPT ![h] = {}]
  /\ UNCHANGED <<lastId, dropped, clientVars>>

(* A statement failed, or the request was cancelled.                       *)
RollBack(h) ==
  /\ inserting[h] # {}
  /\ inserting' = [inserting EXCEPT ![h] = {}]
  /\ UNCHANGED <<lastId, rows, dropped, clientVars>>

DropChunk ==
  /\ \E chunk \in SUBSET rows :
       /\ chunk # {}
       /\ rows' = rows \ chunk
       /\ dropped' = dropped \cup chunk
  /\ UNCHANGED <<lastId, inserting, clientVars>>

-----------------------------------------------------------------------------
(* Query: WHERE id < cursor ... ORDER BY id DESC LIMIT limit + 1           *)

(* Bug: the cursor itself is returned again.                               *)
SelectedAgain(c) == {i \in rows \cap Matching : c > 0 => i <= c}

(* Bug: the condition on the cursor is lost.                               *)
SelectedAnew(c) == {i \in rows \cap Matching : c >= 0}

(* The cursor is a condition only when it is positive.                     *)
Selected(c) == {i \in rows \cap Matching : c > 0 => i < c}

(* The n largest ids of S.                                                 *)
Largest(n, S) == {i \in S : Cardinality({j \in S : j > i}) < n}

(* The probe row was found.                                                *)
HasNext(c) == Cardinality(Largest(Limit + 1, Selected(c))) > Limit

(* Bug: the probe row is not cut off.                                      *)
PageWithProbe(c) == Largest(Limit + 1, Selected(c))

Page(c) == Largest(Limit, Selected(c))

(* Bug: the cursor is the id of the probe row.                             *)
CursorOfProbe(c) == IF HasNext(c) THEN Min(Largest(Limit + 1, Selected(c))) ELSE 0

NextCursor(c) == IF HasNext(c) THEN Min(Page(c)) ELSE 0

FirstPage ==
  /\ cursor = 0
  /\ page' = Page(0)
  /\ earlier' = {}
  /\ cursor' = NextCursor(0)
  /\ snapshot' = Selected(0)
  /\ UNCHANGED storeVars

NextPage ==
  /\ cursor > 0
  /\ page' = Page(cursor)
  /\ earlier' = earlier \cup page
  /\ cursor' = NextCursor(cursor)
  /\ UNCHANGED <<storeVars, snapshot>>

Next ==
  \/ \E h \in Handlers : InsertRow(h) \/ Commit(h) \/ RollBack(h)
  \/ DropChunk
  \/ FirstPage
  \/ NextPage

Spec == Init /\ [][Next]_vars

(* The client follows the cursor; nothing is asked of the writers.         *)
FairSpec == Spec /\ WF_vars(NextPage)

-----------------------------------------------------------------------------
(* Types of the table and of the client; a row is in one place at most.    *)
TypeOK ==
  /\ lastId \in 0..MaxId
  /\ inserting \in [Handlers -> SUBSET (1..lastId)]
  /\ rows \subseteq 1..lastId
  /\ dropped \subseteq 1..lastId
  /\ cursor \in 0..lastId
  /\ {page, earlier, snapshot} \subseteq SUBSET (1..lastId)
  /\ Cardinality(page) <= Limit

(* Pages descend: each row is below all rows of earlier pages, so none is  *)
(* returned twice, although rows are committed above and below the cursor  *)
(* while the client pages (Query's "id < $n", with ORDER BY id DESC).      *)
PagesDescend == \A i \in page, j \in earlier : i < j

(* No row is skipped: what matched when the first page was asked for and   *)
(* was not dropped since is returned by the time the cursor has passed it, *)
(* and all of it by the time next_cursor is null.                          *)
NothingIsSkipped ==
  \A i \in snapshot \cap rows : i >= cursor => i \in earlier \cup page

(* next_cursor is not null only when there is a row behind it: the client  *)
(* sees an empty page only if retention dropped that row (the probe row of *)
(* LIMIT + 1).                                                             *)
CursorLeadsSomewhere ==
  cursor > 0 => \E i \in (rows \cup dropped) \cap Matching : i < cursor

(* A client that follows the cursor gets to null, however fast rows are    *)
(* inserted.                                                               *)
PagingEnds == cursor > 0 ~> cursor = 0
=============================================================================
